--------------------- MODULE MulticlientRecvVsPoll_proofs ---------------------
(***************************************************************************)
(* Proofs about the three multi-client RDMA transports under the echo of   *)
(* multiclientRecvVsPoll, for every number of clients, threads, requests   *)
(* and doorbells, and every set of message sizes.                          *)
(***************************************************************************)
EXTENDS MulticlientRecvVsPoll, SequenceTheorems, FiniteSetTheorems, WellFoundedInduction, TLAPS

-----------------------------------------------------------------------------
(* The steps of the three transports, in terms of the modules they share    *)

\* Doorbells: the data write is followed by the doorbell write.
LEMMA BellsClient ==
    ASSUME NEW c \in Clients
    PROVE  /\ Doorbells!Send(c) =>
                /\ PostRequest(c, DataWrite \o <<"doorBell">>)
                /\ UNCHANGED <<doorBells, base>>
           /\ Doorbells!DeliverRequest(c) =>
                /\ Deliver(c) /\ UNCHANGED base
                /\ doorBells' = [doorBells EXCEPT ![c] = @ \/ Head(requests[c]) = "doorBell"]
  BY DEF Doorbells!Send, Doorbells!PostRequest, Doorbells!NewRequest, Doorbells!Late,
         Doorbells!Total, Doorbells!DataWrite, Doorbells!answerVars, Doorbells!acceptVars,
         Doorbells!serverVars, Doorbells!doorbellVars, Doorbells!DeliverRequest,
         Doorbells!Deliver, Doorbells!clientVars,
         PostRequest, NewRequest, Late, Total, DataWrite, answerVars, acceptVars,
         serverVars, Deliver, clientVars

\* Doorbells: what the server's receive does.
LEMMA BellsServer ==
    /\ Doorbells!PollGroup =>
        /\ spc = "poll"
        /\ IF Doorbells!Vector # {}
           THEN /\ sender' = Doorbells!Highest(Doorbells!Vector)
                /\ spc' = "clear" /\ base' = 0
           ELSE base' = (base + Group) % MaxClients /\ UNCHANGED <<sender, spc>>
        /\ UNCHANGED <<answerVars, clientVars, requestVars, acceptVars, handled, doorBells>>
    /\ Doorbells!ClearDoorbell =>
        /\ spc = "clear" /\ doorBells' = [doorBells EXCEPT ![sender] = FALSE] /\ Found(sender)
        /\ UNCHANGED <<answerVars, clientVars, requestVars, acceptVars, handled, base>>
    /\ Doorbells!Handle => HandleRequest(receives) /\ UNCHANGED <<doorBells, base>>
  BY DEF Doorbells!PollGroup, Doorbells!ClearDoorbell, Doorbells!Found, Doorbells!Handle,
         Doorbells!HandleRequest, Doorbells!PostAnswer, Doorbells!Total, Doorbells!Late,
         Doorbells!MustWait, Doorbells!AnswerTooLarge, Doorbells!answerVars, Doorbells!clientVars,
         Doorbells!requestVars, Doorbells!acceptVars, Doorbells!doorbellVars,
         Found, HandleRequest, PostAnswer, Total, Late, MustWait, AnswerTooLarge,
         answerVars, clientVars, requestVars, acceptVars

\* Recv: the data write takes a receive request and leaves a completion.
LEMMA RecvsClient ==
    ASSUME NEW c \in Clients
    PROVE  /\ Recv!Send(c) =>
                /\ PostRequest(c, DataWrite \o <<"imm">>)
                /\ UNCHANGED <<recvs, recvCq>>
           /\ Recv!DeliverRequest(c) =>
                /\ Deliver(c)
                /\ IF Head(requests[c]) = "imm"
                   THEN recvs > 0 /\ recvs' = recvs - 1 /\ recvCq' = Append(recvCq, c)
                   ELSE UNCHANGED <<recvs, recvCq>>
  BY DEF Recv!Send, Recv!PostRequest, Recv!NewRequest, Recv!Late,
         Recv!Total, Recv!DataWrite, Recv!answerVars, Recv!acceptVars,
         Recv!serverVars, Recv!recvVars, Recv!DeliverRequest,
         Recv!Deliver, Recv!clientVars,
         PostRequest, NewRequest, Late, Total, DataWrite, answerVars, acceptVars,
         serverVars, Deliver, clientVars

\* Recv: accepting posts a receive request, receiving replaces the one taken.
LEMMA RecvsServer ==
    /\ Recv!Accept =>
        /\ \/ ExchangeAddresses /\ recvs' = recvs + 1
           \/ ConnectQp /\ UNCHANGED recvs
        /\ UNCHANGED recvCq
    /\ Recv!PollRecv =>
        /\ spc = "poll" /\ recvCq # <<>>
        /\ recvCq' = Tail(recvCq) /\ recvs' = recvs + 1 /\ Found(Head(recvCq))
        /\ UNCHANGED <<answerVars, clientVars, requestVars, acceptVars, handled>>
    /\ Recv!Handle => HandleRequest(receives) /\ UNCHANGED <<recvs, recvCq>>
  BY DEF Recv!Accept, Recv!ExchangeAddresses, Recv!ConnectQp, Recv!PollRecv, Recv!Found,
         Recv!Handle, Recv!HandleRequest, Recv!PostAnswer, Recv!Total, Recv!Late,
         Recv!MustWait, Recv!AnswerTooLarge, Recv!answerVars, Recv!clientVars,
         Recv!requestVars, Recv!acceptVars, Recv!recvVars,
         ExchangeAddresses, ConnectQp, Found, HandleRequest, PostAnswer, Total, Late,
         MustWait, AnswerTooLarge, answerVars, clientVars, requestVars, acceptVars

\* Direct: the data write is the only one.
LEMMA SlotsClient ==
    ASSUME NEW c \in Clients
    PROVE  /\ Direct!Send(c) => PostRequest(c, DataWrite) /\ UNCHANGED slot
           /\ Direct!DeliverRequest(c) => Deliver(c) /\ UNCHANGED slot
  BY DEF Direct!Send, Direct!PostRequest, Direct!NewRequest, Direct!Late,
         Direct!Total, Direct!DataWrite, Direct!answerVars, Direct!acceptVars,
         Direct!serverVars, Direct!DeliverRequest, Direct!Deliver, Direct!clientVars,
         PostRequest, NewRequest, Late, Total, DataWrite, answerVars, acceptVars,
         serverVars, Deliver, clientVars

\* Direct: the server looks at the slots in turn, and resets a byte of the size.
LEMMA SlotsServer ==
    /\ Direct!PollSlot =>
        /\ spc = "poll"
        /\ IF receives[slot].size # 0
           THEN Found(slot) /\ slot' = 0
           ELSE slot' = (slot + 1) % accepted /\ UNCHANGED <<sender, spc>>
        /\ UNCHANGED <<answerVars, clientVars, requestVars, acceptVars, handled>>
    /\ Direct!Handle =>
        /\ HandleRequest([receives EXCEPT ![sender].size = @ - (@ % Byte)])
        /\ UNCHANGED slot
  BY DEF Direct!PollSlot, Direct!Found, Direct!Handle, Direct!HandleRequest,
         Direct!PostAnswer, Direct!Total, Direct!Reset, Direct!Late, Direct!MustWait,
         Direct!AnswerTooLarge, Direct!answerVars, Direct!clientVars, Direct!requestVars,
         Direct!acceptVars,
         Found, HandleRequest, PostAnswer, Total, Late, MustWait, AnswerTooLarge,
         answerVars, clientVars, requestVars, acceptVars

-----------------------------------------------------------------------------
(* Facts about the operators of the invariants                              *)

\* The transport with distinct regions has no announcement behind the data, so
\* the server must not see a request half placed, and its reset of one byte
\* must clear the size.
DirectSafe == "Direct" \in Transports => ~TornRequests /\ \A n \in Sizes : n < Byte

\* Two tuples put together, as the provers need it spelled out.
LEMMA Pair ==
    ASSUME NEW a, NEW b
    PROVE  <<a>> \o <<b>> = <<a, b>>
  <1> DEFINE s == <<a>>
             t == <<b>>
             u == <<a, b>>
             S == {a, b}
  <1>1. /\ s \in Seq(S) /\ t \in Seq(S) /\ u \in Seq(S)
        /\ Len(s) = 1 /\ Len(t) = 1 /\ Len(u) = 2
        /\ s[1] = a /\ t[1] = b /\ u[1] = a /\ u[2] = b
    OBVIOUS
  <1> HIDE DEF s, t, u, S
  <1>2. /\ s \o t \in Seq(S) /\ Len(s \o t) = Len(s) + Len(t)
        /\ \A i \in 1..Len(s) + Len(t) :
                (s \o t)[i] = IF i <= Len(s) THEN s[i] ELSE t[i - Len(s)]
    BY <1>1, ConcatProperties
  <1>3. s \o t = u
    BY <1>1, <1>2, SeqEqual
  <1> QED
    BY <1>3 DEF s, t, u

\* The same for two parts and one.
LEMMA Triple ==
    ASSUME NEW a, NEW b, NEW c
    PROVE  <<a, b>> \o <<c>> = <<a, b, c>>
  <1> DEFINE s == <<a, b>>
             t == <<c>>
             u == <<a, b, c>>
             S == {a, b, c}
  <1>1. /\ s \in Seq(S) /\ t \in Seq(S) /\ u \in Seq(S)
        /\ Len(s) = 2 /\ Len(t) = 1 /\ Len(u) = 3
        /\ s[1] = a /\ s[2] = b /\ t[1] = c /\ u[1] = a /\ u[2] = b /\ u[3] = c
    OBVIOUS
  <1> HIDE DEF s, t, u, S
  <1>2. /\ s \o t \in Seq(S) /\ Len(s \o t) = Len(s) + Len(t)
        /\ \A i \in 1..Len(s) + Len(t) :
                (s \o t)[i] = IF i <= Len(s) THEN s[i] ELSE t[i - Len(s)]
    BY <1>1, ConcatProperties
  <1>3. s \o t = u
    BY <1>1, <1>2, SeqEqual
  <1> QED
    BY <1>3 DEF s, t, u

\* The sequences of writes of a request, one by one.
LEMMA RemainingIs ==
    /\ \A t \in {"Doorbells", "Recv"} : \E a \in {"doorBell", "imm"} :
        /\ a = "doorBell" <=> t = "Doorbells"
        /\ DataWrite \o Announcement(t) =
                IF TornRequests THEN <<"size", "body", a>> ELSE <<"data", a>>
        /\ Remaining(t) = IF TornRequests
                          THEN {<<>>, <<a>>, <<"body", a>>, <<"size", "body", a>>}
                          ELSE {<<>>, <<a>>, <<"data", a>>}
    /\ ~TornRequests =>
        /\ DataWrite = <<"data">> /\ DataWrite \o Announcement("Direct") = <<"data">>
        /\ Remaining("Direct") = {<<>>, <<"data">>}
  <1>1. ASSUME NEW a, NEW t \in {"Doorbells", "Recv"}, Announcement(t) = <<a>>
        PROVE  /\ DataWrite \o Announcement(t) =
                    IF TornRequests THEN <<"size", "body", a>> ELSE <<"data", a>>
               /\ Remaining(t) = IF TornRequests
                                 THEN {<<>>, <<a>>, <<"body", a>>, <<"size", "body", a>>}
                                 ELSE {<<>>, <<a>>, <<"data", a>>}
    <2>1. /\ <<"size", "body">> \o <<a>> = <<"size", "body", a>>
          /\ <<"data">> \o <<a>> = <<"data", a>> /\ <<"body">> \o <<a>> = <<"body", a>>
      BY Pair, Triple
    <2> QED
      BY <1>1, <2>1, Zenon DEF DataWrite, Remaining
  <1>2. Announcement("Doorbells") = <<"doorBell">> /\ Announcement("Recv") = <<"imm">>
        /\ Announcement("Direct") = <<>>
    BY DEF Announcement
  <1>3. <<"data">> \o <<>> = <<"data">>
    OBVIOUS
  <1>4. ~TornRequests =>
            /\ DataWrite = <<"data">> /\ DataWrite \o Announcement("Direct") = <<"data">>
            /\ Remaining("Direct") = {<<>>, <<"data">>}
    BY <1>2, <1>3, Zenon DEF DataWrite, Remaining
  <1>5. ASSUME NEW t \in {"Doorbells", "Recv"}
        PROVE  \E a \in {"doorBell", "imm"} :
            /\ a = "doorBell" <=> t = "Doorbells"
            /\ Announcement(t) = <<a>>
    BY <1>2
  <1> QED
    BY <1>1, <1>4, <1>5

\* A request is posted whole.
LEMMA AllWrites ==
    ASSUME NEW t \in {"Doorbells", "Recv", "Direct"}, t = "Direct" => ~TornRequests,
           NEW w, w = DataWrite \o Announcement(t)
    PROVE  w \in Remaining(t) /\ w # <<>> /\ SizeLeft(w) /\ BodyLeft(w)
  <1>1. CASE t = "Direct"
    <2>1. w = <<"data">> /\ w \in Remaining(t)
      BY <1>1, RemainingIs
    <2> QED
      BY <2>1 DEF SizeLeft, BodyLeft
  <1>2. CASE t # "Direct"
    <2> PICK a \in {"doorBell", "imm"} :
            /\ w = IF TornRequests THEN <<"size", "body", a>> ELSE <<"data", a>>
            /\ Remaining(t) = IF TornRequests
                              THEN {<<>>, <<a>>, <<"body", a>>, <<"size", "body", a>>}
                              ELSE {<<>>, <<a>>, <<"data", a>>}
      BY <1>2, RemainingIs
    <2>1. CASE w = <<"size", "body", a>>
      BY <2>1 DEF SizeLeft, BodyLeft
    <2>2. CASE w = <<"data", a>>
      BY <2>2 DEF SizeLeft, BodyLeft
    <2> QED
      BY <2>1, <2>2
  <1> QED
    BY <1>1, <1>2

\* The next write of a request, and what is left behind it: the body follows
\* the size, the announcement the body, and nothing the announcement.
LEMMA RemainingWrites ==
    ASSUME NEW t \in {"Doorbells", "Recv", "Direct"}, NEW w \in Remaining(t), w # <<>>,
           t = "Direct" => ~TornRequests
    PROVE  /\ Tail(w) \in Remaining(t)
           /\ Head(w) \in {"size", "data", "body", "doorBell", "imm"}
           /\ Head(w) = "size" => Tail(w) # <<>> /\ Head(Tail(w)) = "body"
           /\ Head(w) \in {"data", "body"} =>
                    IF t = "Direct" THEN Head(w) = "data" /\ Tail(w) = <<>>
                    ELSE Tail(w) # <<>> /\ Head(Tail(w)) \in {"doorBell", "imm"}
           /\ Head(w) = "doorBell" => t = "Doorbells" /\ Tail(w) = <<>>
           /\ Head(w) = "imm" => t = "Recv" /\ Tail(w) = <<>>
           /\ t = "Direct" => Head(w) = "data"
  <1>1. CASE t = "Direct"
    <2>1. w = <<"data">> /\ <<>> \in Remaining(t)
      BY <1>1, RemainingIs
    <2> QED
      BY <1>1, <2>1
  <1>2. CASE t # "Direct"
    <2> PICK a \in {"doorBell", "imm"} :
            /\ a = "doorBell" <=> t = "Doorbells"
            /\ Remaining(t) = IF TornRequests
                              THEN {<<>>, <<a>>, <<"body", a>>, <<"size", "body", a>>}
                              ELSE {<<>>, <<a>>, <<"data", a>>}
      BY <1>2, RemainingIs
    <2>1. w \in {<<a>>, <<"body", a>>, <<"size", "body", a>>, <<"data", a>>}
      OBVIOUS
    <2>2. CASE w = <<a>>
      BY <1>2, <2>2
    <2>3. CASE w = <<"body", a>>
      BY <1>2, <2>3
    <2>4. CASE w = <<"size", "body", a>>
      BY <1>2, <2>4
    <2>5. CASE w = <<"data", a>>
      BY <1>2, <2>5
    <2> QED
      BY <2>1, <2>2, <2>3, <2>4, <2>5
  <1> QED
    BY <1>1, <1>2

\* At most three writes are left.
LEMMA RemainingLen ==
    ASSUME NEW t \in {"Doorbells", "Recv", "Direct"}, NEW w \in Remaining(t),
           t = "Direct" => ~TornRequests
    PROVE  Len(w) <= 3
  <1>1. CASE t = "Direct"
    <2>1. w = <<>> \/ w = <<"data">>
      BY <1>1, RemainingIs
    <2> QED
      BY <2>1
  <1>2. CASE t # "Direct"
    <2> PICK a : w \in {<<>>, <<a>>, <<"body", a>>, <<"size", "body", a>>, <<"data", a>>}
      BY <1>2, RemainingIs, Zenon
    <2>1. CASE w = <<>>
      BY <2>1
    <2>2. CASE w = <<a>>
      BY <2>2
    <2>3. CASE w = <<"body", a>>
      BY <2>3
    <2>4. CASE w = <<"data", a>>
      BY <2>4
    <2>5. CASE w = <<"size", "body", a>>
      BY <2>5
    <2> QED
      BY <2>1, <2>2, <2>3, <2>4, <2>5, Zenon
  <1> QED
    BY <1>1, <1>2

\* What a step leaves alone stays true of a client's request ...
LEMMA RequestFrame ==
    ASSUME NEW c \in Clients, RequestInv(c),
           transport' = transport, request'[c] = request[c], handled'[c] = handled[c],
           requests'[c] = requests[c], cpc'[c] = cpc[c], receives'[c] = receives[c],
           Announced(c)' <=> Announced(c), Held(c)' <=> Held(c)
    PROVE  RequestInv(c)'
  BY DEF RequestInv, Pending, SizeLeft, BodyLeft

\* ... and of its answers.
LEMMA AnswerFrame ==
    ASSUME NEW c \in Clients, AnswerInv(c),
           request'[c] = request[c], handled'[c] = handled[c], cpc'[c] = cpc[c],
           csize'[c] = csize[c], answers'[c] = answers[c], placed'[c] = placed[c],
           receiveBuffer'[c] = receiveBuffer[c]
    PROVE  AnswerInv(c)'
  BY DEF AnswerInv, Pending, Fresh

\* What an update of a function at one point leaves.
LEMMA ExceptType ==
    ASSUME NEW S, NEW T, NEW f \in [S -> T], NEW x \in S, NEW v \in T, NEW g,
           g = [f EXCEPT ![x] = v]
    PROVE  g \in [S -> T] /\ g[x] = v /\ \A y \in S : y # x => g[y] = f[y]
  OBVIOUS

\* The counter of answers stays within a window.
LEMMA WindowCount ==
    ASSUME NEW k \in 0..Window - 1
    PROVE  (k + 1) % Window \in 0..Window - 1
  BY AnswerAssumption

\* What a queue is like after a push.
LEMMA AppendFacts ==
    ASSUME NEW S, NEW q \in Seq(S), NEW e \in S
    PROVE  /\ Len(q) \in Nat /\ (q = <<>> <=> Len(q) = 0)
           /\ Append(q, e) \in Seq(S) /\ Append(q, e) # <<>>
           /\ Len(Append(q, e)) = Len(q) + 1
           /\ \A i \in 1..Len(q) : Append(q, e)[i] = q[i]
           /\ Append(q, e)[Len(q) + 1] = e
  OBVIOUS

\* In particular, it is longer by one.
LEMMA AppendGrows ==
    ASSUME NEW S, NEW q \in Seq(S), NEW e \in S
    PROVE  Len(Append(q, e)) = Len(q) + 1 /\ Append(q, e) # <<>>
  BY AppendFacts

\* What a queue is like after a pop.
LEMMA TailFacts ==
    ASSUME NEW S, NEW q \in Seq(S), q # <<>>
    PROVE  /\ Len(q) \in Nat /\ Len(q) > 0 /\ Head(q) = q[1] /\ Head(q) \in S
           /\ Tail(q) \in Seq(S) /\ Len(Tail(q)) = Len(q) - 1
           /\ (Tail(q) = <<>> <=> Len(q) = 1)
           /\ \A i \in 1..Len(q) - 1 : Tail(q)[i] = q[i + 1]
  <1>1. Len(q) \in Nat /\ Len(q) # 0 /\ Head(q) = q[1]
    BY EmptySeq, LenProperties
  <1>2. /\ Head(q) \in S /\ Tail(q) \in Seq(S) /\ Len(Tail(q)) = Len(q) - 1
        /\ \A i \in 1..Len(Tail(q)) : Tail(q)[i] = q[i + 1]
    BY HeadTailProperties
  <1>3. Tail(q) = <<>> <=> Len(Tail(q)) = 0
    BY <1>2, EmptySeq
  <1> QED
    BY <1>1, <1>2, <1>3

-----------------------------------------------------------------------------
(* The vectors of doorbells                                                 *)

\* A set of naturals that is not empty has a least element.
LEMMA LeastNatural ==
    ASSUME NEW T, T \subseteq Nat, T # {}
    PROVE  \E x \in T : \A y \in T : x <= y
  <1> DEFINE R == OpToRel(<, Nat)
  <1>1. IsWellFoundedOn(R, Nat)
    BY NatLessThanWellFounded
  <1>2. \A x, y \in Nat : x < y => <<x, y>> \in R
    BY DEF OpToRel
  <1> HIDE DEF R
  <1>3. PICK x \in T : \A y \in T : ~(<<y, x>> \in R)
    BY <1>1, WFMin
  <1>4. ASSUME NEW y \in T PROVE x <= y
    <2>1. x \in Nat /\ y \in Nat /\ ~(y < x)
      BY <1>2, <1>3
    <2> QED
      BY <2>1
  <1> QED
    BY <1>4

\* Of the doorbells rung in a vector one has the highest index.
LEMMA HighestRung ==
    ASSUME NEW b \in Nat, NEW n \in Nat, NEW S, S \subseteq b..n, S # {}
    PROVE  Doorbells!Highest(S) \in S
  <1> DEFINE T == {n - i : i \in S}
  <1>1. T \subseteq Nat /\ T # {}
    OBVIOUS
  <1>2. PICK x \in T : \A y \in T : x <= y
    BY <1>1, LeastNatural
  <1>3. PICK i \in S : x = n - i
    OBVIOUS
  <1>4. ASSUME NEW j \in S PROVE j <= i
    <2>1. n - j \in T
      OBVIOUS
    <2> QED
      BY <2>1, <1>2, <1>3
  <1>5. \E k \in S : \A j \in S : j <= k
    BY <1>4
  <1> QED
    BY <1>5 DEF Doorbells!Highest

\* The scan goes from one vector to the next, and back to the first one.
LEMMA NextVector ==
    ASSUME NEW g \in Nat \ {0}, NEW m \in Nat, m % g = 0,
           NEW b \in 0..m - 1, b % g = 0
    PROVE  /\ b + g <= m
           /\ (b + g) % m \in 0..m - 1
           /\ ((b + g) % m) % g = 0
  <1>1. PICK q \in Int : m = g * q
    <2>1. m = (g * (m \div g)) + (m % g) /\ m \div g \in Int
      OBVIOUS
    <2> QED
      BY <2>1
  <1>2. PICK k \in Int : b = g * k
    <2>1. b = (g * (b \div g)) + (b % g) /\ b \div g \in Int
      OBVIOUS
    <2> QED
      BY <2>1
  <1>3. k < q
    <2> SUFFICES ASSUME k >= q PROVE FALSE
      OBVIOUS
    <2>1. g * k >= g * q
      BY <1>1, <1>2
    <2> QED
      BY <2>1, <1>1, <1>2
  <1>4. b + g <= m
    <2>1. g * (k + 1) <= g * q
      BY <1>3
    <2>2. g * (k + 1) = (g * k) + g
      OBVIOUS
    <2> QED
      BY <2>1, <2>2, <1>1, <1>2
  <1>5. (b + g) % g = 0
    <2> DEFINE d == (b + g) \div g
               r == (b + g) % g
               e == k + 1 - d
    <2>1. b + g = (g * d) + r /\ d \in Int /\ r \in 0..g - 1
      OBVIOUS
    <2>2. b + g = g * (k + 1)
      BY <1>2
    <2>3. e \in Int /\ g * e = r
      BY <2>1, <2>2
    <2> HIDE DEF d, r, e
    <2>4. CASE e >= 1
      <3>1. g * e >= g
        BY <2>3, <2>4
      <3> QED
        BY <3>1, <2>1, <2>3
    <2>5. CASE e <= -1
      <3>1. g * e < 0
        BY <2>3, <2>5
      <3> QED
        BY <3>1, <2>1, <2>3
    <2>6. CASE e = 0
      BY <2>3, <2>6 DEF r
    <2> QED
      BY <2>3, <2>4, <2>5, <2>6
  <1>6. CASE b + g = m
    <2>1. (b + g) % m = 0
      BY <1>6
    <2> QED
      BY <2>1, <1>4
  <1>7. CASE b + g < m
    <2>1. (b + g) % m = b + g
      BY <1>7
    <2> QED
      BY <2>1, <1>4, <1>5, <1>7
  <1> QED
    BY <1>4, <1>6, <1>7

-----------------------------------------------------------------------------
(* EchoInv is an invariant: a request is in one place at a time             *)

\* Nothing was sent before the first client is accepted.
LEMMA EchoInit == Init => EchoInv
  <1> SUFFICES ASSUME Init PROVE EchoInv
    OBVIOUS
  <1> USE AnswerAssumption, ServerAssumption, RecvVsPollAssumption
  <1> USE DEF Init, ServerInit, AnswerInit, Clients
  <1>1. Shapes
    <2>1. NoBody \in Bodies
      BY DEF Bodies
    <2>2. request \in [Clients -> [size : Sizes \cup {0}, body : Bodies, number : 0..MaxRequests]]
      BY <2>1 DEF NoRequest
    <2>3. <<>> \in Remaining(transport) /\ <<>> \in Seq(Answer)
      BY DEF Remaining
    <2>4. receives \in [Clients -> [size : Sizes \cup {0}, body : Bodies]]
      BY <2>1
    <2>5. receiveBuffer \in [Clients -> [size : Sizes \cup {0}, body : Bodies, valid : SUBSET Sizes]]
      BY <2>1
    <2>6. sendBuffer \in [size : Sizes \cup {0}, body : Bodies]
      BY <2>1
    <2>7. answers \in [Clients -> Seq(Answer)] /\ \A c \in Clients : answers[c] = <<>>
      BY <2>3
    <2>8. requests \in [Clients -> Remaining(transport)]
      BY <2>3
    <2>9. /\ placed \in [Clients -> 0..2] /\ sendCounter \in [Clients -> 0..Window - 1]
          /\ csize \in [Clients -> Sizes \cup {0}] /\ handled \in [Clients -> 0..MaxRequests]
      OBVIOUS
    <2> QED
      BY <2>2, <2>4, <2>5, <2>6, <2>7, <2>8, <2>9 DEF Shapes
  <1>2. ServerInv
    BY DEF ServerInv
  <1>3. BellInv /\ RecvInv
    <2>0. 0 \in Clients
      OBVIOUS
    <2>1. 0 \in 0..MaxClients - 1 /\ 0 % Group = 0
      <3>1. 0 \in 0..MaxClients - 1
        BY <2>0
      <3>2. 0 % Group = 0
        OBVIOUS
      <3> QED
        BY <3>1, <3>2
    <2>2. BellInv
      BY <2>1 DEF BellInv, Doorbells!DoorbellInit, Doorbells!DoorbellTypeOK
    <2>3. RecvInv
      BY DEF RecvInv, Recv!RecvInit
    <2> QED
      BY <2>2, <2>3
  <1>4. ASSUME NEW c \in Clients PROVE RequestInv(c) /\ AnswerInv(c)
    <2>1. transport \in {"Doorbells", "Recv", "Direct"} /\ c \in 0..MaxClients - 1
      OBVIOUS
    <2>2. ~Announced(c)
      BY <2>1 DEF Announced, Doorbells!DoorbellInit, Recv!RecvInit
    <2>3. RequestInv(c)
      BY <2>2 DEF RequestInv, Pending, Held, NoRequest, Remaining
    <2>4. AnswerInv(c)
      BY DEF AnswerInv, Pending, Fresh, NoRequest
    <2> QED
      BY <2>3, <2>4
  <1> QED
    BY <1>1, <1>2, <1>3, <1>4 DEF EchoInv

\* What every step of the proof uses of the invariant.
LEMMA EchoFacts ==
    ASSUME EchoInv
    PROVE  /\ Shapes /\ ServerInv /\ BellInv /\ RecvInv
           /\ \A c \in Clients : RequestInv(c) /\ AnswerInv(c)
           /\ Clients \subseteq Nat /\ Sizes \subseteq Nat \ {0} /\ 0 \notin Sizes
           /\ transport \in {"Doorbells", "Recv", "Direct"}
           /\ Clients \subseteq 0..MaxClients - 1 /\ sender \in Clients
           /\ MaxRequests \in Nat
  <1>1. /\ Shapes /\ ServerInv /\ BellInv /\ RecvInv
        /\ \A c \in Clients : RequestInv(c) /\ AnswerInv(c)
    BY DEF EchoInv
  <1>2. transport \in Transports
    BY <1>1 DEF Shapes
  <1>3. sender \in Clients
    BY <1>1 DEF ServerInv
  <1>4. Clients \subseteq Nat
    BY AnswerAssumption DEF Clients
  <1> QED
    BY <1>1, <1>2, <1>3, <1>4, AnswerAssumption, RecvVsPollAssumption

\* Accepting a client concerns nobody else, and the client has sent nothing.
LEMMA ExchangeStep ==
    ASSUME EchoInv, ExchangeAddresses, UNCHANGED <<doorBells, base, recvCq, slot, transport>>,
           recvs' = IF transport = "Recv" THEN recvs + 1 ELSE recvs
    PROVE  EchoInv'
  <1> USE AnswerAssumption, RecvVsPollAssumption
  <1>0. /\ Shapes /\ ServerInv /\ BellInv /\ RecvInv
        /\ \A c \in Clients : RequestInv(c) /\ AnswerInv(c)
        /\ Clients \subseteq Nat /\ transport \in {"Doorbells", "Recv", "Direct"}
    BY EchoFacts
  <1>1. /\ spc = "accept" /\ spc' = "connectQp" /\ accepted' = accepted + 1
        /\ cpc' = [cpc EXCEPT ![accepted] = "idle"]
        /\ UNCHANGED <<sendBuffer, answers, placed, sendCounter, receiveBuffer, csize, request,
                       bufferSize, concurrent, requests, receives, ready, sender, handled>>
    BY DEF ExchangeAddresses, answerVars, requestVars
  <1>2. accepted \in Clients /\ cpc[accepted] = "connecting" /\ accepted < concurrent
    BY <1>0, <1>1 DEF ServerInv, Clients
  <1>3. Shapes'
    BY <1>0, <1>1, <1>2 DEF Shapes
  <1>4. ServerInv'
    <2>1. \A c \in Clients : cpc'[c] = IF c = accepted THEN "idle" ELSE cpc[c]
      BY <1>0, <1>1 DEF Shapes
    <2> QED
      BY <2>1, <1>0, <1>1, <1>2 DEF ServerInv
  <1>5. BellInv' /\ RecvInv'
    <2>1. BellInv'
      BY <1>0 DEF BellInv, Doorbells!DoorbellTypeOK
    <2>2. RecvInv'
      BY <1>0, <1>1, <1>2 DEF RecvInv
    <2> QED
      BY <2>1, <2>2
  <1>6. ASSUME NEW c \in Clients PROVE RequestInv(c)' /\ AnswerInv(c)'
    <2>1. (Announced(c)' <=> Announced(c)) /\ (Held(c)' <=> Held(c))
      BY <1>1 DEF Announced, Held
    <2>2. CASE c # accepted
      <3>1. cpc'[c] = cpc[c]
        BY <2>2, <1>0, <1>1 DEF Shapes
      <3> QED
        BY <3>1, <2>1, <1>0, <1>1, RequestFrame, AnswerFrame
    <2>3. CASE c = accepted
      <3>1. cpc'[c] = "idle"
        BY <2>3, <1>0, <1>1, <1>2 DEF Shapes
      <3>2. ~Pending(c) /\ RequestInv(c) /\ AnswerInv(c)
        BY <2>3, <1>0, <1>2 DEF AnswerInv
      <3>3. RequestInv(c)'
        BY <3>1, <3>2, <2>1, <2>3, <1>1, <1>2 DEF RequestInv, Pending, SizeLeft, BodyLeft
      <3>4. AnswerInv(c)'
        BY <3>1, <3>2, <2>3, <1>1, <1>2 DEF AnswerInv, Pending, Fresh
      <3> QED
        BY <3>3, <3>4
    <2> QED
      BY <2>2, <2>3
  <1> QED
    BY <1>3, <1>4, <1>5, <1>6 DEF EchoInv

\* The server's own moves that touch no request: the rest of accept, giving up
\* on a request that is too large, the completion of an answer.
LEMMA ServerMoves ==
    ASSUME EchoInv, ConnectQp \/ RejectRequest \/ AnswerSignaled,
           UNCHANGED <<doorBells, base, recvs, recvCq, slot, transport>>
    PROVE  EchoInv'
  <1> USE AnswerAssumption, RecvVsPollAssumption
  <1>0. /\ Shapes /\ ServerInv /\ BellInv /\ RecvInv
        /\ \A c \in Clients : RequestInv(c) /\ AnswerInv(c)
        /\ Clients \subseteq Nat /\ transport \in {"Doorbells", "Recv", "Direct"}
    BY EchoFacts
  <1>1. /\ UNCHANGED <<sendBuffer, answers, placed, sendCounter, receiveBuffer, csize, request, cpc,
                       bufferSize, concurrent, requests, receives, accepted, sender, handled>>
        /\ spc \in {"connectQp", "handle", "waitCompletion"}
        /\ spc' \in {"accept", "poll"}
        /\ spc' = "accept" => spc = "connectQp" /\ accepted # concurrent
        /\ spc' = "poll" /\ spc = "connectQp" => accepted = concurrent
        /\ ready' = ready \/ (spc = "connectQp" /\ ready' = ready \cup {accepted - 1})
    BY DEF ConnectQp, RejectRequest, AnswerSignaled, answerVars, requestVars, clientVars, acceptVars
  <1>3. Shapes'
    BY <1>0, <1>1 DEF Shapes
  <1>4. ServerInv'
    <2>1. spc = "connectQp" => accepted - 1 \in Clients
      BY <1>0 DEF ServerInv, Clients
    <2>2. ready' \subseteq Clients
      BY <2>1, <1>0, <1>1 DEF ServerInv
    <2> QED
      BY <2>2, <1>0, <1>1 DEF ServerInv
  <1>5. BellInv' /\ RecvInv'
    BY <1>0, <1>1 DEF BellInv, RecvInv, Doorbells!DoorbellTypeOK
  <1>6. ASSUME NEW c \in Clients PROVE RequestInv(c)' /\ AnswerInv(c)'
    <2>1. (Announced(c)' <=> Announced(c)) /\ ~Held(c)'
      BY <1>1 DEF Announced, Held
    <2>2. RequestInv(c)'
      BY <2>1, <1>0, <1>1 DEF RequestInv, Pending, SizeLeft, BodyLeft
    <2>3. AnswerInv(c)'
      BY <1>0, <1>1, AnswerFrame
    <2> QED
      BY <2>2, <2>3
  <1> QED
    BY <1>3, <1>4, <1>5, <1>6 DEF EchoInv

\* The scan of the doorbells finds only bells that were rung.
LEMMA PollBellsStep ==
    ASSUME EchoInv, transport = "Doorbells", Doorbells!PollGroup,
           UNCHANGED <<recvs, recvCq, slot, transport>>
    PROVE  EchoInv'
  <1> USE AnswerAssumption, RecvVsPollAssumption
  <1>0. /\ Shapes /\ ServerInv /\ BellInv /\ RecvInv
        /\ \A c \in Clients : RequestInv(c) /\ AnswerInv(c)
        /\ Clients \subseteq Nat /\ Clients \subseteq 0..MaxClients - 1
    BY EchoFacts
  <1>1. /\ spc = "poll"
        /\ IF Doorbells!Vector # {}
           THEN sender' = Doorbells!Highest(Doorbells!Vector) /\ spc' = "clear" /\ base' = 0
           ELSE base' = (base + Group) % MaxClients /\ UNCHANGED <<sender, spc>>
        /\ UNCHANGED <<sendBuffer, answers, placed, sendCounter, receiveBuffer, csize, request, cpc,
                       bufferSize, concurrent, requests, receives, accepted, ready, handled, doorBells>>
    BY BellsServer DEF answerVars, requestVars, clientVars, acceptVars
  <1>2. /\ base \in Nat /\ base + Group <= MaxClients
        /\ (base + Group) % MaxClients \in {i \in 0..MaxClients - 1 : i % Group = 0}
    <2>1. /\ base \in 0..MaxClients - 1 /\ base % Group = 0
          /\ Group \in Nat \ {0} /\ MaxClients \in Nat /\ MaxClients % Group = 0
      BY <1>0 DEF BellInv, Doorbells!DoorbellTypeOK
    <2>2. /\ base + Group <= MaxClients /\ (base + Group) % MaxClients \in 0..MaxClients - 1
          /\ ((base + Group) % MaxClients) % Group = 0
      BY <2>1, NextVector
    <2> QED
      BY <2>1, <2>2
  <1>3. Doorbells!Vector # {} => sender' \in Clients /\ doorBells[sender']
    <2> SUFFICES ASSUME Doorbells!Vector # {} PROVE sender' \in Clients /\ doorBells[sender']
      OBVIOUS
    <2>1. Doorbells!Vector \subseteq base..base + Group - 1 /\ base + Group - 1 \in Nat
      BY <1>2 DEF Doorbells!Vector
    <2>2. sender' \in Doorbells!Vector
      <3> DEFINE n == base + Group - 1
      <3>1. n \in Nat /\ base \in Nat /\ Doorbells!Vector \subseteq base..n
        BY <2>1, <1>2
      <3> HIDE DEF n
      <3>2. Doorbells!Highest(Doorbells!Vector) \in Doorbells!Vector
        BY <3>1, HighestRung
      <3> QED
        BY <3>2, <1>1
    <2>3. sender' \in 0..MaxClients - 1 /\ doorBells[sender']
      BY <2>2, <1>2 DEF Doorbells!Vector
    <2> QED
      BY <2>3, <1>0 DEF BellInv
  <1>4. Shapes'
    BY <1>0, <1>1 DEF Shapes
  <1>5. ServerInv'
    BY <1>0, <1>1, <1>3 DEF ServerInv
  <1>6. BellInv'
    <2>1. base' \in {i \in 0..MaxClients - 1 : i % Group = 0}
      <3>1. 0 \in 0..MaxClients - 1 /\ 0 % Group = 0
        BY <1>0, <1>2
      <3> QED
        BY <3>1, <1>1, <1>2
    <2> QED
      BY <2>1, <1>0, <1>1 DEF BellInv, Doorbells!DoorbellTypeOK
  <1>7. RecvInv'
    BY <1>0, <1>1 DEF RecvInv
  <1>8. ASSUME NEW c \in Clients PROVE RequestInv(c)' /\ AnswerInv(c)'
    <2>1. (Announced(c)' <=> Announced(c)) /\ (Held(c)' <=> Held(c))
      BY <1>1 DEF Announced, Held
    <2> QED
      BY <2>1, <1>0, <1>1, RequestFrame, AnswerFrame
  <1> QED
    BY <1>4, <1>5, <1>6, <1>7, <1>8 DEF EchoInv

\* Clearing a doorbell takes the request over.
LEMMA ClearBellStep ==
    ASSUME EchoInv, transport = "Doorbells", Doorbells!ClearDoorbell,
           UNCHANGED <<recvs, recvCq, slot, transport>>
    PROVE  EchoInv'
  <1> USE AnswerAssumption, RecvVsPollAssumption
  <1>0. /\ Shapes /\ ServerInv /\ BellInv /\ RecvInv
        /\ \A c \in Clients : RequestInv(c) /\ AnswerInv(c)
        /\ Clients \subseteq 0..MaxClients - 1 /\ sender \in Clients
    BY EchoFacts
  <1>1. /\ spc = "clear" /\ doorBells' = [doorBells EXCEPT ![sender] = FALSE]
        /\ sender' = sender /\ spc' = "handle"
        /\ UNCHANGED <<sendBuffer, answers, placed, sendCounter, receiveBuffer, csize, request, cpc,
                       bufferSize, concurrent, requests, receives, accepted, ready, handled, base>>
    BY BellsServer DEF answerVars, requestVars, clientVars, acceptVars, Found
  <1>2. doorBells[sender] /\ doorBells \in [0..MaxClients - 1 -> BOOLEAN]
    BY <1>0, <1>1 DEF ServerInv, BellInv, Doorbells!DoorbellTypeOK
  <1>4. Shapes'
    BY <1>0, <1>1 DEF Shapes
  <1>5. ServerInv'
    BY <1>0, <1>1 DEF ServerInv
  <1>6. BellInv'
    BY <1>0, <1>1 DEF BellInv, Doorbells!DoorbellTypeOK
  <1>7. RecvInv'
    BY <1>0, <1>1 DEF RecvInv
  <1>8. ASSUME NEW c \in Clients PROVE RequestInv(c)' /\ AnswerInv(c)'
    <2>1. CASE c # sender
      <3>1. (Announced(c)' <=> Announced(c)) /\ (Held(c)' <=> Held(c))
        BY <2>1, <1>0, <1>1, <1>2 DEF Announced, Held
      <3> QED
        BY <3>1, <1>0, <1>1, RequestFrame, AnswerFrame
    <2>2. CASE c = sender
      <3>1. Announced(c) /\ ~Announced(c)' /\ Held(c)'
        BY <2>2, <1>0, <1>1, <1>2 DEF Announced, Held
      <3>2. RequestInv(c)'
        BY <3>1, <1>0, <1>1 DEF RequestInv, Pending, SizeLeft, BodyLeft
      <3> QED
        BY <3>2, <1>0, <1>1, AnswerFrame
    <2> QED
      BY <2>1, <2>2
  <1> QED
    BY <1>4, <1>5, <1>6, <1>7, <1>8 DEF EchoInv

\* Polling a completion takes the request over, and replaces the receive.
LEMMA PollRecvStep ==
    ASSUME EchoInv, transport = "Recv", Recv!PollRecv,
           UNCHANGED <<doorBells, base, slot, transport>>
    PROVE  EchoInv'
  <1> USE AnswerAssumption, RecvVsPollAssumption
  <1>0. /\ Shapes /\ ServerInv /\ BellInv /\ RecvInv
        /\ \A c \in Clients : RequestInv(c) /\ AnswerInv(c)
    BY EchoFacts
  <1>1. /\ spc = "poll" /\ recvCq # <<>> /\ recvCq' = Tail(recvCq) /\ recvs' = recvs + 1
        /\ sender' = Head(recvCq) /\ spc' = "handle"
        /\ UNCHANGED <<sendBuffer, answers, placed, sendCounter, receiveBuffer, csize, request, cpc,
                       bufferSize, concurrent, requests, receives, accepted, ready, handled>>
    BY RecvsServer DEF answerVars, requestVars, clientVars, acceptVars, Found
  <1>2. /\ recvCq \in Seq(Clients) /\ Len(recvCq) \in Nat \ {0} /\ recvs \in Nat
        /\ recvs + Len(recvCq) = accepted
        /\ \A i, j \in 1..Len(recvCq) : recvCq[i] = recvCq[j] => i = j
    BY <1>0, <1>1 DEF RecvInv
  <1>3. /\ Head(recvCq) = recvCq[1] /\ Head(recvCq) \in Clients
        /\ Tail(recvCq) \in Seq(Clients) /\ Len(Tail(recvCq)) = Len(recvCq) - 1
        /\ \A i \in 1..Len(Tail(recvCq)) : Tail(recvCq)[i] = recvCq[i + 1]
    BY <1>1, <1>2, HeadTailProperties
  <1>4. Shapes'
    BY <1>0, <1>1 DEF Shapes
  <1>5. ServerInv'
    BY <1>0, <1>1, <1>3 DEF ServerInv
  <1>6. BellInv'
    BY <1>0, <1>1 DEF BellInv, Doorbells!DoorbellTypeOK
  <1>7. RecvInv'
    BY <1>1, <1>2, <1>3 DEF RecvInv
  <1>8. ASSUME NEW c \in Clients PROVE RequestInv(c)' /\ AnswerInv(c)'
    <2>0. Announced(c) <=> \E i \in 1..Len(recvCq) : recvCq[i] = c
      BY DEF Announced
    <2>a. Announced(c)' <=> \E i \in 1..Len(Tail(recvCq)) : Tail(recvCq)[i] = c
      BY <1>1 DEF Announced
    <2>1. CASE c # Head(recvCq)
      <3>1. Announced(c)' <=> Announced(c)
        <4>1. ASSUME NEW i \in 1..Len(recvCq), recvCq[i] = c
              PROVE  i - 1 \in 1..Len(Tail(recvCq)) /\ Tail(recvCq)[i - 1] = c
          BY <4>1, <2>1, <1>2, <1>3
        <4> QED
          BY <4>1, <2>0, <2>a, <1>2, <1>3
      <3>2. Held(c)' <=> Held(c)
        BY <2>1, <1>1 DEF Held
      <3> QED
        BY <3>1, <3>2, <1>0, <1>1, RequestFrame, AnswerFrame
    <2>2. CASE c = Head(recvCq)
      <3>1. Announced(c) /\ Held(c)'
        BY <2>0, <2>2, <1>1, <1>2, <1>3 DEF Held
      <3>2. ~Announced(c)'
        BY <2>2, <2>a, <1>2, <1>3
      <3>3. RequestInv(c)'
        BY <3>1, <3>2, <1>0, <1>1 DEF RequestInv, Pending, SizeLeft, BodyLeft
      <3> QED
        BY <3>3, <1>0, <1>1, AnswerFrame
    <2> QED
      BY <2>1, <2>2
  <1> QED
    BY <1>4, <1>5, <1>6, <1>7, <1>8 DEF EchoInv

\* Finding a size word that is not zero takes the request over.
LEMMA PollSlotStep ==
    ASSUME EchoInv, transport = "Direct", Direct!PollSlot,
           UNCHANGED <<doorBells, base, recvs, recvCq, transport>>
    PROVE  EchoInv'
  <1> USE AnswerAssumption, RecvVsPollAssumption
  <1>0. /\ Shapes /\ ServerInv /\ BellInv /\ RecvInv
        /\ \A c \in Clients : RequestInv(c) /\ AnswerInv(c)
    BY EchoFacts
  <1>1. /\ spc = "poll"
        /\ IF receives[slot].size # 0
           THEN sender' = slot /\ spc' = "handle" /\ slot' = 0
           ELSE slot' = (slot + 1) % accepted /\ UNCHANGED <<sender, spc>>
        /\ UNCHANGED <<sendBuffer, answers, placed, sendCounter, receiveBuffer, csize, request, cpc,
                       bufferSize, concurrent, requests, receives, accepted, ready, handled>>
    BY SlotsServer DEF answerVars, requestVars, clientVars, acceptVars, Found
  <1>2. /\ accepted = concurrent /\ concurrent \in 1..NumClients /\ slot \in Clients
    BY <1>0, <1>1 DEF ServerInv
  <1>3. slot' \in Clients /\ slot' < accepted
    BY <1>1, <1>2 DEF Clients
  <1>4. Shapes'
    BY <1>0, <1>1 DEF Shapes
  <1>5. ServerInv'
    BY <1>0, <1>1, <1>2, <1>3 DEF ServerInv
  <1>6. BellInv'
    BY <1>0, <1>1 DEF BellInv, Doorbells!DoorbellTypeOK
  <1>7. RecvInv'
    BY <1>0, <1>1 DEF RecvInv
  <1>8. ASSUME NEW c \in Clients PROVE RequestInv(c)' /\ AnswerInv(c)'
    <2>1. /\ Announced(c)' <=> Announced(c)
          /\ Announced(c) <=> receives[c].size # 0
          /\ ~Held(c) /\ (Held(c)' => Announced(c))
      BY <1>1 DEF Announced, Held
    <2>2. RequestInv(c)'
      BY <2>1, <1>0, <1>1 DEF RequestInv, Pending, SizeLeft, BodyLeft
    <2> QED
      BY <2>2, <1>0, <1>1, AnswerFrame
  <1> QED
    BY <1>4, <1>5, <1>6, <1>7, <1>8 DEF EchoInv

\* While a request is pending, its client has no unread answer.
LEMMA NoAnswerYet ==
    ASSUME NEW c \in Clients, answers[c] \in Seq(Answer), placed[c] \in 0..2,
           AnswerInv(c), Pending(c)
    PROVE  /\ Len(answers[c]) \in {0, 1} /\ (Len(answers[c]) = 0 <=> placed[c] = 0)
           /\ receiveBuffer[c].size = 0
  <1> DEFINE k == Len(answers[c])
  <1>1. k \in Nat /\ (answers[c] = <<>> <=> k = 0)
    BY EmptySeq, LenProperties
  <1>2. /\ receiveBuffer[c].size = 0 /\ k <= 2
        /\ answers[c] # <<>> => placed[c] # 0 /\ k # 2
        /\ answers[c] = <<>> => placed[c] = 0
    BY DEF AnswerInv, Fresh
  <1> HIDE DEF k
  <1>3. k = 0 \/ k = 1
    BY <1>1, <1>2
  <1> QED
    BY <1>1, <1>2, <1>3 DEF k

\* The answer to the request that was just handled joins the queue.
LEMMA AnswerQueued ==
    ASSUME NEW c \in Clients, placed[c] \in 0..2, Len(answers[c]) \in {0, 1},
           Len(answers[c]) = 0 <=> placed[c] = 0,
           Len(answers'[c]) = Len(answers[c]) + 1, answers'[c] # <<>>,
           placed'[c] = placed[c], receiveBuffer'[c].size = 0, ~Pending(c)',
           cpc'[c] \in {"sending", "awaitSize"}
    PROVE  AnswerInv(c)'
  <1> DEFINE k == Len(answers[c])
             j == Len(answers'[c])
  <1>1. j = k + 1 /\ k \in {0, 1} /\ (k = 0 <=> placed[c] = 0)
    OBVIOUS
  <1> HIDE DEF k, j
  <1>2. j <= 2 /\ (j = 2 => placed'[c] > 0)
    BY <1>1
  <1> QED
    BY <1>2 DEF AnswerInv, Fresh, j

\* Handling a request: it is no longer pending, and the client, which has read
\* every earlier answer, gets one more or none.
LEMMA HandleStep ==
    ASSUME DirectSafe, EchoInv, NEW slots, HandleRequest(slots),
           IF transport = "Direct"
           THEN slots = [receives EXCEPT ![sender].size = @ - (@ % Byte)]
           ELSE slots = receives,
           UNCHANGED <<doorBells, base, recvs, recvCq, slot, transport>>
    PROVE  EchoInv'
  <1> USE AnswerAssumption, RecvVsPollAssumption
  <1>0. /\ Shapes /\ ServerInv /\ BellInv /\ RecvInv
        /\ \A c \in Clients : RequestInv(c) /\ AnswerInv(c)
        /\ Sizes \subseteq Nat \ {0} /\ sender \in Clients
    BY EchoFacts
  <1> DEFINE n == receives[sender].size
             body == receives[sender].body
             new == [len |-> n, size |-> n, body |-> body, late |-> Late(n)]
             Posted == /\ sendBuffer' = [size |-> n, body |-> body]
                       /\ answers' = [answers EXCEPT ![sender] = Append(@, new)]
                       /\ sendCounter' = [sendCounter EXCEPT ![sender] = (@ + 1) % Window]
  <1>1. /\ spc = "handle" /\ spc' \in {"poll", "waitCompletion"}
        /\ handled' = [handled EXCEPT ![sender] = @ + 1] /\ receives' = slots
        /\ Posted \/ UNCHANGED <<sendBuffer, answers, sendCounter>>
        /\ UNCHANGED <<placed, receiveBuffer, csize, request, cpc, bufferSize, concurrent, requests,
                       accepted, ready, sender>>
    BY DEF HandleRequest, PostAnswer, AnswerTooLarge, answerVars, clientVars, acceptVars
  <1>2. /\ Held(sender) /\ Pending(sender) /\ requests[sender] = <<>>
        /\ RequestInv(sender) /\ AnswerInv(sender)
    <2>1. Held(sender)
      BY <1>1 DEF Held
    <2> QED
      BY <2>1, <1>0 DEF RequestInv
  <1>3. /\ request[sender].number \in 1..MaxRequests /\ handled[sender] \in Nat
        /\ handled[sender] + 1 = request[sender].number
        /\ n = request[sender].size /\ n \in Sizes
        /\ body = request[sender].body /\ body = <<sender, request[sender].number>>
        /\ cpc[sender] \in {"sending", "awaitSize"}
    <2> HIDE DEF new, Posted
    <2>1. /\ request[sender].number \in 0..MaxRequests /\ handled[sender] \in Nat
          /\ request[sender].number \in {handled[sender], handled[sender] + 1}
          /\ handled[sender] < request[sender].number
      BY <1>2 DEF RequestInv, Pending
    <2>2. /\ request[sender].number \in 1..MaxRequests
          /\ handled[sender] + 1 = request[sender].number
      BY <2>1
    <2>3. request[sender].size \in Sizes /\ request[sender].body = <<sender, request[sender].number>>
      BY <2>2, <1>2 DEF RequestInv
    <2>4. ~SizeLeft(requests[sender]) /\ ~BodyLeft(requests[sender])
      BY <1>2 DEF SizeLeft, BodyLeft
    <2>5. /\ cpc[sender] \in {"sending", "awaitSize"} /\ n = request[sender].size
          /\ body = request[sender].body
      BY <2>4, <1>2 DEF RequestInv
    <2> QED
      BY <2>1, <2>2, <2>3, <2>5
  <1>4. body \in Clients \X (1..MaxRequests) /\ body \in Bodies /\ body # NoBody
    BY <1>0, <1>3 DEF Bodies, NoBody
  <1>5. new \in Answer
    BY <1>3, <1>4 DEF Answer, Late, Total
  <1>6. answers \in [Clients -> Seq(Answer)] /\ sendCounter \in [Clients -> 0..Window - 1]
        /\ handled \in [Clients -> 0..MaxRequests] /\ placed \in [Clients -> 0..2]
        /\ receives \in [Clients -> [size : Sizes \cup {0}, body : Bodies]]
    BY <1>0 DEF Shapes
  <1> HIDE DEF new, n, body
  <1>7. /\ answers' \in [Clients -> Seq(Answer)] /\ sendCounter' \in [Clients -> 0..Window - 1]
    <2>1. Append(answers[sender], new) \in Seq(Answer)
      BY <1>0, <1>5, <1>6
    <2>0. sendCounter[sender] \in 0..Window - 1
      BY <1>0, <1>6, Zenon
    <2>2. (sendCounter[sender] + 1) % Window \in 0..Window - 1
      BY <2>0, WindowCount, Zenon
    <2> DEFINE S == Seq(Answer)
               q == Append(answers[sender], new)
               k == (sendCounter[sender] + 1) % Window
    <2> HIDE DEF S, q, k
    <2>3. CASE Posted
      <3>1. answers' = [answers EXCEPT ![sender] = q] /\ q \in S /\ answers \in [Clients -> S]
        BY <2>1, <2>3, <1>6 DEF q, S
      <3>2. /\ sendCounter' = [sendCounter EXCEPT ![sender] = k]
            /\ k \in 0..Window - 1 /\ sendCounter \in [Clients -> 0..Window - 1]
        BY <2>2, <2>3, <1>6 DEF k
      <3>3. answers' \in [Clients -> S]
        BY <3>1, <1>0
      <3>4. sendCounter' \in [Clients -> 0..Window - 1]
        BY <3>2, <1>0
      <3> QED
        BY <3>3, <3>4 DEF S
    <2>4. CASE UNCHANGED <<sendBuffer, answers, sendCounter>>
      BY <2>4, <1>6
    <2> QED
      BY <2>3, <2>4, <1>1
  <1>8. /\ slots \in [Clients -> [size : Sizes \cup {0}, body : Bodies]]
        /\ transport = "Direct" => slots[sender].size = 0
        /\ \A c \in Clients : c # sender => slots[c] = receives[c]
    <2>1. CASE transport = "Direct"
      <3>1. n % Byte = n
        <4>1. transport \in Transports
          BY <1>0 DEF Shapes
        <4> QED
          BY <4>1, <2>1, <1>0, <1>3 DEF DirectSafe
      <3>2. n - (n % Byte) = 0
        BY <3>1, <1>0, <1>3
      <3>3. slots = [receives EXCEPT ![sender].size = 0]
        BY <3>2, <2>1 DEF n
      <3> QED
        BY <3>3, <1>0, <1>6
    <2>2. CASE transport # "Direct"
      BY <2>2, <1>6
    <2> QED
      BY <2>1, <2>2
  <1>9. Shapes'
    <2>1. handled' \in [Clients -> 0..MaxRequests]
      <3>1. handled[sender] + 1 \in 0..MaxRequests
        BY <1>3
      <3> QED
        BY <3>1, <1>0, <1>1, <1>6
    <2>2. /\ sendBuffer' \in [size : Sizes \cup {0}, body : Bodies]
          /\ (\E c \in Clients : answers'[c] # <<>>) =>
                sendBuffer'.size \in Sizes /\ sendBuffer'.body # NoBody
      <3>1. CASE Posted
        BY <3>1, <1>3, <1>4
      <3>2. CASE UNCHANGED <<sendBuffer, answers, sendCounter>>
        BY <3>2, <1>0 DEF Shapes
      <3> QED
        BY <3>1, <3>2, <1>1
    <2> QED
      BY <2>1, <2>2, <1>0, <1>1, <1>7, <1>8 DEF Shapes
  <1>10. ServerInv'
    BY <1>0, <1>1 DEF ServerInv
  <1>11. BellInv' /\ RecvInv'
    BY <1>0, <1>1 DEF BellInv, RecvInv, Doorbells!DoorbellTypeOK
  <1>12. ASSUME NEW c \in Clients PROVE RequestInv(c)' /\ AnswerInv(c)'
    <2>1. CASE c # sender
      <3>1. handled'[c] = handled[c] /\ answers'[c] = answers[c] /\ receives'[c] = receives[c]
        BY <2>1, <1>1, <1>6, <1>8
      <3>2. (Announced(c)' <=> Announced(c)) /\ (Held(c)' <=> Held(c))
        BY <2>1, <3>1, <1>1 DEF Announced, Held
      <3> QED
        BY <3>1, <3>2, <1>0, <1>1, RequestFrame, AnswerFrame
    <2>2. CASE c = sender
      <3>1. handled'[c] = handled[c] + 1 /\ ~Pending(c)'
        BY <2>2, <1>1, <1>3, <1>6 DEF Pending
      <3>2. ~Announced(c)' /\ ~Held(c)'
        <4>1. transport # "Direct" => ~Announced(c)
          BY <2>2, <1>2 DEF RequestInv
        <4> QED
          BY <4>1, <2>2, <1>1, <1>8 DEF Announced, Held
      <3>3. RequestInv(c)'
        BY <3>1, <3>2, <2>2, <1>1, <1>2, <1>3 DEF RequestInv
      <3>4. AnswerInv(c)'
        <4>0. answers[c] \in Seq(Answer)
          BY <1>6
        <4>1. /\ Len(answers[c]) \in {0, 1} /\ (Len(answers[c]) = 0 <=> placed[c] = 0)
              /\ receiveBuffer[c].size = 0
          BY <4>0, <2>2, <1>2, <1>6, NoAnswerYet
        <4>2. answers'[c] = answers[c] \/ answers'[c] = Append(answers[c], new)
          BY <2>2, <1>1, <1>6
        <4>3. CASE answers'[c] = answers[c]
          BY <4>3, <3>1, <2>2, <1>1, <1>2, <1>3 DEF AnswerInv, Fresh
        <4>4. CASE answers'[c] = Append(answers[c], new)
          <5>1. Len(answers'[c]) = Len(answers[c]) + 1 /\ answers'[c] # <<>>
            <6>1. /\ Len(Append(answers[c], new)) = Len(answers[c]) + 1
                  /\ Append(answers[c], new) # <<>>
              BY <4>0, <1>5, AppendGrows, Zenon
            <6> QED
              BY <6>1, <4>4
          <5> QED
            <6>1. /\ cpc'[c] \in {"sending", "awaitSize"} /\ placed'[c] = placed[c]
                  /\ receiveBuffer'[c].size = 0 /\ placed[c] \in 0..2
              BY <4>1, <2>2, <1>1, <1>3, <1>6
            <6> QED
              BY <6>1, <5>1, <4>1, <3>1, AnswerQueued
        <4> QED
          BY <4>2, <4>3, <4>4
      <3> QED
        BY <3>3, <3>4
    <2> QED
      BY <2>1, <2>2
  <1> QED
    BY <1>9, <1>10, <1>11, <1>12 DEF EchoInv
-----------------------------------------------------------------------------
(* The steps of clients and adapters                                        *)

\* A step of one client, or of the adapter that serves it, that leaves the
\* requests alone concerns only that client's answers.
LEMMA OneClient ==
    ASSUME EchoInv, NEW c \in Clients, Shapes',
           UNCHANGED <<request, concurrent, requests, receives, accepted, ready, spc, sender,
                       handled, doorBells, base, recvs, recvCq, slot, transport>>,
           \A d \in Clients : d # c =>
                /\ cpc'[d] = cpc[d] /\ csize'[d] = csize[d] /\ answers'[d] = answers[d]
                /\ placed'[d] = placed[d] /\ receiveBuffer'[d] = receiveBuffer[d],
           cpc'[c] # cpc[c] => /\ requests[c] = <<>> /\ (Pending(c) => cpc'[c] = "awaitSize")
                               /\ cpc[c] # "connecting" /\ cpc'[c] # "connecting",
           AnswerInv(c)'
    PROVE  EchoInv'
  <1> USE AnswerAssumption, RecvVsPollAssumption
  <1>0. /\ Shapes /\ ServerInv /\ BellInv /\ RecvInv
        /\ \A d \in Clients : RequestInv(d) /\ AnswerInv(d)
    BY EchoFacts
  <1>1. ServerInv'
    <2>1. \A d \in Clients : cpc'[d] = "connecting" <=> cpc[d] = "connecting"
      OBVIOUS
    <2> QED
      BY <1>0, <2>1 DEF ServerInv
  <1>2. BellInv' /\ RecvInv'
    BY <1>0 DEF BellInv, RecvInv, Doorbells!DoorbellTypeOK
  <1>3. ASSUME NEW d \in Clients PROVE RequestInv(d)' /\ AnswerInv(d)'
    <2>1. (Announced(d)' <=> Announced(d)) /\ (Held(d)' <=> Held(d))
      BY DEF Announced, Held
    <2>2. CASE d # c
      BY <2>1, <2>2, <1>0, RequestFrame, AnswerFrame
    <2>3. CASE d = c
      <3>1. CASE cpc'[c] = cpc[c]
        BY <3>1, <2>1, <2>3, <1>0, RequestFrame
      <3>2. CASE cpc'[c] # cpc[c]
        <4>1. requests[c] = <<>> /\ (Pending(c) => cpc'[c] = "awaitSize") /\ RequestInv(c)
          BY <3>2, <1>0
        <4> QED
          BY <4>1, <2>1, <2>3 DEF RequestInv, Pending, SizeLeft, BodyLeft
      <3> QED
        BY <3>1, <3>2
    <2> QED
      BY <2>2, <2>3
  <1> QED
    BY <1>0, <1>1, <1>2, <1>3 DEF EchoInv

\* send returns, or a receive goes on.
LEMMA ReceiveStep ==
    ASSUME EchoInv, NEW c \in Clients,
           \/ SendCompleted(c)
           \/ \E rereads \in BOOLEAN : ClientStep(c, rereads) /\ UNCHANGED <<requestVars, acceptVars, serverVars>>,
           UNCHANGED <<doorBells, base, recvs, recvCq, slot, transport>>
    PROVE  EchoInv'
  <1> USE AnswerAssumption, RecvVsPollAssumption
  <1>0. /\ Shapes /\ ServerInv /\ RequestInv(c) /\ AnswerInv(c)
    BY EchoFacts
  <1>1. /\ cpc \in [Clients -> {"connecting", "idle", "sending",
                          "awaitSize", "awaitValidity", "callback"}]
        /\ csize \in [Clients -> Sizes \cup {0}]
        /\ receiveBuffer \in [Clients -> [size : Sizes \cup {0}, body : Bodies, valid : SUBSET Sizes]]
    BY <1>0 DEF Shapes
  <1>2. UNCHANGED <<sendBuffer, answers, placed, sendCounter, request, bufferSize, concurrent, requests,
                    receives, accepted, ready, spc, sender, handled>>
    BY DEF SendCompleted, BeginReceive, ClientStep, ReadSize, SeeValidity, EndReceive, ReceiveThrows,
           answerVars, requestVars, acceptVars, serverVars
  <1>3. CASE receiveBuffer' = receiveBuffer /\ cpc[c] = "sending" /\ requests[c] = <<>>
             /\ cpc' = [cpc EXCEPT ![c] = "awaitSize"] /\ csize' = csize
    <2>1. Shapes'
      BY <1>0, <1>2, <1>3 DEF Shapes
    <2>2. AnswerInv(c)'
      BY <1>0, <1>1, <1>2, <1>3 DEF AnswerInv, Pending, Fresh
    <2> QED
      BY <2>1, <2>2, <1>1, <1>2, <1>3, OneClient
  <1>4. CASE ReadSize(c)
    <2>1. /\ receiveBuffer' = receiveBuffer /\ cpc[c] = "awaitSize" /\ receiveBuffer[c].size # 0
          /\ cpc' = [cpc EXCEPT ![c] = "awaitValidity"]
          /\ csize' = [csize EXCEPT ![c] = receiveBuffer[c].size]
      BY <1>4 DEF ReadSize, answerVars
    <2>2. requests[c] = <<>> /\ ~Pending(c)
      BY <2>1, <1>0 DEF RequestInv, AnswerInv
    <2>3. Shapes'
      BY <2>1, <1>0, <1>1, <1>2 DEF Shapes
    <2>4. AnswerInv(c)'
      BY <2>1, <1>0, <1>1, <1>2 DEF AnswerInv, Pending, Fresh
    <2> QED
      BY <2>1, <2>2, <2>3, <2>4, <1>1, <1>2, OneClient
  <1>5. CASE \E rereads \in BOOLEAN : SeeValidity(c, rereads)
    <2>1. /\ receiveBuffer' = receiveBuffer /\ cpc[c] = "awaitValidity" /\ csize' = csize
          /\ \E p \in {"awaitSize", "awaitValidity", "callback"} : cpc' = [cpc EXCEPT ![c] = p]
      BY <1>5 DEF SeeValidity, answerVars
    <2>2. requests[c] = <<>> /\ ~Pending(c)
      BY <2>1, <1>0 DEF RequestInv, AnswerInv
    <2>3. Shapes'
      <3>1. cpc' \in [Clients -> {"connecting", "idle", "sending",
                              "awaitSize", "awaitValidity", "callback"}]
        BY <2>1, <1>1
      <3> QED
        BY <3>1, <2>1, <1>0, <1>2 DEF Shapes
    <2>4. AnswerInv(c)'
      BY <2>1, <1>0, <1>1, <1>2 DEF AnswerInv, Pending, Fresh
    <2> QED
      BY <2>1, <2>2, <2>3, <2>4, <1>1, <1>2, OneClient
  <1>6. CASE EndReceive(c)
    <2>1. /\ receiveBuffer' = [receiveBuffer EXCEPT ![c].size = 0] /\ cpc[c] = "callback"
          /\ csize' = [csize EXCEPT ![c] = 0] /\ cpc' = [cpc EXCEPT ![c] = "idle"]
      BY <1>6 DEF EndReceive
    <2>2. requests[c] = <<>> /\ ~Pending(c) /\ ~Fresh(c)
      BY <2>1, <1>0 DEF RequestInv, AnswerInv
    <2>3. Shapes'
      <3>1. /\ receiveBuffer' \in [Clients -> [size : Sizes \cup {0}, body : Bodies, valid : SUBSET Sizes]]
            /\ csize' \in [Clients -> Sizes \cup {0}]
            /\ cpc' \in [Clients -> {"connecting", "idle", "sending",
                              "awaitSize", "awaitValidity", "callback"}]
        BY <2>1, <1>1
      <3> QED
        BY <3>1, <1>0, <1>2 DEF Shapes
    <2>4. receiveBuffer'[c].size = 0 /\ cpc'[c] = "idle"
      BY <2>1, <1>1
    <2>5. AnswerInv(c)'
      BY <2>2, <2>4, <1>0, <1>2 DEF AnswerInv, Pending, Fresh
    <2> QED
      BY <2>1, <2>2, <2>3, <2>5, <1>1, <1>2, OneClient
  <1>7. CASE ReceiveThrows(c)
    <2>1. /\ receiveBuffer' = receiveBuffer /\ cpc[c] = "callback"
          /\ csize' = [csize EXCEPT ![c] = 0] /\ cpc' = [cpc EXCEPT ![c] = "awaitSize"]
      BY <1>7 DEF ReceiveThrows, answerVars
    <2>2. requests[c] = <<>> /\ ~Pending(c)
      BY <2>1, <1>0 DEF RequestInv, AnswerInv
    <2>3. Shapes'
      BY <2>1, <1>0, <1>1, <1>2 DEF Shapes
    <2>4. AnswerInv(c)'
      BY <2>1, <1>0, <1>1, <1>2 DEF AnswerInv, Pending, Fresh
    <2> QED
      BY <2>1, <2>2, <2>3, <2>4, <1>1, <1>2, OneClient
  <1> QED
    BY <1>3, <1>4, <1>5, <1>6, <1>7 DEF SendCompleted, BeginReceive, ClientStep, answerVars
\* The adapter reads the data of an answer.
LEMMA FetchStep ==
    ASSUME EchoInv, NEW c \in Clients, FetchAnswer(c), UNCHANGED clientVars,
           UNCHANGED <<requestVars, acceptVars, serverVars>>,
           UNCHANGED <<doorBells, base, recvs, recvCq, slot, transport>>
    PROVE  EchoInv'
  <1> USE AnswerAssumption, RecvVsPollAssumption
  <1>0. /\ Shapes /\ AnswerInv(c) /\ answers[c] \in Seq(Answer) /\ answers \in [Clients -> Seq(Answer)]
    BY EchoFacts DEF Shapes
  <1> DEFINE a == [answers[c][1] EXCEPT !.late = FALSE, !.size = sendBuffer.size, !.body = sendBuffer.body]
             q == [answers[c] EXCEPT ![1] = a]
             S == Seq(Answer)
  <1>1. /\ answers[c] # <<>> /\ answers' = [answers EXCEPT ![c] = q]
        /\ UNCHANGED <<sendBuffer, placed, sendCounter, receiveBuffer, cpc, csize, request, bufferSize,
                       concurrent, requests, receives, accepted, ready, spc, sender, handled>>
    BY DEF FetchAnswer, clientVars, requestVars, acceptVars, serverVars
  <1>2. a \in Answer
    <2>1. sendBuffer.size \in Sizes /\ sendBuffer.body \in Clients \X (1..MaxRequests)
      BY <1>0, <1>1 DEF Shapes, Bodies
    <2>2. answers[c][1] \in Answer
      BY <1>0, <1>1, TailFacts
    <2> QED
      BY <2>1, <2>2 DEF Answer
  <1> HIDE DEF a
  <1>3. q \in S /\ Len(q) = Len(answers[c]) /\ q # <<>>
    BY <1>0, <1>1, <1>2
  <1> HIDE DEF q, S
  <1>4. answers' \in [Clients -> S] /\ answers'[c] = q /\ \A d \in Clients : d # c => answers'[d] = answers[d]
    <2>1. answers \in [Clients -> S]
      BY <1>0 DEF S
    <2> QED
      BY <2>1, <1>1, <1>3
  <1>5. Shapes'
    <2>1. answers' \in [Clients -> Seq(Answer)]
      BY <1>4 DEF S
    <2>2. sendBuffer.size \in Sizes /\ sendBuffer.body # NoBody
      BY <1>0, <1>1 DEF Shapes
    <2> QED
      BY <2>1, <2>2, <1>0, <1>1 DEF Shapes
  <1>6. AnswerInv(c)'
    BY <1>0, <1>1, <1>3, <1>4 DEF AnswerInv, Pending, Fresh
  <1> QED
    BY <1>1, <1>4, <1>5, <1>6, OneClient

\* The states of an answer being placed: what changes of it and in the
\* client's memory. A part behind the size changes no size.
LEMMA PlaceStage ==
    ASSUME NEW c \in Clients, AnswerInv(c), answers[c] \in Seq(Answer), answers[c] # <<>>,
           placed[c] \in 0..2, ~Torn => placed[c] = 0, placed'[c] \in 0..2,
           UNCHANGED <<cpc, csize, request, handled>>, receiveBuffer[c].size \in Sizes \cup {0},
           receiveBuffer'[c].size =
                IF ~Torn \/ placed[c] = 0 THEN Head(answers[c]).size ELSE receiveBuffer[c].size,
           Head(answers[c]).size # 0,
           IF ~Torn \/ placed[c] = 2
           THEN placed'[c] = 0 /\ answers'[c] = Tail(answers[c])
           ELSE placed'[c] = placed[c] + 1 /\ answers'[c] = answers[c]
    PROVE  AnswerInv(c)'
  <1> DEFINE k == Len(answers[c])
             j == Len(answers'[c])
  <1>1. k \in Nat /\ k > 0 /\ (Tail(answers[c]) = <<>> <=> k = 1) /\ Len(Tail(answers[c])) = k - 1
    BY TailFacts
  <1>2. /\ k <= 2 /\ (k = 2 => placed[c] > 0)
        /\ Fresh(c) <=> placed[c] = 0 \/ k = 2
        /\ Fresh(c) => ~Pending(c) /\ receiveBuffer[c].size = 0
        /\ receiveBuffer[c].size # 0 => ~Pending(c)
        /\ cpc[c] \in {"connecting", "idle"} =>
                ~Pending(c) /\ ~Fresh(c) /\ receiveBuffer[c].size = 0
        /\ cpc[c] \in {"awaitValidity", "callback"} =>
                csize[c] = receiveBuffer[c].size /\ csize[c] # 0
    BY DEF AnswerInv, Fresh
  <1>3. /\ Pending(c)' <=> Pending(c)
        /\ Fresh(c)' <=> answers'[c] # <<>> /\ (placed'[c] = 0 \/ j = 2)
        /\ answers'[c] = answers[c] => j = k
        /\ answers'[c] = Tail(answers[c]) => j = k - 1
    BY <1>1 DEF Pending, Fresh
  <1> HIDE DEF k, j
  <1>4. CASE placed[c] = 0
    <2>1. k = 1 /\ Fresh(c) /\ ~Pending(c) /\ cpc[c] \notin {"connecting", "idle", "awaitValidity", "callback"}
      BY <1>1, <1>2, <1>4
    <2>2. IF answers'[c] = <<>> THEN j = 0 /\ placed'[c] = 0 ELSE j = 1 /\ placed'[c] = 1
      <3>1. CASE Torn
        BY <3>1, <2>1, <1>1, <1>3, <1>4
      <3>2. CASE ~Torn
        BY <3>2, <2>1, <1>1, <1>3, <1>4
      <3> QED
        BY <3>1, <3>2
    <2>3. ~Fresh(c)' /\ j <= 2 /\ j # 2 /\ (answers'[c] = <<>> => placed'[c] = 0)
      BY <2>2, <1>3
    <2> QED
      BY <2>1, <2>3, <1>3 DEF AnswerInv, j
  <1>5. CASE placed[c] = 1
    <2>1. receiveBuffer'[c].size = receiveBuffer[c].size /\ answers'[c] = answers[c] /\ placed'[c] = 2
      BY <1>5
    <2>2. Fresh(c)' <=> Fresh(c)
      BY <2>1, <1>1, <1>2, <1>3, <1>5
    <2> QED
      BY <2>1, <2>2, <1>2, <1>3 DEF AnswerInv, j, k
  <1>6. CASE placed[c] = 2
    <2>1. receiveBuffer'[c].size = receiveBuffer[c].size /\ answers'[c] = Tail(answers[c]) /\ placed'[c] = 0
      BY <1>6
    <2>2. j = k - 1 /\ (answers'[c] = <<>> <=> k = 1)
      BY <2>1, <1>1, <1>3
    <2>3. Fresh(c)' <=> Fresh(c)
      BY <2>1, <2>2, <1>1, <1>2, <1>3, <1>6
    <2>4. j <= 2 /\ j # 2
      BY <2>2, <1>1, <1>2
    <2> QED
      BY <2>1, <2>3, <2>4, <1>2, <1>3 DEF AnswerInv, j, k
  <1> QED
    BY <1>4, <1>5, <1>6
\* The adapter places an answer, or a part of it, in the client's memory.
LEMMA PlaceStep ==
    ASSUME EchoInv, NEW c \in Clients, PlaceAnswer(c), UNCHANGED clientVars,
           UNCHANGED <<requestVars, acceptVars, serverVars>>,
           UNCHANGED <<doorBells, base, recvs, recvCq, slot, transport>>
    PROVE  EchoInv'
  <1> USE AnswerAssumption, RecvVsPollAssumption
  <1>0. /\ Shapes /\ AnswerInv(c) /\ answers[c] \in Seq(Answer) /\ answers \in [Clients -> Seq(Answer)]
        /\ placed \in [Clients -> 0..2] /\ (~Torn => placed[c] = 0)
        /\ receiveBuffer \in [Clients -> [size : Sizes \cup {0}, body : Bodies, valid : SUBSET Sizes]]
    BY EchoFacts DEF Shapes
  <1> DEFINE a == Head(answers[c])
             m == receiveBuffer[c]
             stage == IF Torn THEN placed[c] ELSE 3
             r == CASE stage = 0 -> WithSize(m, a)
                    [] stage = 1 -> WithBody(m, a)
                    [] stage = 2 -> WithValidity(m, a)
                    [] stage = 3 -> WithValidity(WithBody(WithSize(m, a), a), a)
             p == IF stage >= 2 THEN 0 ELSE placed[c] + 1
             q == IF stage >= 2 THEN Tail(answers[c]) ELSE answers[c]
             S == Seq(Answer)
             R == [size : Sizes \cup {0}, body : Bodies, valid : SUBSET Sizes]
  <1>1. /\ answers[c] # <<>> /\ receiveBuffer' = [receiveBuffer EXCEPT ![c] = r]
        /\ placed' = [placed EXCEPT ![c] = p] /\ answers' = [answers EXCEPT ![c] = q]
        /\ UNCHANGED <<sendBuffer, sendCounter, cpc, csize, request, bufferSize,
                       concurrent, requests, receives, accepted, ready, spc, sender, handled>>
    BY DEF PlaceAnswer, clientVars, requestVars, acceptVars, serverVars
  <1>2. a \in Answer /\ Tail(answers[c]) \in Seq(Answer) /\ a.size # 0
    <2>1. a \in Answer /\ Tail(answers[c]) \in Seq(Answer)
      BY <1>0, <1>1, TailFacts
    <2>2. \A x \in Answer : x.size # 0
      BY DEF Answer
    <2> QED
      BY <2>1, <2>2
  <1>3. stage \in 0..3 /\ (stage = 3 <=> ~Torn) /\ (Torn => stage = placed[c]) /\ m \in R
    BY <1>0
  <1>4. r \in R /\ r.size = IF ~Torn \/ placed[c] = 0 THEN a.size ELSE m.size
    <2>1. /\ WithSize(m, a) \in R /\ WithSize(m, a).size = a.size
          /\ WithBody(m, a) \in R /\ WithBody(m, a).size = m.size
          /\ WithValidity(m, a) \in R /\ WithValidity(m, a).size = m.size
      <3> HIDE DEF a, m
      <3> QED
        BY <1>2, <1>3 DEF WithSize, WithBody, WithValidity, Answer, Bodies
    <2>2. \A x \in R : /\ WithBody(x, a) \in R /\ WithBody(x, a).size = x.size
                       /\ WithValidity(x, a) \in R /\ WithValidity(x, a).size = x.size
      <3> HIDE DEF a, m
      <3> QED
        BY <1>2, <1>3 DEF WithSize, WithBody, WithValidity, Answer, Bodies
    <2> HIDE DEF R, stage, a, m
    <2>3. CASE stage = 0
      BY <2>1, <2>3, <1>3
    <2>4. CASE stage = 1
      BY <2>1, <2>4, <1>3
    <2>5. CASE stage = 2
      BY <2>1, <2>5, <1>3
    <2>6. CASE stage = 3
      BY <2>1, <2>2, <2>6, <1>3
    <2> QED
      BY <2>3, <2>4, <2>5, <2>6, <1>3
  <1>5. q \in S /\ p \in 0..2 /\ (~Torn => p = 0)
        /\ IF ~Torn \/ placed[c] = 2 THEN p = 0 /\ q = Tail(answers[c])
           ELSE p = placed[c] + 1 /\ q = answers[c]
    BY <1>0, <1>2, <1>3
  <1> HIDE DEF a, m, stage, r, p, q, S
  <1>6. /\ answers' \in [Clients -> S] /\ answers'[c] = q
        /\ receiveBuffer' \in [Clients -> R] /\ receiveBuffer'[c] = r
        /\ placed' \in [Clients -> 0..2] /\ placed'[c] = p
        /\ \A d \in Clients : d # c => /\ answers'[d] = answers[d] /\ placed'[d] = placed[d]
                                       /\ receiveBuffer'[d] = receiveBuffer[d]
    <2>1. answers \in [Clients -> S]
      BY <1>0 DEF S
    <2>2. answers' \in [Clients -> S] /\ answers'[c] = q /\ \A d \in Clients : d # c => answers'[d] = answers[d]
      BY <2>1, <1>1, <1>5
    <2>3. /\ receiveBuffer' \in [Clients -> R] /\ receiveBuffer'[c] = r
          /\ \A d \in Clients : d # c => receiveBuffer'[d] = receiveBuffer[d]
      <3> HIDE DEF R
      <3>1. receiveBuffer \in [Clients -> R]
        BY <1>0 DEF R
      <3> QED
        BY <3>1, <1>1, <1>4
    <2>4. /\ placed' \in [Clients -> 0..2] /\ placed'[c] = p
          /\ \A d \in Clients : d # c => placed'[d] = placed[d]
      BY <1>0, <1>1, <1>5
    <2> QED
      BY <2>2, <2>3, <2>4
  <1>7. Shapes'
    <2>1. answers' \in [Clients -> Seq(Answer)]
      BY <1>6 DEF S
    <2>2. ~Torn => \A d \in Clients : placed'[d] = 0
      BY <1>0, <1>5, <1>6 DEF Shapes
    <2>3. sendBuffer.size \in Sizes /\ sendBuffer.body # NoBody
      BY <1>0, <1>1 DEF Shapes
    <2> QED
      BY <2>1, <2>2, <2>3, <1>0, <1>1, <1>6 DEF Shapes
  <1>8. AnswerInv(c)'
    <2>1. receiveBuffer[c].size \in Sizes \cup {0} /\ placed[c] \in 0..2
      BY <1>0
    <2>2. /\ receiveBuffer'[c].size =
                IF ~Torn \/ placed[c] = 0 THEN Head(answers[c]).size ELSE receiveBuffer[c].size
          /\ Head(answers[c]).size # 0
      BY <1>2, <1>4, <1>6 DEF a, m
    <2>3. IF ~Torn \/ placed[c] = 2
          THEN placed'[c] = 0 /\ answers'[c] = Tail(answers[c])
          ELSE placed'[c] = placed[c] + 1 /\ answers'[c] = answers[c]
      BY <1>5, <1>6
    <2> QED
      BY <2>1, <2>2, <2>3, <1>0, <1>1, <1>6, <1>5, PlaceStage
  <1> QED
    BY <1>1, <1>6, <1>7, <1>8, OneClient

\* Nothing comes before the first request of a queue.
LEMMA EmptyConcat ==
    ASSUME NEW t \in {"Doorbells", "Recv", "Direct"}, t = "Direct" => ~TornRequests,
           NEW w, w = DataWrite \o Announcement(t)
    PROVE  <<>> \o w = w
  <1>1. w \in Seq({"size", "body", "data", "doorBell", "imm"})
    <2>1. CASE t = "Direct"
      <3>1. w = <<"data">>
        BY <2>1, RemainingIs
      <3> QED
        BY <3>1
    <2>2. CASE t # "Direct"
      <3> PICK b \in {"doorBell", "imm"} :
              w = IF TornRequests THEN <<"size", "body", b>> ELSE <<"data", b>>
        BY <2>2, RemainingIs
      <3> DEFINE S == {"size", "body", "data", "doorBell", "imm"}
      <3>0. "size" \in S /\ "body" \in S /\ "data" \in S /\ b \in S
        OBVIOUS
      <3> HIDE DEF S
      <3>1. CASE w = <<"size", "body", b>>
        <4>1. w \in Seq(S)
          BY <3>0, <3>1
        <4> QED
          BY <4>1 DEF S
      <3>2. CASE w = <<"data", b>>
        <4>1. w \in Seq(S)
          BY <3>0, <3>2
        <4> QED
          BY <4>1 DEF S
      <3> QED
        BY <3>1, <3>2
    <2> QED
      BY <2>1, <2>2
  <1> QED
    BY <1>1, ConcatEmptySeq

\* A client whose last answer was read sends its next request.
LEMMA PostStep ==
    ASSUME DirectSafe, EchoInv, NEW c \in Clients, NEW w, PostRequest(c, w),
           w = DataWrite \o Announcement(transport),
           UNCHANGED <<doorBells, base, recvs, recvCq, slot, transport>>
    PROVE  EchoInv'
  <1> USE AnswerAssumption, RecvVsPollAssumption
  <1>0. /\ Shapes /\ ServerInv /\ BellInv /\ RecvInv
        /\ \A d \in Clients : RequestInv(d) /\ AnswerInv(d)
        /\ transport \in {"Doorbells", "Recv", "Direct"} /\ MaxRequests \in Nat
    BY EchoFacts
  <1>1. transport = "Direct" => ~TornRequests
    <2>1. transport \in Transports
      BY <1>0 DEF Shapes
    <2> QED
      BY <2>1 DEF DirectSafe
  <1>2. w \in Remaining(transport) /\ w # <<>> /\ SizeLeft(w) /\ BodyLeft(w) /\ <<>> \o w = w
    BY <1>0, <1>1, AllWrites, EmptyConcat
  <1>3. PICK n \in Sizes : NewRequest(c, n)
    BY DEF PostRequest
  <1> DEFINE k == request[c].number
             new == [size |-> n, body |-> <<c, k + 1>>, number |-> k + 1]
  <1>4. /\ cpc[c] = "idle" /\ k < MaxRequests /\ cpc' = [cpc EXCEPT ![c] = "sending"]
        /\ request' = [request EXCEPT ![c] = new] /\ requests' = [requests EXCEPT ![c] = @ \o w]
        /\ UNCHANGED <<sendBuffer, answers, placed, sendCounter, receiveBuffer, csize, bufferSize,
                       concurrent, receives, accepted, ready, spc, sender, handled>>
    BY <1>3 DEF PostRequest, NewRequest, answerVars, acceptVars, serverVars
  <1>5. /\ ~Pending(c) /\ ~Fresh(c) /\ receiveBuffer[c].size = 0
        /\ requests[c] = <<>> /\ ~Announced(c) /\ ~Held(c)
        /\ k \in Nat /\ handled[c] = k
    <2>1. ~Pending(c) /\ ~Fresh(c) /\ receiveBuffer[c].size = 0
      BY <1>0, <1>4 DEF AnswerInv
    <2>2. requests[c] = <<>> /\ ~Announced(c) /\ ~Held(c)
      BY <2>1, <1>0 DEF RequestInv
    <2>3. k \in Nat /\ handled[c] \in Nat /\ k \in {handled[c], handled[c] + 1} /\ ~(handled[c] < k)
      BY <2>1, <1>0 DEF RequestInv, Pending
    <2> QED
      BY <2>1, <2>2, <2>3
  <1>6. new \in [size : Sizes \cup {0}, body : Bodies, number : 0..MaxRequests]
    BY <1>4, <1>5 DEF Bodies
  <1>7. /\ cpc \in [Clients -> {"connecting", "idle", "sending",
                          "awaitSize", "awaitValidity", "callback"}]
        /\ request \in [Clients -> [size : Sizes \cup {0}, body : Bodies, number : 0..MaxRequests]]
        /\ requests \in [Clients -> Remaining(transport)]
    BY <1>0 DEF Shapes
  <1> HIDE DEF new
  <1>8. /\ request' \in [Clients -> [size : Sizes \cup {0}, body : Bodies, number : 0..MaxRequests]]
        /\ request'[c] = new /\ \A d \in Clients : d # c => request'[d] = request[d]
    BY <1>4, <1>6, <1>7
  <1>9. /\ requests' \in [Clients -> Remaining(transport)]
        /\ requests'[c] = w /\ \A d \in Clients : d # c => requests'[d] = requests[d]
    <2>1. requests' = [requests EXCEPT ![c] = w]
      BY <1>2, <1>4, <1>5
    <2> QED
      BY <2>1, <1>2, <1>7
  <1>10. /\ cpc' \in [Clients -> {"connecting", "idle", "sending",
                          "awaitSize", "awaitValidity", "callback"}]
         /\ cpc'[c] = "sending" /\ \A d \in Clients : d # c => cpc'[d] = cpc[d]
    BY <1>4, <1>7
  <1>11. Shapes'
    BY <1>0, <1>4, <1>8, <1>9, <1>10 DEF Shapes
  <1>12. ServerInv' /\ BellInv' /\ RecvInv'
    <2>1. \A d \in Clients : cpc'[d] = "connecting" <=> cpc[d] = "connecting"
      BY <1>4, <1>10
    <2>2. ServerInv'
      BY <2>1, <1>0, <1>4 DEF ServerInv
    <2> QED
      BY <2>2, <1>0, <1>4 DEF BellInv, RecvInv, Doorbells!DoorbellTypeOK
  <1>13. ASSUME NEW d \in Clients PROVE RequestInv(d)' /\ AnswerInv(d)'
    <2>1. (Announced(d)' <=> Announced(d)) /\ (Held(d)' <=> Held(d))
      BY <1>4 DEF Announced, Held
    <2>2. CASE d # c
      BY <2>1, <2>2, <1>0, <1>4, <1>8, <1>9, <1>10, RequestFrame, AnswerFrame
    <2>3. CASE d = c
      <3>1. /\ request'[c].number = handled[c] + 1 /\ request'[c].size = n
            /\ request'[c].body = <<c, handled[c] + 1>> /\ handled'[c] = handled[c]
            /\ handled[c] \in Nat /\ handled[c] < MaxRequests
        BY <1>4, <1>5, <1>8 DEF new
      <3>2. Pending(c)'
        BY <3>1 DEF Pending
      <3>3. RequestInv(c)'
        BY <3>1, <3>2, <2>1, <2>3, <1>0, <1>2, <1>5, <1>9, <1>10 DEF RequestInv
      <3>4. AnswerInv(c)'
        <4>1. ~Fresh(c)' /\ receiveBuffer'[c].size = 0 /\ AnswerInv(c)
          BY <1>0, <1>4, <1>5 DEF Fresh
        <4> QED
          BY <4>1, <1>4, <1>10 DEF AnswerInv
      <3> QED
        BY <2>3, <3>3, <3>4
    <2> QED
      BY <2>2, <2>3
  <1> QED
    BY <1>11, <1>12, <1>13 DEF EchoInv

\* A write of a request reaches the server's memory, or announces it.
LEMMA DeliverStep ==
    ASSUME DirectSafe, EchoInv, NEW c \in Clients, Deliver(c),
           IF transport = "Doorbells"
           THEN doorBells' = [doorBells EXCEPT ![c] = @ \/ Head(requests[c]) = "doorBell"]
           ELSE doorBells' = doorBells,
           IF transport = "Recv" /\ Head(requests[c]) = "imm"
           THEN recvs > 0 /\ recvs' = recvs - 1 /\ recvCq' = Append(recvCq, c)
           ELSE UNCHANGED <<recvs, recvCq>>,
           UNCHANGED <<base, slot, transport>>
    PROVE  EchoInv'
  <1> USE AnswerAssumption, RecvVsPollAssumption
  <1>0. /\ Shapes /\ ServerInv /\ BellInv /\ RecvInv
        /\ \A d \in Clients : RequestInv(d) /\ AnswerInv(d)
        /\ transport \in {"Doorbells", "Recv", "Direct"} /\ Clients \subseteq 0..MaxClients - 1
    BY EchoFacts
  <1> DEFINE w == requests[c]
             R == [size : Sizes \cup {0}, body : Bodies]
             new == [size |-> IF Head(w) \in {"size", "data"} THEN request[c].size ELSE receives[c].size,
                     body |-> IF Head(w) \in {"body", "data"} THEN request[c].body ELSE receives[c].body]
  <1>1. /\ w # <<>> /\ requests' = [requests EXCEPT ![c] = Tail(w)]
        /\ UNCHANGED <<sendBuffer, answers, placed, sendCounter, receiveBuffer, csize, request, cpc,
                       bufferSize, concurrent, accepted, ready, spc, sender, handled>>
    BY DEF Deliver, answerVars, clientVars, acceptVars, serverVars
  <1>2. /\ request \in [Clients -> [size : Sizes \cup {0}, body : Bodies, number : 0..MaxRequests]]
        /\ requests \in [Clients -> Remaining(transport)] /\ receives \in [Clients -> R]
        /\ doorBells \in [0..MaxClients - 1 -> BOOLEAN] /\ recvCq \in Seq(Clients)
        /\ transport = "Direct" => ~TornRequests
    <2>1. /\ request \in [Clients -> [size : Sizes \cup {0}, body : Bodies, number : 0..MaxRequests]]
          /\ requests \in [Clients -> Remaining(transport)] /\ receives \in [Clients -> R]
          /\ transport \in Transports
      BY <1>0 DEF Shapes
    <2>2. doorBells \in [0..MaxClients - 1 -> BOOLEAN] /\ recvCq \in Seq(Clients)
      BY <1>0 DEF BellInv, RecvInv, Doorbells!DoorbellTypeOK
    <2> QED
      BY <2>1, <2>2 DEF DirectSafe
  <1>3. receives' = [receives EXCEPT ![c] = new]
    <2>1. receives' = [receives EXCEPT
            ![c].size = IF Head(w) \in {"size", "data"} THEN request[c].size ELSE @,
            ![c].body = IF Head(w) \in {"body", "data"} THEN request[c].body ELSE @]
      BY DEF Deliver
    <2> DEFINE x == IF Head(w) \in {"size", "data"} THEN request[c].size ELSE receives[c].size
               y == IF Head(w) \in {"body", "data"} THEN request[c].body ELSE receives[c].body
               e == [size |-> x, body |-> receives[c].body]
               h == [receives EXCEPT ![c] = e]
    <2>2. receives[c] = [size |-> receives[c].size, body |-> receives[c].body]
      BY <1>2
    <2> HIDE DEF w, x, y
    <2>3. [receives[c] EXCEPT !.size = x] = e
      BY <2>2
    <2>4. h[c] = e /\ h[c].body = receives[c].body
      BY <1>2
    <2>5. [e EXCEPT !.body = y] = [size |-> x, body |-> y]
      OBVIOUS
    <2> QED
      BY <2>1, <2>2, <2>3, <2>4, <2>5, <1>2 DEF x, y
  <1>4. cpc[c] = "sending" /\ Pending(c) /\ ~Announced(c) /\ ~Held(c) /\ RequestInv(c)
    BY <1>0, <1>1 DEF RequestInv
  <1>5. new \in R
    BY <1>2
  <1>6. /\ w \in Remaining(transport) /\ Tail(w) \in Remaining(transport)
        /\ Head(w) \in {"size", "data", "body", "doorBell", "imm"}
        /\ Head(w) = "size" => Tail(w) # <<>> /\ Head(Tail(w)) = "body"
        /\ Head(w) \in {"data", "body"} =>
                IF transport = "Direct" THEN Head(w) = "data" /\ Tail(w) = <<>>
                ELSE Tail(w) # <<>> /\ Head(Tail(w)) \in {"doorBell", "imm"}
        /\ Head(w) = "doorBell" => transport = "Doorbells" /\ Tail(w) = <<>>
        /\ Head(w) = "imm" => transport = "Recv" /\ Tail(w) = <<>>
        /\ transport = "Direct" => Head(w) = "data"
    <2>1. w \in Remaining(transport)
      BY <1>2
    <2> HIDE DEF w
    <2> QED
      BY <2>1, <1>0, <1>1, <1>2, RemainingWrites
  <1>7. /\ receives' \in [Clients -> R] /\ receives'[c] = new
        /\ \A d \in Clients : d # c => receives'[d] = receives[d]
    <2> HIDE DEF new, R
    <2> QED
      BY <1>2, <1>3, <1>5
  <1>8. /\ requests' \in [Clients -> Remaining(transport)] /\ requests'[c] = Tail(w)
        /\ \A d \in Clients : d # c => requests'[d] = requests[d]
    BY <1>1, <1>2, <1>6
  <1>9. Shapes'
    BY <1>0, <1>1, <1>7, <1>8 DEF Shapes
  <1>10. /\ doorBells' \in [0..MaxClients - 1 -> BOOLEAN]
         /\ \A i \in 0..MaxClients - 1 : i # c => doorBells'[i] = doorBells[i]
         /\ doorBells[c] => doorBells'[c]
         /\ ~(transport = "Doorbells" /\ Head(w) = "doorBell") /\ doorBells'[c] => doorBells[c]
    BY <1>0, <1>2, Zenon
  <1>11. /\ recvs' \in Nat /\ recvCq' \in Seq(Clients)
         /\ \A i, j \in 1..Len(recvCq') : recvCq'[i] = recvCq'[j] => i = j
         /\ transport = "Recv" => recvs' + Len(recvCq') = accepted
         /\ \A d \in Clients : d # c =>
                ((\E i \in 1..Len(recvCq') : recvCq'[i] = d) <=> (\E i \in 1..Len(recvCq) : recvCq[i] = d))
    <2>1. CASE transport = "Recv" /\ Head(w) = "imm"
      <3>1. recvs \in Nat /\ recvs > 0 /\ recvs' = recvs - 1 /\ recvCq' = Append(recvCq, c)
            /\ recvs + Len(recvCq) = accepted
            /\ \A i, j \in 1..Len(recvCq) : recvCq[i] = recvCq[j] => i = j
        BY <2>1, <1>0 DEF RecvInv
      <3>2. \A i \in 1..Len(recvCq) : recvCq[i] # c
        BY <2>1, <1>4 DEF Announced
      <3> DEFINE q == recvCq
                 r == recvCq'
                 l == Len(recvCq)
      <3>3. /\ l \in Nat /\ r \in Seq(Clients) /\ Len(r) = l + 1
            /\ \A i \in 1..l : r[i] = q[i]
            /\ r[l + 1] = c
        BY <3>1, <1>2, AppendFacts
      <3>4. \A i, j \in 1..l : q[i] = q[j] => i = j
        BY <3>1
      <3>5. \A i \in 1..l : q[i] # c
        BY <3>2
      <3>6. recvs' \in Nat /\ recvs' + (l + 1) = accepted
        BY <3>1, <3>3
      <3> HIDE DEF q, r, l
      <3>7. \A i, j \in 1..l + 1 : r[i] = r[j] => i = j
        BY <3>3, <3>4, <3>5
      <3>8. \A d \in Clients : d # c => ((\E i \in 1..l + 1 : r[i] = d) <=> (\E i \in 1..l : q[i] = d))
        BY <3>3, <3>4, <3>5
      <3> QED
        BY <3>3, <3>6, <3>7, <3>8 DEF q, r, l
    <2>2. CASE ~(transport = "Recv" /\ Head(w) = "imm")
      BY <2>2, <1>0, <1>1 DEF RecvInv
    <2> QED
      BY <2>1, <2>2
  <1>12. BellInv' /\ RecvInv'
    <2>1. BellInv'
      <3>1. \A i \in 0..MaxClients - 1 : doorBells'[i] => i \in Clients
        BY <1>0, <1>10 DEF BellInv
      <3> QED
        BY <3>1, <1>0, <1>10 DEF BellInv, Doorbells!DoorbellTypeOK
    <2>2. RecvInv'
      BY <1>1, <1>11 DEF RecvInv
    <2> QED
      BY <2>1, <2>2
  <1>13. ServerInv'
    <2>1. \A d \in Clients : doorBells[d] => doorBells'[d]
      BY <1>0, <1>10
    <2> QED
      BY <2>1, <1>0, <1>1 DEF ServerInv
  <1>14. ASSUME NEW d \in Clients PROVE RequestInv(d)' /\ AnswerInv(d)'
    <2>1. Held(d)' <=> Held(d)
      BY <1>1 DEF Held
    <2>2. AnswerInv(d)'
      BY <1>0, <1>1, AnswerFrame
    <2>3. CASE d # c
      <3>1. Announced(d)' <=> Announced(d)
        <4>1. doorBells'[d] = doorBells[d]
          BY <2>3, <1>0, <1>10
        <4>2. receives'[d] = receives[d]
          BY <2>3, <1>7
        <4>3. (\E i \in 1..Len(recvCq') : recvCq'[i] = d) <=> (\E i \in 1..Len(recvCq) : recvCq[i] = d)
          BY <2>3, <1>11
        <4> QED
          BY <4>1, <4>2, <4>3 DEF Announced
      <3> QED
        BY <3>1, <2>1, <2>2, <2>3, <1>0, <1>1, <1>7, <1>8, RequestFrame
    <2>4. CASE d = c
      <3>1. requests'[c] # <<>> => ~Announced(c)'
        <4>1. SUFFICES ASSUME Tail(w) # <<>> PROVE ~Announced(c)'
          BY <1>8
        <4>2. transport # "Direct" /\ Head(w) \notin {"doorBell", "imm"}
          BY <4>1, <1>6
        <4>3. transport = "Doorbells" => ~doorBells'[c]
          BY <4>2, <1>4, <1>10 DEF Announced
        <4>4. transport = "Recv" => ~ \E i \in 1..Len(recvCq') : recvCq'[i] = c
          BY <4>2, <1>4 DEF Announced
        <4> QED
          BY <4>2, <4>3, <4>4 DEF Announced
      <3>2. ~SizeLeft(requests'[c]) => receives'[c].size = request[c].size
        <4>1. SUFFICES ASSUME ~SizeLeft(Tail(w)) PROVE new.size = request[c].size
          BY <1>7, <1>8
        <4>2. CASE Head(w) \in {"size", "data"}
          BY <4>2
        <4>3. CASE Head(w) \notin {"size", "data"}
          <5>1. ~SizeLeft(w)
            BY <4>3 DEF SizeLeft
          <5> QED
            BY <5>1, <4>3, <1>4 DEF RequestInv
        <4> QED
          BY <4>2, <4>3
      <3>3. ~BodyLeft(requests'[c]) => receives'[c].body = request[c].body
        <4>1. SUFFICES ASSUME ~BodyLeft(Tail(w)) PROVE new.body = request[c].body
          BY <1>7, <1>8
        <4>2. Head(w) # "size"
          BY <4>1, <1>6 DEF BodyLeft
        <4>3. CASE Head(w) \in {"body", "data"}
          BY <4>3
        <4>4. CASE Head(w) \notin {"body", "data"}
          <5>1. ~BodyLeft(w)
            BY <4>2, <4>4 DEF BodyLeft
          <5> QED
            BY <5>1, <4>4, <1>4 DEF RequestInv
        <4> QED
          BY <4>3, <4>4
      <3>4. Pending(c)' /\ ~Held(c)' /\ cpc'[c] = "sending" /\ request'[c] = request[c]
            /\ handled'[c] = handled[c] /\ requests'[c] \in Remaining(transport)
        BY <2>1, <2>4, <1>1, <1>4, <1>6, <1>8 DEF Pending
      <3> QED
        BY <3>1, <3>2, <3>3, <3>4, <2>2, <2>4, <1>4 DEF RequestInv
    <2> QED
      BY <2>3, <2>4
  <1> QED
    BY <1>9, <1>12, <1>13, <1>14 DEF EchoInv

-----------------------------------------------------------------------------
(* Every step, and what follows                                             *)

\* A step that touches none of the variables the invariant is about.
LEMMA SameState ==
    ASSUME EchoInv,
           UNCHANGED <<sendBuffer, answers, placed, sendCounter, receiveBuffer, cpc, csize, request,
                       bufferSize, concurrent, requests, receives, accepted, ready, spc, sender,
                       handled, doorBells, base, recvs, recvCq, slot, transport>>
    PROVE  EchoInv'
  <1>1. PICK c \in Clients : TRUE
    BY EchoFacts
  <1>2. Shapes' /\ AnswerInv(c)'
    <2>1. Shapes /\ AnswerInv(c)
      BY EchoFacts
    <2> QED
      BY <2>1, AnswerFrame DEF Shapes
  <1> QED
    BY <1>2, OneClient

\* The invariant is inductive: one case per operation of each transport.
LEMMA EchoStep ==
    ASSUME DirectSafe, EchoInv, [Next]_vars
    PROVE  EchoInv'
  <1> USE AnswerAssumption, RecvVsPollAssumption
  <1>0. transport \in Transports /\ transport \in {"Doorbells", "Recv", "Direct"}
    BY EchoFacts DEF Shapes
  <1>1. CASE Server
    <2>1. CASE Recvs(Recv!Accept)
      <3>1. /\ transport = "Recv" /\ UNCHANGED <<doorBells, base, recvCq, slot, transport>>
            /\ \/ ExchangeAddresses /\ recvs' = recvs + 1
               \/ ConnectQp /\ UNCHANGED recvs
        BY <2>1, RecvsServer DEF Recvs, By
      <3> QED
        BY <3>1, ExchangeStep, ServerMoves
    <2>2. CASE transport # "Recv" /\ (ExchangeAddresses \/ ConnectQp) /\ UNCHANGED <<findVars, transport>>
      BY <2>2, ExchangeStep, ServerMoves DEF findVars
    <2>3. CASE Bells(Doorbells!Receive)
      <3>1. /\ transport = "Doorbells" /\ UNCHANGED <<recvs, recvCq, slot, transport>>
            /\ Doorbells!PollGroup \/ Doorbells!ClearDoorbell \/ Doorbells!Handle
        BY <2>3 DEF Bells, By, Doorbells!Receive
      <3>2. CASE Doorbells!PollGroup
        BY <3>1, <3>2, PollBellsStep
      <3>3. CASE Doorbells!ClearDoorbell
        BY <3>1, <3>3, ClearBellStep
      <3>4. CASE Doorbells!Handle
        BY <3>1, <3>4, BellsServer, HandleStep
      <3> QED
        BY <3>1, <3>2, <3>3, <3>4
    <2>4. CASE Recvs(Recv!Receive)
      <3>1. /\ transport = "Recv" /\ UNCHANGED <<doorBells, base, slot, transport>>
            /\ Recv!PollRecv \/ Recv!Handle
        BY <2>4 DEF Recvs, By, Recv!Receive
      <3>2. CASE Recv!PollRecv
        BY <3>1, <3>2, PollRecvStep
      <3>3. CASE Recv!Handle
        BY <3>1, <3>3, RecvsServer, HandleStep
      <3> QED
        BY <3>1, <3>2, <3>3
    <2>5. CASE Slots(Direct!Receive)
      <3>1. /\ transport = "Direct" /\ UNCHANGED <<doorBells, base, recvs, recvCq, transport>>
            /\ Direct!PollSlot \/ Direct!Handle
        BY <2>5 DEF Slots, By, Direct!Receive
      <3>2. CASE Direct!PollSlot
        BY <3>1, <3>2, PollSlotStep
      <3>3. CASE Direct!Handle
        BY <3>1, <3>3, SlotsServer, HandleStep
      <3> QED
        BY <3>1, <3>2, <3>3
    <2>6. CASE (RejectRequest \/ AnswerSignaled) /\ UNCHANGED <<findVars, transport>>
      BY <2>6, ServerMoves DEF findVars
    <2> QED
      BY <1>1, <2>1, <2>2, <2>3, <2>4, <2>5, <2>6 DEF Server
  <1>2. ASSUME NEW c \in Clients, Client(c) PROVE EchoInv'
    <2>1. (transport # "Doorbells") \in BOOLEAN
      OBVIOUS
    <2> QED
      BY <2>1, <1>2, ReceiveStep DEF Client, findVars
  <1>3. ASSUME NEW c \in Clients, Adapter(c) PROVE EchoInv'
    <2>1. CASE Bells(Doorbells!DeliverRequest(c))
      <3>1. /\ transport = "Doorbells" /\ Deliver(c)
            /\ doorBells' = [doorBells EXCEPT ![c] = @ \/ Head(requests[c]) = "doorBell"]
            /\ UNCHANGED <<base, recvs, recvCq, slot, transport>>
        BY <2>1, BellsClient DEF Bells, By
      <3> QED
        BY <3>1, DeliverStep
    <2>2. CASE Recvs(Recv!DeliverRequest(c))
      <3>1. /\ transport = "Recv" /\ Deliver(c)
            /\ IF Head(requests[c]) = "imm"
               THEN recvs > 0 /\ recvs' = recvs - 1 /\ recvCq' = Append(recvCq, c)
               ELSE UNCHANGED <<recvs, recvCq>>
            /\ UNCHANGED <<doorBells, base, slot, transport>>
        BY <2>2, RecvsClient DEF Recvs, By
      <3> QED
        BY <3>1, DeliverStep
    <2>3. CASE Slots(Direct!DeliverRequest(c))
      <3>1. /\ transport = "Direct" /\ Deliver(c)
            /\ UNCHANGED <<doorBells, base, recvs, recvCq, slot, transport>>
        BY <2>3, SlotsClient DEF Slots, By
      <3> QED
        BY <3>1, DeliverStep
    <2>4. CASE /\ AdapterStep(c)
               /\ UNCHANGED <<requestVars, acceptVars, serverVars, findVars, transport>>
      BY <2>4, FetchStep, PlaceStep DEF AdapterStep, findVars
    <2>5. CASE LoseRequest(c) /\ UNCHANGED <<findVars, transport>>
      <3>1. UNCHANGED <<sendBuffer, answers, placed, sendCounter, receiveBuffer, cpc, csize, request,
                        bufferSize, concurrent, requests, receives, accepted, ready, spc, sender,
                        handled, doorBells, base, recvs, recvCq, slot, transport>>
        BY <2>5 DEF LoseRequest, findVars, answerVars, clientVars, requestVars, serverVars
      <3> QED
        BY <3>1, SameState
    <2> QED
      BY <1>3, <2>1, <2>2, <2>3, <2>4, <2>5 DEF Adapter
  <1>4. ASSUME NEW c \in Clients, Send(c) PROVE EchoInv'
    <2>1. CASE Bells(Doorbells!Send(c))
      <3>1. /\ PostRequest(c, DataWrite \o <<"doorBell">>)
            /\ transport = "Doorbells" /\ UNCHANGED <<doorBells, base, recvs, recvCq, slot, transport>>
        BY <2>1, BellsClient DEF Bells, By
      <3>2. Announcement(transport) = <<"doorBell">>
        BY <3>1 DEF Announcement
      <3> QED
        BY <3>1, <3>2, PostStep
    <2>2. CASE Recvs(Recv!Send(c))
      <3>1. /\ PostRequest(c, DataWrite \o <<"imm">>)
            /\ transport = "Recv" /\ UNCHANGED <<doorBells, base, recvs, recvCq, slot, transport>>
        BY <2>2, RecvsClient DEF Recvs, By
      <3>2. Announcement(transport) = <<"imm">>
        BY <3>1 DEF Announcement
      <3> QED
        BY <3>1, <3>2, PostStep
    <2>3. CASE Slots(Direct!Send(c))
      <3>1. /\ PostRequest(c, DataWrite)
            /\ transport = "Direct" /\ UNCHANGED <<doorBells, base, recvs, recvCq, slot, transport>>
        BY <2>3, SlotsClient DEF Slots, By
      <3>2. ~TornRequests
        BY <3>1, <1>0 DEF DirectSafe
      <3>3. DataWrite = DataWrite \o Announcement(transport)
        BY <3>1, <3>2, RemainingIs
      <3> QED
        BY <3>1, <3>3, PostStep
    <2> QED
      BY <1>4, <2>1, <2>2, <2>3 DEF Send
  <1>5. CASE UNCHANGED vars
    <2>1. UNCHANGED <<sendBuffer, answers, placed, sendCounter, receiveBuffer, cpc, csize, request,
                      bufferSize, concurrent, requests, receives, accepted, ready, spc, sender, handled,
                      doorBells, base, recvs, recvCq, slot, transport>>
      BY <1>5 DEF vars, sharedVars, findVars, answerVars, clientVars, requestVars, acceptVars, serverVars
    <2> QED
      BY <2>1, SameState
  <1> QED
    BY <1>1, <1>2, <1>3, <1>4, <1>5 DEF Next

\* The invariant holds throughout, whatever the transport.
LEMMA EchoAlways ==
    ASSUME DirectSafe
    PROVE  Spec => []EchoInv
  <1>1. EchoInv /\ [Next]_vars => EchoInv'
    BY EchoStep
  <1> QED
    BY <1>1, EchoInit, PTL DEF Spec

\* Only a client's write is lost.
LEMMA LostStep ==
    ASSUME lost \subseteq Clients, [Next]_vars
    PROVE  lost' \subseteq Clients
  <1>1. CASE Server
    <2>1. CASE Recvs(Recv!Accept)
      BY <2>1, RecvsServer DEF Recvs, ExchangeAddresses, ConnectQp
    <2>2. CASE transport # "Recv" /\ (ExchangeAddresses \/ ConnectQp) /\ UNCHANGED <<findVars, transport>>
      BY <2>2 DEF ExchangeAddresses, ConnectQp
    <2>3. CASE Bells(Doorbells!Receive)
      <3>1. Doorbells!PollGroup \/ Doorbells!ClearDoorbell \/ Doorbells!Handle
        BY <2>3 DEF Bells, Doorbells!Receive
      <3> QED
        BY <3>1, BellsServer DEF HandleRequest, acceptVars
    <2>4. CASE Recvs(Recv!Receive)
      <3>1. Recv!PollRecv \/ Recv!Handle
        BY <2>4 DEF Recvs, Recv!Receive
      <3> QED
        BY <3>1, RecvsServer DEF HandleRequest, acceptVars
    <2>5. CASE Slots(Direct!Receive)
      <3>1. Direct!PollSlot \/ Direct!Handle
        BY <2>5 DEF Slots, Direct!Receive
      <3> QED
        BY <3>1, SlotsServer DEF HandleRequest, acceptVars
    <2>6. CASE (RejectRequest \/ AnswerSignaled) /\ UNCHANGED <<findVars, transport>>
      BY <2>6 DEF RejectRequest, AnswerSignaled, acceptVars
    <2> QED
      BY <1>1, <2>1, <2>2, <2>3, <2>4, <2>5, <2>6 DEF Server
  <1>2. ASSUME NEW c \in Clients, Client(c) PROVE lost' \subseteq Clients
    BY <1>2 DEF Client, SendCompleted, acceptVars
  <1>3. ASSUME NEW c \in Clients, Adapter(c) PROVE lost' \subseteq Clients
    <2>1. Deliver(c) \/ LoseRequest(c) \/ UNCHANGED acceptVars
      BY <1>3, BellsClient, RecvsClient, SlotsClient DEF Adapter, Bells, Recvs, Slots
    <2> QED
      BY <2>1 DEF Deliver, LoseRequest, acceptVars
  <1>4. ASSUME NEW c \in Clients, Send(c) PROVE lost' \subseteq Clients
    <2>1. \E w : PostRequest(c, w)
      BY <1>4, BellsClient, RecvsClient, SlotsClient DEF Send, Bells, Recvs, Slots
    <2> QED
      BY <2>1 DEF PostRequest, acceptVars
  <1>5. CASE UNCHANGED vars
    BY <1>5 DEF vars, sharedVars, acceptVars
  <1> QED
    BY <1>1, <1>2, <1>3, <1>4, <1>5 DEF Next

LEMMA LostAlways == Spec => [](lost \subseteq Clients)
  <1>1. Init => lost \subseteq Clients
    BY DEF Init, ServerInit
  <1>2. lost \subseteq Clients /\ [Next]_vars => (lost \subseteq Clients)'
    BY LostStep DEF Clients
  <1> QED
    BY <1>1, <1>2, PTL DEF Spec

\* What the invariant says of the shape of the state.
LEMMA EchoTypes ==
    ASSUME DirectSafe
    PROVE  EchoInv /\ lost \subseteq Clients => TypeInvariant
  <1> SUFFICES ASSUME EchoInv, lost \subseteq Clients PROVE TypeInvariant
    OBVIOUS
  <1> USE AnswerAssumption, RecvVsPollAssumption
  <1>0. /\ Shapes /\ ServerInv /\ BellInv
        /\ transport \in {"Doorbells", "Recv", "Direct"}
    BY EchoFacts
  <1>1. AnswerTypeOK
    <2>1. receiveBuffer \in [Clients -> [size : Sizes \cup {0}, body : Bodies, valid : SUBSET Sizes]]
          /\ answers \in [Clients -> Seq(Answer)]
      BY <1>0 DEF Shapes
    <2>2. \A c \in Clients : /\ receiveBuffer[c].size \in Sizes \cup {0}
                             /\ receiveBuffer[c].valid \subseteq Sizes
      BY <2>1
    <2>3. \A c \in Clients : answers[c] \in
            Seq([len : Sizes, size : Sizes, body : Clients \X (1..MaxRequests), late : BOOLEAN])
      BY <2>1 DEF Answer
    <2> QED
      BY <2>2, <2>3, <1>0 DEF AnswerTypeOK, Shapes
  <1>2. \A c \in Clients : Len(requests[c]) <= 3
    <2>1. transport \in Transports /\ requests \in [Clients -> Remaining(transport)]
      BY <1>0 DEF Shapes
    <2>2. transport = "Direct" => ~TornRequests
      BY <2>1 DEF DirectSafe
    <2> QED
      BY <2>1, <2>2, <1>0, RemainingLen
  <1>3. \A c \in Clients : receives[c].size \in Sizes \cup {0}
    BY <1>0 DEF Shapes
  <1>4. /\ accepted \in 0..NumClients /\ ready \subseteq Clients /\ sender \in Clients
        /\ spc \in {"accept", "connectQp", "poll", "clear", "handle", "waitCompletion"}
    BY <1>0 DEF ServerInv
  <1>5. handled \in [Clients -> 0..MaxRequests]
    BY <1>0 DEF Shapes
  <1> QED
    BY <1>0, <1>1, <1>2, <1>3, <1>4, <1>5 DEF TypeInvariant, TypeOK, BellInv

\* Type correctness, for any number of clients and any sizes: in particular the
\* scan of the doorbells never leaves them, whatever MAX_CLIENTS is.
THEOREM EchoTypeCorrect ==
    ASSUME DirectSafe
    PROVE  Spec => []TypeInvariant
  BY EchoAlways, LostAlways, EchoTypes, PTL

\* When the server takes a request its slot holds all of it.
LEMMA TakenWhole == EchoInv => RequestsTakenOnce
  <1> SUFFICES ASSUME EchoInv PROVE RequestsTakenOnce
    OBVIOUS
  <1>1. \A c \in Clients : handled[c] <= request[c].number
    <2> TAKE c \in Clients
    <2>1. request[c].number \in {handled[c], handled[c] + 1} /\ handled[c] \in Nat
      BY EchoFacts DEF RequestInv
    <2> QED
      BY <2>1
  <1>2. ASSUME spc = "handle"
        PROVE  /\ receives[sender].body = request[sender].body
               /\ receives[sender].size = request[sender].size
               /\ handled[sender] < request[sender].number
    <2>1. sender \in Clients /\ RequestInv(sender)
      BY EchoFacts
    <2>2. Held(sender)
      BY <1>2 DEF Held
    <2>3. Pending(sender) /\ requests[sender] = <<>>
      BY <2>1, <2>2 DEF RequestInv
    <2> QED
      BY <2>1, <2>3 DEF RequestInv, Pending, SizeLeft, BodyLeft
  <1> QED
    BY <1>1, <1>2 DEF RequestsTakenOnce

\* Over each of the three transports every request is taken at most once, and
\* only when the server's slot holds all of it; also where the server can see
\* the parts of a write, if the announcement is a write of its own.
THEOREM TakenOnce ==
    ASSUME DirectSafe
    PROVE  Spec => []RequestsTakenOnce
  BY EchoAlways, TakenWhole, PTL

\* The module of the transport counts as this one does.
LEMMA SameCardinality == \A S : Recv!Cardinality(S) = Cardinality(S)
  BY Zenon DEF Recv!Cardinality, Cardinality

\* Two sets apart from each other, in an interval, one of them the entries of a
\* queue without repetitions: the other has no more elements than are left.
LEMMA Leftover ==
    ASSUME NEW m \in Nat, NEW S \in SUBSET (0..m - 1), NEW q \in Seq(0..m - 1),
           \A i, j \in 1..Len(q) : q[i] = q[j] => i = j,
           \A i \in 1..Len(q) : q[i] \notin S
    PROVE  Cardinality(S) \in Nat /\ Cardinality(S) + Len(q) <= m
  <1> DEFINE l == Len(q)
             T == {q[i] : i \in 1..l}
             f == [i \in 1..l |-> q[i]]
  <1>0. l \in Nat /\ \A i \in 1..l : q[i] \in 0..m - 1
    BY LenProperties, ElementOfSeq
  <1>1. IsFiniteSet(0..m - 1) /\ Cardinality(0..m - 1) = m
    <2>1. 0 \in Int /\ m - 1 \in Int /\ (IF 0 > m - 1 THEN 0 ELSE m - 1 - 0 + 1) = m
      OBVIOUS
    <2> QED
      BY <2>1, FS_Interval
  <1>2. IsFiniteSet(1..l) /\ Cardinality(1..l) = l
    <2>1. 1 \in Int /\ l \in Int /\ (IF 1 > l THEN 0 ELSE l - 1 + 1) = l
      BY <1>0
    <2> QED
      BY <2>1, FS_Interval
  <1>3. T \in SUBSET (0..m - 1) /\ S \cup T \in SUBSET (0..m - 1) /\ S \cap T = {}
    BY <1>0
  <1>4. /\ IsFiniteSet(S) /\ IsFiniteSet(T) /\ IsFiniteSet(S \cup T)
        /\ Cardinality(S \cup T) <= m
    BY <1>1, <1>3, FS_Subset
  <1>5. f \in Injection(1..l, T)
    <2>1. f \in [1..l -> T] /\ \A i, j \in 1..l : f[i] = f[j] => i = j
      OBVIOUS
    <2> HIDE DEF f, T
    <2> QED
      BY <2>1, Zenon DEF Injection, IsInjective
  <1>6. l <= Cardinality(T)
    BY <1>2, <1>4, <1>5, FS_Injection
  <1>7. Cardinality({}) = 0
    BY FS_EmptySet
  <1>8. Cardinality(S \cup T) = Cardinality(S) + Cardinality(T) - 0
    BY <1>3, <1>4, <1>7, FS_Union
  <1>9. Cardinality(S) \in Nat /\ Cardinality(T) \in Nat
    BY <1>4, FS_CardinalityType
  <1> QED
    BY <1>0, <1>4, <1>6, <1>8, <1>9

\* Requests on their way and completions are of different accepted clients.
LEMMA ReadyForEach == EchoInv => RecvsReady
  <1> SUFFICES ASSUME EchoInv, transport = "Recv" PROVE Recv!RecvsReady
    BY DEF RecvsReady
  <1> USE AnswerAssumption, RecvVsPollAssumption
  <1> DEFINE S == {c \in Clients : requests[c] # <<>>}
  <1>0. ServerInv /\ RecvInv /\ (\A c \in Clients : RequestInv(c)) /\ Clients \subseteq Nat
    BY EchoFacts
  <1>1. /\ accepted \in Nat /\ recvs \in Nat /\ recvCq \in Seq(Clients)
        /\ recvs + Len(recvCq) = accepted
        /\ \A i, j \in 1..Len(recvCq) : recvCq[i] = recvCq[j] => i = j
    BY <1>0 DEF ServerInv, RecvInv
  <1>2. \A c \in Clients : Pending(c) => c \in 0..accepted - 1
    BY <1>0, <1>1 DEF RequestInv, ServerInv
  <1>3. S \in SUBSET (0..accepted - 1)
    BY <1>0, <1>2 DEF RequestInv
  <1>4. \A i \in 1..Len(recvCq) : Announced(recvCq[i]) /\ recvCq[i] \in Clients
    <2> TAKE i \in 1..Len(recvCq)
    <2>1. recvCq[i] \in Clients
      BY <1>1, ElementOfSeq
    <2> QED
      BY <2>1 DEF Announced
  <1>5. \A i \in 1..Len(recvCq) : recvCq[i] \notin S /\ recvCq[i] \in 0..accepted - 1
    <2>1. \A c \in Clients : Announced(c) => requests[c] = <<>> /\ Pending(c)
      BY <1>0 DEF RequestInv
    <2> QED
      BY <2>1, <1>2, <1>4
  <1>6. recvCq \in Seq(0..accepted - 1)
    <2> DEFINE U == 0..accepted - 1
               l == Len(recvCq)
    <2>1. l \in Nat /\ recvCq = [i \in 1..l |-> recvCq[i]]
      BY <1>1, LenProperties
    <2>2. \A i \in 1..l : recvCq[i] \in U
      BY <1>5
    <2> HIDE DEF U, l
    <2>3. [i \in 1..l |-> recvCq[i]] \in Seq(U)
      BY <2>1, <2>2
    <2> QED
      BY <2>1, <2>3 DEF U
  <1>7. Cardinality(S) \in Nat /\ Cardinality(S) + Len(recvCq) <= accepted
    <2> HIDE DEF S
    <2> QED
      BY <1>1, <1>3, <1>5, <1>6, Leftover
  <1>8. Cardinality(S) <= recvs
    <2> HIDE DEF S
    <2> QED
      BY <1>1, <1>7, LenProperties
  <1> QED
    BY <1>8, SameCardinality DEF Recv!RecvsReady, Recv!Clients, Clients

\* "We always have a receive request ready for each accepted connection": a
\* request with immediate data never finds the shared receive queue empty.
THEOREM AlwaysRecvsReady ==
    ASSUME DirectSafe
    PROVE  Spec => []RecvsReady
  BY EchoAlways, ReadyForEach, PTL

-----------------------------------------------------------------------------
(* Answers                                                                  *)

\* Writes of answers are placed whole, and an answer that is not inline shares
\* sendBuffer with nobody: with one client only, or never.
AnswerSafe == ~Torn /\ (LargeAlone \/ \A n \in Sizes : ~Late(n))

answerState == <<sendBuffer, answers, placed, receiveBuffer, request, concurrent>>

\* The steps that touch answers, and all others.
LEMMA KindsOfStep ==
    ASSUME [Next]_vars
    PROVE  \/ UNCHANGED answerState
           \/ \E slots : HandleRequest(slots)
           \/ \E c \in Clients :
                \/ \E w : PostRequest(c, w)
                \/ (FetchAnswer(c) \/ PlaceAnswer(c)) /\ UNCHANGED clientVars
                \/ EndReceive(c)
  <1>1. CASE Server
    <2>1. CASE Recvs(Recv!Accept)
      BY <2>1, RecvsServer DEF Recvs, ExchangeAddresses, ConnectQp, answerState, answerVars, clientVars
    <2>2. CASE transport # "Recv" /\ (ExchangeAddresses \/ ConnectQp) /\ UNCHANGED <<findVars, transport>>
      BY <2>2 DEF ExchangeAddresses, ConnectQp, answerState, answerVars, clientVars
    <2>3. CASE Bells(Doorbells!Receive)
      <3>1. Doorbells!PollGroup \/ Doorbells!ClearDoorbell \/ Doorbells!Handle
        BY <2>3 DEF Bells, Doorbells!Receive
      <3> QED
        BY <3>1, BellsServer DEF answerState, answerVars, clientVars
    <2>4. CASE Recvs(Recv!Receive)
      <3>1. Recv!PollRecv \/ Recv!Handle
        BY <2>4 DEF Recvs, Recv!Receive
      <3> QED
        BY <3>1, RecvsServer DEF answerState, answerVars, clientVars
    <2>5. CASE Slots(Direct!Receive)
      <3>1. Direct!PollSlot \/ Direct!Handle
        BY <2>5 DEF Slots, Direct!Receive
      <3> QED
        BY <3>1, SlotsServer DEF answerState, answerVars, clientVars
    <2>6. CASE (RejectRequest \/ AnswerSignaled) /\ UNCHANGED <<findVars, transport>>
      BY <2>6 DEF RejectRequest, AnswerSignaled, answerState, answerVars, clientVars
    <2> QED
      BY <1>1, <2>1, <2>2, <2>3, <2>4, <2>5, <2>6 DEF Server
  <1>2. ASSUME NEW c \in Clients, Client(c)
        PROVE  EndReceive(c) \/ UNCHANGED answerState
    BY <1>2 DEF Client, SendCompleted, BeginReceive, ClientStep, ReadSize, SeeValidity, ReceiveThrows,
           answerState, answerVars
  <1>3. ASSUME NEW c \in Clients, Adapter(c)
        PROVE  ((FetchAnswer(c) \/ PlaceAnswer(c)) /\ UNCHANGED clientVars) \/ UNCHANGED answerState
    <2>1. AdapterStep(c) \/ Deliver(c) \/ LoseRequest(c)
      BY <1>3, BellsClient, RecvsClient, SlotsClient DEF Adapter, Bells, Recvs, Slots
    <2> QED
      BY <2>1 DEF AdapterStep, Deliver, LoseRequest, answerState, answerVars, clientVars
  <1>4. ASSUME NEW c \in Clients, Send(c)
        PROVE  \E w : PostRequest(c, w)
    BY <1>4, BellsClient, RecvsClient, SlotsClient DEF Send, Bells, Recvs, Slots
  <1>5. CASE UNCHANGED vars
    BY <1>5 DEF vars, sharedVars, answerState, answerVars, clientVars
  <1> QED
    BY <1>1, <1>2, <1>3, <1>4, <1>5 DEF Next

\* What a step leaves alone stays true of a client's answer.
LEMMA MatchFrame ==
    ASSUME NEW c \in Clients, MatchInv(c), UNCHANGED <<sendBuffer, concurrent>>,
           request'[c] = request[c], answers'[c] = answers[c], placed'[c] = placed[c],
           receiveBuffer'[c] = receiveBuffer[c] \/ receiveBuffer'[c].size = 0
    PROVE  MatchInv(c)'
  BY DEF MatchInv

\* A client that is idle, or whose request is pending, has no answer.
LEMMA NoAnswer ==
    ASSUME EchoInv, NEW c \in Clients, MatchInv(c),
           Pending(c) \/ cpc[c] \in {"connecting", "idle"}
    PROVE  answers[c] = <<>> /\ receiveBuffer[c].size = 0
  <1>1. AnswerInv(c) /\ placed[c] = 0
    BY EchoFacts DEF MatchInv
  <1> QED
    BY <1>1 DEF AnswerInv, Fresh

\* A new request, of a size that may be sent.
LEMMA PostMatch ==
    ASSUME AnswerSafe, AnswersInv, NEW c \in Clients, NEW w, PostRequest(c, w)
    PROVE  \A d \in Clients : MatchInv(d)'
  <1>0. EchoInv /\ Shapes /\ (\A d \in Clients : MatchInv(d))
    BY EchoFacts DEF AnswersInv
  <1>1. PICK n \in Sizes : NewRequest(c, n)
    BY DEF PostRequest
  <1> DEFINE k == request[c].number + 1
             e == [size |-> n, body |-> <<c, k>>, number |-> k]
  <1>2. /\ cpc[c] = "idle" /\ (LargeAlone /\ Late(n) => concurrent = 1)
        /\ request' = [request EXCEPT ![c] = e]
        /\ UNCHANGED <<sendBuffer, answers, placed, receiveBuffer, concurrent>>
    BY <1>1 DEF PostRequest, NewRequest, answerVars
  <1>3. request'[c].size = n /\ \A d \in Clients : d # c => request'[d] = request[d]
    <2>1. request \in [Clients -> [size : Sizes \cup {0}, body : Bodies, number : 0..MaxRequests]]
      BY <1>0 DEF Shapes
    <2> QED
      BY <2>1, <1>2
  <1>4. Late(n) => concurrent = 1
    BY <1>2 DEF AnswerSafe
  <1> TAKE d \in Clients
  <1>5. CASE d # c
    BY <1>0, <1>2, <1>3, <1>5, MatchFrame
  <1>6. CASE d = c
    <2>1. answers[c] = <<>> /\ receiveBuffer[c].size = 0 /\ placed[c] = 0
      BY <1>0, <1>2, NoAnswer DEF MatchInv
    <2> QED
      BY <2>1, <1>2, <1>3, <1>4, <1>6 DEF MatchInv
  <1> QED
    BY <1>5, <1>6

\* The answer to a request carries its size and payload. It is alone in
\* sendBuffer if it has to stay there.
LEMMA HandleMatch ==
    ASSUME AnswersInv, NEW slots, HandleRequest(slots)
    PROVE  \A d \in Clients : MatchInv(d)'
  <1> USE AnswerAssumption
  <1>0. /\ EchoInv /\ Shapes /\ ServerInv /\ sender \in Clients
        /\ RequestInv(sender) /\ AnswerInv(sender) /\ (\A d \in Clients : MatchInv(d))
        /\ answers \in [Clients -> Seq(Answer)]
    BY EchoFacts DEF AnswersInv, Shapes
  <1>1. spc = "handle" /\ UNCHANGED <<placed, receiveBuffer, request, concurrent>>
    BY DEF HandleRequest, PostAnswer, AnswerTooLarge, answerVars, clientVars
  <1>2. Held(sender)
    BY <1>1 DEF Held
  <1>3. /\ Pending(sender) /\ receives[sender].size = request[sender].size
        /\ receives[sender].body = request[sender].body /\ request[sender].number > 0
    <2>1. Pending(sender) /\ requests[sender] = <<>>
      BY <1>0, <1>2 DEF RequestInv
    <2> QED
      BY <2>1, <1>0 DEF RequestInv, Pending, SizeLeft, BodyLeft
  <1>4. answers[sender] = <<>> /\ receiveBuffer[sender].size = 0
    BY <1>0, <1>3, NoAnswer
  <1> DEFINE n == request[sender].size
             new == [len |-> n, size |-> n, body |-> request[sender].body, late |-> Late(n)]
  <1>5. CASE UNCHANGED <<sendBuffer, answers>>
    BY <1>0, <1>1, <1>5, MatchFrame
  <1>6. CASE /\ sendBuffer' = [size |-> n, body |-> request[sender].body]
             /\ answers' = [answers EXCEPT ![sender] = Append(@, new)]
    <2>1. Late(n) => concurrent = 1
      BY <1>0, <1>3 DEF MatchInv
    <2>2. answers'[sender][1] = new /\ \A d \in Clients : d # sender => answers'[d] = answers[d]
      <3> HIDE DEF new
      <3>1. answers' = [answers EXCEPT ![sender] = <<new>>]
        BY <1>4, <1>6
      <3> QED
        BY <3>1, <1>0
    <2> TAKE d \in Clients
    <2>3. CASE d = sender
      <3>1. /\ answers'[d][1].len = n /\ answers'[d][1].size = n /\ answers'[d][1].late = Late(n)
            /\ answers'[d][1].body = request[sender].body
        BY <2>2, <2>3
      <3> QED
        BY <3>1, <2>1, <2>3, <1>0, <1>1, <1>4, <1>6 DEF MatchInv
    <2>4. CASE d # sender
      <3>1. concurrent = 1 => answers[d] = <<>>
        <4>1. SUFFICES ASSUME concurrent = 1 PROVE cpc[d] = "connecting"
          BY <1>0, NoAnswer
        <4>2. sender < accepted
          BY <1>0, <1>3 DEF RequestInv, ServerInv, Clients
        <4>3. d >= accepted
          BY <4>1, <4>2, <2>4, <1>0 DEF ServerInv, Clients
        <4> QED
          BY <4>3, <1>0 DEF ServerInv
      <3> QED
        BY <3>1, <2>2, <2>4, <1>0, <1>1 DEF MatchInv
    <2> QED
      BY <2>3, <2>4
  <1> QED
    BY <1>3, <1>5, <1>6 DEF HandleRequest, PostAnswer, AnswerTooLarge, answerVars

\* The data of an answer that was not inline is fetched before it changes.
LEMMA FetchMatch ==
    ASSUME AnswersInv, NEW c \in Clients, FetchAnswer(c), UNCHANGED clientVars
    PROVE  \A d \in Clients : MatchInv(d)'
  <1>0. (\A d \in Clients : MatchInv(d)) /\ answers \in [Clients -> Seq(Answer)]
    BY EchoFacts DEF AnswersInv, Shapes
  <1> DEFINE a == [answers[c][1] EXCEPT !.late = FALSE, !.size = sendBuffer.size, !.body = sendBuffer.body]
             q == [answers[c] EXCEPT ![1] = a]
  <1>1. /\ answers[c] # <<>> /\ Head(answers[c]).late /\ answers' = [answers EXCEPT ![c] = q]
        /\ UNCHANGED <<sendBuffer, placed, receiveBuffer, request, concurrent>>
    BY DEF FetchAnswer, clientVars
  <1>2. answers[c][1] \in Answer /\ answers[c][1].late /\ 1 \in DOMAIN answers[c]
    BY <1>0, <1>1, TailFacts, LenProperties
  <1>3. /\ answers[c][1].len = request[c].size
        /\ sendBuffer = [size |-> request[c].size, body |-> request[c].body]
    BY <1>0, <1>1, <1>2 DEF MatchInv
  <1>4. a.len = request[c].size /\ a.size = request[c].size /\ a.body = request[c].body /\ ~a.late
    BY <1>2, <1>3 DEF Answer
  <1> HIDE DEF a
  <1>5. q[1] = a
    BY <1>0, <1>2
  <1> HIDE DEF q
  <1>6. answers'[c] = q /\ \A d \in Clients : d # c => answers'[d] = answers[d]
    BY <1>0, <1>1
  <1> TAKE d \in Clients
  <1>7. CASE d # c
    BY <1>0, <1>1, <1>6, <1>7, MatchFrame
  <1>8. CASE d = c
    BY <1>0, <1>1, <1>4, <1>5, <1>6, <1>8 DEF MatchInv
  <1> QED
    BY <1>7, <1>8

\* An answer that was placed is the one that was posted.
LEMMA PlaceMatch ==
    ASSUME AnswerSafe, AnswersInv, NEW c \in Clients, PlaceAnswer(c), UNCHANGED clientVars
    PROVE  \A d \in Clients : MatchInv(d)'
  <1>0. /\ (\A d \in Clients : MatchInv(d)) /\ answers \in [Clients -> Seq(Answer)] /\ AnswerInv(c)
        /\ placed \in [Clients -> 0..2] /\ answers[c] \in Seq(Answer)
        /\ receiveBuffer \in [Clients -> [size : Sizes \cup {0}, body : Bodies, valid : SUBSET Sizes]]
    BY EchoFacts DEF AnswersInv, Shapes
  <1> DEFINE a == Head(answers[c])
             m == receiveBuffer[c]
             r == WithValidity(WithBody(WithSize(m, a), a), a)
             q == Tail(answers[c])
  <1>1. /\ answers[c] # <<>> /\ receiveBuffer' = [receiveBuffer EXCEPT ![c] = r]
        /\ placed' = [placed EXCEPT ![c] = 0] /\ answers' = [answers EXCEPT ![c] = q]
        /\ UNCHANGED <<sendBuffer, request, concurrent>>
    BY DEF PlaceAnswer, AnswerSafe, clientVars
  <1>2. a = answers[c][1] /\ q = <<>>
    <2> DEFINE k == Len(answers[c])
    <2>1. k \in Nat /\ k > 0 /\ (q = <<>> <=> k = 1) /\ a = answers[c][1]
      BY <1>0, <1>1, TailFacts
    <2>2. k <= 2 /\ k # 2
      BY <1>0 DEF MatchInv, AnswerInv
    <2> HIDE DEF k
    <2> QED
      BY <2>1, <2>2
  <1>3. a.size = request[c].size /\ a.body = request[c].body
    BY <1>0, <1>1, <1>2 DEF MatchInv
  <1>4. r.size = a.size /\ r.body = a.body
    <2>1. m \in [size : Sizes \cup {0}, body : Bodies, valid : SUBSET Sizes]
      BY <1>0
    <2> HIDE DEF a, m
    <2> QED
      BY <2>1 DEF WithSize, WithBody, WithValidity
  <1> HIDE DEF a, r, q
  <1>5. /\ answers'[c] = q /\ receiveBuffer'[c] = r /\ placed'[c] = 0
        /\ \A d \in Clients : d # c => /\ answers'[d] = answers[d] /\ placed'[d] = placed[d]
                                       /\ receiveBuffer'[d] = receiveBuffer[d]
    BY <1>0, <1>1
  <1> TAKE d \in Clients
  <1>6. CASE d # c
    BY <1>0, <1>1, <1>5, <1>6, MatchFrame
  <1>7. CASE d = c
    BY <1>0, <1>1, <1>2, <1>3, <1>4, <1>5, <1>7 DEF MatchInv
  <1> QED
    BY <1>6, <1>7

\* The invariant with the answers is inductive too.
LEMMA AnswersStep ==
    ASSUME DirectSafe, AnswerSafe, AnswersInv, [Next]_vars
    PROVE  AnswersInv'
  <1>0. EchoInv /\ Shapes /\ (\A c \in Clients : MatchInv(c))
    BY EchoFacts DEF AnswersInv
  <1>1. EchoInv'
    BY <1>0, EchoStep
  <1>2. \A d \in Clients : MatchInv(d)'
    <2>1. CASE UNCHANGED answerState
      <3>1. UNCHANGED <<sendBuffer, answers, placed, receiveBuffer, request, concurrent>>
        BY <2>1 DEF answerState
      <3> QED
        BY <3>1, <1>0, MatchFrame
    <2>2. ASSUME NEW c \in Clients, EndReceive(c) PROVE \A d \in Clients : MatchInv(d)'
      <3>1. /\ receiveBuffer' = [receiveBuffer EXCEPT ![c].size = 0]
            /\ UNCHANGED <<request, concurrent, sendBuffer, answers, placed>>
        BY <2>2 DEF EndReceive
      <3>2. receiveBuffer'[c].size = 0 /\ \A d \in Clients : d # c => receiveBuffer'[d] = receiveBuffer[d]
        BY <3>1, <1>0 DEF Shapes
      <3> QED
        BY <3>1, <3>2, <1>0, MatchFrame
    <2> QED
      BY <2>1, <2>2, KindsOfStep, HandleMatch, PostMatch, FetchMatch, PlaceMatch
  <1> QED
    BY <1>1, <1>2 DEF AnswersInv

\* Whatever the number of clients, a receive hands over the whole answer to the
\* client's latest request, of the three transports: no other client's, though
\* the server has one sendBuffer for all, and no earlier one.
THEOREM AnswersMatch ==
    ASSUME DirectSafe, AnswerSafe
    PROVE  Spec => []AnswersMatchRequests
  <1>1. Init => AnswersInv
    <2> SUFFICES ASSUME Init PROVE AnswersInv
      OBVIOUS
    <2>1. EchoInv
      BY EchoInit
    <2>2. \A c \in Clients : answers[c] = <<>> /\ placed[c] = 0 /\ receiveBuffer[c].size = 0
                             /\ request[c].number = 0
      BY DEF Init, ServerInit, AnswerInit, NoRequest
    <2> QED
      BY <2>1, <2>2 DEF AnswersInv, MatchInv
  <1>2. AnswersInv /\ [Next]_vars => AnswersInv'
    BY AnswersStep
  <1>3. AnswersInv => AnswersMatchRequests
    <2> SUFFICES ASSUME AnswersInv, NEW c \in Clients, cpc[c] = "callback"
                 PROVE  receiveBuffer[c].body = request[c].body /\ csize[c] = request[c].size
      BY DEF AnswersMatchRequests
    <2>1. AnswerInv(c) /\ MatchInv(c)
      BY EchoFacts DEF AnswersInv
    <2>2. csize[c] = receiveBuffer[c].size /\ receiveBuffer[c].size # 0
      BY <2>1 DEF AnswerInv
    <2> QED
      BY <2>1, <2>2 DEF MatchInv
  <1> QED
    BY <1>1, <1>2, <1>3, PTL DEF Spec

=============================================================================
