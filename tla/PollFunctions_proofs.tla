------------------------ MODULE PollFunctions_proofs ------------------------
(***************************************************************************)
(* Proofs about PollFunctions: every poll function returns an armed slot   *)
(* of the first vector that has one, whatever set of slots is armed. TLC   *)
(* and the benchmark's own test() try one or two armed slots.              *)
(*                                                                         *)
(* A bit of the compare mask is set when its lane is armed, so the highest *)
(* set bit is the last one of an armed lane; that makes the arithmetic on  *)
(* the count of leading zeros exact.                                       *)
(***************************************************************************)
EXTENDS PollFunctions, WellFoundedInduction, TLAPS

\* A set of numbers that is not empty has a smallest element.
LEMMA MinExists ==
    ASSUME NEW T, T \subseteq Nat, T # {}
    PROVE  Min(T) \in T /\ \A j \in T : Min(T) <= j
<1> DEFINE R == OpToRel(<, Nat)
<1>1. IsWellFoundedOn(R, Nat)
  BY NatLessThanWellFounded
<1>2. \A x, y \in Nat : y < x => <<y, x>> \in R
  BY DEF OpToRel
<1> HIDE DEF R
<1>3. PICK i \in T : \A j \in T : ~(<<j, i>> \in R)
  BY <1>1, WFMin
<1>4. \A j \in T : i <= j
  <2> SUFFICES ASSUME NEW j \in T PROVE i <= j
    OBVIOUS
  <2>1. i \in Nat /\ j \in Nat /\ ~(j < i)
    BY <1>2, <1>3
  <2> QED
    BY <2>1
<1>5. \E x \in T : \A y \in T : x <= y
  BY <1>4
<1> QED
  BY <1>5 DEF Min

\* A mask that is not zero has a highest bit.
LEMMA MaxExists ==
    ASSUME NEW T, T \subseteq 0..31, T # {}
    PROVE  Max(T) \in T /\ \A j \in T : j <= Max(T)
<1> DEFINE U == {31 - j : j \in T}
           u == Min(U)
<1>1. U \subseteq Nat /\ U # {}
  OBVIOUS
<1>2. u \in U /\ \A j \in U : u <= j
  <2> HIDE DEF U
  <2> QED
    BY <1>1, MinExists
<1>3. PICK x \in T : u = 31 - x
  BY <1>2
<1>4. \A y \in T : x >= y
  <2> SUFFICES ASSUME NEW y \in T PROVE x >= y
    OBVIOUS
  <2>1. u <= 31 - y
    BY <1>2
  <2>2. x \in 0..31 /\ y \in 0..31 /\ 31 - x <= 31 - y
    BY <2>1, <1>3
  <2> QED
    BY <2>2
<1>5. \E z \in T : \A y \in T : z >= y
  BY <1>4
<1>6. Max(T) \in T /\ \A y \in T : Max(T) >= y
  BY <1>5 DEF Max
<1>7. ASSUME NEW j \in T PROVE j <= Max(T)
  <2>1. j \in 0..31 /\ Max(T) \in 0..31 /\ Max(T) >= j
    BY <1>6
  <2> QED
    BY <2>1
<1> QED
  BY <1>6, <1>7

\* Slots of one load.
Loads == {1, 4, 8, 16, 32}

\* The first vector has an armed slot, and all its slots lie in one load.
LEMMA FirstVectorFacts ==
    ASSUME NEW armed, armed \subseteq Nat, armed # {}, NEW lanes \in Loads,
           NEW i, i = FirstVector(armed, lanes)
    PROVE  /\ i \in Nat /\ \E k \in 0..lanes - 1 : i + k \in armed
           /\ \A k \in 0..lanes - 1 : (i + k) \div lanes = Min(armed) \div lanes
<1>1. PICK m \in Nat : m = Min(armed) /\ m \in armed
  BY MinExists
<1>2. i = lanes * (m \div lanes)
  BY <1>1 DEF FirstVector
<1>3. i \in Nat /\ m - i \in 0..lanes - 1 /\ i + (m - i) = m
  BY <1>2 DEF Loads
<1>4. \A k \in 0..lanes - 1 : (i + k) \div lanes = m \div lanes
  BY <1>2 DEF Loads
<1> QED
  BY <1>1, <1>3, <1>4

\* The vectors the functions load: lanes, bytes of a lane, bits of the mask.
Vector(lanes, bytes, bits) ==
    \/ lanes = 8 /\ bytes = 4 /\ bits = 32
    \/ lanes = 4 /\ bytes = 4 /\ bits = 16
    \/ lanes = 32 /\ bytes = 1 /\ bits = 32
    \/ lanes = 16 /\ bytes = 1 /\ bits = 16

\* A bit of the mask says whether its lane is armed.
LEMMA MaskBits ==
    ASSUME NEW armed, NEW i \in Nat, NEW lanes, NEW bytes, NEW bits, Vector(lanes, bytes, bits),
           NEW x \in 0..bits - 1
    PROVE  x \in MoveMask(armed, i, lanes, bytes) <=> i + (x \div bytes) \notin armed
<1> DEFINE k == x \div bytes
<1>1. /\ bytes \in {1, 4} /\ k \in 0..lanes - 1 /\ x - bytes * k \in 0..bytes - 1
      /\ x = bytes * k + (x - bytes * k)
      /\ \A l \in 0..lanes - 1 : \A b \in 0..bytes - 1 : x = bytes * l + b => l = k
  <2>1. CASE bytes = 4 /\ lanes \in {4, 8} /\ bits = 4 * lanes
    <3>1. k \in 0..lanes - 1 /\ x - 4 * k \in 0..3 /\ x = 4 * k + (x - 4 * k)
      BY <2>1
    <3>2. ASSUME NEW l \in 0..lanes - 1, NEW b \in 0..3, x = 4 * l + b PROVE l = k
      BY <2>1, <3>2
    <3> QED
      BY <2>1, <3>1, <3>2
  <2>2. CASE bytes = 1 /\ lanes \in {16, 32} /\ bits = lanes
    <3>1. k = x /\ x \in 0..lanes - 1 /\ 0..bytes - 1 = {0}
      BY <2>2
    <3> QED
      BY <2>2, <3>1
  <2> QED
    BY <2>1, <2>2 DEF Vector
<1> HIDE DEF k
<1>2. x \in MoveMask(armed, i, lanes, bytes) <=>
        \E l \in {j \in 0..lanes - 1 : i + j \notin armed} : x \in {bytes * l + b : b \in 0..bytes - 1}
  BY DEF MoveMask
<1>3. ASSUME x \in MoveMask(armed, i, lanes, bytes) PROVE i + k \notin armed
  <2>1. PICK l \in 0..lanes - 1 : i + l \notin armed /\ \E b \in 0..bytes - 1 : x = bytes * l + b
    BY <1>2, <1>3
  <2> QED
    BY <2>1, <1>1
<1>4. ASSUME i + k \notin armed PROVE x \in MoveMask(armed, i, lanes, bytes)
  <2>1. x \in {bytes * k + b : b \in 0..bytes - 1}
    BY <1>1
  <2>2. k \in {j \in 0..lanes - 1 : i + j \notin armed}
    BY <1>1, <1>4
  <2> QED
    BY <2>1, <2>2, <1>2
<1> QED
  BY <1>3, <1>4 DEF k

\* The mask of armed lanes; bit `top' is the last one of an armed lane.
IsMask(mask, armed, i, lanes, bytes, bits) == mask = (0..bits - 1) \ MoveMask(armed, i, lanes, bytes)
LastBit(top, armed, i, lanes, bytes) ==
    \E k \in 0..lanes - 1 : i + k \in armed /\ top = bytes * k + bytes - 1

\* The highest set bit is the last bit of an armed lane.
LEMMA HighestBit ==
    ASSUME NEW armed, armed \subseteq Nat, armed # {}, NEW lanes, NEW bytes, NEW bits,
           Vector(lanes, bytes, bits), NEW i, i = FirstVector(armed, lanes),
           NEW mask, IsMask(mask, armed, i, lanes, bytes, bits)
    PROVE  LastBit(Max(mask), armed, i, lanes, bytes)
<1>1. i \in Nat /\ \E k \in 0..lanes - 1 : i + k \in armed
  <2>1. lanes \in Loads
    BY DEF Vector, Loads
  <2> QED
    BY <2>1, FirstVectorFacts
<1>2. \A x \in 0..bits - 1 : x \in mask <=> i + (x \div bytes) \in armed
  BY <1>1, MaskBits DEF IsMask
<1>3. mask \subseteq 0..31 /\ mask \subseteq 0..bits - 1
  BY DEF Vector, IsMask
<1>4. mask # {}
  <2>1. PICK k \in 0..lanes - 1 : i + k \in armed
    BY <1>1
  <2>2. bytes * k \in 0..bits - 1 /\ (bytes * k) \div bytes = k
    BY DEF Vector
  <2> QED
    BY <2>1, <2>2, <1>2
<1>5. Max(mask) \in mask /\ \A j \in mask : j <= Max(mask)
  BY <1>3, <1>4, MaxExists
<1>6. PICK x \in 0..bits - 1 : x = Max(mask) /\ i + (x \div bytes) \in armed
  BY <1>2, <1>3, <1>5
<1> DEFINE k == x \div bytes
           y == bytes * k + bytes - 1
<1>7. k \in 0..lanes - 1 /\ y \in 0..bits - 1 /\ y \div bytes = k /\ x <= y
  BY DEF Vector
<1>8. y \in mask
  BY <1>2, <1>6, <1>7
<1>9. y <= x
  BY <1>5, <1>6, <1>8
<1>10. x = y
  BY <1>7, <1>9
<1> QED
  BY <1>6, <1>7, <1>10 DEF LastBit

\* The slot a function that compares vectors returns.
LEMMA MaskFunctions ==
    ASSUME NEW armed, armed \subseteq Nat, armed # {}
    PROVE  /\ \E k \in 0..7 : FirstVector(armed, 8) + k \in armed /\ SIMDPoll(armed) = FirstVector(armed, 8) + k
           /\ \E k \in 0..3 : FirstVector(armed, 4) + k \in armed /\ SSEPoll(armed) = FirstVector(armed, 4) + k
           /\ \E k \in 0..31 : FirstVector(armed, 32) + k \in armed
                               /\ exPollSIMD(armed) = FirstVector(armed, 32) + k
           /\ \E k \in 0..15 : FirstVector(armed, 16) + k \in armed
                               /\ exPollSSE(armed) = FirstVector(armed, 16) + k
<1> DEFINE V(n) == FirstVector(armed, n)
           M(n, b) == MoveMask(armed, V(n), n, b)
<1>1. PICK k1 \in 0..7 : V(8) + k1 \in armed /\ Max((0..31) \ M(8, 4)) = 4 * k1 + 4 - 1
  <2>1. Vector(8, 4, 32) /\ 32 - 1 = 31 /\ 8 - 1 = 7
    BY DEF Vector
  <2> DEFINE lanes == 8
             bytes == 4
             bits == 32
             i == V(lanes)
             mask == (0..bits - 1) \ MoveMask(armed, i, lanes, bytes)
  <2>2. i = FirstVector(armed, lanes) /\ IsMask(mask, armed, i, lanes, bytes, bits)
        /\ Vector(lanes, bytes, bits)
    BY <2>1 DEF IsMask
  <2>3. LastBit(Max(mask), armed, i, lanes, bytes)
    <3> HIDE DEF i, mask, lanes, bytes, bits
    <3> QED
      BY <2>2, HighestBit
  <2> QED
    BY <2>1, <2>3 DEF LastBit
<1>2. PICK k2 \in 0..3 : V(4) + k2 \in armed /\ Max((0..15) \ M(4, 4)) = 4 * k2 + 4 - 1
  <2>1. Vector(4, 4, 16) /\ 16 - 1 = 15 /\ 4 - 1 = 3
    BY DEF Vector
  <2> DEFINE lanes == 4
             bytes == 4
             bits == 16
             i == V(lanes)
             mask == (0..bits - 1) \ MoveMask(armed, i, lanes, bytes)
  <2>2. i = FirstVector(armed, lanes) /\ IsMask(mask, armed, i, lanes, bytes, bits)
        /\ Vector(lanes, bytes, bits)
    BY <2>1 DEF IsMask
  <2>3. LastBit(Max(mask), armed, i, lanes, bytes)
    <3> HIDE DEF i, mask, lanes, bytes, bits
    <3> QED
      BY <2>2, HighestBit
  <2> QED
    BY <2>1, <2>3 DEF LastBit
<1>3. PICK k3 \in 0..31 : V(32) + k3 \in armed /\ Max((0..31) \ M(32, 1)) = 1 * k3 + 1 - 1
  <2>1. Vector(32, 1, 32) /\ 32 - 1 = 31
    BY DEF Vector
  <2> DEFINE lanes == 32
             bytes == 1
             bits == 32
             i == V(lanes)
             mask == (0..bits - 1) \ MoveMask(armed, i, lanes, bytes)
  <2>2. i = FirstVector(armed, lanes) /\ IsMask(mask, armed, i, lanes, bytes, bits)
        /\ Vector(lanes, bytes, bits)
    BY <2>1 DEF IsMask
  <2>3. LastBit(Max(mask), armed, i, lanes, bytes)
    <3> HIDE DEF i, mask, lanes, bytes, bits
    <3> QED
      BY <2>2, HighestBit
  <2> QED
    BY <2>1, <2>3 DEF LastBit
<1>4. PICK k4 \in 0..15 : V(16) + k4 \in armed /\ Max((0..15) \ M(16, 1)) = 1 * k4 + 1 - 1
  <2>1. Vector(16, 1, 16) /\ 16 - 1 = 15
    BY DEF Vector
  <2> DEFINE lanes == 16
             bytes == 1
             bits == 16
             i == V(lanes)
             mask == (0..bits - 1) \ MoveMask(armed, i, lanes, bytes)
  <2>2. i = FirstVector(armed, lanes) /\ IsMask(mask, armed, i, lanes, bytes, bits)
        /\ Vector(lanes, bytes, bits)
    BY <2>1 DEF IsMask
  <2>3. LastBit(Max(mask), armed, i, lanes, bytes)
    <3> HIDE DEF i, mask, lanes, bytes, bits
    <3> QED
      BY <2>2, HighestBit
  <2> QED
    BY <2>1, <2>3 DEF LastBit
<1>5. \A m : Compl(m) = (0..31) \ m /\ Uint16(Compl(m)) = (0..15) \ m
  BY DEF Compl, Uint16
<1>6. \A n \in {4, 8, 16, 32} : V(n) \in Nat
  BY FirstVectorFacts DEF Loads
<1>7. SIMDPoll(armed) = V(8) + ((32 - (31 - Max((0..31) \ M(8, 4)))) \div 4 - 1)
  BY <1>5 DEF SIMDPoll, Lzcnt
<1>8. SSEPoll(armed) = V(4) + ((32 - (31 - Max((0..15) \ M(4, 4)))) \div 4 - 1)
  BY <1>5 DEF SSEPoll, Lzcnt
<1>9. exPollSIMD(armed) = 32 - ((31 - Max((0..31) \ M(32, 1))) + 1) + V(32)
  BY <1>5 DEF exPollSIMD, Lzcnt
<1>10. exPollSSE(armed) = 32 - ((31 - Max((0..15) \ M(16, 1))) + 1) + V(16)
  BY <1>5 DEF exPollSSE, Lzcnt
<1>11. \A j \in 0..7 : (32 - (31 - (4 * j + 4 - 1))) \div 4 - 1 = j
  OBVIOUS
<1>12. \A j \in 0..31 : \A v \in Nat : 32 - ((31 - (1 * j + 1 - 1)) + 1) + v = v + j
  OBVIOUS
<1> HIDE DEF V, M
<1>13. SIMDPoll(armed) = V(8) + k1
  BY <1>1, <1>7, <1>11
<1>14. SSEPoll(armed) = V(4) + k2
  BY <1>2, <1>8, <1>11
<1>15. exPollSIMD(armed) = V(32) + k3
  BY <1>3, <1>6, <1>9, <1>12
<1>16. exPollSSE(armed) = V(16) + k4
  BY <1>4, <1>6, <1>10, <1>12
<1> QED
  BY <1>1, <1>2, <1>3, <1>4, <1>13, <1>14, <1>15, <1>16 DEF V

\* _mm_cmpestri finds the first armed slot of the vector.
LEMMA FirstMatch ==
    ASSUME NEW armed, armed \subseteq Nat, armed # {}
    PROVE  \E k \in 0..15 : FirstVector(armed, 16) + k \in armed
                             /\ exPollPCMP(armed) = FirstVector(armed, 16) + k
<1> DEFINE i == FirstVector(armed, 16)
           T == {k \in 0..15 : i + k \in armed}
<1>1. i \in Nat /\ \E k \in 0..16 - 1 : i + k \in armed
  BY FirstVectorFacts DEF Loads
<1>2. T \subseteq Nat /\ T # {}
  BY <1>1
<1>3. Min(T) \in T
  <2> HIDE DEF T
  <2> QED
    BY <1>2, MinExists
<1>4. exPollPCMP(armed) = Min(T) + i
  BY DEF exPollPCMP
<1> QED
  BY <1>1, <1>3, <1>4

\* Every poll function returns a slot that is armed, in the first of the vectors
\* it loads that has one: whatever slots the clients have armed, the server finds
\* one of them, and none in an earlier vector is passed over.
THEOREM PollFunctionsFind ==
    ASSUME NEW name \in DOMAIN Lanes, NEW armed, armed \subseteq Nat, armed # {}
    PROVE  /\ pollFunc(name, armed) \in armed
           /\ pollFunc(name, armed) \div Lanes[name] = Min(armed) \div Lanes[name]
<1>1. name \in {"scalarPoll", "SIMDPoll", "SSEPoll", "exPoll", "exPollSIMD", "exPollSSE", "exPollPCMP"}
  BY DEF Lanes
<1>2. \A n \in Loads : \A k \in 0..n - 1 :
        (FirstVector(armed, n) + k) \div n = Min(armed) \div n
  BY FirstVectorFacts
<1>3. Min(armed) \in armed
  BY MinExists
<1>4. CASE name \in {"scalarPoll", "exPoll"}
  <2>1. pollFunc(name, armed) = Min(armed)
    BY <1>4 DEF pollFunc, scalarPoll, exPoll
  <2> QED
    BY <2>1, <1>3
<1>5. CASE name = "SIMDPoll"
  <2>1. pollFunc(name, armed) = SIMDPoll(armed) /\ Lanes[name] = 8 /\ 8 \in Loads /\ 8 - 1 = 7
    BY <1>5 DEF pollFunc, Lanes, Loads
  <2>2. \A k \in 0..7 : (FirstVector(armed, 8) + k) \div 8 = Min(armed) \div 8
    BY <2>1, <1>2
  <2>3. PICK k \in 0..7 : FirstVector(armed, 8) + k \in armed /\ SIMDPoll(armed) = FirstVector(armed, 8) + k
    BY MaskFunctions
  <2> QED
    BY <2>1, <2>2, <2>3
<1>6. CASE name = "SSEPoll"
  <2>1. pollFunc(name, armed) = SSEPoll(armed) /\ Lanes[name] = 4 /\ 4 \in Loads /\ 4 - 1 = 3
    BY <1>6 DEF pollFunc, Lanes, Loads
  <2>2. \A k \in 0..3 : (FirstVector(armed, 4) + k) \div 4 = Min(armed) \div 4
    BY <2>1, <1>2
  <2>3. PICK k \in 0..3 : FirstVector(armed, 4) + k \in armed /\ SSEPoll(armed) = FirstVector(armed, 4) + k
    BY MaskFunctions
  <2> QED
    BY <2>1, <2>2, <2>3
<1>7. CASE name = "exPollSIMD"
  <2>1. pollFunc(name, armed) = exPollSIMD(armed) /\ Lanes[name] = 32 /\ 32 \in Loads /\ 32 - 1 = 31
    BY <1>7 DEF pollFunc, Lanes, Loads
  <2>2. \A k \in 0..31 : (FirstVector(armed, 32) + k) \div 32 = Min(armed) \div 32
    BY <2>1, <1>2
  <2>3. PICK k \in 0..31 : FirstVector(armed, 32) + k \in armed /\ exPollSIMD(armed) = FirstVector(armed, 32) + k
    BY MaskFunctions
  <2> QED
    BY <2>1, <2>2, <2>3
<1>8. CASE name = "exPollSSE"
  <2>1. pollFunc(name, armed) = exPollSSE(armed) /\ Lanes[name] = 16 /\ 16 \in Loads /\ 16 - 1 = 15
    BY <1>8 DEF pollFunc, Lanes, Loads
  <2>2. \A k \in 0..15 : (FirstVector(armed, 16) + k) \div 16 = Min(armed) \div 16
    BY <2>1, <1>2
  <2>3. PICK k \in 0..15 : FirstVector(armed, 16) + k \in armed /\ exPollSSE(armed) = FirstVector(armed, 16) + k
    BY MaskFunctions
  <2> QED
    BY <2>1, <2>2, <2>3
<1>9. CASE name = "exPollPCMP"
  <2>1. pollFunc(name, armed) = exPollPCMP(armed) /\ Lanes[name] = 16 /\ 16 \in Loads /\ 16 - 1 = 15
    BY <1>9 DEF pollFunc, Lanes, Loads
  <2>2. \A k \in 0..15 : (FirstVector(armed, 16) + k) \div 16 = Min(armed) \div 16
    BY <2>1, <1>2
  <2>3. PICK k \in 0..15 : FirstVector(armed, 16) + k \in armed /\ exPollPCMP(armed) = FirstVector(armed, 16) + k
    BY FirstMatch
  <2> QED
    BY <2>1, <2>2, <2>3
<1> QED
  BY <1>1, <1>4, <1>5, <1>6, <1>7, <1>8, <1>9
=============================================================================
