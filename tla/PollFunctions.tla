---------------------------- MODULE PollFunctions ----------------------------
(***************************************************************************)
(* The functions multiclientPollingBench.cpp compares for finding the slot *)
(* of a client that has written: each looks at count slots, several at a   *)
(* time, until one is armed, and returns its index. `armed' is the set of  *)
(* armed slots in the pass that finds one. A vector compare yields a mask  *)
(* of equal bytes; a mask is the set of the positions of its one bits.     *)
(***************************************************************************)
EXTENDS Integers, FiniteSets, FiniteSetsExt

\* compl on a 32 bit int, and the conversion to uint16_t.
Compl(mask) == (0..31) \ mask
Uint16(mask) == mask \cap (0..15)
\* __builtin_clz
Lzcnt(mask) == 31 - Max(mask)

\* _mm_movemask_epi8 of the compare with "nothing here": one bit per byte of
\* the lanes from i on, `bytes' bytes wide, that are not armed.
MoveMask(armed, i, lanes, bytes) ==
    UNION {{bytes * l + b : b \in 0..bytes - 1} : l \in {k \in 0..lanes - 1 : i + k \notin armed}}

\* The vector the scan stops at: the first one with an armed slot.
FirstVector(armed, lanes) == lanes * (Min(armed) \div lanes)

scalarPoll(armed) == Min(armed)

SIMDPoll(armed) ==
    LET i == FirstVector(armed, 8)
        cmpMask == Compl(MoveMask(armed, i, 8, 4))
    IN i + ((32 - Lzcnt(cmpMask)) \div 4 - 1)

\* Mutant: cmpMask is an int, so its upper half is never zero.
SSEPoll_Int(armed) ==
    LET i == FirstVector(armed, 4)
        cmpMask == Compl(MoveMask(armed, i, 4, 4))
    IN i + ((32 - Lzcnt(cmpMask)) \div 4 - 1)

SSEPoll(armed) ==
    LET i == FirstVector(armed, 4)
        cmpMask == Uint16(Compl(MoveMask(armed, i, 4, 4)))
    IN i + ((32 - Lzcnt(cmpMask)) \div 4 - 1)

exPoll(armed) == Min(armed)

exPollSIMD(armed) ==
    LET i == FirstVector(armed, 32)
        cmpMask == Compl(MoveMask(armed, i, 32, 1))
    IN 32 - (Lzcnt(cmpMask) + 1) + i

exPollSSE(armed) ==
    LET i == FirstVector(armed, 16)
        cmpMask == Uint16(Compl(MoveMask(armed, i, 16, 1)))
    IN 32 - (Lzcnt(cmpMask) + 1) + i

\* _mm_cmpestri with negative polarity: the first byte that is not '\0'.
exPollPCMP(armed) ==
    LET i == FirstVector(armed, 16)
        match == Min({k \in 0..15 : i + k \in armed})
    IN match + i

pollFunc(name, armed) ==
    CASE name = "scalarPoll" -> scalarPoll(armed)
      [] name = "SIMDPoll"   -> SIMDPoll(armed)
      [] name = "SSEPoll"    -> SSEPoll(armed)
      [] name = "exPoll"     -> exPoll(armed)
      [] name = "exPollSIMD" -> exPollSIMD(armed)
      [] name = "exPollSSE"  -> exPollSSE(armed)
      [] name = "exPollPCMP" -> exPollPCMP(armed)

\* Slots one load of the function compares.
Lanes == [scalarPoll |-> 1, SIMDPoll |-> 8, SSEPoll |-> 4, exPoll |-> 1,
          exPollSIMD |-> 32, exPollSSE |-> 16, exPollPCMP |-> 16]

\* test(): each of 64 rows has one armed slot, and every function must find it.
test(name) == \A i \in 0..63 : pollFunc(name, {i}) = i

\* The reference for any number of armed slots: a function returns a slot that
\* is armed, in the first vector that has one. test() only tries single slots;
\* two are tried here, in one vector and in different ones.
FindsArmedSlot(name) == \A i, j \in 0..39 :
    LET found == pollFunc(name, {i, j})
    IN found \in {i, j} /\ found \div Lanes[name] = Min({i, j}) \div Lanes[name]
=============================================================================
