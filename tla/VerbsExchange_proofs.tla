------------------------ MODULE VerbsExchange_proofs ------------------------
(***************************************************************************)
(* Proofs about VerbsExchange: the poll function of every program finds an *)
(* armed slot.                                                             *)
(***************************************************************************)
EXTENDS VerbsExchange, PollFunctions_proofs

\* A program polls with the function it is built with.
LEMMA PollingPoll ==
    ASSUME NEW first, NEW n, NEW client, NEW server, NEW f, NEW slots
    PROVE  Polling(first, n, client, server, f, slots).poll = f
BY DEF Polling

\* Every program polls with one of the functions.
LEMMA ProgramPolls == \A x \in DOMAIN Programs : Programs[x].poll \in DOMAIN Lanes
<1>1. /\ runConnected.poll = "scalarPoll" /\ runUnconnected.poll = "scalarPoll"
      /\ runWriteMemPolling.poll = "scalarPoll" /\ runParanoidWriteMemPolling.poll = "scalarPoll"
      /\ runWriteWithImm.poll = "scalarPoll" /\ runImmData.poll = "scalarPoll"
      /\ runChainedWrs.poll = "scalarPoll" /\ runPostedWrs.poll = "scalarPoll"
      /\ runDoublePollingWrs.poll = "scalarPoll" /\ runImmDataBaseline.poll = "scalarPoll"
  BY PollingPoll DEF runConnected, runUnconnected, runWriteMemPolling, runParanoidWriteMemPolling,
       runWriteWithImm, runImmData, runChainedWrs, runPostedWrs, runDoublePollingWrs,
       runImmDataBaseline, Program
<1>2. runRead.poll = "scalarPoll" /\ runReadPolling.poll = "scalarPoll"
  BY DEF runRead, runReadPolling, ReadBack, Program, Polling
<1>3. \A f, slots : bigBuffer(f, slots).poll = f /\ exclusiveBuffer(f, slots).poll = f
  BY DEF bigBuffer, exclusiveBuffer, Polling
<1> QED
  BY <1>1, <1>2, <1>3 DEF Programs, Lanes

\* Nothing changes the program that runs.
LEMMA NameKept == [Next]_vars => name' = name
<1>1. ASSUME NEW p \in Peers, Thread(p) PROVE name' = name
  <2>1. ASSUME setUpListenSocket(p) \/ connectSocket(p) \/ Accept(p) \/ TcpWrite(p) \/ TcpRead(p)
               \/ QpConnect(p) \/ PostRecv(p)
        PROVE  name' = name
    BY <2>1 DEF setUpListenSocket, connectSocket, Accept, TcpWrite, TcpRead, QpConnect, PostRecv
  <2>2. ASSUME postWorkRequest(p) \/ pollSendCompletionQueueBlocking(p) \/ pollRecv(p)
        PROVE  name' = name
    BY <2>2 DEF postWorkRequest, pollSendCompletionQueueBlocking, pollRecv
  <2>3. ASSUME PickPos(p) \/ UseOwnPos(p) \/ Clear(p) \/ AwaitByte(p) \/ PollPosition(p)
               \/ ClearPosition(p) \/ CopyMessage(p) \/ CheckMessage(p)
        PROVE  name' = name
    BY <2>3 DEF PickPos, UseOwnPos, Clear, AwaitByte, PollPosition, ClearPosition, CopyMessage, CheckMessage
  <2> QED
    BY <1>1, <2>1, <2>2, <2>3 DEF Thread
<1>2. ASSUME NEW p \in Peers, Adapter(p) \/ LoseRequest(p) \/ LoseDatagram(p) PROVE name' = name
  BY <1>2 DEF Adapter, FetchRead, PlaceByte, FinishRequest, LoseRequest, LoseDatagram
<1>3. (Stopped \/ UNCHANGED vars) => name' = name
  BY DEF Stopped, vars
<1> QED
  BY <1>1, <1>2, <1>3 DEF Next

\* The poll function of the program that runs passes the benchmark's own test()
\* and finds an armed slot of the first vector with one.
THEOREM PollFinds == Spec => []PollFindsArmedSlot
<1>1. Init => name \in Names
  BY DEF Init
<1>2. name \in Names /\ [Next]_vars => (name \in Names)'
  BY NameKept
<1>3. name \in Names => PollFindsArmedSlot
  <2> SUFFICES ASSUME name \in Names PROVE test(Prog.poll) /\ FindsArmedSlot(Prog.poll)
    BY DEF PollFindsArmedSlot
  <2> DEFINE f == Prog.poll
  <2>1. f \in DOMAIN Lanes
    BY ExchangeAssumption, ProgramPolls DEF ExchangeAssumption, Prog
  <2> HIDE DEF f
  <2>2. test(f)
    <3> SUFFICES ASSUME NEW i \in 0..63 PROVE pollFunc(f, {i}) = i
      BY DEF test
    <3> DEFINE armed == {i}
    <3>1. armed \subseteq Nat /\ armed # {}
      OBVIOUS
    <3>2. pollFunc(f, armed) \in armed
      <4> HIDE DEF armed
      <4> QED
        BY <2>1, <3>1, PollFunctionsFind
    <3> QED
      BY <3>2
  <2>3. FindsArmedSlot(f)
    <3> SUFFICES ASSUME NEW i \in 0..39, NEW j \in 0..39
                 PROVE  LET found == pollFunc(f, {i, j})
                        IN found \in {i, j} /\ found \div Lanes[f] = Min({i, j}) \div Lanes[f]
      BY DEF FindsArmedSlot
    <3> DEFINE armed == {i, j}
    <3>1. armed \subseteq Nat /\ armed # {}
      OBVIOUS
    <3>2. pollFunc(f, armed) \in armed /\ pollFunc(f, armed) \div Lanes[f] = Min(armed) \div Lanes[f]
      <4> HIDE DEF armed
      <4> QED
        BY <2>1, <3>1, PollFunctionsFind
    <3> QED
      BY <3>2
  <2> QED
    BY <2>2, <2>3 DEF f
<1> QED
  BY <1>1, <1>2, <1>3, PTL DEF Spec
=============================================================================
