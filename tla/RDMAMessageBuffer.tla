-------------------------- MODULE RDMAMessageBuffer --------------------------
(***************************************************************************)
(* datastructures/RDMAMessageBuffer: the predecessor of the RDMA ring, on  *)
(* memory that is not mapped twice. Receiver, adapter and message format   *)
(* are those of VirtualRDMARingBuffer (readPos is its localReadPos,        *)
(* currentRemoteReceive its remoteReadPos). Its send differs: it waits for *)
(* space before it copies each of the three parts of a message, and what   *)
(* goes over the end of the ring is sent as two writes. Each write counts  *)
(* as a message and is waited for if it is the Window-th.                  *)
(*                                                                         *)
(* sendPos is advanced when the send ends; the code advances it with every *)
(* part and remembers startOfWrite.                                        *)
(***************************************************************************)
EXTENDS VirtualRDMARingBuffer

VARIABLES
    copied,     \* words of the message in sendBuf
    posted      \* words of the message posted

messageVars == <<copied, posted>>
allVars == <<vars, messageVars>>

MessageInit == Init /\ copied = 0 /\ posted = 0
-----------------------------------------------------------------------------
\* send: "data > buffersize!", before anything is copied.
BeginMessage(n) ==
    /\ spc = "idle" /\ messageCounter < MaxSends /\ Total(n) <= Size
    /\ sending' = n /\ spc' = "waitFree"
    /\ UNCHANGED <<sendPos, messageCounter, remoteReadPos, sendBuf, variant, adapterVars,
                   receiverVars, outbox, messageVars>>

\* The part to copy next: size word, payload or validity word.
PartLen == IF copied \in {0, sending + 1} THEN 1 ELSE sending

\* Mutant: the words copied before are not counted.
NoSpace_Forgets == PartLen > SafeToWrite

NoSpace == PartLen > SafeToWrite - copied

\* writeToSendBuffer: wait for space ...
PostReadForPart ==
    /\ spc = "waitFree" /\ NoSpace
    /\ SubmitRead /\ UNCHANGED messageVars

\* ... and copy, around the end of the buffer if need be.
CopyPart ==
    /\ spc = "waitFree" /\ ~NoSpace
    /\ sendBuf' = Overlay(sendBuf, sendPos + copied,
            [i \in 0..PartLen - 1 |-> MessageWord(sendPos, sending, copied + i)])
    /\ copied' = copied + PartLen
    /\ spc' = IF copied' = Total(sending) THEN "postSlice" ELSE "waitFree"
    /\ UNCHANGED <<sendPos, messageCounter, remoteReadPos, sending, variant, adapterVars,
                   receiverVars, outbox, posted>>

\* wraparound: the words up to the end of the ring, then the rest.
SliceEnd ==
    LET toEnd == Size - Slot(sendPos)
    IN IF posted = 0 /\ Total(sending) > toEnd THEN toEnd ELSE Total(sending)

\* After a slice: the next one, or the end of the send.
SliceDone(upTo) ==
    /\ messageCounter' = messageCounter + 1
    /\ IF upTo < Total(sending)
       THEN spc' = "postSlice" /\ posted' = upTo /\ UNCHANGED <<sendPos, sending, copied>>
       ELSE /\ spc' = "idle" /\ sending' = 0 /\ copied' = 0 /\ posted' = 0
            /\ sendPos' = sendPos + Total(sending)

PostSlice ==
    /\ spc = "postSlice"
    /\ LET n == SliceEnd - posted
       IN sq' = Append(sq, WriteRequest(sendPos + posted, n, ShouldClearQueue, n <= MaxInline,
                                        unsignaled + 1))
    /\ used' = used + 1
    /\ unsignaled' = IF ShouldClearQueue THEN 0 ELSE unsignaled + 1
    /\ outbox' = IF posted = 0 THEN Append(outbox, ThisMessage) ELSE outbox
    /\ IF ShouldClearQueue
       THEN /\ spc' = "getEvent" /\ posted' = SliceEnd
            /\ UNCHANGED <<messageCounter, sendPos, sending, copied>>
       ELSE SliceDone(SliceEnd)
    /\ UNCHANGED <<remoteReadPos, sendBuf, variant, placed, cq, receiverVars>>

\* waitForCompletion came to its end.
DrainSlice ==
    /\ DrainThen(SliceDone(posted))
    /\ HasCompletion(cq) => UNCHANGED messageVars
-----------------------------------------------------------------------------
\* Both classes, whichever the behaviour began with.
IsMessageBuffer == variant = "RDMAMessageBuffer"

BeginBuffer ==
    \/ IsMessageBuffer /\ \E n \in PayloadLens : BeginMessage(n)
    \/ ~IsMessageBuffer /\ BeginSend /\ UNCHANGED messageVars
BufferSender ==
    \/ IsMessageBuffer /\ (PostReadForPart \/ CopyPart \/ PostSlice \/ DrainSlice)
    \/ ~IsMessageBuffer /\ (PostRead \/ PostMessage \/ Drain) /\ UNCHANGED messageVars
    \/ (PollRead \/ GetEvent \/ RequestNotify) /\ UNCHANGED messageVars
BufferAdapter == Adapter /\ UNCHANGED messageVars
BufferReceiver == Receiver /\ UNCHANGED messageVars
BeginReceiving == StartReceive /\ UNCHANGED messageVars

MessageNext == BeginBuffer \/ BufferSender \/ BufferAdapter \/ BufferReceiver \/ BeginReceiving

MessageSpec == MessageInit /\ [][MessageNext]_allVars

\* As FairSpec of VirtualRDMARingBuffer.
FairMessageSpec ==
    /\ MessageSpec
    /\ WF_allVars(BufferSender) /\ WF_allVars(BufferAdapter)
    /\ WF_allVars(BufferReceiver) /\ WF_allVars(BeginReceiving)
=============================================================================
