----------------------------- MODULE ByteStream -----------------------------
(***************************************************************************)
(* What Transport.h promises of a connection, seen as two byte streams     *)
(* (one per writing side): write(buffer, size) appends bytes to the        *)
(* writer's stream, and the other side's read and readSome hand out those  *)
(* bytes one after the other, unchanged, none lost and none repeated.      *)
(*                                                                         *)
(* Byte p of a stream is named by its position (ByteAt), which is all that *)
(* a transport that never looks into the data can tell apart.              *)
(***************************************************************************)
EXTENDS Naturals, Sequences

CONSTANTS
    Side,       \* the two ends of the connection
    MaxWrite    \* the most bytes one write publishes at once

VARIABLES
    chan,       \* chan[s]: bytes written by s that its peer has not copied out
    produced,   \* produced[s]: how many bytes s has written so far
    last        \* last[s]: the byte most recently handed to the reader s

streamVars == <<chan, produced, last>>

\* Fresh memory holds 0; the byte at position p of a stream is p + 1.
ByteAt(p) == p + 1

Init ==
    /\ chan = [s \in Side |-> <<>>]
    /\ produced = [s \in Side |-> 0]
    /\ last = [s \in Side |-> 0]

\* s writes n bytes; they become visible to the reader at once.
Write(s, n) ==
    /\ chan' = [chan EXCEPT ![s] = @ \o [i \in 1..n |-> ByteAt(produced[s] + i - 1)]]
    /\ produced' = [produced EXCEPT ![s] = @ + n]
    /\ UNCHANGED last

\* The next byte of s's stream is handed to the caller of read at r.
Read(s, r) ==
    /\ chan[s] # <<>>
    /\ last' = [last EXCEPT ![r] = Head(chan[s])]
    /\ chan' = [chan EXCEPT ![s] = Tail(@)]
    /\ UNCHANGED produced

Next == \E s \in Side :
    \/ \E n \in 1..MaxWrite : Write(s, n)
    \/ \E r \in Side \ {s} : Read(s, r)

Spec == Init /\ [][Next]_streamVars
=============================================================================
