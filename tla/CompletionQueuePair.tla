------------------------- MODULE CompletionQueuePair -------------------------
(***************************************************************************)
(* rdma/CompletionQueuePair: the send completion queue of a connection,    *)
(* with its event channel. A queue is a record                             *)
(*   cqes    the completions not polled yet, each [id, frees] where frees  *)
(*           is the number of send queue slots that polling it gives back: *)
(*           its own and those of the unsignaled requests before it        *)
(*   armed   requestNotify was called since the last event                 *)
(*   events  events on the channel that getEvent has not taken             *)
(* The class's operations are operators on that record. The adapter adds a *)
(* completion (Completed); if the queue is armed it also raises one event. *)
(***************************************************************************)
EXTENDS Naturals, Sequences

\* What the constructor leaves: empty and armed.
NewQueue == [cqes |-> <<>>, armed |-> TRUE, events |-> 0]

\* The adapter reports a signaled work request as done.
Completed(q, id, frees) ==
    [cqes |-> Append(q.cqes, [id |-> id, frees |-> frees]),
     armed |-> FALSE,
     events |-> IF q.armed THEN q.events + 1 ELSE q.events]

HasCompletion(q) == q.cqes # <<>>
NextCompletion(q) == Head(q.cqes)

\* poll(1, &completion) found one.
Polled(q) == [q EXCEPT !.cqes = Tail(@)]

\* waitForCompletion: getEvent returns an event, then requestNotify re-arms.
HasEvent(q) == q.events > 0
EventTaken(q) == [q EXCEPT !.events = @ - 1]
NotifyRequested(q) == [q EXCEPT !.armed = TRUE]
=============================================================================
