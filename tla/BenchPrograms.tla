---------------------------- MODULE BenchPrograms ----------------------------
(***************************************************************************)
(* The message exchanges of rawCommandBench, indirectWriteBench and        *)
(* multiclientPollingBench as programs of the client and the server: the   *)
(* calls each makes, in order. VerbsExchange says what a call does. All of *)
(* them are echoes: the client sends, the server copies what it received   *)
(* and sends it back, the client compares.                                 *)
(*                                                                         *)
(* poll* take a completion, await* and poll{Pos,Bell} spin on memory,      *)
(* post* post a work request.                                              *)
(***************************************************************************)
EXTENDS Sequences, SequencesExt

\* Both sides send what the peer needs to know over TCP (queue pair address,
\* then keys of memory regions) and connect the queue pair after that.
Exchange(n) == FlattenSeq([i \in 1..n |-> <<"tcpWrite", "tcpRead">>]) \o <<"qpConnect">>

\* n addresses are exchanged, `first' is done before; pollFunc and slots say how
\* the slots of receive positions are polled.
Polling(first, n, client, server, pollFunction, slots) ==
    [ setup |-> [client |-> <<"connectSocket">> \o first \o Exchange(n),
                 server |-> <<"setUpListenSocket", "accept">> \o first \o Exchange(n)],
      loop |-> [client |-> client, server |-> server],
      end |-> [client |-> <<>>, server |-> <<>>],
      poll |-> pollFunction, slots |-> slots ]

Program(first, n, client, server) == Polling(first, n, client, server, "scalarPoll", 1)
-----------------------------------------------------------------------------
(* rawCommandBench                                                          *)

\* Mutant: no receive request is posted before the addresses are exchanged.
runConnected_LateRecv ==
    Program(<<>>, 1,
        <<"clear", "postSend", "pollSend", "postRecv", "pollRecv", "check">>,
        <<"postRecv", "pollRecv", "copy", "postSend", "pollSend">>)

\* Send and receive requests. The receive request is posted again before the
\* data it delivered is looked at.
runConnected ==
    Program(<<"postRecv">>, 1,
        <<"clear", "postSend", "pollSend", "pollRecv", "postRecv", "check">>,
        <<"pollRecv", "postRecv", "copy", "postSend", "pollSend">>)

\* The same over unreliable datagrams.
runUnconnected ==
    Program(<<"postRecv">>, 1,
        <<"clear", "postSend", "pollSend", "pollRecv", "postRecv", "check">>,
        <<"pollRecv", "postRecv", "copy", "postSend", "pollSend">>)

\* A write; the receiver polls its first and its last byte.
runWriteMemPolling ==
    Program(<<>>, 2,
        <<"clear", "postWrite", "pollWrite", "awaitFirst", "awaitLast", "check">>,
        <<"awaitFirst", "awaitLast", "copy", "clear", "postWrite", "pollWrite">>)

\* Mutant: the polled byte is written first.
runParanoidWriteMemPolling_FirstByteFirst ==
    Program(<<>>, 2,
        <<"clear", "postFirst", "postRest", "pollWrite", "pollWrite", "awaitFirst", "check">>,
        <<"awaitFirst", "copy", "clear", "postFirst", "postRest", "pollWrite", "pollWrite">>)

\* Two writes, the polled first byte with the second one.
runParanoidWriteMemPolling ==
    Program(<<>>, 2,
        <<"clear", "postRest", "postFirst", "pollWrite", "pollWrite", "awaitFirst", "check">>,
        <<"awaitFirst", "copy", "clear", "postRest", "postFirst", "pollWrite", "pollWrite">>)

runWriteWithImm ==
    Program(<<"postRecv">>, 2,
        <<"clear", "postImm", "pollWrite", "pollRecvImm", "postRecv", "check">>,
        <<"pollRecvImm", "postRecv", "copy", "clear", "postImm", "pollWrite">>)

\* The client writes to the server and reads it back; the server waits for "EOF".
ReadBack(client) ==
    [Program(<<>>, 2, client, <<>>)
        EXCEPT !.end = [client |-> <<"tcpWrite">>, server |-> <<"tcpRead">>]]

runRead == ReadBack(<<"clear", "postWrite", "postRead", "pollWrite", "pollRead", "check">>)

runReadPolling ==
    ReadBack(<<"clear", "postWrite", "postReadUnsignaled", "pollWrite",
               "awaitFirst", "awaitLast", "check">>)
-----------------------------------------------------------------------------
(* indirectWriteBench: the message goes to a random position of a large     *)
(* buffer and the receiver learns the position                              *)

\* in the immediate data,
runImmData ==
    Program(<<"postRecv">>, 2,
        <<"pickPos", "postImm", "pollWrite", "pollRecvPos", "postRecv", "check">>,
        <<"pollRecvPos", "postRecv", "copy", "pickPos", "postImm", "pollWrite">>)

\* in a second write that is chained to the first and posted with it,
runChainedWrs ==
    Program(<<>>, 3,
        <<"pickPos", "postWriteAndPos", "pollWrite", "pollWrite", "pollPos", "clearPos", "check">>,
        <<"pollPos", "clearPos", "copy", "pickPos", "postWriteAndPos", "pollWrite", "pollWrite">>)

\* in a second write,
runPostedWrs ==
    Program(<<>>, 3,
        <<"pickPos", "postWrite", "postPos", "pollWrite", "pollWrite", "pollPos", "clearPos", "check">>,
        <<"pollPos", "clearPos", "copy", "pickPos", "postWrite", "postPos", "pollWrite", "pollWrite">>)

\* Mutant: what was received is not cleared.
runDoublePollingWrs_NoClear ==
    Program(<<>>, 3,
        <<"pickPos", "postPos", "postWrite", "pollWrite", "pollWrite", "pollPos", "clearPos",
          "awaitFirst", "awaitLast", "check">>,
        <<"pollPos", "clearPos", "awaitFirst", "awaitLast", "copy",
          "pickPos", "postPos", "postWrite", "pollWrite", "pollWrite">>)

\* or in a first write; then the message itself is polled for too.
runDoublePollingWrs ==
    Program(<<>>, 3,
        <<"pickPos", "postPos", "postWrite", "pollWrite", "pollWrite", "pollPos", "clearPos",
          "awaitFirst", "awaitLast", "check", "clearMessage">>,
        <<"pollPos", "clearPos", "awaitFirst", "awaitLast", "copy", "clearMessage",
          "pickPos", "postPos", "postWrite", "pollWrite", "pollWrite">>)
-----------------------------------------------------------------------------
(* multiclientPollingBench: the same with a slot per client that could be   *)
(* connected; the one client uses the last                                  *)

\* Baseline. The server picks the position of its answer before it waits.
runImmDataBaseline ==
    Program(<<"postRecv">>, 2,
        <<"pickPos", "postImm", "pollWrite", "pollRecvPos", "postRecv", "check">>,
        <<"pickPos", "pollRecvPos", "postRecv", "copy", "postImm", "pollWrite">>)

bigBuffer(pollFunction, slots) ==
    Polling(<<>>, 3,
        <<"pickPos", "postWrite", "postPos", "pollWrite", "pollWrite", "pollPos", "clearPos", "check">>,
        <<"pickPos", "pollPos", "clearPos", "copy", "postWrite", "postPos", "pollWrite", "pollWrite">>,
        pollFunction, slots)

\* A buffer per slot, and a doorbell byte per slot.
exclusiveBuffer(pollFunction, slots) ==
    Polling(<<"ownPos">>, 3,
        <<"postWrite", "postBell", "pollWrite", "pollWrite", "pollBell", "clearPos", "check">>,
        <<"pollBell", "clearPos", "copy", "postWrite", "postBell", "pollWrite", "pollWrite">>,
        pollFunction, slots)
-----------------------------------------------------------------------------
Programs ==
    [ runConnected |-> runConnected, runUnconnected |-> runUnconnected,
      runWriteMemPolling |-> runWriteMemPolling,
      runParanoidWriteMemPolling |-> runParanoidWriteMemPolling,
      runWriteWithImm |-> runWriteWithImm, runRead |-> runRead,
      runReadPolling |-> runReadPolling,
      runImmData |-> runImmData, runChainedWrs |-> runChainedWrs,
      runPostedWrs |-> runPostedWrs, runDoublePollingWrs |-> runDoublePollingWrs,
      runImmDataBaseline |-> runImmDataBaseline,
      bigBuffer |-> bigBuffer("scalarPoll", 2),
      bigBufferSIMD |-> bigBuffer("SIMDPoll", 8),
      bigBufferSSE |-> bigBuffer("SSEPoll", 4),
      exclusiveBuffer |-> exclusiveBuffer("exPoll", 2),
      exclusiveBufferSIMD |-> exclusiveBuffer("exPollSIMD", 32),
      exclusiveBufferSSE |-> exclusiveBuffer("exPollSSE", 16),
      exclusiveBufferPCMP |-> exclusiveBuffer("exPollPCMP", 16) ]
=============================================================================
