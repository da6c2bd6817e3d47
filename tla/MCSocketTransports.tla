------------------------- MODULE MCSocketTransports -------------------------
(* Instances of SocketTransports for TLC; the .cfg files give values.        *)
EXTENDS SocketTransports

\* Less than a message for the transports that go on after a part of one; a whole
\* message for the multi-client server, which can then receive it at once.
CONSTANTS SmallCapacity, WholeCapacity
BufferOf == [k \in Kinds |-> IF k = "MulticlientTCP" THEN WholeCapacity ELSE SmallCapacity]
=============================================================================
