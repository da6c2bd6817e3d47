--------------------------- MODULE MCVerbsExchange ---------------------------
(* Instances of VerbsExchange for TLC; the .cfg files give values.           *)
EXTENDS VerbsExchange
=============================================================================
