---------------------------- MODULE MCMulticlient ----------------------------
(* Instances of MulticlientRecvVsPoll for TLC; the .cfg files give values.   *)
EXTENDS MulticlientRecvVsPoll
=============================================================================
