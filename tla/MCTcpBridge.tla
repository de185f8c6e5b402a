----------------------------- MODULE MCTcpBridge -----------------------------
(***************************************************************************)
(* TcpBridge with two clients, one after the other, a cache of 1 to 3      *)
(* bytes and delays that keep the order of the real ones.  Its             *)
(* configurations differ in what may fail and in who else holds            *)
(* descriptors.                                                            *)
(***************************************************************************)
EXTENDS TcpBridge
=============================================================================
