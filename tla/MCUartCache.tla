----------------------------- MODULE MCUartCache -----------------------------
(***************************************************************************)
(* UartCache on a cache of 3 bytes, chunks of up to 2 bytes and a stream   *)
(* of 7: the buffer wraps twice, overflows inside a write and drains       *)
(* inside a read, with two readers contending.                             *)
(***************************************************************************)
EXTENDS UartCache
=============================================================================
