------------------------------ MODULE LossyFifo ------------------------------
(***************************************************************************)
(* What the UART cache of tcp_bridge.c promises its callers: a FIFO of at  *)
(* most Capacity bytes in which a write never waits and never fails; when  *)
(* it overflows, the OLDEST bytes are dropped (the comment of rb_write).   *)
(* Each rb_write and each rb_read is ONE atomic step here.                 *)
(*                                                                         *)
(* A byte is the number of its position in the serial stream, so that the  *)
(* order of bytes and the bytes that are missing can be told.              *)
(***************************************************************************)
EXTENDS Integers, Sequences, SeqEnds

CONSTANTS
    Capacity,   \* bytes the cache holds
    ChunkMax,   \* bytes one rb_write or rb_read moves at most
    Readers,    \* tasks that call rb_read
    MaxBytes    \* bound: length of the serial stream

VARIABLES
    queue,      \* the cached bytes, oldest first
    next,       \* bytes of the serial stream written so far
    chunk       \* what each reader got from its last rb_read

fifoVars == <<queue, next, chunk>>

Init == /\ queue = <<>>
        /\ next = 0
        /\ chunk = [r \in Readers |-> <<>>]

(* The operations below with the overflow kept, and with the bytes read    *)
(* left in the cache (mutants).                                            *)
WriteKeepsAll(n) == /\ next + n <= MaxBytes
                    /\ queue' = queue \o [k \in 1..n |-> next + k]
                    /\ next' = next + n
                    /\ UNCHANGED chunk

ReadPeeks(r) == /\ chunk[r] = <<>>
                /\ chunk' = [chunk EXCEPT ![r] = Prefix(queue, ChunkMax)]
                /\ UNCHANGED <<queue, next>>

(* rb_write of the next n bytes of the stream. *)
Write(n) == /\ next + n <= MaxBytes
            /\ queue' = Newest(queue \o [k \in 1..n |-> next + k], Capacity)
            /\ next' = next + n
            /\ UNCHANGED chunk

(* rb_read by r: as much as there is, up to ChunkMax. *)
Read(r) == /\ chunk[r] = <<>>
           /\ chunk' = [chunk EXCEPT ![r] = Prefix(queue, ChunkMax)]
           /\ queue' = Rest(queue, ChunkMax)
           /\ UNCHANGED next

(* The reader is done with the bytes it got. *)
Consume(r) == /\ chunk[r] # <<>>
              /\ chunk' = [chunk EXCEPT ![r] = <<>>]
              /\ UNCHANGED <<queue, next>>

Next == \/ \E n \in 1..ChunkMax : Write(n)
        \/ \E r \in Readers : Read(r) \/ Consume(r)

Spec == Init /\ [][Next]_fifoVars
=============================================================================
