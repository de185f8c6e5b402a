------------------------------ MODULE UartCache ------------------------------
(***************************************************************************)
(* The offline cache of tcp_bridge.c: the ring buffer s_rb with rb_write   *)
(* and rb_read, called by uart_rx_daemon_task (the only writer) and by the *)
(* sender tasks (the readers).  The loops run one byte per step, so that   *)
(* a task can be preempted between any two bytes, as it can on the chip;   *)
(* what keeps the others out is s_rb.mutex.                                *)
(*                                                                         *)
(* A byte is the number of its position in the serial stream (1, 2, ...).  *)
(***************************************************************************)
EXTENDS Integers, Sequences, SeqEnds

CONSTANTS
    Size,       \* UART_CACHE_SIZE (8192 in the code)
    BufSize,    \* BUF_SIZE, the bytes one rb_write or rb_read moves at most
    Readers,    \* the tasks that call rb_read
    Daemon,     \* uart_rx_daemon_task
    Nobody,     \* the holder of a free mutex
    MaxBytes    \* bound: length of the serial stream

ASSUME SizeAssumption == Size \in Nat \ {0}
ASSUME BufSizeAssumption == BufSize \in Nat \ {0}
ASSUME TaskAssumption == Daemon \notin Readers /\ Nobody \notin Readers \cup {Daemon}
ASSUME BoundAssumption == MaxBytes \in Nat

VARIABLES
    buffer,     \* s_rb.buffer
    head,       \* s_rb.head, the slot the next byte is written to
    tail,       \* s_rb.tail, the slot of the oldest byte
    count,      \* s_rb.count
    mutex,      \* the task that holds s_rb.mutex
    dpc,        \* the daemon: "uart" in uart_read_bytes, "take" entering
                \*   rb_write, "loop" in its for loop
    tmp_buf,    \* the bytes uart_read_bytes returned
    i,          \* rb_write's loop counter
    received,   \* bytes uart_read_bytes has returned so far
    rpc,        \* each reader: "take" entering rb_read, "loop" in its while
                \*   loop, "have" back in the caller with the bytes in dst
    dst,        \* each reader's bytes (read_cnt is the length)
    taken       \* history: the bytes readers have taken out

ringVars   == <<buffer, head, tail, count>>
daemonVars == <<dpc, tmp_buf, i, received>>
readerVars == <<rpc, dst, taken>>
vars       == <<ringVars, mutex, daemonVars, readerVars>>

(* malloc does not clear the buffer: 0 stands for whatever a slot holds    *)
(* before its first write.  It is no byte of the stream.                   *)
Garbage == 0

Slots == 0..(Size - 1)

(* rb_init succeeded and the daemon is in its loop.  When malloc fails,    *)
(* tcp_bridge_init returns and none of these tasks is created.             *)
Init == /\ buffer = [s \in Slots |-> Garbage]
        /\ head = 0
        /\ tail = 0
        /\ count = 0
        /\ mutex = Nobody
        /\ dpc = "uart"
        /\ tmp_buf = <<>>
        /\ i = 0
        /\ received = 0
        /\ rpc = [r \in Readers |-> "take"]
        /\ dst = [r \in Readers |-> <<>>]
        /\ taken = {}
-----------------------------------------------------------------------------
(* uart_read_bytes returns the next n bytes.  (When it times out with      *)
(* none, the daemon delays and calls it again: no state changes.)          *)
UartRead(n) == /\ dpc = "uart"
               /\ received + n <= MaxBytes
               /\ tmp_buf' = [k \in 1..n |-> received + k]
               /\ received' = received + n
               /\ dpc' = "take"
               /\ UNCHANGED <<ringVars, mutex, i, readerVars>>

(* rb_write that does not wait for the mutex (a mutant). *)
WriteTakeUnlocked == /\ dpc = "take"
                     /\ dpc' = "loop"
                     /\ i' = 0
                     /\ UNCHANGED <<ringVars, mutex, tmp_buf, received, readerVars>>

WriteTake == /\ dpc = "take"
             /\ mutex = Nobody
             /\ mutex' = Daemon
             /\ dpc' = "loop"
             /\ i' = 0
             /\ UNCHANGED <<ringVars, tmp_buf, received, readerVars>>

(* The turn of the for loop below with head not wrapped, with a full       *)
(* buffer not losing its oldest byte, and with one slot left unused        *)
(* (mutants).                                                              *)
StoreByte == /\ dpc = "loop"
             /\ i < Len(tmp_buf)
             /\ buffer' = [buffer EXCEPT ![head] = tmp_buf[i + 1]]
             /\ i' = i + 1
             /\ UNCHANGED <<mutex, dpc, tmp_buf, received, readerVars>>

WriteByteUnwrapped == /\ StoreByte
                      /\ head' = head + 1
                      /\ count' = IF count < Size THEN count + 1 ELSE count
                      /\ tail' = IF count < Size THEN tail ELSE tail + 1

WriteByteKeepsTail == /\ StoreByte
                      /\ head' = (head + 1) % Size
                      /\ count' = IF count < Size THEN count + 1 ELSE count
                      /\ UNCHANGED tail

WriteByteEarlyFull == /\ StoreByte
                      /\ head' = (head + 1) % Size
                      /\ count' = IF count < Size - 1 THEN count + 1 ELSE count
                      /\ tail' = IF count < Size - 1 THEN tail ELSE (tail + 1) % Size

(* One turn of the for loop: store the byte; a full buffer loses its       *)
(* oldest byte by moving tail instead of raising count.                    *)
WriteByte == /\ dpc = "loop"
             /\ i < Len(tmp_buf)
             /\ buffer' = [buffer EXCEPT ![head] = tmp_buf[i + 1]]
             /\ head' = (head + 1) % Size
             /\ \/ /\ count < Size
                   /\ count' = count + 1
                   /\ UNCHANGED tail
                \/ /\ ~(count < Size)
                   /\ tail' = (tail + 1) % Size
                   /\ UNCHANGED count
             /\ i' = i + 1
             /\ UNCHANGED <<mutex, dpc, tmp_buf, received, readerVars>>

WriteGive == /\ dpc = "loop"
             /\ i = Len(tmp_buf)
             /\ mutex' = Nobody
             /\ dpc' = "uart"
             /\ UNCHANGED <<ringVars, tmp_buf, i, received, readerVars>>
-----------------------------------------------------------------------------
ReadTake(r) == /\ rpc[r] = "take"
               /\ mutex = Nobody
               /\ mutex' = r
               /\ rpc' = [rpc EXCEPT ![r] = "loop"]
               /\ UNCHANGED <<ringVars, daemonVars, dst, taken>>

(* The turn of rb_read's loop below without count-- (a mutant). *)
ReadByteKeepsCount(r) == /\ rpc[r] = "loop"
                         /\ Len(dst[r]) < BufSize
                         /\ count > 0
                         /\ dst' = [dst EXCEPT ![r] = Append(@, buffer[tail])]
                         /\ tail' = (tail + 1) % Size
                         /\ taken' = taken \cup {buffer[tail]}
                         /\ UNCHANGED <<buffer, head, count, mutex, daemonVars, rpc>>

ReadByte(r) == /\ rpc[r] = "loop"
               /\ Len(dst[r]) < BufSize
               /\ count > 0
               /\ dst' = [dst EXCEPT ![r] = Append(@, buffer[tail])]
               /\ tail' = (tail + 1) % Size
               /\ count' = count - 1
               /\ taken' = taken \cup {buffer[tail]}
               /\ UNCHANGED <<buffer, head, mutex, daemonVars, rpc>>

ReadGive(r) == /\ rpc[r] = "loop"
               /\ \/ Len(dst[r]) = BufSize
                  \/ count = 0
               /\ mutex' = Nobody
               /\ rpc' = [rpc EXCEPT ![r] = "have"]
               /\ UNCHANGED <<ringVars, daemonVars, dst, taken>>

(* The caller sends the bytes, or sleeps when there are none, and calls    *)
(* rb_read again with an empty dst.                                        *)
Consume(r) == /\ rpc[r] = "have"
              /\ dst' = [dst EXCEPT ![r] = <<>>]
              /\ rpc' = [rpc EXCEPT ![r] = "take"]
              /\ UNCHANGED <<ringVars, mutex, daemonVars, taken>>

Next == \/ \E n \in 1..BufSize : UartRead(n)
        \/ WriteTake \/ WriteByte \/ WriteGive
        \/ \E r \in Readers : ReadTake(r) \/ ReadByte(r) \/ ReadGive(r) \/ Consume(r)

Spec == Init /\ [][Next]_vars
-----------------------------------------------------------------------------
TypeOK == /\ buffer \in [Slots -> Nat]
          /\ head \in Slots
          /\ tail \in Slots
          /\ count \in 0..Size
          /\ mutex \in Readers \cup {Daemon, Nobody}
          /\ dpc \in {"uart", "take", "loop"}
          /\ tmp_buf \in Seq(Nat)
          /\ i \in Nat
          /\ received \in Nat
          /\ rpc \in [Readers -> {"take", "loop", "have"}]
          /\ dst \in [Readers -> Seq(Nat)]
          /\ taken \in SUBSET Nat

(* Bytes of the stream that rb_write has stored so far. *)
Stored == IF dpc = "uart" THEN received ELSE
          IF dpc = "take" THEN received - Len(tmp_buf)
                          ELSE received - Len(tmp_buf) + i

(* The slot of the k-th oldest cached byte, from 0. *)
SlotOf(k) == (tail + k) % Size

(* The cache always holds the newest bytes stored, without a gap, oldest   *)
(* at tail: neither a wrap of head or tail, nor an overwrite in a full     *)
(* buffer, nor a reader that drains it in between, may shift or tear them. *)
HoldsNewest == \A k \in 0..(count - 1) : buffer[SlotOf(k)] = Stored - count + 1 + k

(* A byte is lost only by being overwritten in a FULL buffer: whatever is  *)
(* among the last Size bytes stored is still cached or was handed out.     *)
LossOnlyWhenFull ==
    \A b \in 1..Stored : \/ b <= Stored - Size
                         \/ b > Stored - count
                         \/ b \in taken

(* What one rb_read returns is a gap-free run of the stream, although the  *)
(* daemon writes, and overwrites, between any two of its calls.            *)
ChunkContiguous ==
    \A r \in Readers : \A k \in 1..(Len(dst[r]) - 1) : dst[r][k + 1] = dst[r][k] + 1

(* No byte is handed out twice or after a younger one, whichever readers   *)
(* take them.                                                              *)
TakenInOrder ==
    [][\A r \in Readers : Len(dst'[r]) > Len(dst[r]) =>
           \A c \in taken : dst'[r][Len(dst'[r])] > c]_vars
-----------------------------------------------------------------------------
(* The refinement: an rb_write or rb_read takes effect as a whole when it  *)
(* gets the mutex; the turns of its loop then only carry it out.           *)
Contents == [k \in 1..count |-> buffer[SlotOf(k - 1)]]

FifoQueue ==
    IF dpc = "loop"
    THEN Newest(Contents \o Rest(tmp_buf, i), Size)
    ELSE IF mutex \in Readers THEN Rest(Contents, BufSize - Len(dst[mutex]))
                              ELSE Contents

FifoNext == IF dpc = "take" THEN received - Len(tmp_buf) ELSE received

FifoChunk == [r \in Readers |-> IF mutex = r
                                THEN dst[r] \o Prefix(Contents, BufSize - Len(dst[r]))
                                ELSE dst[r]]

Fifo == INSTANCE LossyFifo WITH Capacity <- Size, ChunkMax <- BufSize,
                queue <- FifoQueue, next <- FifoNext, chunk <- FifoChunk

(* rb_write and rb_read, run a byte at a time between preemptions, behave  *)
(* as the atomic operations of LossyFifo.                                  *)
ImplementsFifo == Fifo!Spec
=============================================================================
