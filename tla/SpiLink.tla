------------------------------- MODULE SpiLink -------------------------------
(***************************************************************************)
(* The high-performance SPI examples (peripherals/spi/high_performance):   *)
(* a master and a slave, both working in their interrupt handlers.  The    *)
(* slave raises the HANDSHAKE line when the master may start the next      *)
(* transaction; lengths go through two status registers, data in chunks    *)
(* of 64 bytes, a stream buffer on each side decouples the tasks.  A unit  *)
(* of data is its number, so that order and loss show.                     *)
(***************************************************************************)
EXTENDS Integers, Sequences, SeqEnds

CONSTANTS Modes,     \* of "send" (ESP_HSPI_MASTER_SEND, ESP_SPI_SLAVE_RECV) and "recv" (neither)
          CHUNK,     \* 64 bytes
          RING,      \* SPI_BUFFER_MAX_SIZE and the slave's 4096
          BLOCK,     \* what the writing task writes at a time
          READ_SIZE, \* what the reading task takes at most
          Total,     \* units the writing task writes in all
          WRAP       \* 2^32, at which total_send_len wraps

\* A block is a number of chunks, a read takes at least one (2048, 64 and 1024
\* bytes), and a buffer of 4096 holds one of each.
ASSUME SpiAssumption ==
    /\ Modes \subseteq {"send", "recv"} /\ Total \in Nat
    /\ CHUNK \in Nat \ {0} /\ BLOCK \in Nat \ {0} /\ \E chunks \in 1..BLOCK : BLOCK = chunks * CHUNK
    /\ RING \in Nat /\ CHUNK <= RING /\ READ_SIZE \in Nat /\ CHUNK <= READ_SIZE
    /\ WRAP \in Nat /\ RING < WRAP

VARIABLES mode,
          master,    \* [mode, len, wait]: intr_trans_mode, transmit_len, wait_recv_data
          irq, line, \* the master's GPIO interrupt is pending; the HANDSHAKE level
          slave,     \* [recv, send, sending, wait]: total_recv_len, total_send_len, the flags
          done,      \* transactions the slave's handler has not seen yet
          wr_status, rd_status, mosi, miso, \* the slave's registers
          src, dst,  \* the stream buffers of the side that sends and of the other
          writer, written, reader, read, \* the two tasks: where they are, units written, units read
          raced      \* history: the handlers overtook a task between two of its steps
vars == <<mode, master, irq, line, slave, done, wr_status, rd_status, mosi, miso, src, dst,
          writer, written, reader, read, raced>>
registers == <<wr_status, rd_status, mosi, miso>>
tasks == <<writer, written, reader, read>>

Init == /\ mode \in Modes /\ master = [mode |-> "NULL", len |-> 0, wait |-> FALSE] /\ irq = FALSE /\ line = 0
        /\ slave = [recv |-> 0, send |-> 0, sending |-> FALSE, wait |-> FALSE] /\ done = {}
        /\ wr_status = 0 /\ rd_status = 0 /\ mosi = <<>> /\ miso = <<>> /\ src = <<>> /\ dst = <<>>
        /\ writer = "send" /\ written = 0 /\ reader = "read" /\ read = <<>> /\ raced = FALSE

\* The one below without the limit of a transaction (a mutant).
UptoAll(n) == n
Upto(n) == IF n > CHUNK THEN CHUNK ELSE n
Spaces(ring) == RING - Len(ring)
Transact(event) == done' = done \cup {event}
-----------------------------------------------------------------------------
\* gpio_isr_handler, with the one transaction it may make.
\* Nothing under way: announce what is to be sent, or ask for what is to be read.
MasterIdle ==
    /\ master.mode = "NULL" /\ irq' = FALSE
    /\ \/ /\ mode = "send" /\ src # <<>>
          /\ master' = [master EXCEPT !.mode = "WRITE", !.len = Len(src)]
          /\ wr_status' = Len(src) /\ Transact("WR_STA") /\ UNCHANGED rd_status
       \/ /\ ~(mode = "send" /\ src # <<>>)
          /\ master' = [master EXCEPT !.mode = IF rd_status > 0 THEN "READ" ELSE "NULL", !.len = rd_status]
          /\ Transact("RD_STA") /\ UNCHANGED <<wr_status, rd_status>>
    /\ UNCHANGED <<mosi, miso, src, dst>>
\* A chunk to read, if there is room for a whole one.
MasterRead ==
    /\ master.mode = "READ" /\ irq' = FALSE   \* nothing to send waits in mode "recv"
    /\ IF Spaces(dst) >= CHUNK
       THEN /\ dst' = dst \o Prefix(miso, Upto(master.len)) /\ Transact("RD_BUF")
            /\ LET left == master.len - Upto(master.len) IN
               master' = [master EXCEPT !.len = left, !.mode = IF left = 0 THEN "NULL" ELSE "READ"]
       ELSE master' = [master EXCEPT !.wait = TRUE] /\ UNCHANGED <<dst, done>>
    /\ UNCHANGED <<registers, src>>
\* A chunk to write; after the last one the next lot, or status 0.
MasterWrite ==
    /\ master.mode = "WRITE"
    /\ IF master.len > 0
       THEN /\ mosi' = Prefix(src, Upto(master.len)) /\ src' = Rest(src, Upto(master.len)) /\ Transact("WR_BUF")
            /\ master' = [master EXCEPT !.len = @ - Upto(@)] /\ irq' = FALSE /\ UNCHANGED wr_status
       ELSE /\ master' = [master EXCEPT !.mode = "NULL"] /\ irq' = (src # <<>>)
            /\ IF src # <<>> THEN UNCHANGED <<wr_status, done>> ELSE wr_status' = 0 /\ Transact("WR_STA")
            /\ UNCHANGED <<mosi, src>>
    /\ UNCHANGED <<rd_status, miso, dst>>
MasterIsr == irq /\ (MasterIdle \/ MasterRead \/ MasterWrite) /\ UNCHANGED <<mode, line, slave, tasks, raced>>
-----------------------------------------------------------------------------
\* spi_event_callback on h, what it works on: the slave's variables, its
\* registers, its buffers and the line, which it lowers first.  Each kind of
\* transaction is handled if it is among those done, in the order of the code.
Load(h) == IF h.src = <<>> THEN h
           ELSE [h EXCEPT !.miso = Prefix(h.src, CHUNK), !.src = Rest(h.src, CHUNK), !.line = 1,
                          !.send = (@ + WRAP - Len(Prefix(h.src, CHUNK))) % WRAP]
ReadBufDone(h) ==
    IF h.send # 0 THEN Load(h)
    ELSE IF h.src = <<>> THEN [h EXCEPT !.sending = FALSE]
    ELSE [h EXCEPT !.sending = TRUE, !.send = Len(h.src), !.rd_status = Len(h.src), !.line = 1]
Gathered(h) == [h EXCEPT !.dst = @ \o Prefix(Prefix(mosi, Upto(h.recv)), Spaces(h.dst)), !.recv = @ - Upto(@)]
\* The one below raising the line without room (a mutant).
WriteBufDoneAlways(h) == [Gathered(h) EXCEPT !.line = 1]
WriteBufDone(h) == IF Spaces(Gathered(h).dst) >= CHUNK THEN [Gathered(h) EXCEPT !.line = 1]
                   ELSE [Gathered(h) EXCEPT !.wait = TRUE]
\* In mode "send" the slave has nothing to send.
WriteStatusDone(h) == [h EXCEPT !.recv = wr_status, !.line = IF wr_status > 0 THEN 1 ELSE @]
ReadStatusDone(h) == IF mode = "send" THEN h ELSE Load(h)
SlaveIsr ==
    /\ done # {} /\ done' = {}
    /\ LET h0 == [recv |-> slave.recv, send |-> slave.send, sending |-> slave.sending, wait |-> slave.wait,
                  rd_status |-> rd_status, miso |-> miso, src |-> src, dst |-> dst, line |-> 0]
           h1 == IF "RD_BUF" \in done THEN ReadBufDone(h0) ELSE h0
           h2 == IF "WR_BUF" \in done THEN WriteBufDone(h1) ELSE h1
           h3 == IF "WR_STA" \in done THEN WriteStatusDone(h2) ELSE h2
           h4 == IF "RD_STA" \in done THEN ReadStatusDone(h3) ELSE h3
       IN /\ slave' = [recv |-> h4.recv, send |-> h4.send, sending |-> h4.sending, wait |-> h4.wait]
          /\ rd_status' = h4.rd_status /\ miso' = h4.miso /\ src' = h4.src /\ dst' = h4.dst
          /\ line' = h4.line
    /\ irq' = (irq \/ line' = 1)
    /\ raced' = (raced \/ (reader \in {"check", "clear"} /\ slave'.wait)
                       \/ (writer = "notify" /\ mode = "recv" /\ ~slave'.sending))
    /\ UNCHANGED <<mode, master, wr_status, mosi, tasks>>
-----------------------------------------------------------------------------
Raise == line' = 1 /\ irq' = (irq \/ line = 0)
\* The writing task: a block, when there is room for all of it; then, in a
\* critical section, it starts the interrupts if they are not going.
WriterSends == /\ writer = "send" /\ written + BLOCK <= Total /\ Spaces(src) >= BLOCK
               /\ src' = src \o [i \in 1..BLOCK |-> written + i] /\ written' = written + BLOCK
               /\ writer' = "notify"
               /\ UNCHANGED <<mode, master, irq, line, slave, done, registers, dst, reader, read, raced>>
\* The one below without the look at intr_trans_mode (a mutant).
NotifyMasterAlways == irq' = TRUE /\ UNCHANGED <<line, slave, rd_status>>
\* spi_master_write_slave_task
NotifyMaster == irq' = (irq \/ master.mode = "NULL") /\ UNCHANGED <<line, slave, rd_status>>
\* spi_slave_write_master_task
NotifySlave == IF slave.sending THEN UNCHANGED <<slave, rd_status, line, irq>>
               ELSE slave' = [slave EXCEPT !.send = Len(src), !.sending = TRUE] /\ rd_status' = Len(src) /\ Raise
WriterNotifies == /\ writer = "notify" /\ writer' = "send"
                  /\ IF mode = "send" THEN NotifyMaster ELSE NotifySlave
                  /\ UNCHANGED <<mode, master, done, wr_status, mosi, miso, src, dst, written, reader, read, raced>>
\* The reading task takes what there is and then looks whether the other side
\* waits for room: spi_master_read_slave_task and spi_slave_read_master_task,
\* of which the second raises the line before it clears its flag.
ReaderTakes == /\ reader = "read" /\ dst # <<>>
               /\ read' = read \o Prefix(dst, READ_SIZE) /\ dst' = Rest(dst, READ_SIZE) /\ reader' = "check"
               /\ UNCHANGED <<mode, master, irq, line, slave, done, registers, src, writer, written, raced>>
ReaderChecksMaster == IF master.wait /\ Len(dst) > CHUNK
                      THEN master' = [master EXCEPT !.wait = FALSE] /\ irq' = TRUE
                      ELSE UNCHANGED <<master, irq>>
ReaderChecks ==
    /\ reader = "check"
    /\ IF mode = "recv" THEN ReaderChecksMaster /\ reader' = "read" /\ UNCHANGED line
       ELSE IF slave.wait /\ Len(dst) > CHUNK THEN Raise /\ reader' = "clear" /\ UNCHANGED master
       ELSE reader' = "read" /\ UNCHANGED <<master, line, irq>>
    /\ UNCHANGED <<mode, slave, done, registers, src, dst, writer, written, read, raced>>
ReaderClears == /\ reader = "clear" /\ reader' = "read" /\ slave' = [slave EXCEPT !.wait = FALSE]
                /\ UNCHANGED <<mode, master, irq, line, done, registers, src, dst, writer, written, read, raced>>

Writer == WriterSends \/ WriterNotifies
Reader == ReaderTakes \/ ReaderChecks \/ ReaderClears
Next == MasterIsr \/ SlaveIsr \/ Writer \/ Reader
Spec == /\ Init /\ [][Next]_vars
        /\ WF_vars(MasterIsr) /\ WF_vars(SlaveIsr) /\ WF_vars(Writer) /\ WF_vars(Reader)
-----------------------------------------------------------------------------
TypeOK ==
    /\ mode \in Modes /\ irq \in BOOLEAN /\ line \in 0..1 /\ raced \in BOOLEAN
    /\ master \in [mode: {"NULL", "READ", "WRITE"}, len: 0..RING, wait: BOOLEAN]
    /\ slave \in [recv: 0..RING, send: 0..(WRAP - 1), sending: BOOLEAN, wait: BOOLEAN]
    /\ done \subseteq {"RD_BUF", "WR_BUF", "WR_STA", "RD_STA"} /\ {wr_status, rd_status} \subseteq 0..RING
    /\ {mosi, miso, src, dst, read} \subseteq Seq(Nat)
    /\ Len(src) <= RING /\ Len(dst) <= RING /\ Len(mosi) <= CHUNK /\ Len(miso) <= CHUNK
    /\ writer \in {"send", "notify"} /\ reader \in {"read", "check", "clear"} /\ written \in 0..Total
\* What has arrived is the beginning of what was written: no chunk is lost in a
\* full buffer, overwritten in a register before it was taken, or read twice,
\* under the premise of AllArrives.
ArrivesInOrder == ~raced => read \o dst = [i \in 1..Len(read \o dst) |-> i]
\* The line does its work: whenever the master's handler makes a transaction of
\* data, of the kind of the one before or of another, the slave has handled
\* all those before it.
StartsData ==
    MasterIsr /\ \/ master.mode = "READ" /\ Spaces(dst) >= CHUNK
                 \/ master.mode = "WRITE" /\ master.len > 0
OneChunkAtATime == [][StartsData => done = {}]_vars
\* All that is written is read in the end: no chunk, length or wake-up is
\* lost between two handlers and two tasks, unless the handlers overtook a
\* task: the slave's reader after it took data and before it has cleared its
\* flag, or its writer between filling the buffer and looking at sending_flag.
AllArrives == <>(Len(read) = Total \/ raced)
=============================================================================
