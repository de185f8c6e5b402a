---------------------------- MODULE SpiLinkProofs ----------------------------
(***************************************************************************)
(* The SPI link for every size of the chunks, the blocks and the stream    *)
(* buffers: what arrives is what was written, in its order, unless the     *)
(* handlers overtook a task, and the master never starts a transaction of  *)
(* data while the slave has not handled the one before.                    *)
(***************************************************************************)
EXTENDS SpiLink, RunProofs

Whole(n) == \E k \in Nat : n = k * CHUNK

(* What has left one stream buffer and is not in the other yet: a chunk in a *)
(* register of the slave.                                                    *)
Carried == IF mode = "send" THEN IF "WR_BUF" \in done THEN mosi ELSE <<>>
           ELSE IF master.mode = "READ" /\ done = {} THEN miso ELSE <<>>

(* Sequences with the first w units in their order, distributed over the   *)
(* four places of their way.                                               *)
Chain(r, d, c, s, w) ==
    \E i, j, k, l \in Nat : /\ r = Run(0, i) /\ d = Run(i, j) /\ c = Run(i + j, k) /\ s = Run(i + j + k, l)
                           /\ i + j + k + l = w
InOrder == Chain(read, dst, Carried, src, written)

(* Mode "send": what the master and the slave know of each other.          *)
SendControl ==
    /\ master.mode \in {"NULL", "WRITE"} /\ done \subseteq {"WR_STA", "WR_BUF", "RD_STA"}
    /\ "WR_BUF" \in done => done = {"WR_BUF"} /\ ~irq /\ master.mode = "WRITE"
    /\ slave.wait /\ reader # "clear" => ~irq /\ done = {} /\ master.mode = "WRITE"
    /\ master.mode = "WRITE" /\ irq => done = {}
    /\ master.mode = "WRITE" /\ "RD_STA" \in done => "WR_STA" \in done
SendNumbers ==
    /\ rd_status = 0
    /\ "WR_BUF" \in done => Len(mosi) = Upto(slave.recv)
    /\ master.mode = "WRITE" =>
         /\ master.len <= Len(src)
         /\ IF "WR_STA" \in done THEN wr_status = master.len ELSE slave.recv = master.len + Len(Carried)
(* There is room for a chunk, or the slave waits for it; as the reader has *)
(* just taken some, there is room.                                         *)
Room == Spaces(dst) >= CHUNK \/ (slave.wait /\ reader = "read")

(* Mode "recv": the five states of the transfer of a lot.                    *)
Quiet == ~irq /\ ~master.wait
Offer == slave.sending /\ rd_status = slave.send /\ slave.send > 0 /\ slave.send <= Len(src)
Idle == /\ master.mode = "NULL" /\ done = {} /\ Quiet /\ ~slave.sending /\ line = 0
        /\ writer = "notify" => src # <<>>
Announced == master.mode = "NULL" /\ done = {} /\ irq /\ ~master.wait /\ Offer
Asked == master.mode = "READ" /\ done = {"RD_STA"} /\ Quiet /\ Offer /\ master.len = slave.send
Loaded == /\ master.mode = "READ" /\ done = {} /\ (irq <=> ~master.wait) /\ slave.sending
          /\ Len(miso) = CHUNK /\ master.len = slave.send + CHUNK /\ slave.send <= Len(src)
Taken == /\ master.mode = (IF slave.send = 0 THEN "NULL" ELSE "READ") /\ done = {"RD_BUF"} /\ Quiet
         /\ slave.sending /\ master.len = slave.send /\ slave.send <= Len(src)
(* The writing task, overtaken, has announced an empty lot, or is about to.  *)
Overtaken == /\ master.mode = "NULL" /\ ~master.wait /\ done \subseteq {"RD_STA"}
             /\ IF slave.sending THEN rd_status = 0
                ELSE ~irq /\ done = {} /\ src = <<>> /\ writer = "notify"
Lot == Whole(Len(src)) /\ Whole(slave.send) /\ (Idle \/ Announced \/ Asked \/ Loaded \/ Taken)
RecvShape == ~slave.wait /\ (raced => Overtaken) /\ (~raced => Lot)

SendInv == SendControl /\ SendNumbers /\ (~raced => InOrder /\ Room)
RecvInv == RecvShape /\ (~raced => InOrder)
IInv == TypeOK /\ (mode = "send" => SendInv) /\ (mode = "recv" => RecvInv)
-----------------------------------------------------------------------------
(* Multiples of a chunk.                                                   *)
LEMMA Wholes ==
    /\ CHUNK \in Nat /\ CHUNK > 0 /\ BLOCK \in Nat /\ BLOCK > 0
    /\ Whole(0) /\ Whole(BLOCK)
    /\ \A a, b \in Nat : Whole(a) /\ Whole(b) => Whole(a + b)
    /\ \A a \in Nat : Whole(a) /\ a > 0 => a >= CHUNK /\ Whole(a - CHUNK)
  <1>1. /\ CHUNK \in Nat /\ CHUNK > 0 /\ BLOCK \in Nat /\ BLOCK > 0
        /\ \E k \in Nat : BLOCK = k * CHUNK
    BY SpiAssumption
  <1>2. Whole(0)
    <2>1. 0 = 0 * CHUNK
      BY <1>1
    <2> QED BY <2>1 DEF Whole
  <1>3. ASSUME NEW a \in Nat, NEW b \in Nat, Whole(a), Whole(b)
        PROVE  Whole(a + b)
    <2>1. PICK k \in Nat : a = k * CHUNK
      BY <1>3 DEF Whole
    <2>2. PICK l \in Nat : b = l * CHUNK
      BY <1>3 DEF Whole
    <2>3. a + b = (k + l) * CHUNK /\ k + l \in Nat
      BY <1>1, <2>1, <2>2
    <2> QED BY <2>3 DEF Whole
  <1>4. ASSUME NEW a \in Nat, Whole(a), a > 0
        PROVE  a >= CHUNK /\ Whole(a - CHUNK)
    <2>1. PICK k \in Nat : a = k * CHUNK
      BY <1>4 DEF Whole
    <2>2. k # 0
      BY <1>1, <1>4, <2>1
    <2>3. k - 1 \in Nat /\ a - CHUNK = (k - 1) * CHUNK
      BY <1>1, <2>1, <2>2
    <2>4. (k - 1) * CHUNK >= 0
      BY <1>1, <2>3
    <2> QED BY <1>1, <2>3, <2>4 DEF Whole
  <1> QED BY <1>1, <1>2, <1>3, <1>4 DEF Whole

(* The ends of a sequence of units are sequences of units.                 *)
LEMMA EndsTyped ==
    ASSUME NEW s \in Seq(Nat), NEW n \in Nat
    PROVE  /\ Prefix(s, n) \in Seq(Nat) /\ Rest(s, n) \in Seq(Nat)
           /\ Len(Prefix(s, n)) = IF Len(s) > n THEN n ELSE Len(s)
           /\ Len(Rest(s, n)) = IF Len(s) > n THEN Len(s) - n ELSE 0
           /\ Len(s) <= n => Prefix(s, n) = s
  <1>1. Len(s) \in Nat /\ \A k \in 1..Len(s) : s[k] \in Nat
    BY LenProperties, ElementOfSeq
  <1>2. ASSUME NEW j \in 1..(Len(s) + 1), NEW k \in 0..Len(s)
        PROVE  SubSeq(s, j, k) \in Seq(Nat) /\ Len(SubSeq(s, j, k)) = IF j <= k THEN k - j + 1 ELSE 0
    <2>1. j \in Int /\ k \in Int /\ \A i \in j..k : s[i] \in Nat
      BY <1>1
    <2> QED BY <2>1, SubSeqProperties
  <1>3. SubSeq(s, 1, Len(s)) = s
    BY SubSeqFull
  <1>4. /\ Prefix(s, n) \in Seq(Nat)
        /\ Len(Prefix(s, n)) = IF Len(s) > n THEN n ELSE Len(s)
        /\ Len(s) <= n => Prefix(s, n) = s
    <2> DEFINE k == IF Len(s) > n THEN n ELSE Len(s)
    <2>1. k \in 0..Len(s) /\ 1 \in 1..(Len(s) + 1) /\ (Len(s) <= n => k = Len(s))
      BY <1>1
    <2> HIDE DEF k
    <2>2. SubSeq(s, 1, k) \in Seq(Nat) /\ Len(SubSeq(s, 1, k)) = k
      BY <1>1, <1>2, <2>1
    <2> QED BY <1>3, <2>1, <2>2 DEF Prefix, k
  <1>5. /\ Rest(s, n) \in Seq(Nat)
        /\ Len(Rest(s, n)) = IF Len(s) > n THEN Len(s) - n ELSE 0
    <2> DEFINE j == IF Len(s) > n THEN n + 1 ELSE Len(s) + 1
               l == Len(s)
    <2>1. l \in Nat /\ j \in 1..(l + 1) /\ l \in 0..l
      BY <1>1
    <2>2. (IF j <= l THEN l - j + 1 ELSE 0) = IF l > n THEN l - n ELSE 0
      <3>1. ASSUME NEW a \in Nat
            PROVE  (IF (IF a > n THEN n + 1 ELSE a + 1) <= a THEN a - (IF a > n THEN n + 1 ELSE a + 1) + 1 ELSE 0)
                     = IF a > n THEN a - n ELSE 0
        OBVIOUS
      <3> QED BY <2>1, <3>1
    <2>3. Rest(s, n) = SubSeq(s, j, l)
      BY DEF Rest
    <2> HIDE DEF j
    <2>4. SubSeq(s, j, l) \in Seq(Nat) /\ Len(SubSeq(s, j, l)) = IF j <= l THEN l - j + 1 ELSE 0
      BY <1>2, <2>1
    <2> QED BY <2>2, <2>3, <2>4
  <1> QED BY <1>4, <1>5

(* What spi_event_callback works on keeps its types under each handler.    *)
Work == [recv: 0..RING, send: 0..(WRAP - 1), sending: BOOLEAN, wait: BOOLEAN, rd_status: 0..RING,
         miso: Seq(Nat), src: Seq(Nat), dst: Seq(Nat), line: 0..1]
Fits(h) == h \in Work /\ Len(h.src) <= RING /\ Len(h.dst) <= RING /\ Len(h.miso) <= CHUNK

LEMMA LoadTyped ==
    ASSUME NEW h, Fits(h)
    PROVE  Fits(Load(h))
  <1>1. /\ CHUNK \in Nat /\ RING \in Nat /\ WRAP \in Nat /\ RING < WRAP /\ CHUNK <= RING
        /\ h.src \in Seq(Nat) /\ Len(h.src) \in Nat /\ Len(h.src) <= RING /\ h.send \in 0..(WRAP - 1)
    BY SpiAssumption, LenProperties DEF Fits, Work
  <1> DEFINE p == Prefix(h.src, CHUNK)
             r == Rest(h.src, CHUNK)
  <1>2. /\ p \in Seq(Nat) /\ r \in Seq(Nat) /\ Len(p) \in 0..CHUNK /\ Len(r) <= RING
    <2>1. \A q \in Seq(Nat), n \in Nat :
            /\ Prefix(q, n) \in Seq(Nat) /\ Rest(q, n) \in Seq(Nat)
            /\ Len(q) \in Nat /\ Len(Prefix(q, n)) = IF Len(q) > n THEN n ELSE Len(q)
            /\ Len(Rest(q, n)) = IF Len(q) > n THEN Len(q) - n ELSE 0
      BY EndsTyped, LenProperties
    <2> QED BY <1>1, <2>1
  <1>3. (h.send + WRAP - Len(p)) % WRAP \in 0..(WRAP - 1)
    <2>1. h.send \in Int /\ Len(p) \in Int /\ WRAP \in Nat /\ WRAP > 0
      BY <1>1, <1>2
    <2>2. \A i \in Int : i % WRAP \in 0..(WRAP - 1)
      BY <2>1
    <2> HIDE DEF p
    <2>3. h.send + WRAP - Len(p) \in Int
      BY <2>1
    <2> QED BY <2>2, <2>3
  <1>4. CASE h.src = <<>>
    BY <1>4 DEF Load
  <1>5. CASE h.src # <<>>
    <2>1. Load(h) = [h EXCEPT !.miso = p, !.src = r, !.line = 1, !.send = (@ + WRAP - Len(p)) % WRAP]
      BY <1>5 DEF Load
    <2>2. Load(h) = [recv |-> h.recv, send |-> (h.send + WRAP - Len(p)) % WRAP, sending |-> h.sending,
                     wait |-> h.wait, rd_status |-> h.rd_status, miso |-> p, src |-> r, dst |-> h.dst, line |-> 1]
      BY <2>1 DEF Fits, Work
    <2> HIDE DEF p, r
    <2>3. Load(h) \in Work
      BY <1>2, <1>3, <2>2 DEF Fits, Work
    <2> QED BY <1>2, <2>2, <2>3 DEF Fits
  <1> QED BY <1>4, <1>5

LEMMA ReadBufTyped ==
    ASSUME NEW h, Fits(h)
    PROVE  Fits(ReadBufDone(h))
  <1>1. h.src \in Seq(Nat) /\ Len(h.src) \in 0..RING /\ RING \in Nat /\ WRAP \in Nat /\ RING < WRAP
    BY SpiAssumption, LenProperties DEF Fits, Work
  <1>2. CASE h.send # 0
    BY <1>2, LoadTyped DEF ReadBufDone
  <1>3. CASE h.send = 0 /\ h.src = <<>>
    BY <1>3 DEF ReadBufDone, Fits, Work
  <1>4. CASE h.send = 0 /\ h.src # <<>>
    <2> DEFINE n == Len(h.src)
    <2>1. ReadBufDone(h) = [h EXCEPT !.sending = TRUE, !.send = n, !.rd_status = n, !.line = 1]
      BY <1>4 DEF ReadBufDone
    <2>2. n \in 0..RING /\ n \in 0..(WRAP - 1)
      BY <1>1
    <2> HIDE DEF n
    <2>3. ReadBufDone(h) = [recv |-> h.recv, send |-> n, sending |-> TRUE, wait |-> h.wait, rd_status |-> n,
                            miso |-> h.miso, src |-> h.src, dst |-> h.dst, line |-> 1]
      BY <2>1 DEF Fits, Work
    <2>4. ReadBufDone(h) \in Work
      BY <2>2, <2>3 DEF Fits, Work
    <2> QED BY <2>3, <2>4 DEF Fits
  <1> QED BY <1>2, <1>3, <1>4

(* Where the stream buffer has room the whole chunk goes into it.          *)
LEMMA GatheredTyped ==
    ASSUME TypeOK, NEW h, Fits(h)
    PROVE  LET n == Upto(h.recv)
               all == h.dst \o Prefix(mosi, n)
           IN /\ Fits(Gathered(h))
              /\ Len(mosi) = n /\ n <= Spaces(h.dst) => Gathered(h) = [h EXCEPT !.dst = h.dst \o mosi, !.recv = @ - n]
  <1> DEFINE n == Upto(h.recv)
             p == Prefix(mosi, n)
             q == Prefix(p, Spaces(h.dst))
             d == h.dst \o q
  <1>1. /\ CHUNK \in Nat /\ RING \in Nat /\ h.recv \in 0..RING
        /\ h.dst \in Seq(Nat) /\ Len(h.dst) \in 0..RING /\ mosi \in Seq(Nat) /\ Len(mosi) \in Nat
    BY SpiAssumption, LenProperties DEF TypeOK, Fits, Work
  <1>2. n \in 0..RING /\ n <= h.recv /\ Spaces(h.dst) \in Nat /\ Spaces(h.dst) = RING - Len(h.dst)
    BY <1>1 DEF Upto, Spaces
  <1> HIDE DEF n
  <1>3. p \in Seq(Nat) /\ (Len(mosi) = n => p = mosi)
    BY <1>1, <1>2, EndsTyped
  <1>4. /\ q \in Seq(Nat) /\ Len(q) \in Nat /\ Len(q) <= Spaces(h.dst)
        /\ Len(p) <= Spaces(h.dst) => q = p
    <2> HIDE DEF p
    <2>1. Len(p) \in Nat
      BY <1>3, LenProperties
    <2> QED BY <1>2, <1>3, <2>1, EndsTyped
  <1>5. d \in Seq(Nat) /\ Len(d) <= RING
    <2> HIDE DEF q
    <2>1. d \in Seq(Nat) /\ Len(d) = Len(h.dst) + Len(q)
      BY <1>1, <1>4, ConcatProperties
    <2> QED BY <1>1, <1>2, <1>4, <2>1
  <1>6. Gathered(h) = [h EXCEPT !.dst = d, !.recv = h.recv - n]
    BY DEF Gathered, n, Fits, Work
  <1>7. Fits(Gathered(h))
    <2> HIDE DEF d
    <2>1. h.recv - n \in 0..RING
      BY <1>1, <1>2
    <2> QED BY <1>5, <1>6, <2>1 DEF Fits, Work
  <1>8. ASSUME Len(mosi) = n, n <= Spaces(h.dst)
        PROVE  Gathered(h) = [h EXCEPT !.dst = h.dst \o mosi, !.recv = @ - n]
    <2>1. q = mosi
      BY <1>3, <1>4, <1>8
    <2> HIDE DEF q
    <2> QED BY <1>6, <2>1 DEF Fits, Work
  <1> QED BY <1>7, <1>8 DEF n

LEMMA WriteBufTyped ==
    ASSUME TypeOK, NEW h, Fits(h)
    PROVE  Fits(WriteBufDone(h))
  <1>1. Fits(Gathered(h))
    BY GatheredTyped
  <1> DEFINE g == Gathered(h)
  <1>2. WriteBufDone(h) \in {[g EXCEPT !.line = 1], [g EXCEPT !.wait = TRUE]}
    BY DEF WriteBufDone
  <1> HIDE DEF g
  <1>3. ASSUME NEW l \in 0..1, NEW w \in BOOLEAN,
               WriteBufDone(h) = [recv |-> g.recv, send |-> g.send, sending |-> g.sending, wait |-> w,
                                  rd_status |-> g.rd_status, miso |-> g.miso, src |-> g.src, dst |-> g.dst,
                                  line |-> l]
        PROVE  Fits(WriteBufDone(h))
    <2>1. WriteBufDone(h) \in Work
      BY <1>1, <1>3 DEF Fits, Work, g
    <2> QED BY <1>1, <1>3, <2>1 DEF Fits, g
  <1>4. CASE WriteBufDone(h) = [g EXCEPT !.line = 1]
    <2>1. g.wait \in BOOLEAN /\ 1 \in 0..1
      BY <1>1 DEF Fits, Work, g
    <2>2. g \in Work
      BY <1>1 DEF Fits, g
    <2>3. WriteBufDone(h) = [recv |-> g.recv, send |-> g.send, sending |-> g.sending, wait |-> g.wait,
                             rd_status |-> g.rd_status, miso |-> g.miso, src |-> g.src, dst |-> g.dst,
                             line |-> 1]
      BY <1>4, <2>2 DEF Work
    <2> QED BY <1>3, <2>1, <2>3
  <1>5. CASE WriteBufDone(h) = [g EXCEPT !.wait = TRUE]
    <2>1. g.line \in 0..1 /\ TRUE \in BOOLEAN
      BY <1>1 DEF Fits, Work, g
    <2>2. g \in Work
      BY <1>1 DEF Fits, g
    <2>3. WriteBufDone(h) = [recv |-> g.recv, send |-> g.send, sending |-> g.sending, wait |-> TRUE,
                             rd_status |-> g.rd_status, miso |-> g.miso, src |-> g.src, dst |-> g.dst,
                             line |-> g.line]
      BY <1>5, <2>2 DEF Work
    <2> QED BY <1>3, <2>1, <2>3
  <1> QED BY <1>2, <1>4, <1>5

LEMMA WriteStatusTyped ==
    ASSUME TypeOK, NEW h, Fits(h)
    PROVE  Fits(WriteStatusDone(h))
  <1>1. wr_status \in 0..RING /\ RING \in Nat
    BY SpiAssumption DEF TypeOK
  <1> DEFINE l == IF wr_status > 0 THEN 1 ELSE h.line
  <1>2. WriteStatusDone(h) = [h EXCEPT !.recv = wr_status, !.line = l] /\ l \in 0..1
    BY <1>1 DEF WriteStatusDone, Fits, Work
  <1> HIDE DEF l
  <1>3. WriteStatusDone(h) = [recv |-> wr_status, send |-> h.send, sending |-> h.sending, wait |-> h.wait,
                              rd_status |-> h.rd_status, miso |-> h.miso, src |-> h.src, dst |-> h.dst,
                              line |-> l]
    BY <1>2 DEF Fits, Work
  <1>4. WriteStatusDone(h) \in Work
    BY <1>1, <1>2, <1>3 DEF Fits, Work
  <1> QED BY <1>3, <1>4 DEF Fits

(* The handler starts from the variables and leaves its work in them.      *)
Worked == [recv |-> slave.recv, send |-> slave.send, sending |-> slave.sending, wait |-> slave.wait,
           rd_status |-> rd_status, miso |-> miso, src |-> src, dst |-> dst, line |-> 0]
Results(h) == /\ slave' = [recv |-> h.recv, send |-> h.send, sending |-> h.sending, wait |-> h.wait]
              /\ rd_status' = h.rd_status /\ miso' = h.miso /\ src' = h.src /\ dst' = h.dst /\ line' = h.line

(* Every handler, and so the interrupt, keeps the types; what it does after *)
(* each kind of transaction.                                                *)
LEMMA SlaveTyped ==
    TypeOK /\ SlaveIsr =>
      /\ TypeOK' /\ Fits(Worked)
      /\ done = {"WR_BUF"} => Results(WriteBufDone(Worked))
      /\ done = {"RD_BUF"} => Results(ReadBufDone(Worked))
      /\ mode = "recv" /\ done = {"RD_STA"} => Results(Load(Worked))
      /\ mode = "send" /\ "RD_BUF" \notin done /\ "WR_BUF" \notin done =>
           Results(IF "WR_STA" \in done THEN WriteStatusDone(Worked) ELSE Worked)
  <1> SUFFICES ASSUME TypeOK, SlaveIsr
               PROVE  /\ TypeOK' /\ Fits(Worked)
                      /\ done = {"WR_BUF"} => Results(WriteBufDone(Worked))
                      /\ done = {"RD_BUF"} => Results(ReadBufDone(Worked))
                      /\ mode = "recv" /\ done = {"RD_STA"} => Results(Load(Worked))
                      /\ mode = "send" /\ "RD_BUF" \notin done /\ "WR_BUF" \notin done =>
                           Results(IF "WR_STA" \in done THEN WriteStatusDone(Worked) ELSE Worked)
    OBVIOUS
  <1> DEFINE h1 == IF "RD_BUF" \in done THEN ReadBufDone(Worked) ELSE Worked
             h2 == IF "WR_BUF" \in done THEN WriteBufDone(h1) ELSE h1
             h3 == IF "WR_STA" \in done THEN WriteStatusDone(h2) ELSE h2
             h4 == IF "RD_STA" \in done THEN ReadStatusDone(h3) ELSE h3
  <1>1. Fits(Worked)
    BY SpiAssumption DEF TypeOK, Fits, Work, Worked
  <1> HIDE DEF Worked
  <1>2. /\ done' = {} /\ Results(h4) /\ raced' \in BOOLEAN /\ irq' \in BOOLEAN
        /\ UNCHANGED <<mode, master, wr_status, mosi, tasks>>
    BY DEF SlaveIsr, Results, Worked
  <1>3. /\ done = {"WR_BUF"} => Results(WriteBufDone(Worked))
        /\ done = {"RD_BUF"} => Results(ReadBufDone(Worked))
        /\ mode = "recv" /\ done = {"RD_STA"} => Results(Load(Worked))
        /\ mode = "send" /\ "RD_BUF" \notin done /\ "WR_BUF" \notin done =>
             Results(IF "WR_STA" \in done THEN WriteStatusDone(Worked) ELSE Worked)
    <2>1. /\ done = {"WR_BUF"} => h4 = WriteBufDone(Worked)
          /\ done = {"RD_BUF"} => h4 = ReadBufDone(Worked)
          /\ mode = "recv" /\ done = {"RD_STA"} => h4 = Load(Worked)
          /\ mode = "send" /\ "RD_BUF" \notin done /\ "WR_BUF" \notin done =>
               h4 = IF "WR_STA" \in done THEN WriteStatusDone(Worked) ELSE Worked
      BY DEF ReadStatusDone
    <2> HIDE DEF h4
    <2> QED BY <1>2, <2>1
  <1>4. Fits(h1)
    BY <1>1, ReadBufTyped
  <1> HIDE DEF h1
  <1>5. Fits(h2)
    BY <1>4, WriteBufTyped
  <1> HIDE DEF h2
  <1>6. Fits(h3)
    BY <1>5, WriteStatusTyped
  <1> HIDE DEF h3
  <1>7. Fits(h4)
    BY <1>6, LoadTyped DEF ReadStatusDone
  <1> HIDE DEF h4
  <1>8. /\ slave' \in [recv: 0..RING, send: 0..(WRAP - 1), sending: BOOLEAN, wait: BOOLEAN]
        /\ rd_status' \in 0..RING /\ miso' \in Seq(Nat) /\ src' \in Seq(Nat) /\ dst' \in Seq(Nat)
        /\ Len(src') <= RING /\ Len(dst') <= RING /\ Len(miso') <= CHUNK /\ line' \in 0..1
    BY <1>2, <1>7 DEF Fits, Work, Results
  <1>9. TypeOK'
    BY <1>2, <1>8 DEF TypeOK, tasks
  <1> QED BY <1>1, <1>3, <1>9
-----------------------------------------------------------------------------
(* Every step keeps the types.                                             *)
LEMMA Numbers ==
    TypeOK => /\ CHUNK \in Nat /\ CHUNK > 0 /\ RING \in Nat /\ CHUNK <= RING /\ RING < WRAP /\ WRAP \in Nat
              /\ BLOCK \in Nat /\ BLOCK > 0 /\ READ_SIZE \in Nat /\ CHUNK <= READ_SIZE /\ Total \in Nat
              /\ src \in Seq(Nat) /\ Len(src) \in 0..RING /\ dst \in Seq(Nat) /\ Len(dst) \in 0..RING
              /\ mosi \in Seq(Nat) /\ Len(mosi) \in 0..CHUNK /\ miso \in Seq(Nat) /\ Len(miso) \in 0..CHUNK
              /\ read \in Seq(Nat) /\ Len(read) \in Nat
              /\ (src = <<>> <=> Len(src) = 0) /\ (dst = <<>> <=> Len(dst) = 0)
  BY SpiAssumption, LenProperties, EmptySeq DEF TypeOK

LEMMA UptoTyped ==
    ASSUME NEW n \in Nat
    PROVE  /\ Upto(n) \in Nat /\ Upto(n) <= n /\ Upto(n) <= CHUNK /\ n - Upto(n) \in Nat
           /\ (n > 0 => Upto(n) > 0) /\ (n >= CHUNK => Upto(n) = CHUNK)
  BY SpiAssumption DEF Upto

LEMMA MasterTyped == TypeOK /\ MasterIsr => TypeOK'
  <1> SUFFICES ASSUME TypeOK, MasterIsr PROVE TypeOK'
    OBVIOUS
  <1>1. master.len \in 0..RING /\ master.len \in Nat /\ rd_status \in 0..RING /\ wr_status \in 0..RING
    BY Numbers DEF TypeOK
  <1>2. UNCHANGED <<mode, line, slave, raced>> /\ UNCHANGED tasks
    BY DEF MasterIsr
  <1>3. CASE MasterIdle
    <2>1. /\ irq' = FALSE /\ UNCHANGED <<mosi, miso, src, dst, rd_status>>
          /\ wr_status' \in 0..RING /\ \E e \in {"WR_STA", "RD_STA"} : done' = done \cup {e}
      BY <1>1, <1>3, Numbers DEF MasterIdle, Transact
    <2>2. master' \in [mode: {"NULL", "READ", "WRITE"}, len: 0..RING, wait: BOOLEAN]
      <3>1. \E m \in {"NULL", "READ", "WRITE"}, l \in 0..RING : master' = [master EXCEPT !.mode = m, !.len = l]
        BY <1>1, <1>3, Numbers DEF MasterIdle
      <3> QED BY <3>1 DEF TypeOK
    <2> QED BY <1>2, <2>1, <2>2 DEF TypeOK, tasks
  <1>4. CASE MasterRead
    <2>1. CASE Spaces(dst) >= CHUNK
      <3> DEFINE n == Upto(master.len)
                 p == Prefix(miso, n)
      <3>1. n \in Nat /\ n <= CHUNK /\ n <= master.len
        BY <1>1, UptoTyped
      <3>2. p \in Seq(Nat) /\ Len(p) \in Nat /\ Len(p) <= CHUNK
        <4>1. miso \in Seq(Nat) /\ Len(miso) \in Nat /\ CHUNK \in Nat
          BY Numbers
        <4> HIDE DEF n
        <4> QED BY <3>1, <4>1, EndsTyped
      <3>3. dst \o p \in Seq(Nat) /\ Len(dst \o p) = Len(dst) + Len(p)
        <4> HIDE DEF p
        <4> QED BY <3>2, Numbers, ConcatProperties
      <3>4. Len(dst) + CHUNK <= RING
        BY <2>1, Numbers DEF Spaces
      <3>5. /\ dst' = dst \o p /\ irq' = FALSE /\ done' = done \cup {"RD_BUF"} /\ UNCHANGED <<registers, src>>
            /\ master' = [master EXCEPT !.len = master.len - n, !.mode = IF master.len - n = 0 THEN "NULL" ELSE "READ"]
        BY <1>4, <2>1 DEF MasterRead, Transact
      <3>6. dst' \in Seq(Nat) /\ Len(dst') <= RING
        BY <3>2, <3>3, <3>4, <3>5, Numbers
      <3>7. master' \in [mode: {"NULL", "READ", "WRITE"}, len: 0..RING, wait: BOOLEAN]
        <4> HIDE DEF n
        <4>1. master.len - n \in 0..RING
          <5>1. master.len \in Nat /\ master.len <= RING /\ RING \in Nat
            BY <1>1, Numbers
          <5> QED BY <3>1, <5>1
        <4>2. master' = [mode |-> IF master.len - n = 0 THEN "NULL" ELSE "READ", len |-> master.len - n,
                         wait |-> master.wait]
          BY <3>5 DEF TypeOK
        <4> QED BY <4>1, <4>2 DEF TypeOK
      <3>8. /\ irq' \in BOOLEAN /\ done' \subseteq {"RD_BUF", "WR_BUF", "WR_STA", "RD_STA"}
            /\ UNCHANGED <<mosi, miso, wr_status, rd_status, src>>
        BY <3>5 DEF TypeOK, registers
      <3> HIDE DEF n, p
      <3> QED BY <1>2, <3>6, <3>7, <3>8 DEF TypeOK, tasks
    <2>2. CASE ~(Spaces(dst) >= CHUNK)
      BY <1>2, <1>4, <2>2 DEF MasterRead, TypeOK, tasks, registers
    <2> QED BY <2>1, <2>2
  <1>5. CASE MasterWrite
    <2>1. CASE master.len > 0
      <3> DEFINE n == Upto(master.len)
      <3>1. n \in Nat /\ n <= CHUNK /\ n <= master.len
        BY <1>1, UptoTyped
      <3> HIDE DEF n
      <3>2. /\ mosi' = Prefix(src, n) /\ src' = Rest(src, n) /\ irq' = FALSE /\ done' = done \cup {"WR_BUF"}
            /\ master' = [master EXCEPT !.len = master.len - n] /\ UNCHANGED <<wr_status, rd_status, miso, dst>>
        BY <1>5, <2>1 DEF MasterWrite, Transact, n, TypeOK
      <3>3. /\ mosi' \in Seq(Nat) /\ Len(mosi') <= CHUNK /\ src' \in Seq(Nat) /\ Len(src') <= RING
        <4>1. src \in Seq(Nat) /\ Len(src) \in 0..RING /\ CHUNK \in Nat /\ RING \in Nat
          BY Numbers
        <4>2. /\ Prefix(src, n) \in Seq(Nat) /\ Len(Prefix(src, n)) <= CHUNK
              /\ Rest(src, n) \in Seq(Nat) /\ Len(Rest(src, n)) <= RING
          BY <3>1, <4>1, EndsTyped
        <4> QED BY <3>2, <4>2
      <3>4. master' \in [mode: {"NULL", "READ", "WRITE"}, len: 0..RING, wait: BOOLEAN]
        <4>1. master.len - n \in 0..RING
          <5>1. master.len \in Nat /\ master.len <= RING /\ RING \in Nat
            BY <1>1, Numbers
          <5> QED BY <3>1, <5>1
        <4>2. master' = [mode |-> master.mode, len |-> master.len - n, wait |-> master.wait]
          BY <3>2 DEF TypeOK
        <4> QED BY <4>1, <4>2 DEF TypeOK
      <3> QED BY <1>2, <3>2, <3>3, <3>4 DEF TypeOK, tasks
    <2>2. CASE ~(master.len > 0)
      BY <1>2, <1>5, <2>2, Numbers DEF MasterWrite, TypeOK, tasks, Transact
    <2> QED BY <2>1, <2>2
  <1> QED BY <1>3, <1>4, <1>5 DEF MasterIsr

LEMMA TasksTyped == TypeOK /\ (Writer \/ Reader) => TypeOK'
  <1> SUFFICES ASSUME TypeOK, Writer \/ Reader PROVE TypeOK'
    OBVIOUS
  <1>1. CASE WriterSends
    <2>1. [i \in 1..BLOCK |-> written + i] \in Seq(Nat) /\ Len([i \in 1..BLOCK |-> written + i]) = BLOCK
      <3>1. written \in Nat
        BY Numbers DEF TypeOK
      <3> QED BY <3>1, Numbers, RunIsSeq DEF Run
    <2>2. src' \in Seq(Nat) /\ Len(src') = Len(src) + BLOCK
      <3> DEFINE b == [i \in 1..BLOCK |-> written + i]
      <3>1. src' = src \o b
        BY <1>1 DEF WriterSends
      <3> HIDE DEF b
      <3> QED BY <2>1, <3>1, Numbers, ConcatProperties DEF b
    <2>3. Len(src) + BLOCK <= RING
      BY <1>1, Numbers DEF WriterSends, Spaces
    <2>4. written' \in 0..Total
      <3>1. written \in 0..Total /\ written' = written + BLOCK /\ written + BLOCK <= Total
        BY <1>1 DEF WriterSends, TypeOK
      <3> QED BY <3>1, Numbers
    <2> QED BY <1>1, <2>2, <2>3, <2>4 DEF WriterSends, TypeOK, registers
  <1>2. CASE WriterNotifies
    <2>1. Len(src) \in 0..RING /\ Len(src) \in 0..(WRAP - 1)
      BY Numbers
    <2>2. CASE NotifyMaster
      <3>1. irq' \in BOOLEAN
        BY <2>2 DEF NotifyMaster
      <3> QED BY <1>2, <2>2, <3>1 DEF WriterNotifies, NotifyMaster, TypeOK
    <2>3. CASE NotifySlave /\ slave.sending
      BY <1>2, <2>3 DEF WriterNotifies, NotifySlave, TypeOK
    <2>4. CASE NotifySlave /\ ~slave.sending
      <3>1. Raise /\ rd_status' = Len(src) /\ slave' = [slave EXCEPT !.send = Len(src), !.sending = TRUE]
        BY <2>4 DEF NotifySlave
      <3>2. irq' \in BOOLEAN /\ line' \in 0..1
        BY <3>1 DEF Raise
      <3>3. slave' \in [recv: 0..RING, send: 0..(WRAP - 1), sending: BOOLEAN, wait: BOOLEAN]
        BY <2>1, <3>1 DEF TypeOK
      <3> QED BY <1>2, <2>1, <3>1, <3>2, <3>3 DEF WriterNotifies, TypeOK
    <2> QED BY <1>2, <2>2, <2>3, <2>4 DEF WriterNotifies
  <1>3. CASE ReaderTakes
    <2>1. /\ Prefix(dst, READ_SIZE) \in Seq(Nat) /\ Rest(dst, READ_SIZE) \in Seq(Nat)
          /\ Len(Rest(dst, READ_SIZE)) <= RING
      BY Numbers, EndsTyped
    <2>2. read' \in Seq(Nat)
      <3> DEFINE p == Prefix(dst, READ_SIZE)
      <3>1. read' = read \o p
        BY <1>3 DEF ReaderTakes
      <3> HIDE DEF p
      <3> QED BY <2>1, <3>1, Numbers, ConcatProperties DEF p
    <2> QED BY <1>3, <2>1, <2>2 DEF ReaderTakes, TypeOK, registers
  <1>4. CASE ReaderChecks
    <2>1. irq' \in BOOLEAN /\ line' \in 0..1
      <3>1. Raise => irq' \in BOOLEAN /\ line' \in 0..1
        BY DEF Raise
      <3> QED BY <1>4, <3>1 DEF ReaderChecks, ReaderChecksMaster, TypeOK
    <2>2. reader' \in {"read", "check", "clear"}
      BY <1>4 DEF ReaderChecks
    <2>3. master' \in [mode: {"NULL", "READ", "WRITE"}, len: 0..RING, wait: BOOLEAN]
      BY <1>4 DEF ReaderChecks, ReaderChecksMaster, TypeOK
    <2> QED BY <1>4, <2>1, <2>2, <2>3 DEF ReaderChecks, TypeOK, registers
  <1>5. CASE ReaderClears
    BY <1>5 DEF ReaderClears, TypeOK, registers
  <1> QED BY <1>1, <1>2, <1>3, <1>4, <1>5 DEF Writer, Reader

LEMMA TypeInit == Init => TypeOK
  <1> SUFFICES ASSUME Init PROVE TypeOK
    OBVIOUS
  <1>1. 0 \in 0..RING /\ 0 \in 0..(WRAP - 1) /\ 0 \in 0..Total /\ 0 <= RING /\ 0 <= CHUNK
    BY SpiAssumption
  <1>2. <<>> \in Seq(Nat) /\ Len(<<>>) = 0
    BY EmptySeq
  <1>3. /\ {mosi, miso, src, dst, read} \subseteq Seq(Nat)
        /\ Len(src) <= RING /\ Len(dst) <= RING /\ Len(mosi) <= CHUNK /\ Len(miso) <= CHUNK
    BY <1>1, <1>2 DEF Init
  <1>4. /\ mode \in Modes /\ line \in 0..1 /\ written \in 0..Total
        /\ irq \in BOOLEAN /\ raced \in BOOLEAN
    <2>1. mode \in Modes /\ line \in 0..1 /\ written \in 0..Total
      BY <1>1 DEF Init
    <2>2. irq \in BOOLEAN /\ raced \in BOOLEAN
      BY DEF Init
    <2> QED BY <2>1, <2>2
  <1>5. /\ master \in [mode: {"NULL", "READ", "WRITE"}, len: 0..RING, wait: BOOLEAN]
        /\ slave \in [recv: 0..RING, send: 0..(WRAP - 1), sending: BOOLEAN, wait: BOOLEAN]
    BY <1>1 DEF Init
  <1>6. /\ done \subseteq {"RD_BUF", "WR_BUF", "WR_STA", "RD_STA"} /\ {wr_status, rd_status} \subseteq 0..RING
        /\ writer \in {"send", "notify"} /\ reader \in {"read", "check", "clear"}
    BY <1>1 DEF Init
  <1> QED BY <1>3, <1>4, <1>5, <1>6 DEF TypeOK

LEMMA TypeNext == TypeOK /\ [Next]_vars => TypeOK'
  <1>1. TypeOK /\ UNCHANGED vars => TypeOK'
    BY DEF TypeOK, vars
  <1> QED BY <1>1, SlaveTyped, MasterTyped, TasksTyped DEF Next

(* Lengths stay within the stream buffers and the registers, at any time,  *)
(* overtaken tasks or not: gpio_isr_handler's assertion included.          *)
THEOREM TypeCorrect == Spec => []TypeOK
  BY TypeInit, TypeNext, PTL DEF Spec
-----------------------------------------------------------------------------
(* The data on their way: what each step that moves some makes of a chain. *)
Least(m, n) == IF m > n THEN n ELSE m
LEMMA RunSplits ==
    ASSUME NEW a \in Nat, NEW m \in Nat, NEW n \in Nat
    PROVE  /\ Least(m, n) \in Nat /\ m - Least(m, n) \in Nat /\ Least(m, n) + (m - Least(m, n)) = m
           /\ Prefix(Run(a, m), n) = Run(a, Least(m, n))
           /\ Rest(Run(a, m), n) = Run(a + Least(m, n), m - Least(m, n))
  <1>1. /\ Prefix(Run(a, m), n) = Run(a, IF m > n THEN n ELSE m)
        /\ Rest(Run(a, m), n) = IF m > n THEN Run(a + n, m - n) ELSE <<>>
    BY RunEnds
  <1>2. CASE m > n
    <2>1. m - n \in Nat /\ n + (m - n) = m
      BY <1>2
    <2> QED BY <1>1, <1>2, <2>1 DEF Least
  <1>3. CASE ~(m > n)
    <2>1. a + m \in Nat /\ m - m = 0 /\ m + 0 = m
      OBVIOUS
    <2>2. Run(a + m, 0) = <<>>
      BY <2>1, RunIsSeq
    <2> QED BY <1>1, <1>3, <2>1, <2>2 DEF Least
  <1> QED BY <1>2, <1>3

LEMMA ChainLoads ==
    ASSUME NEW r, NEW d, NEW s, NEW w, Chain(r, d, <<>>, s, w), NEW n \in Nat
    PROVE  Chain(r, d, Prefix(s, n), Rest(s, n), w)
  <1>1. PICK i, j, k, l \in Nat : /\ r = Run(0, i) /\ d = Run(i, j) /\ <<>> = Run(i + j, k)
                                 /\ s = Run(i + j + k, l) /\ i + j + k + l = w
    BY DEF Chain
  <1>2. k = 0 /\ i + j \in Nat /\ i + j + 0 = i + j
    <2>1. i + j \in Nat /\ i + j + 0 = i + j
      OBVIOUS
    <2>2. Len(Run(i + j, k)) = k
      BY <2>1, RunIsSeq
    <2>3. Len(<<>>) = 0
      BY EmptySeq
    <2> QED BY <1>1, <2>1, <2>2, <2>3
  <1> DEFINE a == i + j
  <1>3. s = Run(a, l) /\ a \in Nat
    BY <1>1, <1>2
  <1> HIDE DEF a
  <1>4. PICK x, y \in Nat : x + y = l /\ Prefix(s, n) = Run(a, x) /\ Rest(s, n) = Run(a + x, y)
    <2> DEFINE v == Least(l, n)
               z == l - v
    <2>1. a \in Nat
      BY <1>3
    <2>2. /\ v \in Nat /\ z \in Nat /\ v + z = l
          /\ Prefix(Run(a, l), n) = Run(a, v) /\ Rest(Run(a, l), n) = Run(a + v, z)
      BY ONLY <2>1, l \in Nat, n \in Nat, RunSplits
    <2> HIDE DEF v, z
    <2> QED BY <1>3, <2>2
  <1>5. i + j + x + y = w
    BY <1>1, <1>2, <1>4
  <1>6. /\ r = Run(0, i) /\ d = Run(i, j)
        /\ Prefix(s, n) = Run(i + j, x) /\ Rest(s, n) = Run(i + j + x, y)
    BY <1>1, <1>4 DEF a
  <1> QED BY <1>5, <1>6 DEF Chain

LEMMA ChainUnloads ==
    ASSUME NEW r, NEW d, NEW c, NEW s, NEW w, Chain(r, d, c, s, w)
    PROVE  Chain(r, d \o c, <<>>, s, w)
  <1>1. PICK i, j, k, l \in Nat : /\ r = Run(0, i) /\ d = Run(i, j) /\ c = Run(i + j, k)
                                 /\ s = Run(i + j + k, l) /\ i + j + k + l = w
    BY DEF Chain
  <1> DEFINE m == j + k
  <1>2. m \in Nat /\ i + m = i + j + k /\ i + m + 0 = i + j + k /\ i + m \in Nat /\ i + m + 0 + l = w
    BY <1>1
  <1>3. d \o c = Run(i, m)
    BY <1>1, RunConcat
  <1> HIDE DEF m
  <1>4. Run(i + m, 0) = <<>>
    BY <1>2, RunIsSeq
  <1>5. s = Run(i + m + 0, l)
    BY <1>1, <1>2
  <1> QED BY <1>1, <1>2, <1>3, <1>4, <1>5 DEF Chain

LEMMA ChainGrows ==
    ASSUME NEW r, NEW d, NEW c, NEW s, NEW w, Chain(r, d, c, s, w), NEW b \in Nat
    PROVE  Chain(r, d, c, s \o Run(w, b), w + b)
  <1>1. PICK i, j, k, l \in Nat : /\ r = Run(0, i) /\ d = Run(i, j) /\ c = Run(i + j, k)
                                 /\ s = Run(i + j + k, l) /\ i + j + k + l = w
    BY DEF Chain
  <1>2. i + j + k \in Nat /\ l + b \in Nat /\ i + j + k + (l + b) = w + b
    BY <1>1
  <1>3. s \o Run(w, b) = Run(i + j + k, l + b)
    <2> DEFINE a == i + j + k
    <2>1. a \in Nat /\ s = Run(a, l) /\ w = a + l
      BY <1>1
    <2> HIDE DEF a
    <2>2. s \o Run(w, b) = Run(a, l + b)
      BY <2>1, RunConcat
    <2> QED BY <2>2 DEF a
  <1> DEFINE m == l + b
  <1>4. m \in Nat /\ s \o Run(w, b) = Run(i + j + k, m) /\ i + j + k + m = w + b
    BY <1>2, <1>3
  <1> HIDE DEF m
  <1>5. \E x, y, z, u \in Nat : /\ r = Run(0, x) /\ d = Run(x, y) /\ c = Run(x + y, z)
                               /\ s \o Run(w, b) = Run(x + y + z, u) /\ x + y + z + u = w + b
    BY <1>1, <1>4
  <1> QED BY <1>5 DEF Chain

LEMMA ChainTakes ==
    ASSUME NEW r, NEW d, NEW c, NEW s, NEW w, Chain(r, d, c, s, w), NEW n \in Nat
    PROVE  Chain(r \o Prefix(d, n), Rest(d, n), c, s, w)
  <1>1. PICK i, j, k, l \in Nat : /\ r = Run(0, i) /\ d = Run(i, j) /\ c = Run(i + j, k)
                                 /\ s = Run(i + j + k, l) /\ i + j + k + l = w
    BY DEF Chain
  <1>2. PICK x, y \in Nat : x + y = j /\ Prefix(d, n) = Run(i, x) /\ Rest(d, n) = Run(i + x, y)
    <2> DEFINE v == Least(j, n)
               z == j - v
    <2>1. /\ v \in Nat /\ z \in Nat /\ v + z = j
          /\ Prefix(Run(i, j), n) = Run(i, v) /\ Rest(Run(i, j), n) = Run(i + v, z)
      BY RunSplits
    <2> HIDE DEF v, z
    <2> QED BY <1>1, <2>1
  <1>3. /\ i + x \in Nat /\ (i + x) + y = i + j /\ (i + x) + y + k = i + j + k
        /\ (i + x) + y + k + l = w
    BY <1>1, <1>2
  <1>4. r \o Prefix(d, n) = Run(0, i + x)
    <2>1. 0 + i = i
      OBVIOUS
    <2>2. Run(0, i) \o Run(0 + i, x) = Run(0, i + x)
      BY RunConcat
    <2> QED BY <1>1, <1>2, <2>1, <2>2
  <1>5. c = Run((i + x) + y, k) /\ s = Run((i + x) + y + k, l)
    BY <1>1, <1>3
  <1> HIDE DEF Run
  <1> QED BY <1>2, <1>3, <1>4, <1>5 DEF Chain

(* Nothing underway: what has arrived and what the reader has.             *)
LEMMA ChainArrived ==
    ASSUME NEW r, NEW d, NEW c, NEW s, NEW w, Chain(r, d, c, s, w)
    PROVE  r \o d = [i \in 1..Len(r \o d) |-> i]
  <1>1. PICK i, j \in Nat : r = Run(0, i) /\ d = Run(i, j)
    BY DEF Chain
  <1>2. r \o d = Run(0, i + j)
    <2>1. 0 + i = i
      OBVIOUS
    <2>2. Run(0, i) \o Run(0 + i, j) = Run(0, i + j)
      BY RunConcat
    <2> QED BY <1>1, <2>1, <2>2
  <1>3. Len(r \o d) = i + j
    <2>1. i + j \in Nat
      OBVIOUS
    <2> QED BY <1>2, <2>1, RunIsSeq
  <1>4. Run(0, i + j) = [k \in 1..(i + j) |-> k]
    BY DEF Run
  <1> QED BY <1>2, <1>3, <1>4
-----------------------------------------------------------------------------
(* Mode "send": one lemma for the master's interrupt, one for the slave's,  *)
(* one for the tasks.                                                       *)
LEMMA SendMaster ==
    ASSUME TypeOK, mode = "send", SendInv, MasterIsr
    PROVE  SendInv'
  <1>1. /\ irq /\ UNCHANGED <<mode, line, slave, raced, writer, written, reader, read>>
        /\ master.mode \in {"NULL", "WRITE"} /\ "WR_BUF" \notin done /\ (slave.wait => reader = "clear")
        /\ Carried = <<>> /\ "RD_BUF" \notin done /\ rd_status = 0
    BY DEF MasterIsr, tasks, SendInv, SendControl, SendNumbers, Carried
  <1>2. CASE MasterIdle
    <2>1. /\ master.mode = "NULL" /\ ~irq' /\ UNCHANGED <<rd_status, mosi, miso, src, dst>>
          /\ \/ master' = [master EXCEPT !.mode = "WRITE", !.len = Len(src)] /\ wr_status' = Len(src)
                /\ done' = done \cup {"WR_STA"}
             \/ master' = [master EXCEPT !.mode = "NULL", !.len = rd_status] /\ done' = done \cup {"RD_STA"}
      BY <1>1, <1>2 DEF MasterIdle, Transact
    <2>2. /\ master'.mode \in {"NULL", "WRITE"}
          /\ master'.mode = "WRITE" =>
               master'.len = Len(src) /\ wr_status' = Len(src) /\ done' = done \cup {"WR_STA"}
      BY <2>1 DEF TypeOK
    <2>3. done' \subseteq {"WR_STA", "WR_BUF", "RD_STA"} /\ "WR_BUF" \notin done'
      BY <1>1, <2>1 DEF SendInv, SendControl
    <2>4. SendControl'
      BY <1>1, <2>1, <2>2, <2>3 DEF SendControl
    <2>5. SendNumbers'
      BY <1>1, <2>1, <2>2, <2>3, Numbers DEF SendNumbers
    <2>6. ~raced => InOrder' /\ Room'
      <3>1. Carried' = <<>>
        BY <1>1, <2>3 DEF Carried
      <3> QED BY <1>1, <2>1, <3>1 DEF SendInv, InOrder, Room, Spaces
    <2> QED BY <1>1, <2>4, <2>5, <2>6 DEF SendInv
  <1>3. CASE MasterRead
    BY <1>1, <1>3 DEF MasterRead
  <1>4. CASE MasterWrite
    <2>1. /\ master.mode = "WRITE" /\ done = {} /\ UNCHANGED <<rd_status, miso, dst>>
          /\ master.len \in Nat /\ master.len <= Len(src) /\ slave.recv = master.len
      <3>1. master.mode = "WRITE" /\ done = {} /\ UNCHANGED <<rd_status, miso, dst>>
        BY <1>1, <1>4 DEF MasterWrite, SendInv, SendControl
      <3>2. /\ master.len \in Nat /\ slave.recv \in Nat /\ Len(<<>>) = 0
            /\ master.len <= Len(src) /\ slave.recv = master.len + Len(Carried)
        BY <1>1, <3>1, Numbers, EmptySeq DEF SendInv, SendNumbers, TypeOK
      <3> QED BY <1>1, <3>1, <3>2
    <2>2. CASE master.len > 0
      <3> DEFINE n == Upto(master.len)
      <3>1. n \in Nat /\ n <= master.len /\ master.len - n \in Nat
        BY <2>1, UptoTyped
      <3>2. /\ mosi' = Prefix(src, n) /\ src' = Rest(src, n) /\ done' = {"WR_BUF"} /\ ~irq'
            /\ master' = [master EXCEPT !.len = master.len - n] /\ UNCHANGED wr_status
        BY <1>4, <2>1, <2>2 DEF MasterWrite, Transact, TypeOK
      <3>3. master'.mode = "WRITE" /\ master'.len = master.len - n
        BY <2>1, <3>2 DEF TypeOK
      <3>4. Len(mosi') = n /\ Len(src') = Len(src) - n
        <4> HIDE DEF n
        <4>1. src \in Seq(Nat) /\ Len(src) \in Nat
          BY Numbers
        <4>2. /\ Len(Prefix(src, n)) = IF Len(src) > n THEN n ELSE Len(src)
              /\ Len(Rest(src, n)) = IF Len(src) > n THEN Len(src) - n ELSE 0
          BY <3>1, <4>1, EndsTyped
        <4> QED BY <2>1, <3>1, <3>2, <4>1, <4>2
      <3>5. Carried' = mosi'
        BY <1>1, <3>2 DEF Carried
      <3>6. SendControl'
        BY <1>1, <3>2, <3>3 DEF SendControl
      <3>7. SendNumbers'
        <4>1. rd_status' = 0 /\ Len(mosi') = Upto(slave'.recv)
          BY <1>1, <2>1, <3>4
        <4>2. master'.len <= Len(src') /\ slave'.recv = master'.len + Len(Carried')
          <5> HIDE DEF n
          <5>1. slave'.recv = slave.recv /\ Len(Carried') = n
            BY <1>1, <3>4, <3>5
          <5>2. Len(src) \in Nat
            BY Numbers
          <5>3. master.len - n <= Len(src) - n /\ master.len = (master.len - n) + n
            BY <2>1, <3>1, <5>2
          <5> QED BY <2>1, <3>3, <3>4, <5>1, <5>3
        <4>3. "WR_STA" \notin done'
          BY <3>2
        <4> QED BY <4>1, <4>2, <4>3 DEF SendNumbers
      <3>8. ~raced => InOrder' /\ Room'
        <4> HIDE DEF n
        <4>1. ~raced => Chain(read, dst, <<>>, src, written) /\ Room
          BY <1>1 DEF SendInv, InOrder
        <4>2. ~raced => Chain(read, dst, mosi', src', written)
          BY <3>1, <3>2, <4>1, ChainLoads
        <4> QED BY <1>1, <2>1, <3>5, <4>1, <4>2 DEF InOrder, Room, Spaces
      <3> QED BY <1>1, <3>6, <3>7, <3>8 DEF SendInv
    <2>3. CASE ~(master.len > 0)
      <3>1. /\ master' = [master EXCEPT !.mode = "NULL"] /\ UNCHANGED <<mosi, src>>
            /\ done' \subseteq {"WR_STA"}
        BY <1>4, <2>1, <2>3 DEF MasterWrite, Transact
      <3>2. master'.mode = "NULL" /\ Carried' = <<>>
        BY <1>1, <3>1 DEF TypeOK, Carried
      <3>3. SendControl' /\ SendNumbers'
        BY <1>1, <2>1, <3>1, <3>2 DEF SendControl, SendNumbers
      <3>4. ~raced => InOrder' /\ Room'
        BY <1>1, <2>1, <3>1, <3>2 DEF SendInv, InOrder, Room, Spaces
      <3> QED BY <1>1, <3>3, <3>4 DEF SendInv
    <2> QED BY <2>2, <2>3
  <1> QED BY <1>2, <1>3, <1>4 DEF MasterIsr

LEMMA SendSlave ==
    ASSUME TypeOK, mode = "send", SendInv, SlaveIsr
    PROVE  SendInv'
  <1>1. /\ done # {} /\ done' = {} /\ UNCHANGED <<mode, master, wr_status, mosi, writer, written, reader, read>>
        /\ (irq' <=> irq \/ line' = 1) /\ (slave.wait => reader = "clear") /\ "RD_BUF" \notin done
        /\ ~raced' => ~raced /\ (slave'.wait => reader = "read") /\ Spaces(dst) >= CHUNK
        /\ rd_status = 0 /\ Carried' = <<>>
    <2>1. /\ done # {} /\ done' = {} /\ UNCHANGED <<mode, master, wr_status, mosi, writer, written, reader, read>>
          /\ (irq' <=> irq \/ line' = 1)
      BY DEF SlaveIsr, tasks
    <2>2. ~raced' => ~raced /\ ~(reader \in {"check", "clear"} /\ slave'.wait)
      BY DEF SlaveIsr
    <2>3. reader \in {"read", "check", "clear"}
      BY DEF TypeOK
    <2>4. (slave.wait => reader = "clear") /\ "RD_BUF" \notin done /\ rd_status = 0
      BY <2>1 DEF SendInv, SendControl, SendNumbers
    <2>5. ~raced => Spaces(dst) >= CHUNK
      BY <2>4 DEF SendInv, Room
    <2>6. Carried' = <<>>
      BY <2>1 DEF Carried
    <2> QED BY <2>1, <2>2, <2>3, <2>4, <2>5, <2>6
  <1>2. CASE "WR_BUF" \in done
    <2>1. done = {"WR_BUF"} /\ ~irq /\ master.mode = "WRITE" /\ Carried = mosi
      BY <1>2 DEF SendInv, SendControl, Carried
    <2> DEFINE n == Upto(slave.recv)
               g == Gathered(Worked)
    <2>2. /\ n \in Nat /\ n <= CHUNK /\ n <= slave.recv /\ slave.recv \in Nat /\ Len(mosi) = n
          /\ master.len <= Len(src) /\ slave.recv = master.len + n /\ master.len \in Nat
      <3>1. slave.recv \in Nat /\ master.len \in Nat
        BY Numbers DEF TypeOK
      <3>2. n \in Nat /\ n <= CHUNK /\ n <= slave.recv
        BY <3>1, UptoTyped
      <3>3. Len(mosi) = n /\ master.len <= Len(src) /\ slave.recv = master.len + Len(Carried)
        BY <1>2, <2>1 DEF SendInv, SendNumbers
      <3> QED BY <2>1, <3>1, <3>2, <3>3
    <2>3. Results(WriteBufDone(Worked)) /\ Fits(Worked)
      BY <2>1, SlaveTyped
    <2>4. /\ g.recv = slave.recv - n /\ g.src = src /\ g.rd_status = rd_status /\ g.wait = slave.wait
          /\ g.line = 0
      BY DEF Gathered, Worked
    <2>5. ~raced' => g.dst = dst \o mosi
      <3>1. CHUNK \in Nat /\ Spaces(dst) \in Int
        BY Numbers DEF Spaces
      <3>2. ~raced' => n <= Spaces(dst)
        BY <1>1, <2>2, <3>1
      <3>3. Worked.recv = slave.recv /\ Worked.dst = dst
        BY DEF Worked
      <3>4. ~raced' => g = [Worked EXCEPT !.dst = dst \o mosi, !.recv = @ - n]
        <4>1. LET m == Upto(Worked.recv) IN
              Len(mosi) = m /\ m <= Spaces(Worked.dst) =>
                g = [Worked EXCEPT !.dst = Worked.dst \o mosi, !.recv = @ - m]
          BY <2>3, GatheredTyped
        <4> QED BY <2>2, <3>2, <3>3, <4>1
      <3> HIDE DEF g
      <3> QED BY <3>4 DEF Worked
    <2>6. /\ slave'.recv = g.recv /\ src' = g.src /\ rd_status' = g.rd_status /\ dst' = g.dst
          /\ IF Spaces(g.dst) >= CHUNK THEN line' = 1 /\ slave'.wait = g.wait ELSE line' = g.line /\ slave'.wait
      <3>1. Fits(g)
        BY <2>3, GatheredTyped
      <3>2. WriteBufDone(Worked) = IF Spaces(g.dst) >= CHUNK THEN [g EXCEPT !.line = 1] ELSE [g EXCEPT !.wait = TRUE]
        BY DEF WriteBufDone
      <3> HIDE DEF g
      <3> QED BY <2>3, <3>1, <3>2 DEF Results, Fits, Work
    <2> HIDE DEF g
    <2>7. SendControl'
      BY <1>1, <2>1, <2>4, <2>6 DEF SendControl
    <2>8. SendNumbers'
      <3>1. rd_status' = 0 /\ master'.len <= Len(src') /\ done' = {}
        BY <1>1, <2>2, <2>4, <2>6
      <3>2. slave'.recv = master'.len + Len(Carried')
        <4> HIDE DEF n
        <4>1. Len(<<>>) = 0
          BY EmptySeq
        <4> QED BY <1>1, <2>2, <2>4, <2>6, <4>1
      <3> QED BY <3>1, <3>2 DEF SendNumbers
    <2>9. ~raced' => InOrder' /\ Room'
      <3>1. ~raced' => Chain(read, dst, mosi, src, written)
        BY <1>1, <2>1 DEF SendInv, InOrder
      <3>2. ~raced' => Chain(read, dst \o mosi, <<>>, src, written)
        BY <3>1, ChainUnloads
      <3>3. ~raced' => InOrder'
        BY <1>1, <2>4, <2>5, <2>6, <3>2 DEF InOrder
      <3>4. ~raced' => Room'
        BY <1>1, <2>6 DEF Room
      <3> QED BY <3>3, <3>4
    <2> QED BY <2>7, <2>8, <2>9 DEF SendInv
  <1>3. CASE "WR_BUF" \notin done
    <2>1. Results(IF "WR_STA" \in done THEN WriteStatusDone(Worked) ELSE Worked)
      BY <1>1, <1>3, SlaveTyped
    <2>2. /\ UNCHANGED <<src, dst, rd_status>> /\ slave'.wait = slave.wait
          /\ slave'.recv = IF "WR_STA" \in done THEN wr_status ELSE slave.recv
      BY <2>1 DEF Results, WriteStatusDone, Worked
    <2>3. master.mode = "WRITE" => "WR_STA" \in done
      BY <1>1, <1>3 DEF SendInv, SendControl
    <2>4. SendControl'
      BY <1>1, <2>2 DEF SendInv, SendControl
    <2>5. SendNumbers'
      <3>1. master.mode = "WRITE" => master.len <= Len(src) /\ wr_status = master.len
        BY <2>3 DEF SendInv, SendNumbers
      <3>2. master.mode = "WRITE" => slave'.recv = master.len
        BY <2>2, <2>3, <3>1
      <3>3. master.len \in Nat /\ Len(<<>>) = 0
        BY Numbers, EmptySeq DEF TypeOK
      <3>4. master.mode = "WRITE" => slave'.recv = master'.len + Len(Carried')
        BY <1>1, <3>2, <3>3
      <3> QED BY <1>1, <2>2, <3>1, <3>4 DEF SendNumbers
    <2>6. ~raced' => InOrder' /\ Room'
      <3>1. Carried = <<>>
        BY <1>3 DEF Carried
      <3>2. ~raced' => InOrder'
        BY <1>1, <2>2, <3>1 DEF SendInv, InOrder
      <3>3. ~raced' => Room'
        BY <1>1, <2>2 DEF Room, Spaces
      <3> QED BY <3>2, <3>3
    <2> QED BY <2>4, <2>5, <2>6 DEF SendInv
  <1> QED BY <1>2, <1>3

(* What the two tasks do to the data, in both modes.                       *)
LEMMA WriterGrows ==
    ASSUME TypeOK, WriterSends, NEW c, Chain(read, dst, c, src, written)
    PROVE  Chain(read, dst, c, src', written')
  <1>1. src' = src \o Run(written, BLOCK) /\ written' = written + BLOCK
    BY DEF WriterSends, Run
  <1>2. Chain(read, dst, c, src \o Run(written, BLOCK), written + BLOCK)
    BY Numbers, ChainGrows
  <1> QED BY <1>1, <1>2

LEMMA WriterFills ==
    ASSUME TypeOK, WriterSends
    PROVE  Len(src') = Len(src) + BLOCK /\ Len(src) \in Nat /\ BLOCK \in Nat /\ BLOCK > 0 /\ src' # <<>>
  <1>1. written \in Nat /\ BLOCK \in Nat /\ BLOCK > 0 /\ src \in Seq(Nat) /\ Len(src) \in Nat
    BY Numbers DEF TypeOK
  <1> DEFINE b == Run(written, BLOCK)
  <1>2. b \in Seq(Nat) /\ Len(b) = BLOCK
    BY <1>1, RunIsSeq
  <1>3. src' = src \o b
    BY DEF WriterSends, Run
  <1> HIDE DEF b
  <1>4. Len(src') = Len(src) + BLOCK
    BY <1>1, <1>2, <1>3, ConcatProperties
  <1>5. src' # <<>>
    <2>1. Len(src') # 0 /\ Len(<<>>) = 0
      BY <1>1, <1>4, EmptySeq
    <2> QED BY <2>1
  <1> QED BY <1>1, <1>4, <1>5

LEMMA ReaderFrees ==
    ASSUME TypeOK, ReaderTakes
    PROVE  /\ Spaces(dst') >= CHUNK
           /\ \A c : Chain(read, dst, c, src, written) => Chain(read', dst', c, src, written)
  <1>1. read' = read \o Prefix(dst, READ_SIZE) /\ dst' = Rest(dst, READ_SIZE)
    BY DEF ReaderTakes
  <1>2. Spaces(dst') >= CHUNK
    <2>1. Len(dst') = IF Len(dst) > READ_SIZE THEN Len(dst) - READ_SIZE ELSE 0
      BY <1>1, Numbers, EndsTyped
    <2> QED BY <2>1, Numbers DEF Spaces
  <1>3. ASSUME NEW c, Chain(read, dst, c, src, written)
        PROVE  Chain(read', dst', c, src, written)
    BY <1>1, <1>3, Numbers, ChainTakes
  <1> QED BY <1>2, <1>3

LEMMA SendTasks ==
    ASSUME TypeOK, mode = "send", SendInv, Writer \/ Reader
    PROVE  SendInv'
  <1>1. CASE WriterSends
    <2>1. UNCHANGED <<mode, master, irq, line, slave, done, registers, dst, reader, read, raced>>
      BY <1>1 DEF WriterSends
    <2>2. Carried' = Carried
      BY <2>1 DEF Carried, registers
    <2>3. SendControl'
      BY <2>1 DEF SendInv, SendControl
    <2>4. SendNumbers'
      <3>1. Len(src') >= Len(src) /\ Len(src) \in Nat /\ Len(src') \in Nat
        BY <1>1, WriterFills
      <3>2. master.len \in Nat
        BY Numbers DEF TypeOK
      <3>3. master.mode = "WRITE" => master.len <= Len(src')
        BY <3>1, <3>2 DEF SendInv, SendNumbers
      <3> HIDE DEF Carried
      <3> QED BY <2>1, <2>2, <3>3 DEF SendInv, SendNumbers, registers
    <2>5. ~raced => InOrder' /\ Room'
      BY <1>1, <2>1, <2>2, WriterGrows DEF SendInv, InOrder, Room, Spaces
    <2> QED BY <2>1, <2>3, <2>4, <2>5 DEF SendInv
  <1>2. CASE WriterNotifies
    <2>1. /\ UNCHANGED <<mode, master, done, wr_status, mosi, miso, src, dst, written, reader, read, raced>>
          /\ UNCHANGED <<line, slave, rd_status>> /\ (irq' <=> irq \/ master.mode = "NULL")
      BY <1>2 DEF WriterNotifies, NotifyMaster
    <2>2. Carried' = Carried
      BY <2>1 DEF Carried
    <2>3. SendControl'
      BY <2>1 DEF SendInv, SendControl
    <2>4. SendNumbers' /\ (~raced => InOrder' /\ Room')
      BY <2>1, <2>2 DEF SendInv, SendNumbers, InOrder, Room, Spaces
    <2> QED BY <2>1, <2>3, <2>4 DEF SendInv
  <1>3. CASE ReaderTakes
    <2>1. /\ UNCHANGED <<mode, master, irq, line, slave, done, registers, src, writer, written, raced>>
          /\ reader = "read"
      BY <1>3 DEF ReaderTakes
    <2>2. Carried' = Carried
      BY <2>1 DEF Carried, registers
    <2>3. SendControl'
      BY <2>1 DEF SendInv, SendControl
    <2>4. SendNumbers'
      BY <2>1, <2>2 DEF SendInv, SendNumbers, registers
    <2>5. ~raced => InOrder' /\ Room'
      BY <1>3, <2>1, <2>2, ReaderFrees DEF SendInv, InOrder, Room
    <2> QED BY <2>1, <2>3, <2>4, <2>5 DEF SendInv
  <1>4. CASE ReaderChecks
    <2>1. /\ reader = "check" /\ UNCHANGED <<mode, slave, done, registers, src, dst, writer, written, read, raced>>
          /\ UNCHANGED master
          /\ (slave.wait /\ reader' = "clear") \/ (reader' = "read" /\ (irq' <=> irq))
      BY <1>4 DEF ReaderChecks
    <2>2. Carried' = Carried
      BY <2>1 DEF Carried, registers
    <2>3. SendControl'
      BY <2>1 DEF SendInv, SendControl
    <2>4. SendNumbers'
      BY <2>1, <2>2 DEF SendInv, SendNumbers, registers
    <2>5. ~raced => InOrder' /\ Room'
      BY <2>1, <2>2 DEF SendInv, InOrder, Room, Spaces
    <2> QED BY <2>1, <2>3, <2>4, <2>5 DEF SendInv
  <1>5. CASE ReaderClears
    <2>1. /\ reader = "clear" /\ reader' = "read" /\ slave' = [slave EXCEPT !.wait = FALSE]
          /\ UNCHANGED <<mode, master, irq, line, done, registers, src, dst, writer, written, read, raced>>
      BY <1>5 DEF ReaderClears
    <2>2. slave'.recv = slave.recv /\ ~slave'.wait
      BY <2>1 DEF TypeOK
    <2>3. Carried' = Carried
      BY <2>1 DEF Carried, registers
    <2>4. SendControl'
      BY <2>1, <2>2 DEF SendInv, SendControl
    <2>5. SendNumbers'
      BY <2>1, <2>2, <2>3 DEF SendInv, SendNumbers, registers
    <2>6. ~raced => InOrder' /\ Room'
      BY <2>1, <2>3 DEF SendInv, InOrder, Room, Spaces
    <2> QED BY <2>1, <2>4, <2>5, <2>6 DEF SendInv
  <1> QED BY <1>1, <1>2, <1>3, <1>4, <1>5 DEF Writer, Reader
-----------------------------------------------------------------------------
(* Mode "recv": every step leads from one state of the transfer to the     *)
(* next, or leaves it.                                                     *)
(* spi_event_callback loads the next chunk: the lot and what the buffer    *)
(* holds are whole numbers of chunks, so that it is a full one.            *)
LEMMA SlaveLoads ==
    ASSUME TypeOK, Results(Load(Worked)), Fits(Worked), Whole(Len(src)), Whole(slave.send),
           slave.send > 0, slave.send <= Len(src)
    PROVE  /\ Len(miso') = CHUNK /\ slave'.send \in Nat /\ slave.send = slave'.send + CHUNK
           /\ slave'.send <= Len(src') /\ Whole(Len(src')) /\ Whole(slave'.send)
           /\ line' = 1 /\ rd_status' = rd_status /\ dst' = dst
           /\ (slave'.sending <=> slave.sending) /\ (slave'.wait <=> slave.wait)
           /\ miso' = Prefix(src, CHUNK) /\ src' = Rest(src, CHUNK)
  <1>1. /\ slave.send \in Nat /\ Len(src) \in Nat /\ CHUNK \in Nat /\ CHUNK > 0 /\ src # <<>>
        /\ Len(src) <= RING /\ RING < WRAP /\ WRAP \in Nat /\ RING \in Nat /\ src \in Seq(Nat)
    BY Numbers DEF TypeOK
  <1>2. /\ slave.send >= CHUNK /\ Whole(slave.send - CHUNK) /\ slave.send - CHUNK \in Nat
        /\ Len(src) >= CHUNK /\ Whole(Len(src) - CHUNK)
    <2>1. ASSUME NEW a \in Nat, Whole(a), a > 0
          PROVE  a >= CHUNK /\ Whole(a - CHUNK) /\ a - CHUNK \in Nat
      <3>1. a >= CHUNK /\ Whole(a - CHUNK)
        BY <2>1, Wholes
      <3> QED BY <1>1, <3>1
    <2>2. slave.send >= CHUNK /\ Whole(slave.send - CHUNK) /\ slave.send - CHUNK \in Nat
      <3> DEFINE a == slave.send
      <3>1. a \in Nat /\ Whole(a) /\ a > 0
        BY <1>1
      <3> HIDE DEF a
      <3>2. a >= CHUNK /\ Whole(a - CHUNK) /\ a - CHUNK \in Nat
        BY <2>1, <3>1
      <3> QED BY <3>2 DEF a
    <2>3. Len(src) >= CHUNK /\ Whole(Len(src) - CHUNK)
      <3> DEFINE a == Len(src)
      <3>1. a \in Nat /\ Whole(a) /\ a > 0
        BY <1>1
      <3> HIDE DEF a
      <3>2. a >= CHUNK /\ Whole(a - CHUNK)
        BY <2>1, <3>1
      <3> QED BY <3>2 DEF a
    <2> QED BY <2>2, <2>3
  <1> DEFINE p == Prefix(src, CHUNK)
             r == Rest(src, CHUNK)
             x == slave.send - CHUNK
  <1>3. Len(p) = CHUNK /\ Len(r) = Len(src) - CHUNK
    BY <1>1, <1>2, EndsTyped
  <1>4. (slave.send + WRAP - CHUNK) % WRAP = x
    <2>1. x \in Nat /\ x < WRAP /\ slave.send + WRAP - CHUNK = x + WRAP
      BY <1>1, <1>2
    <2> HIDE DEF x
    <2>2. (x + WRAP) % WRAP = x
      BY <1>1, <2>1
    <2> QED BY <2>1, <2>2
  <1>5. Load(Worked) = [recv |-> slave.recv, send |-> (slave.send + WRAP - Len(p)) % WRAP, sending |-> slave.sending,
                        wait |-> slave.wait, rd_status |-> rd_status, miso |-> p, src |-> r, dst |-> dst, line |-> 1]
    BY <1>1 DEF Load, Worked
  <1> HIDE DEF p, r, x
  <1>6. /\ miso' = p /\ src' = r /\ slave'.send = x /\ line' = 1 /\ rd_status' = rd_status /\ dst' = dst
        /\ (slave'.sending <=> slave.sending) /\ (slave'.wait <=> slave.wait)
    BY <1>3, <1>4, <1>5 DEF Results
  <1>7. x \in Nat /\ slave.send = x + CHUNK /\ x <= Len(src) - CHUNK /\ Whole(x)
    <2>1. x \in Nat /\ Whole(x)
      BY <1>2 DEF x
    <2>2. slave.send = x + CHUNK /\ x <= Len(src) - CHUNK
      BY <1>1 DEF x
    <2> QED BY <2>1, <2>2
  <1> QED BY <1>2, <1>3, <1>6, <1>7 DEF p, r

LEMMA RecvMaster ==
    ASSUME TypeOK, mode = "recv", RecvInv, MasterIsr
    PROVE  RecvInv'
  <1>1. /\ irq /\ UNCHANGED <<mode, line, slave, raced, writer, written, reader, read>> /\ ~slave.wait
        /\ raced \in BOOLEAN
    BY DEF MasterIsr, tasks, RecvInv, RecvShape, TypeOK
  <1>2. CASE MasterIdle
    <2>1. /\ master.mode = "NULL" /\ ~irq' /\ UNCHANGED <<rd_status, mosi, miso, src, dst>>
          /\ done' = done \cup {"RD_STA"}
          /\ master' = [master EXCEPT !.mode = IF rd_status > 0 THEN "READ" ELSE "NULL", !.len = rd_status]
      BY <1>2 DEF MasterIdle, Transact
    <2>2. /\ master'.mode = (IF rd_status > 0 THEN "READ" ELSE "NULL") /\ master'.len = rd_status
          /\ (master'.wait <=> master.wait)
      BY <2>1 DEF TypeOK
    <2>3. CASE raced
      <3>1. Overtaken /\ slave.sending /\ rd_status = 0
        BY <1>1, <2>3 DEF RecvInv, RecvShape, Overtaken
      <3>2. Overtaken'
        <4>1. master'.mode = "NULL"
          BY <2>2, <3>1
        <4> QED BY <1>1, <2>1, <2>2, <3>1, <4>1 DEF Overtaken
      <3> QED BY <1>1, <2>3, <3>2 DEF RecvInv, RecvShape
    <2>4. CASE ~raced
      <3>1. Announced /\ Whole(Len(src)) /\ Whole(slave.send)
        BY <1>1, <2>1, <2>4 DEF RecvInv, RecvShape, Lot, Idle, Asked, Loaded, Taken, Quiet
      <3>2. Asked'
        <4>1. rd_status > 0 /\ rd_status = slave.send /\ ~master.wait /\ done = {} /\ Offer
          BY <3>1 DEF Announced, Offer
        <4>2. Offer'
          BY <1>1, <2>1, <4>1 DEF Offer
        <4> QED BY <1>1, <2>1, <2>2, <4>1, <4>2 DEF Asked, Quiet
      <3>3. Carried = <<>> /\ Carried' = <<>>
        BY <1>1, <2>1 DEF Carried
      <3>4. InOrder'
        BY <1>1, <2>1, <2>4, <3>3 DEF RecvInv, InOrder
      <3> QED BY <1>1, <2>1, <2>4, <3>1, <3>2, <3>4 DEF RecvInv, RecvShape, Lot
    <2> QED BY <2>3, <2>4
  <1>3. CASE MasterRead
    <2>1. /\ ~raced /\ Loaded /\ Whole(Len(src)) /\ Whole(slave.send) /\ ~irq'
          /\ UNCHANGED <<rd_status, wr_status, mosi, miso, src>>
      BY <1>1, <1>3 DEF MasterRead, registers, RecvInv, RecvShape, Lot, Idle, Announced, Asked, Taken, Quiet, Overtaken
    <2>2. Carried = miso
      BY <1>1, <2>1 DEF Loaded, Carried
    <2>3. CASE Spaces(dst) >= CHUNK
      <3> DEFINE left == master.len - Upto(master.len)
      <3>1. /\ dst' = dst \o Prefix(miso, Upto(master.len)) /\ done' = {"RD_BUF"}
            /\ master' = [master EXCEPT !.len = left, !.mode = IF left = 0 THEN "NULL" ELSE "READ"]
        BY <1>3, <2>1, <2>3 DEF MasterRead, Transact, Loaded
      <3>2. Upto(master.len) = CHUNK /\ left = slave.send /\ Prefix(miso, CHUNK) = miso
        <4>1. slave.send \in Nat /\ CHUNK \in Nat /\ miso \in Seq(Nat)
          BY Numbers DEF TypeOK
        <4>2. master.len = slave.send + CHUNK /\ Len(miso) = CHUNK
          BY <2>1 DEF Loaded
        <4>3. Upto(master.len) = CHUNK
          <5>1. master.len \in Nat /\ master.len >= CHUNK
            BY <4>1, <4>2
          <5> QED BY <5>1, UptoTyped
        <4>4. Prefix(miso, CHUNK) = miso
          BY <4>1, <4>2, EndsTyped
        <4> QED BY <4>1, <4>2, <4>3, <4>4
      <3> HIDE DEF left
      <3>3. /\ master'.mode = (IF slave.send = 0 THEN "NULL" ELSE "READ") /\ master'.len = slave.send
            /\ (master'.wait <=> master.wait)
        BY <3>1, <3>2 DEF TypeOK
      <3>4. Taken'
        BY <1>1, <2>1, <3>1, <3>3 DEF Taken, Loaded, Quiet
      <3>5. InOrder'
        <4>1. Chain(read, dst \o miso, <<>>, src, written)
          BY <2>1, <2>2, ChainUnloads DEF RecvInv, InOrder
        <4>2. Carried' = <<>>
          BY <1>1, <3>1 DEF Carried
        <4> QED BY <1>1, <2>1, <3>1, <3>2, <4>1, <4>2 DEF InOrder
      <3> QED BY <1>1, <2>1, <3>4, <3>5 DEF RecvInv, RecvShape, Lot
    <2>4. CASE ~(Spaces(dst) >= CHUNK)
      <3>1. master' = [master EXCEPT !.wait = TRUE] /\ UNCHANGED <<dst, done>>
        BY <1>3, <2>4 DEF MasterRead
      <3>2. master'.mode = master.mode /\ master'.len = master.len /\ master'.wait
        BY <3>1 DEF TypeOK
      <3>3. Loaded'
        BY <1>1, <2>1, <3>1, <3>2 DEF Loaded
      <3>4. InOrder'
        <4>1. Carried' = Carried
          BY <1>1, <2>1, <3>1, <3>2 DEF Carried
        <4> QED BY <1>1, <2>1, <3>1, <4>1 DEF RecvInv, InOrder
      <3> QED BY <1>1, <2>1, <3>3, <3>4 DEF RecvInv, RecvShape, Lot
    <2> QED BY <2>3, <2>4
  <1>4. CASE MasterWrite
    BY <1>1, <1>4 DEF MasterWrite, RecvInv, RecvShape, Lot, Overtaken, Idle, Announced, Asked, Loaded, Taken
  <1> QED BY <1>2, <1>3, <1>4 DEF MasterIsr

LEMMA RecvSlave ==
    ASSUME TypeOK, mode = "recv", RecvInv, SlaveIsr
    PROVE  RecvInv'
  <1>1. /\ done # {} /\ done' = {} /\ UNCHANGED <<mode, master, wr_status, mosi, writer, written, reader, read>>
        /\ (irq' <=> irq \/ line' = 1) /\ ~slave.wait /\ raced \in BOOLEAN /\ Fits(Worked)
    BY SlaveTyped DEF SlaveIsr, tasks, RecvInv, RecvShape, TypeOK
  <1>2. ~slave'.wait => (raced' <=> raced \/ (writer = "notify" /\ ~slave'.sending))
    BY <1>1 DEF SlaveIsr
  <1>3. CASE raced
    <2>1. Overtaken /\ done = {"RD_STA"} /\ slave.sending /\ rd_status = 0
      BY <1>1, <1>3 DEF RecvInv, RecvShape, Overtaken
    <2>2. Results(Load(Worked))
      BY <2>1, SlaveTyped
    <2>3. /\ Load(Worked).sending = slave.sending /\ Load(Worked).wait = slave.wait
          /\ Load(Worked).rd_status = rd_status
      BY DEF Load, Worked
    <2>4. slave'.sending /\ ~slave'.wait /\ rd_status' = 0
      BY <1>1, <2>1, <2>2, <2>3 DEF Results
    <2>5. Overtaken' /\ raced'
      BY <1>1, <1>2, <1>3, <2>1, <2>4 DEF Overtaken
    <2> QED BY <2>4, <2>5 DEF RecvInv, RecvShape
  <1>4. CASE ~raced
    <2>1. Whole(Len(src)) /\ Whole(slave.send) /\ slave.send \in Nat /\ CHUNK \in Nat
      BY <1>4, Numbers DEF RecvInv, RecvShape, Lot, TypeOK
    <2>2. Chain(read, dst, <<>>, src, written)
      <3>1. Carried = <<>>
        BY <1>1 DEF Carried
      <3> QED BY <1>4, <3>1 DEF RecvInv, InOrder
    <2>3. ASSUME Results(Load(Worked)), slave.send > 0, slave.send <= Len(src), slave.sending,
                 master.mode = "READ", master.len = slave.send, ~master.wait
          PROVE  RecvInv'
      <3>1. /\ Len(miso') = CHUNK /\ slave'.send \in Nat /\ slave.send = slave'.send + CHUNK
            /\ slave'.send <= Len(src') /\ Whole(Len(src')) /\ Whole(slave'.send)
            /\ line' = 1 /\ dst' = dst /\ slave'.sending /\ ~slave'.wait
            /\ miso' = Prefix(src, CHUNK) /\ src' = Rest(src, CHUNK)
        BY <1>1, <2>1, <2>3, SlaveLoads
      <3>2. Loaded' /\ ~raced'
        BY <1>1, <1>2, <1>4, <2>3, <3>1 DEF Loaded
      <3>3. InOrder'
        <4>1. Chain(read, dst, miso', src', written)
          BY <2>1, <2>2, <3>1, ChainLoads
        <4>2. Carried' = miso'
          BY <1>1, <2>3 DEF Carried
        <4> QED BY <1>1, <3>1, <4>1, <4>2 DEF InOrder
      <3> QED BY <3>1, <3>2, <3>3 DEF RecvInv, RecvShape, Lot
    <2>4. CASE Asked
      <3>1. Results(Load(Worked))
        BY <2>4, SlaveTyped DEF Asked
      <3> QED BY <2>3, <2>4, <3>1 DEF Asked, Offer, Quiet
    <2>5. CASE Taken
      <3>1. Results(ReadBufDone(Worked)) /\ master.len = slave.send /\ slave.send <= Len(src) /\ slave.sending
            /\ ~irq /\ ~master.wait
        BY <2>5, SlaveTyped DEF Taken, Quiet
      <3>2. CASE slave.send # 0
        <4>1. ReadBufDone(Worked) = Load(Worked) /\ master.mode = "READ"
          BY <2>5, <3>2 DEF ReadBufDone, Worked, Taken
        <4>2. slave.send > 0
          BY <2>1, <3>2
        <4> QED BY <2>3, <3>1, <4>1, <4>2
      <3>3. CASE slave.send = 0 /\ src = <<>>
        <4>1. ReadBufDone(Worked) = [Worked EXCEPT !.sending = FALSE]
          BY <3>3 DEF ReadBufDone, Worked
        <4>2. ReadBufDone(Worked) = [recv |-> slave.recv, send |-> slave.send, sending |-> FALSE, wait |-> slave.wait,
                                     rd_status |-> rd_status, miso |-> miso, src |-> src, dst |-> dst, line |-> 0]
          BY <4>1 DEF Worked
        <4>3. /\ ~slave'.sending /\ ~slave'.wait /\ slave'.send = slave.send /\ UNCHANGED <<src, dst>> /\ line' = 0
          BY <1>1, <3>1, <4>2 DEF Results
        <4>4. master.mode = "NULL"
          BY <2>5, <3>3 DEF Taken
        <4>5. raced' => Overtaken'
          BY <1>1, <1>2, <1>4, <3>1, <3>3, <4>3, <4>4 DEF Overtaken
        <4>6. ~raced' => Idle'
          BY <1>1, <1>2, <3>1, <3>3, <4>3, <4>4 DEF Idle, Quiet
        <4>7. InOrder'
          <5>1. Carried' = <<>>
            BY <1>1, <4>4 DEF Carried
          <5> QED BY <1>1, <2>2, <4>3, <5>1 DEF InOrder
        <4> QED BY <2>1, <4>3, <4>5, <4>6, <4>7 DEF RecvInv, RecvShape, Lot
      <3>4. CASE slave.send = 0 /\ src # <<>>
        <4> DEFINE n == Len(src)
        <4>1. ReadBufDone(Worked) = [Worked EXCEPT !.sending = TRUE, !.send = n, !.rd_status = n, !.line = 1]
          BY <3>4 DEF ReadBufDone, Worked
        <4>2. n \in Nat /\ n > 0
          BY <3>4, Numbers
        <4> HIDE DEF n
        <4>3. ReadBufDone(Worked) = [recv |-> slave.recv, send |-> n, sending |-> TRUE, wait |-> slave.wait,
                                     rd_status |-> n, miso |-> miso, src |-> src, dst |-> dst, line |-> 1]
          BY <4>1 DEF Worked
        <4>4. /\ slave'.sending /\ ~slave'.wait /\ slave'.send = n /\ rd_status' = n /\ UNCHANGED <<src, dst>>
              /\ line' = 1
          BY <1>1, <3>1, <4>3 DEF Results
        <4>5. master.mode = "NULL" /\ ~raced'
          BY <1>2, <1>4, <2>5, <3>4, <4>4 DEF Taken
        <4>6. Offer'
          <5>1. n <= Len(src')
            BY <4>2, <4>4 DEF n
          <5> QED BY <4>2, <4>4, <5>1 DEF Offer
        <4>7. Announced'
          BY <1>1, <3>1, <4>4, <4>5, <4>6 DEF Announced
        <4>8. InOrder'
          <5>1. Carried' = <<>>
            BY <1>1, <4>5 DEF Carried
          <5> QED BY <1>1, <2>2, <4>4, <5>1 DEF InOrder
        <4>9. Whole(Len(src')) /\ Whole(slave'.send)
          BY <2>1, <4>4 DEF n
        <4> QED BY <4>4, <4>5, <4>7, <4>8, <4>9 DEF RecvInv, RecvShape, Lot
      <3> QED BY <3>2, <3>3, <3>4
    <2> QED BY <1>1, <1>4, <2>4, <2>5 DEF RecvInv, RecvShape, Lot, Idle, Announced, Loaded
  <1> QED BY <1>1, <1>3, <1>4

LEMMA RecvTasks ==
    ASSUME TypeOK, mode = "recv", RecvInv, Writer \/ Reader
    PROVE  RecvInv'
  <1>1. ~slave.wait /\ raced \in BOOLEAN
    BY DEF RecvInv, RecvShape, TypeOK
  <1>2. CASE WriterSends
    <2>1. /\ UNCHANGED <<mode, master, irq, line, slave, done, wr_status, rd_status, mosi, miso, dst, reader, read, raced>>
          /\ writer = "send" /\ writer' = "notify"
      BY <1>2 DEF WriterSends, registers
    <2>2. Len(src') >= Len(src) /\ Len(src) \in Nat /\ Len(src') \in Nat /\ src' # <<>>
      BY <1>2, WriterFills
    <2>3. CASE raced
      BY <1>1, <2>1, <2>3 DEF RecvInv, RecvShape, Overtaken
    <2>4. CASE ~raced
      <3>1. Whole(Len(src')) /\ Whole(slave'.send)
        <4>1. Whole(Len(src) + BLOCK)
          BY <2>2, <2>4, Wholes DEF RecvInv, RecvShape, Lot
        <4> QED BY <1>2, <2>1, <2>4, <4>1, WriterFills DEF RecvInv, RecvShape, Lot
      <3>2. slave.send \in Nat
        BY Numbers DEF TypeOK
      <3>3. slave.send <= Len(src) => slave'.send <= Len(src')
        BY <2>1, <2>2, <3>2
      <3>4. Offer => Offer'
        BY <2>1, <3>3 DEF Offer
      <3>5. Idle \/ Announced \/ Asked \/ Loaded \/ Taken => (Idle \/ Announced \/ Asked \/ Loaded \/ Taken)'
        <4>1. Idle => Idle'
          BY <2>1, <2>2 DEF Idle, Quiet
        <4>2. (Announced => Announced') /\ (Asked => Asked')
          BY <2>1, <3>4 DEF Announced, Asked, Quiet
        <4>3. (Loaded => Loaded') /\ (Taken => Taken')
          BY <2>1, <3>3 DEF Loaded, Taken, Quiet
        <4> QED BY <4>1, <4>2, <4>3
      <3>6. InOrder'
        <4>1. Carried' = Carried
          BY <2>1 DEF Carried
        <4> QED BY <1>2, <2>1, <2>4, <4>1, WriterGrows DEF RecvInv, InOrder
      <3> QED BY <1>1, <2>1, <2>4, <3>1, <3>5, <3>6 DEF RecvInv, RecvShape, Lot
    <2> QED BY <2>3, <2>4
  <1>3. CASE WriterNotifies
    <2>1. /\ UNCHANGED <<mode, master, done, wr_status, mosi, miso, src, dst, written, reader, read, raced>>
          /\ writer = "notify" /\ writer' = "send" /\ NotifySlave
      BY <1>3 DEF WriterNotifies
    <2>2. CASE slave.sending
      <3>1. UNCHANGED <<slave, rd_status, line, irq>>
        BY <2>1, <2>2 DEF NotifySlave
      <3>2. ~raced => InOrder'
        <4>1. Carried' = Carried
          BY <2>1 DEF Carried
        <4> QED BY <2>1, <4>1 DEF RecvInv, InOrder
      <3>3. raced => Overtaken'
        BY <2>1, <2>2, <3>1 DEF RecvInv, RecvShape, Overtaken
      <3>4. ~raced => Lot'
        <4>1. Offer => Offer'
          BY <2>1, <3>1 DEF Offer
        <4>2. ~Idle
          BY <2>2 DEF Idle
        <4>3. (Announced => Announced') /\ (Asked => Asked') /\ (Loaded => Loaded') /\ (Taken => Taken')
          BY <2>1, <3>1, <4>1 DEF Announced, Asked, Loaded, Taken, Quiet
        <4> QED BY <2>1, <3>1, <4>2, <4>3 DEF RecvInv, RecvShape, Lot
      <3> QED BY <1>1, <2>1, <3>1, <3>2, <3>3, <3>4 DEF RecvInv, RecvShape
    <2>3. CASE ~slave.sending
      <3> DEFINE n == Len(src)
      <3>1. /\ slave' = [slave EXCEPT !.send = n, !.sending = TRUE] /\ rd_status' = n
            /\ (irq' <=> irq \/ line = 0)
        BY <2>1, <2>3 DEF NotifySlave, Raise
      <3>2. n \in Nat /\ (src # <<>> => n > 0)
        BY Numbers
      <3>3. slave'.send = n /\ slave'.sending /\ (slave'.wait <=> slave.wait)
        <4> HIDE DEF n
        <4> QED BY <3>1 DEF TypeOK
      <3>4. CASE raced
        <4>1. Overtaken /\ src = <<>>
          BY <2>3, <3>4 DEF RecvInv, RecvShape, Overtaken
        <4>2. n = 0
          BY <4>1, EmptySeq
        <4> HIDE DEF n
        <4>3. Overtaken'
          BY <2>1, <2>3, <3>1, <3>3, <4>1, <4>2 DEF Overtaken
        <4> QED BY <1>1, <2>1, <3>3, <3>4, <4>3 DEF RecvInv, RecvShape
      <3>5. CASE ~raced
        <4>1. Idle /\ Whole(n)
          BY <2>3, <3>5 DEF RecvInv, RecvShape, Lot, Announced, Asked, Loaded, Taken, Offer
        <4>2. n > 0 /\ line = 0
          BY <2>1, <3>2, <4>1 DEF Idle
        <4>3. n <= Len(src') /\ Whole(Len(src'))
          BY <2>1, <3>2, <4>1
        <4>4. InOrder'
          <5>1. Carried' = Carried
            BY <2>1 DEF Carried
          <5> QED BY <2>1, <3>5, <5>1 DEF RecvInv, InOrder
        <4> HIDE DEF n
        <4>5. Announced' /\ Whole(slave'.send)
          BY <2>1, <3>1, <3>3, <4>1, <4>2, <4>3 DEF Announced, Offer, Idle, Quiet
        <4> QED BY <1>1, <2>1, <3>3, <3>5, <4>3, <4>4, <4>5 DEF RecvInv, RecvShape, Lot
      <3> QED BY <1>1, <3>4, <3>5
    <2> QED BY <2>2, <2>3
  <1>4. CASE ReaderTakes
    <2>1. UNCHANGED <<mode, master, irq, line, slave, done, wr_status, rd_status, mosi, miso, src, writer, written, raced>>
      BY <1>4 DEF ReaderTakes, registers
    <2>2. RecvShape'
      BY <2>1 DEF RecvInv, RecvShape, Overtaken, Lot, Idle, Announced, Asked, Loaded, Taken, Offer, Quiet
    <2>3. ~raced => InOrder'
      <3>1. Carried' = Carried
        BY <2>1 DEF Carried
      <3> QED BY <1>4, <2>1, <3>1, ReaderFrees DEF RecvInv, InOrder
    <2> QED BY <2>1, <2>2, <2>3 DEF RecvInv
  <1>5. CASE ReaderChecks
    <2>1. /\ UNCHANGED <<mode, slave, done, wr_status, rd_status, mosi, miso, src, dst, writer, written, read, raced>>
          /\ UNCHANGED line /\ ReaderChecksMaster
      BY <1>5 DEF ReaderChecks, registers
    <2>2. CASE UNCHANGED <<master, irq>>
      <3>1. RecvShape'
        BY <2>1, <2>2 DEF RecvInv, RecvShape, Overtaken, Lot, Idle, Announced, Asked, Loaded, Taken, Offer, Quiet
      <3>2. ~raced => InOrder'
        <4>1. Carried' = Carried
          BY <2>1, <2>2 DEF Carried
        <4> QED BY <2>1, <4>1 DEF RecvInv, InOrder
      <3> QED BY <2>1, <3>1, <3>2 DEF RecvInv
    <2>3. CASE master.wait /\ master' = [master EXCEPT !.wait = FALSE] /\ irq'
      <3>1. master'.mode = master.mode /\ master'.len = master.len /\ ~master'.wait
        BY <2>3 DEF TypeOK
      <3>2. ~raced /\ Loaded /\ Whole(Len(src)) /\ Whole(slave.send)
        BY <1>1, <2>3 DEF RecvInv, RecvShape, Overtaken, Lot, Idle, Announced, Asked, Taken, Quiet
      <3>3. Loaded'
        BY <2>1, <2>3, <3>1, <3>2 DEF Loaded
      <3>4. InOrder'
        <4>1. Carried' = Carried
          BY <2>1, <3>1 DEF Carried
        <4> QED BY <2>1, <3>2, <4>1 DEF RecvInv, InOrder
      <3> QED BY <1>1, <2>1, <3>2, <3>3, <3>4 DEF RecvInv, RecvShape, Lot
    <2> QED BY <2>1, <2>2, <2>3 DEF ReaderChecksMaster
  <1>6. CASE ReaderClears
    <2>1. /\ slave' = [slave EXCEPT !.wait = FALSE]
          /\ UNCHANGED <<mode, master, irq, line, done, wr_status, rd_status, mosi, miso, src, dst, writer, written, read, raced>>
      BY <1>6 DEF ReaderClears, registers
    <2>2. slave'.send = slave.send /\ (slave'.sending <=> slave.sending) /\ ~slave'.wait
      BY <2>1 DEF TypeOK
    <2>3. RecvShape'
      BY <2>1, <2>2 DEF RecvInv, RecvShape, Overtaken, Lot, Idle, Announced, Asked, Loaded, Taken, Offer, Quiet
    <2>4. ~raced => InOrder'
      <3>1. Carried' = Carried
        BY <2>1 DEF Carried
      <3> QED BY <2>1, <3>1 DEF RecvInv, InOrder
    <2> QED BY <2>1, <2>3, <2>4 DEF RecvInv
  <1> QED BY <1>2, <1>3, <1>4, <1>5, <1>6 DEF Writer, Reader
-----------------------------------------------------------------------------
LEMMA InitInv == Init => IInv
  <1> SUFFICES ASSUME Init PROVE IInv
    OBVIOUS
  <1>1. TypeOK
    BY TypeInit
  <1>2. Len(<<>>) = 0 /\ RING \in Nat /\ CHUNK \in Nat /\ CHUNK <= RING /\ Whole(0)
    BY <1>1, EmptySeq, Numbers, Wholes
  <1>3. InOrder
    <2>1. Run(0, 0) = <<>>
      BY RunIsSeq
    <2>2. <<>> = Run(0 + 0, 0) /\ <<>> = Run(0 + 0 + 0, 0) /\ 0 + 0 + 0 + 0 = 0 /\ <<>> = Run(0, 0)
      BY <2>1
    <2>3. Chain(<<>>, <<>>, <<>>, <<>>, 0)
      BY <2>2 DEF Chain
    <2>4. read = <<>> /\ dst = <<>> /\ Carried = <<>> /\ src = <<>> /\ written = 0
      BY DEF Init, Carried
    <2> QED BY <2>3, <2>4 DEF InOrder
  <1>4. SendControl /\ SendNumbers /\ Room
    BY <1>2 DEF Init, SendControl, SendNumbers, Room, Spaces
  <1>5. RecvShape
    BY <1>2 DEF Init, RecvShape, Lot, Idle, Quiet
  <1> QED BY <1>1, <1>3, <1>4, <1>5 DEF IInv, SendInv, RecvInv

LEMMA NextInv == IInv /\ [Next]_vars => IInv'
  <1> SUFFICES ASSUME IInv, [Next]_vars PROVE IInv'
    OBVIOUS
  <1>1. TypeOK /\ TypeOK'
    BY TypeNext DEF IInv
  <1>2. CASE UNCHANGED vars
    <2>1. (Carried' = Carried) /\ (InOrder' <=> InOrder)
      BY <1>2 DEF vars, Carried, InOrder
    <2>2. SendInv' <=> SendInv
      BY <1>2, <2>1 DEF vars, SendInv, SendControl, SendNumbers, Room, Spaces
    <2>3. RecvInv' <=> RecvInv
      BY <1>2, <2>1 DEF vars, RecvInv, RecvShape, Overtaken, Lot, Idle, Announced, Asked, Loaded, Taken, Offer, Quiet
    <2> QED BY <1>1, <1>2, <2>2, <2>3 DEF IInv, vars
  <1>3. CASE Next
    <2>1. mode' = mode
      BY <1>3 DEF Next, MasterIsr, SlaveIsr, Writer, WriterSends, WriterNotifies,
                  Reader, ReaderTakes, ReaderChecks, ReaderClears
    <2>2. mode = "send" => SendInv'
      BY <1>1, <1>3, SendMaster, SendSlave, SendTasks DEF IInv, Next
    <2>3. mode = "recv" => RecvInv'
      BY <1>1, <1>3, RecvMaster, RecvSlave, RecvTasks DEF IInv, Next
    <2> QED BY <1>1, <2>1, <2>2, <2>3 DEF IInv
  <1> QED BY <1>2, <1>3

LEMMA Invariance == Spec => []IInv
  BY InitInv, NextInv, PTL DEF Spec

(* What the reading task has, and what waits for it, is the beginning of   *)
(* what the writing task wrote: the two handlers and the two tasks never   *)
(* lose a chunk, overwrite one in a register or take one twice, for every  *)
(* size of chunks, blocks, reads and buffers - unless they overtook a task. *)
THEOREM OrderKept == Spec => []ArrivesInOrder
  <1>1. IInv => ArrivesInOrder
    <2> SUFFICES ASSUME IInv, ~raced PROVE read \o dst = [i \in 1..Len(read \o dst) |-> i]
      BY DEF ArrivesInOrder
    <2>1. mode = "send" \/ mode = "recv"
      BY SpiAssumption DEF IInv, TypeOK
    <2>2. Chain(read, dst, Carried, src, written)
      BY <2>1 DEF IInv, SendInv, RecvInv, InOrder
    <2> QED BY <2>2, ChainArrived
  <1> QED BY <1>1, Invariance, PTL

(* gpio_isr_handler makes a transaction of data only when the slave has    *)
(* handled all those before it, of whichever kind, overtaken tasks or not. *)
THEOREM OneAtATime == Spec => OneChunkAtATime
  <1>1. ASSUME IInv, StartsData PROVE done = {}
    <2>1. mode = "send" \/ mode = "recv"
      BY <1>1, SpiAssumption DEF IInv, TypeOK
    <2>2. irq /\ raced \in BOOLEAN
      BY <1>1 DEF StartsData, MasterIsr, IInv, TypeOK
    <2>3. master.mode \in {"READ", "WRITE"}
      BY <1>1 DEF StartsData
    <2>4. CASE mode = "send"
      BY <1>1, <2>2, <2>3, <2>4 DEF IInv, SendInv, SendControl
    <2>5. CASE mode = "recv"
      BY <1>1, <2>2, <2>3, <2>5
      DEF IInv, RecvInv, RecvShape, Overtaken, Lot, Idle, Announced, Asked, Loaded, Taken, Quiet
    <2> QED BY <2>1, <2>4, <2>5
  <1>2. IInv /\ [Next]_vars => [StartsData => done = {}]_vars
    BY <1>1
  <1> QED BY <1>2, Invariance, PTL DEF Spec, OneChunkAtATime

(* gpio_isr_handler's error return, a stream buffer with less in it than   *)
(* was announced, is never taken; nor does it read a register that the     *)
(* slave has not filled.                                                   *)
NeverShort == /\ master.mode = "WRITE" => master.len <= Len(src)
              /\ master.mode = "READ" /\ irq => Len(miso) = CHUNK /\ Upto(master.len) = CHUNK
THEOREM ChunksAreThere == Spec => []NeverShort
  <1>1. IInv => NeverShort
    <2> SUFFICES ASSUME IInv PROVE NeverShort
      OBVIOUS
    <2>1. CASE mode = "send"
      BY <2>1 DEF IInv, SendInv, SendControl, SendNumbers, NeverShort
    <2>2. CASE mode = "recv"
      <3>1. master.mode # "WRITE" /\ (master.mode = "READ" /\ irq => Loaded)
        BY <2>2 DEF IInv, RecvInv, RecvShape, Overtaken, Lot, Idle, Announced, Asked, Loaded, Taken, Quiet, TypeOK
      <3>2. Loaded => Len(miso) = CHUNK /\ Upto(master.len) = CHUNK
        <4> SUFFICES ASSUME Loaded PROVE Len(miso) = CHUNK /\ Upto(master.len) = CHUNK
          OBVIOUS
        <4>1. Len(miso) = CHUNK /\ master.len = slave.send + CHUNK /\ slave.send \in Nat /\ CHUNK \in Nat
          BY Numbers DEF IInv, Loaded, TypeOK
        <4>2. master.len \in Nat /\ master.len >= CHUNK
          BY <4>1
        <4> QED BY <4>1, <4>2, UptoTyped
      <3> QED BY <3>1, <3>2 DEF NeverShort
    <2>3. mode = "send" \/ mode = "recv"
      BY SpiAssumption DEF IInv, TypeOK
    <2> QED BY <2>1, <2>2, <2>3
  <1> QED BY <1>1, Invariance, PTL
=============================================================================
