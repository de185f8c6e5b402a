--------------------------- MODULE UartCacheProofs ---------------------------
(***************************************************************************)
(* The invariants of UartCache for every cache size, chunk size and set of *)
(* readers, and that it implements LossyFifo.                              *)
(***************************************************************************)
EXTENDS UartCache, RunProofs

(* A cursor of the ring that runs past the end comes back at its start,    *)
(* and stays where it is otherwise.                                        *)
LEMMA ModWrap ==
    ASSUME NEW a \in Nat, a < 2 * Size
    PROVE  a % Size = IF a < Size THEN a ELSE a - Size
  <1>1. Size \in Nat /\ Size > 0
    BY SizeAssumption
  <1>2. CASE a < Size
    BY <1>1, <1>2
  <1>3. CASE a >= Size
    BY <1>1, <1>3
  <1> QED BY <1>1, <1>2, <1>3
-----------------------------------------------------------------------------
(* The inductive invariant.  HoldsNewest needs head to be count slots past *)
(* tail (a write then lands on the free slot, or on the oldest byte of a   *)
(* full buffer), the mutex to keep the loops apart, and tmp_buf to hold    *)
(* exactly the bytes that follow the stored ones.                          *)
RingShape == head = SlotOf(count)

LoopsExclude == /\ dpc = "loop" <=> mutex = Daemon
                /\ \A r \in Readers : rpc[r] = "loop" <=> mutex = r

TmpBufFollows ==
    dpc \in {"take", "loop"} =>
        /\ Len(tmp_buf) <= received
        /\ \A k \in 1..Len(tmp_buf) : tmp_buf[k] = received - Len(tmp_buf) + k
        /\ dpc = "loop" => i <= Len(tmp_buf)

TakenAreOld == /\ count <= Stored
               /\ \A b \in taken : b <= Stored - count

ChunkEndsAtTail ==
    \A r \in Readers :
        /\ rpc[r] = "take" => dst[r] = <<>>
        /\ rpc[r] = "loop" /\ Len(dst[r]) > 0 => dst[r][Len(dst[r])] = Stored - count

IInv == /\ TypeOK
        /\ RingShape
        /\ LoopsExclude
        /\ TmpBufFollows
        /\ HoldsNewest
        /\ LossOnlyWhenFull
        /\ TakenAreOld
        /\ ChunkContiguous
        /\ ChunkEndsAtTail
-----------------------------------------------------------------------------
(* Slots that different cached bytes occupy differ, and the slot after the *)
(* last one is free unless the buffer is full.                             *)
LEMMA SlotsDiffer ==
    ASSUME NEW t \in Slots, NEW j \in 0..Size, NEW k \in 0..Size,
           (t + j) % Size = (t + k) % Size, j < k
    PROVE  j = 0 /\ k = Size
  BY ModWrap, SizeAssumption DEF Slots

(* Moving a cursor on by one, from either end of a run of k slots.         *)
LEMMA StepOn ==
    ASSUME NEW t \in Slots, NEW k \in 0..(Size - 1)
    PROVE  /\ (((t + k) % Size) + 1) % Size = (t + (k + 1)) % Size
           /\ (((t + 1) % Size) + k) % Size = (t + (k + 1)) % Size
           /\ (t + k) % Size \in Slots
           /\ (t + Size) % Size = t
  <1>1. Size \in Nat /\ Size > 0 /\ t \in 0..(Size - 1)
    BY SizeAssumption DEF Slots
  <1>2. (t + k) % Size = IF t + k < Size THEN t + k ELSE t + k - Size
    BY <1>1, ModWrap
  <1>3. (t + (k + 1)) % Size = IF t + k + 1 < Size THEN t + k + 1 ELSE t + k + 1 - Size
    BY <1>1, ModWrap
  <1>4. (t + 1) % Size = IF t + 1 < Size THEN t + 1 ELSE 0
    BY <1>1, ModWrap
  <1>5. (((t + k) % Size) + 1) % Size
            = IF ((t + k) % Size) + 1 < Size THEN ((t + k) % Size) + 1 ELSE 0
    BY <1>1, <1>2, ModWrap
  <1>6. (((t + 1) % Size) + k) % Size
            = IF ((t + 1) % Size) + k < Size THEN ((t + 1) % Size) + k
                                           ELSE ((t + 1) % Size) + k - Size
    BY <1>1, <1>4, ModWrap
  <1>7. (t + Size) % Size = t
    BY <1>1, ModWrap
  <1> QED BY <1>1, <1>2, <1>3, <1>4, <1>5, <1>6, <1>7 DEF Slots

(* The invariant holds in the freshly initialised ring.                    *)
LEMMA InitInv == Init => IInv
  <1> SUFFICES ASSUME Init PROVE IInv
    OBVIOUS
  <1>1. TypeOK
    BY SizeAssumption DEF Init, TypeOK, Slots, Garbage
  <1>2. RingShape
    BY ModWrap, SizeAssumption DEF Init, RingShape, SlotOf
  <1>3. LoopsExclude
    BY TaskAssumption DEF Init, LoopsExclude
  <1> QED
    BY <1>1, <1>2, <1>3
    DEF Init, IInv, TmpBufFollows, HoldsNewest, LossOnlyWhenFull, TakenAreOld,
        ChunkContiguous, ChunkEndsAtTail, Stored

(* Bytes arriving from the UART wait in tmp_buf: nothing is stored yet.    *)
LEMMA UartReadInv ==
    ASSUME IInv, NEW n \in 1..BufSize, UartRead(n)
    PROVE  IInv'
  <1> USE BufSizeAssumption DEF IInv, UartRead, ringVars, readerVars
  <1>1. TypeOK'
    BY DEF TypeOK
  <1>2. Stored' = Stored
    BY DEF TypeOK, Stored
  <1>3. LoopsExclude'
    BY DEF LoopsExclude
  <1>4. TmpBufFollows'
    BY DEF TypeOK, TmpBufFollows
  <1>5. RingShape' /\ HoldsNewest' /\ LossOnlyWhenFull' /\ TakenAreOld'
    BY <1>2 DEF RingShape, HoldsNewest, LossOnlyWhenFull, TakenAreOld, SlotOf
  <1>6. ChunkContiguous' /\ ChunkEndsAtTail'
    BY <1>2 DEF ChunkContiguous, ChunkEndsAtTail
  <1> QED BY <1>1, <1>3, <1>4, <1>5, <1>6

(* rb_write entering its loop has stored none of tmp_buf.                  *)
LEMMA WriteTakeInv ==
    ASSUME IInv, WriteTake
    PROVE  IInv'
  <1> USE DEF IInv, WriteTake, ringVars, readerVars
  <1>1. TypeOK'
    BY DEF TypeOK
  <1>2. Stored' = Stored
    BY DEF TypeOK, Stored
  <1>3. LoopsExclude'
    BY TaskAssumption DEF LoopsExclude
  <1>4. TmpBufFollows'
    BY DEF TypeOK, TmpBufFollows
  <1>5. RingShape' /\ HoldsNewest' /\ LossOnlyWhenFull' /\ TakenAreOld'
    BY <1>2 DEF RingShape, HoldsNewest, LossOnlyWhenFull, TakenAreOld, SlotOf
  <1>6. ChunkContiguous' /\ ChunkEndsAtTail'
    BY <1>2 DEF ChunkContiguous, ChunkEndsAtTail
  <1> QED BY <1>1, <1>3, <1>4, <1>5, <1>6

(* rb_write leaving its loop has stored all of tmp_buf.                    *)
LEMMA WriteGiveInv ==
    ASSUME IInv, WriteGive
    PROVE  IInv'
  <1> USE DEF IInv, WriteGive, ringVars, readerVars
  <1>1. TypeOK'
    BY DEF TypeOK
  <1>2. Stored' = Stored
    BY DEF TypeOK, Stored
  <1>3. LoopsExclude'
    BY TaskAssumption DEF LoopsExclude
  <1>4. TmpBufFollows'
    BY DEF TypeOK, TmpBufFollows
  <1>5. RingShape' /\ HoldsNewest' /\ LossOnlyWhenFull' /\ TakenAreOld'
    BY <1>2 DEF RingShape, HoldsNewest, LossOnlyWhenFull, TakenAreOld, SlotOf
  <1>6. ChunkContiguous' /\ ChunkEndsAtTail'
    BY <1>2 DEF ChunkContiguous, ChunkEndsAtTail
  <1> QED BY <1>1, <1>3, <1>4, <1>5, <1>6

(* One byte written.  The two cases are a buffer that has room, where only *)
(* head moves, and a full one, where head and tail are the same slot and   *)
(* move together.                                                          *)
LEMMA WriteByteInv ==
    ASSUME IInv, WriteByte
    PROVE  IInv'
  <1> DEFINE n == Stored - count
  <1>1. /\ head \in Slots /\ tail \in Slots /\ count \in 0..Size
        /\ i \in Nat /\ received \in Nat /\ tmp_buf \in Seq(Nat)
        /\ buffer \in [Slots -> Nat] /\ dst \in [Readers -> Seq(Nat)]
        /\ taken \in SUBSET Nat /\ head = SlotOf(count)
        /\ Size \in Nat /\ Size > 0
    BY SizeAssumption DEF IInv, TypeOK, RingShape
  <1>2. /\ UNCHANGED <<mutex, dpc, tmp_buf, received, rpc, dst, taken>>
        /\ i' = i + 1 /\ head' = (head + 1) % Size
        /\ dpc = "loop" /\ i < Len(tmp_buf)
    BY DEF WriteByte, readerVars
  <1>3. /\ tmp_buf[i + 1] = Stored + 1
        /\ Stored \in Nat /\ Stored' = Stored + 1
        /\ Len(tmp_buf) \in Nat /\ Len(tmp_buf) <= received
    BY <1>1, <1>2 DEF IInv, TmpBufFollows, Stored
  <1>4. buffer' = [buffer EXCEPT ![head] = Stored + 1]
    BY <1>3 DEF WriteByte
  <1>5. buffer' \in [Slots -> Nat]
    BY <1>1, <1>3, <1>4
  <1>6. (head + 1) % Size \in Slots /\ (tail + 1) % Size \in Slots
    BY <1>1, ModWrap DEF Slots
  <1>7. LoopsExclude'
    BY <1>2 DEF IInv, LoopsExclude
  <1>8. /\ mutex' \in Readers \cup {Daemon, Nobody}
         /\ dpc' \in {"uart", "take", "loop"}
         /\ rpc' \in [Readers -> {"take", "loop", "have"}]
         /\ tmp_buf' \in Seq(Nat) /\ dst' \in [Readers -> Seq(Nat)]
         /\ taken' \in SUBSET Nat /\ i' \in Nat /\ received' \in Nat
    BY <1>1, <1>2 DEF IInv, TypeOK
  <1>9. TmpBufFollows'
    BY <1>1, <1>2, <1>3 DEF IInv, TmpBufFollows
  <1>10. \A r \in Readers : rpc[r] # "loop"
    BY <1>2, TaskAssumption DEF IInv, LoopsExclude
  <1>11. ChunkContiguous' /\ ChunkEndsAtTail'
    BY <1>2, <1>10 DEF IInv, ChunkContiguous, ChunkEndsAtTail
  <1>12. CASE count < Size
    <2>1. tail' = tail /\ count' = count + 1
      BY <1>1, <1>12 DEF WriteByte
    <2>2. TypeOK'
      <3>1. head' \in Slots /\ tail' \in Slots /\ count' \in 0..Size
        BY <1>1, <1>2, <1>6, <1>12, <2>1
      <3> QED BY <1>5, <1>8, <3>1 DEF TypeOK
    <2>3. RingShape'
      <3>1. count \in 0..(Size - 1)
        BY <1>1, <1>12
      <3>2. (((tail + count) % Size) + 1) % Size = (tail + (count + 1)) % Size
        BY <1>1, <3>1, StepOn
      <3>3. SlotOf(count)' = (tail + (count + 1)) % Size
        BY <2>1 DEF SlotOf
      <3>4. head' = (((tail + count) % Size) + 1) % Size
        BY <1>1, <1>2 DEF SlotOf
      <3> QED BY <3>2, <3>3, <3>4 DEF RingShape
    <2>4. HoldsNewest'
      <3> SUFFICES ASSUME NEW k \in 0..count
                   PROVE  buffer'[SlotOf(k)] = n + 1 + k
        <4>1. Stored' - count' = n /\ count' - 1 = count
          BY <1>1, <1>3, <2>1
        <4> QED BY <2>1, <4>1 DEF HoldsNewest, SlotOf
      <3>1. CASE k = count
        BY <1>1, <1>3, <1>4, <3>1
      <3>2. CASE k < count
        <4>1. SlotOf(k) \in Slots
          BY <1>1, <1>12, <3>2, ModWrap DEF SlotOf, Slots
        <4>2. SlotOf(k) # head
          <5>1. k \in 0..Size /\ count \in 0..Size /\ ~(k = 0 /\ count = Size)
            BY <1>1, <1>12
          <5> QED BY <1>1, <3>2, <5>1, SlotsDiffer DEF SlotOf
        <4>3. buffer[SlotOf(k)] = n + 1 + k
          BY <1>1, <3>2 DEF IInv, HoldsNewest
        <4> QED BY <1>1, <1>4, <4>1, <4>2, <4>3
      <3> QED BY <1>1, <3>1, <3>2
    <2>5. n' = n
      BY <1>1, <1>3, <2>1
    <2>6. LossOnlyWhenFull'
      BY <1>1, <1>2, <1>3, <1>12, <2>1 DEF IInv, LossOnlyWhenFull
    <2>7. TakenAreOld'
      BY <1>1, <1>2, <1>3, <2>1 DEF IInv, TakenAreOld
    <2> QED BY <1>7, <1>9, <1>11, <2>2, <2>3, <2>4, <2>6, <2>7 DEF IInv
  <1>13. CASE count = Size
    <2>1. tail' = (tail + 1) % Size /\ count' = Size
      BY <1>1, <1>13 DEF WriteByte
    <2>2. head = tail
      BY <1>1, <1>13, ModWrap DEF SlotOf, Slots
    <2>3. TypeOK'
      <3>1. head' \in Slots /\ tail' \in Slots /\ count' \in 0..Size
        BY <1>1, <1>2, <1>6, <2>1
      <3> QED BY <1>5, <1>8, <3>1 DEF TypeOK
    <2>4. RingShape'
      <3>1. (tail' + Size) % Size = tail'
        BY <1>1, <1>6, <2>1, StepOn
      <3> QED BY <1>2, <2>1, <2>2, <3>1 DEF RingShape, SlotOf
    <2>5. HoldsNewest'
      <3> SUFFICES ASSUME NEW k \in 0..(Size - 1)
                   PROVE  buffer'[(((tail + 1) % Size) + k) % Size] = n + 2 + k
        BY <1>1, <1>3, <1>13, <2>1 DEF HoldsNewest, SlotOf
      <3>1. (((tail + 1) % Size) + k) % Size = SlotOf(k + 1)
        BY <1>1, StepOn DEF SlotOf
      <3>2. CASE k = Size - 1
        BY <1>1, <1>3, <1>4, <1>13, <3>1, <3>2
      <3>3. CASE k < Size - 1
        <4>1. SlotOf(k + 1) \in Slots
          BY <1>1, <3>3, ModWrap DEF SlotOf, Slots
        <4>2. SlotOf(k + 1) # head
          <5>1. k + 1 \in 0..Size /\ Size \in 0..Size /\ k + 1 < Size /\ k + 1 # 0
            BY <1>1, <3>3
          <5> QED BY <1>1, <1>13, <5>1, SlotsDiffer DEF SlotOf
        <4>3. buffer[SlotOf(k + 1)] = n + 2 + k
          BY <1>1, <1>3, <1>13, <3>3 DEF IInv, HoldsNewest
        <4> QED BY <1>1, <1>4, <3>1, <4>1, <4>2, <4>3
      <3> QED BY <1>1, <3>2, <3>3
    <2>6. LossOnlyWhenFull'
      BY <1>1, <1>2, <1>3, <1>13, <2>1 DEF IInv, LossOnlyWhenFull
    <2>7. TakenAreOld'
      BY <1>1, <1>2, <1>3, <1>13, <2>1 DEF IInv, TakenAreOld
    <2> QED BY <1>7, <1>9, <1>11, <2>3, <2>4, <2>5, <2>6, <2>7 DEF IInv
  <1> QED BY <1>1, <1>12, <1>13
-----------------------------------------------------------------------------
(* The readers do not change what is stored: rb_read entering its loop.    *)
LEMMA ReadTakeInv ==
    ASSUME IInv, NEW r \in Readers, ReadTake(r)
    PROVE  IInv'
  <1> USE DEF IInv, ReadTake, ringVars, daemonVars
  <1>1. TypeOK'
    BY DEF TypeOK
  <1>2. Stored' = Stored
    BY DEF Stored
  <1>3. LoopsExclude'
    BY TaskAssumption DEF LoopsExclude, TypeOK
  <1>4. TmpBufFollows'
    BY DEF TmpBufFollows
  <1>5. RingShape' /\ HoldsNewest' /\ LossOnlyWhenFull' /\ TakenAreOld'
    BY <1>2 DEF RingShape, HoldsNewest, LossOnlyWhenFull, TakenAreOld, SlotOf
  <1>6. ChunkContiguous'
    BY DEF ChunkContiguous
  <1>7. ChunkEndsAtTail'
    BY <1>2 DEF ChunkEndsAtTail, TypeOK
  <1> QED BY <1>1, <1>3, <1>4, <1>5, <1>6, <1>7

(* rb_read leaving its loop keeps its chunk and frees the mutex.           *)
LEMMA ReadGiveInv ==
    ASSUME IInv, NEW r \in Readers, ReadGive(r)
    PROVE  IInv'
  <1> USE DEF IInv, ReadGive, ringVars, daemonVars
  <1>1. TypeOK'
    BY DEF TypeOK
  <1>2. Stored' = Stored
    BY DEF Stored
  <1>3. LoopsExclude'
    BY TaskAssumption DEF LoopsExclude, TypeOK
  <1>4. TmpBufFollows'
    BY DEF TmpBufFollows
  <1>5. RingShape' /\ HoldsNewest' /\ LossOnlyWhenFull' /\ TakenAreOld'
    BY <1>2 DEF RingShape, HoldsNewest, LossOnlyWhenFull, TakenAreOld, SlotOf
  <1>6. ChunkContiguous'
    BY DEF ChunkContiguous
  <1>7. ChunkEndsAtTail'
    BY <1>2 DEF ChunkEndsAtTail, TypeOK
  <1> QED BY <1>1, <1>3, <1>4, <1>5, <1>6, <1>7

(* A reader done with its chunk starts the next one empty.                 *)
LEMMA ConsumeInv ==
    ASSUME IInv, NEW r \in Readers, Consume(r)
    PROVE  IInv'
  <1> USE DEF IInv, Consume, ringVars, daemonVars
  <1>1. TypeOK'
    BY DEF TypeOK
  <1>2. Stored' = Stored
    BY DEF Stored
  <1>3. LoopsExclude'
    BY TaskAssumption DEF LoopsExclude, TypeOK
  <1>4. TmpBufFollows'
    BY DEF TmpBufFollows
  <1>5. RingShape' /\ HoldsNewest' /\ LossOnlyWhenFull' /\ TakenAreOld'
    BY <1>2 DEF RingShape, HoldsNewest, LossOnlyWhenFull, TakenAreOld, SlotOf
  <1>6. ChunkContiguous'
    BY DEF ChunkContiguous, TypeOK
  <1>7. ChunkEndsAtTail'
    BY <1>2 DEF ChunkEndsAtTail, TypeOK
  <1> QED BY <1>1, <1>3, <1>4, <1>5, <1>6, <1>7

(* The byte a reader takes is the oldest stored one still cached, the one  *)
(* that follows everything taken before.                                   *)
LEMMA OldestByte ==
    ASSUME IInv, count > 0
    PROVE  buffer[tail] = Stored - count + 1
  <1>1. Size \in Nat /\ tail \in 0..(Size - 1) /\ count \in 0..Size
    BY SizeAssumption DEF IInv, TypeOK, Slots
  <1>2. SlotOf(0) = tail
    BY <1>1, ModWrap DEF SlotOf
  <1>3. 0 \in 0..(count - 1)
    BY <1>1
  <1>4. Stored \in Int
    BY DEF IInv, TypeOK, Stored
  <1> QED BY <1>1, <1>2, <1>3, <1>4 DEF IInv, HoldsNewest

(* A byte moves from the ring to the chunk that it continues.              *)
LEMMA ReadByteInv ==
    ASSUME IInv, NEW r \in Readers, ReadByte(r)
    PROVE  IInv'
  <1> DEFINE b == Stored - count + 1
  <1>1. /\ head \in Slots /\ tail \in Slots /\ count \in 1..Size
        /\ buffer \in [Slots -> Nat] /\ dst \in [Readers -> Seq(Nat)]
        /\ taken \in SUBSET Nat /\ head = SlotOf(count)
        /\ Size \in Nat /\ Size > 0
    BY SizeAssumption DEF IInv, TypeOK, RingShape, ReadByte
  <1>2. /\ UNCHANGED <<buffer, head, mutex, daemonVars, rpc>>
        /\ tail' = (tail + 1) % Size /\ count' = count - 1
        /\ rpc[r] = "loop"
    BY DEF ReadByte
  <1>3. Stored' = Stored /\ Stored \in Nat /\ count <= Stored /\ b \in Nat
    BY <1>1, <1>2 DEF IInv, TypeOK, TmpBufFollows, TakenAreOld, Stored, daemonVars
  <1>4. buffer[tail] = b
    BY <1>1, OldestByte
  <1>5. taken' = taken \cup {b} /\ dst' = [dst EXCEPT ![r] = Append(@, b)]
    BY <1>4 DEF ReadByte
  <1>6. tail' \in Slots /\ count' \in 0..Size
    BY <1>1, <1>2, ModWrap DEF Slots
  <1>7. TypeOK'
    BY <1>1, <1>2, <1>3, <1>5, <1>6 DEF IInv, TypeOK, daemonVars
  <1>8. LoopsExclude' /\ TmpBufFollows'
    BY <1>2 DEF IInv, LoopsExclude, TmpBufFollows, daemonVars
  <1>9. \A k \in 0..(count - 1) : (tail' + k) % Size = SlotOf(k + 1)
    <2> SUFFICES ASSUME NEW k \in 0..(count - 1)
                 PROVE  (((tail + 1) % Size) + k) % Size = (tail + (k + 1)) % Size
      BY <1>2 DEF SlotOf
    <2>1. k \in 0..(Size - 1)
      BY <1>1
    <2> QED BY <1>1, <2>1, StepOn
  <1>10. RingShape'
    <2>1. count - 1 \in 0..(count - 1) /\ (count - 1) + 1 = count
      BY <1>1
    <2> QED BY <1>1, <1>2, <1>9, <2>1 DEF RingShape, SlotOf
  <1>11. HoldsNewest'
    <2> SUFFICES ASSUME NEW k \in 0..(count - 2)
                 PROVE  buffer[SlotOf(k + 1)] = Stored - (count - 1) + 1 + k
      <3>1. count' - 1 = count - 2 /\ 0..(count - 2) \subseteq 0..(count - 1)
        BY <1>1, <1>2
      <3>2. \A k \in 0..(count - 2) : SlotOf(k)' = SlotOf(k + 1)
        BY <1>9, <3>1 DEF SlotOf
      <3> QED BY <1>2, <1>3, <3>1, <3>2 DEF HoldsNewest
    <2>1. k + 1 \in 0..(count - 1)
      BY <1>1
    <2> QED BY <1>1, <1>3, <2>1 DEF IInv, HoldsNewest
  <1>12. LossOnlyWhenFull'
    BY <1>1, <1>2, <1>3, <1>5 DEF IInv, LossOnlyWhenFull
  <1>13. TakenAreOld'
    BY <1>1, <1>2, <1>3, <1>5 DEF IInv, TakenAreOld
  <1>14. \A q \in Readers : q # r => dst'[q] = dst[q] /\ rpc[q] # "loop"
    BY <1>1, <1>2, <1>5, TaskAssumption DEF IInv, LoopsExclude
  <1>15. /\ Len(dst'[r]) = Len(dst[r]) + 1 /\ Len(dst[r]) \in Nat
         /\ dst'[r][Len(dst[r]) + 1] = b
         /\ \A k \in 1..Len(dst[r]) : dst'[r][k] = dst[r][k]
    BY <1>1, <1>3, <1>5
  <1>16. ChunkContiguous'
    <2> SUFFICES ASSUME NEW q \in Readers, NEW k \in 1..(Len(dst'[q]) - 1)
                 PROVE  dst'[q][k + 1] = dst'[q][k] + 1
      BY DEF ChunkContiguous
    <2>1. CASE q # r
      BY <1>14, <2>1 DEF IInv, ChunkContiguous
    <2>2. CASE q = r /\ k = Len(dst[r])
      <3>1. dst[r][k] = Stored - count
        BY <1>2, <1>15, <2>2 DEF IInv, ChunkEndsAtTail
      <3> QED BY <1>1, <1>3, <1>15, <2>2, <3>1
    <2>3. CASE q = r /\ k < Len(dst[r])
      <3>1. k \in 1..(Len(dst[r]) - 1) /\ k + 1 \in 1..Len(dst[r]) /\ k \in 1..Len(dst[r])
        BY <1>15, <2>3
      <3> QED BY <1>15, <2>3, <3>1 DEF IInv, ChunkContiguous
    <2> QED BY <1>15, <2>1, <2>2, <2>3
  <1>17. ChunkEndsAtTail'
    <2>1. Stored' - count' = b
      BY <1>1, <1>2, <1>3
    <2> QED BY <1>2, <1>14, <1>15, <2>1 DEF IInv, ChunkEndsAtTail
  <1> QED BY <1>7, <1>8, <1>10, <1>11, <1>12, <1>13, <1>16, <1>17 DEF IInv
-----------------------------------------------------------------------------
(* Every step, and a stutter, keeps the invariant.                         *)
LEMMA NextInv == IInv /\ [Next]_vars => IInv'
  <1> SUFFICES ASSUME IInv, [Next]_vars PROVE IInv'
    OBVIOUS
  <1>1. CASE \E n \in 1..BufSize : UartRead(n)
    BY <1>1, UartReadInv
  <1>2. CASE WriteTake
    BY <1>2, WriteTakeInv
  <1>3. CASE WriteByte
    BY <1>3, WriteByteInv
  <1>4. CASE WriteGive
    BY <1>4, WriteGiveInv
  <1>5. ASSUME NEW r \in Readers, ReadTake(r) PROVE IInv'
    BY <1>5, ReadTakeInv
  <1>6. ASSUME NEW r \in Readers, ReadByte(r) PROVE IInv'
    BY <1>6, ReadByteInv
  <1>7. ASSUME NEW r \in Readers, ReadGive(r) PROVE IInv'
    BY <1>7, ReadGiveInv
  <1>8. ASSUME NEW r \in Readers, Consume(r) PROVE IInv'
    BY <1>8, ConsumeInv
  <1>9. CASE UNCHANGED vars
    BY <1>9 DEF IInv, TypeOK, RingShape, LoopsExclude, TmpBufFollows, HoldsNewest,
                LossOnlyWhenFull, TakenAreOld, ChunkContiguous, ChunkEndsAtTail,
                Stored, SlotOf, vars, ringVars, daemonVars, readerVars
  <1> QED
    BY <1>1, <1>2, <1>3, <1>4, <1>5, <1>6, <1>7, <1>8, <1>9 DEF Next

(* The inductive invariant holds in every reachable state.                 *)
LEMMA Invariance == Spec => []IInv
  BY InitInv, NextInv, PTL DEF Spec

(* Every variable keeps its type: head and tail stay inside the buffer and *)
(* count never exceeds its size, whatever the preemptions.                 *)
THEOREM TypeCorrect == Spec => []TypeOK
  <1>1. IInv => TypeOK
    BY DEF IInv
  <1> QED BY Invariance, <1>1, PTL

(* The ring holds the newest bytes of the stream without a gap.            *)
THEOREM NewestAreHeld == Spec => []HoldsNewest
  <1>1. IInv => HoldsNewest
    BY DEF IInv
  <1> QED BY Invariance, <1>1, PTL

(* rb_write drops a byte only when Size younger ones have been stored.     *)
THEOREM NoEarlyLoss == Spec => []LossOnlyWhenFull
  <1>1. IInv => LossOnlyWhenFull
    BY DEF IInv
  <1> QED BY Invariance, <1>1, PTL

(* What one rb_read returns is a gap-free run of the stream.               *)
THEOREM ChunksAreRuns == Spec => []ChunkContiguous
  <1>1. IInv => ChunkContiguous
    BY DEF IInv
  <1> QED BY Invariance, <1>1, PTL

(* The readers together take the bytes of the stream in its order, none    *)
(* twice.                                                                  *)
THEOREM ReadersTakeInOrder == Spec => TakenInOrder
  <1> DEFINE InOrder == \A r \in Readers : Len(dst'[r]) > Len(dst[r]) =>
                            \A c \in taken : dst'[r][Len(dst'[r])] > c
  <1>1. IInv /\ [Next]_vars => [InOrder]_vars
    <2> SUFFICES ASSUME IInv, Next,
                        NEW r \in Readers, Len(dst'[r]) > Len(dst[r]),
                        NEW c \in taken
                 PROVE  dst'[r][Len(dst'[r])] > c
      OBVIOUS
    <2>1. dst \in [Readers -> Seq(Nat)] /\ Len(dst[r]) \in Nat /\ dst' # dst
      BY DEF IInv, TypeOK
    <2>2. PICK q \in Readers : ReadByte(q) \/ Consume(q)
      BY <2>1 DEF Next, readerVars, UartRead, WriteTake, WriteByte, WriteGive,
                  ReadTake, ReadGive
    <2>3. q = r
      BY <2>1, <2>2 DEF ReadByte, Consume
    <2>4. ReadByte(r)
      BY <2>1, <2>2, <2>3 DEF Consume
    <2>5. dst' = [dst EXCEPT ![r] = Append(@, Stored - count + 1)]
      BY <2>4, OldestByte DEF ReadByte
    <2>6. Stored - count \in Int /\ c \in Nat /\ c <= Stored - count
      BY SizeAssumption DEF IInv, TypeOK, Stored, TakenAreOld
    <2> QED BY <2>1, <2>5, <2>6
  <1> QED BY Invariance, <1>1, PTL DEF Spec, TakenInOrder
-----------------------------------------------------------------------------
(* UartCache implements LossyFifo: rb_write and rb_read, preempted between *)
(* any two bytes, behave as if each ran at once when it gets the mutex.    *)

(* What the mapping needs beside the inductive invariant: a write is never *)
(* empty and never longer than its buffer, and neither is a chunk.         *)
Bounds == /\ received <= MaxBytes
          /\ dpc # "uart" => Len(tmp_buf) \in 1..BufSize
          /\ \A r \in Readers : Len(dst[r]) <= BufSize

RInv == IInv /\ Bounds

(* The bounds hold at first and are kept by every step.                    *)
LEMMA BoundsInit == Init => Bounds
  BY BoundAssumption, BufSizeAssumption DEF Init, Bounds

(* Only uart_read_bytes fills tmp_buf, and rb_read stops at a full dst.    *)
LEMMA BoundsNext == IInv /\ Bounds /\ [Next]_vars => Bounds'
  <1> SUFFICES ASSUME IInv, Bounds, [Next]_vars PROVE Bounds'
    OBVIOUS
  <1> USE DEF Bounds
  <1>0. /\ received \in Nat /\ dst \in [Readers -> Seq(Nat)] /\ BufSize \in Nat \ {0}
        /\ tmp_buf \in Seq(Nat)
    BY BufSizeAssumption DEF IInv, TypeOK
  <1>1. ASSUME NEW n \in 1..BufSize, UartRead(n) PROVE Bounds'
    <2>1. /\ received' <= MaxBytes /\ Len(tmp_buf') = n /\ dst' = dst
      BY <1>0, <1>1 DEF UartRead, readerVars
    <2> QED BY <2>1
  <1>2. CASE WriteTake \/ WriteByte \/ WriteGive
    BY <1>2 DEF WriteTake, WriteByte, WriteGive, readerVars, IInv, LoopsExclude
  <1>3. ASSUME NEW r \in Readers, ReadTake(r) \/ ReadGive(r) PROVE Bounds'
    BY <1>3 DEF ReadTake, ReadGive, daemonVars
  <1>4. ASSUME NEW r \in Readers, ReadByte(r) PROVE Bounds'
    <2>1. /\ Len(dst[r]) < BufSize /\ dst' = [dst EXCEPT ![r] = Append(@, buffer[tail])]
          /\ UNCHANGED daemonVars /\ Len(dst[r]) \in Nat
      BY <1>0, <1>4 DEF ReadByte
    <2>2. buffer[tail] \in Nat
      BY DEF IInv, TypeOK
    <2>3. Len(dst'[r]) = Len(dst[r]) + 1 /\ \A q \in Readers : q # r => dst'[q] = dst[q]
      BY <1>0, <2>1, <2>2
    <2>4. Len(dst[r]) + 1 <= BufSize
      BY <1>0, <2>1
    <2> QED BY <2>1, <2>3, <2>4 DEF daemonVars
  <1>5. ASSUME NEW r \in Readers, Consume(r) PROVE Bounds'
    BY <1>0, <1>5 DEF Consume, daemonVars
  <1>6. CASE UNCHANGED vars
    BY <1>6 DEF vars, daemonVars, readerVars
  <1> QED BY <1>1, <1>2, <1>3, <1>4, <1>5, <1>6 DEF Next

(* Both hold in every reachable state.                                     *)
LEMMA RInvariance == Spec => []RInv
  BY Invariance, BoundsInit, BoundsNext, PTL DEF Spec, RInv
-----------------------------------------------------------------------------
(* The mapped state.  The numbers it is made of: the ring holds a run of   *)
(* the stream that ends with the last byte stored, tmp_buf what follows.   *)
LEMMA Numbers ==
    RInv => /\ Size \in Nat /\ Size > 0 /\ BufSize \in Nat /\ BufSize > 0
            /\ count \in Nat /\ count <= Size
            /\ Stored \in Nat /\ count <= Stored /\ Stored - count \in Nat
            /\ received \in Nat /\ Len(tmp_buf) \in Nat /\ i \in Nat
            /\ dpc # "uart" => Len(tmp_buf) <= received
            /\ dpc = "loop" => /\ i <= Len(tmp_buf)
                               /\ Stored = received - Len(tmp_buf) + i
            /\ dpc = "take" => Stored = received - Len(tmp_buf)
            /\ dpc = "uart" => Stored = received
            /\ dst \in [Readers -> Seq(Nat)]
            /\ \A r \in Readers : Len(dst[r]) \in Nat /\ Len(dst[r]) <= BufSize
  <1> SUFFICES ASSUME RInv PROVE Numbers!2
    OBVIOUS
  <1>1. /\ count \in 0..Size /\ received \in Nat /\ i \in Nat /\ tmp_buf \in Seq(Nat)
        /\ dpc \in {"uart", "take", "loop"} /\ dst \in [Readers -> Seq(Nat)]
        /\ Size \in Nat /\ Size > 0 /\ BufSize \in Nat /\ BufSize > 0
    BY SizeAssumption, BufSizeAssumption DEF RInv, IInv, TypeOK
  <1>2. Len(tmp_buf) \in Nat
    BY <1>1
  <1>3. dpc # "uart" => Len(tmp_buf) <= received /\ (dpc = "loop" => i <= Len(tmp_buf))
    BY <1>1 DEF RInv, IInv, TmpBufFollows
  <1>4. Stored \in Nat
    BY <1>1, <1>2, <1>3 DEF Stored
  <1>5. count <= Stored
    BY DEF RInv, IInv, TakenAreOld
  <1>6. \A r \in Readers : Len(dst[r]) \in Nat /\ Len(dst[r]) <= BufSize
    BY <1>1 DEF RInv, Bounds
  <1>7. /\ dpc = "loop" => Stored = received - Len(tmp_buf) + i
        /\ dpc = "take" => Stored = received - Len(tmp_buf)
        /\ dpc = "uart" => Stored = received
    BY DEF Stored
  <1> QED BY <1>1, <1>2, <1>3, <1>4, <1>5, <1>6, <1>7

(* What the ring holds, oldest first.                                      *)
LEMMA ContentsAreRun == RInv => Contents = Run(Stored - count, count)
  <1> SUFFICES ASSUME RInv PROVE Contents = Run(Stored - count, count)
    OBVIOUS
  <1>1. ASSUME NEW k \in 1..count
        PROVE  buffer[SlotOf(k - 1)] = (Stored - count) + k
    <2>1. k - 1 \in 0..(count - 1) /\ Stored - count + 1 + (k - 1) = (Stored - count) + k
      BY Numbers
    <2> QED BY <2>1 DEF RInv, IInv, HoldsNewest
  <1> QED BY <1>1 DEF Contents, Run

(* What rb_write has still to store.                                       *)
LEMMA RestIsRun ==
    RInv /\ dpc = "loop" => Rest(tmp_buf, i) = Run(Stored, Len(tmp_buf) - i)
  <1> SUFFICES ASSUME RInv, dpc = "loop"
               PROVE  Rest(tmp_buf, i) = Run(Stored, Len(tmp_buf) - i)
    OBVIOUS
  <1> DEFINE a == received - Len(tmp_buf)
  <1>1. a \in Nat /\ Len(tmp_buf) \in Nat /\ i \in Nat /\ i <= Len(tmp_buf) /\ Stored = a + i
    BY Numbers
  <1>2. tmp_buf \in Seq(Nat) /\ \A k \in 1..Len(tmp_buf) : tmp_buf[k] = a + k
    BY DEF RInv, IInv, TypeOK, TmpBufFollows
  <1>3. tmp_buf = Run(a, Len(tmp_buf))
    BY <1>1, <1>2, EqualsRun
  <1> HIDE DEF a
  <1>4. Rest(Run(a, Len(tmp_buf)), i)
            = IF Len(tmp_buf) > i THEN Run(a + i, Len(tmp_buf) - i) ELSE <<>>
    BY <1>1, RunEnds
  <1>5. Len(tmp_buf) = i => Run(a + i, Len(tmp_buf) - i) = <<>>
    <2>1. a + i \in Nat /\ 0 \in Nat /\ (Len(tmp_buf) = i => Len(tmp_buf) - i = 0)
      BY <1>1
    <2> QED BY <2>1, RunIsSeq
  <1> QED BY <1>1, <1>3, <1>4, <1>5

(* The abstract queue while rb_write runs: the newest Size bytes of all    *)
(* that came in.                                                           *)
Waiting == count + (Len(tmp_buf) - i)

QueueInWrite == FifoQueue = IF Waiting > Size THEN Run(received - Size, Size)
                                              ELSE Run(received - Waiting, Waiting)

(* While r is in rb_read, its chunk is what it will return and the queue   *)
(* what it will leave.                                                     *)
Room(r) == BufSize - Len(dst[r])

QueueInRead(r) ==
    /\ FifoQueue = IF count > Room(r)
                   THEN Run((Stored - count) + Room(r), count - Room(r)) ELSE <<>>
    /\ FifoChunk[r] = dst[r] \o Run(Stored - count, IF count > Room(r) THEN Room(r) ELSE count)
    /\ \A q \in Readers : q # r => FifoChunk[q] = dst[q]

(* Between the calls, and when a write waits, it is what the ring holds.   *)
QueueBetween == FifoQueue = Run(Stored - count, count)

Mapped == /\ dpc = "loop" => QueueInWrite
          /\ \A r \in Readers : mutex = r => QueueInRead(r)
          /\ dpc # "loop" /\ mutex \notin Readers => QueueBetween

(* That is what the mapping makes of every reachable state.                *)
LEMMA StateMaps == RInv => Mapped
  <1> SUFFICES ASSUME RInv PROVE Mapped
    OBVIOUS
  <1> DEFINE a == Stored - count
  <1>1. ASSUME dpc = "loop" PROVE QueueInWrite
    <2> DEFINE m == Len(tmp_buf) - i
               n == count + m
    <2>1. /\ m \in Nat /\ n \in Nat /\ a \in Nat /\ count \in Nat /\ a + count = Stored
          /\ a = received - n /\ Size \in Nat /\ a + (n - Size) = received - Size
      <3>1. /\ Len(tmp_buf) \in Nat /\ i \in Nat /\ i <= Len(tmp_buf) /\ received \in Nat
            /\ count \in Nat /\ count <= Stored /\ Stored = received - Len(tmp_buf) + i
            /\ Size \in Nat
        BY <1>1, Numbers
      <3> QED BY ONLY <3>1
    <2>2. Contents \o Rest(tmp_buf, i) = Run(a, count) \o Run(a + count, m)
      BY <1>1, <2>1, ContentsAreRun, RestIsRun
    <2> HIDE DEF a, m
    <2>3. Contents \o Rest(tmp_buf, i) = Run(a, n)
      <3>1. a \in Nat /\ count \in Nat /\ m \in Nat
        BY <2>1
      <3>2. Run(a, count) \o Run(a + count, m) = Run(a, count + m)
        BY <3>1, RunConcat
      <3> QED BY <2>2, <3>2
    <2> HIDE DEF n
    <2>4. Newest(Run(a, n), Size) = IF n > Size THEN Run(a + (n - Size), Size) ELSE Run(a, n)
      BY <2>1, RunEnds
    <2>5. FifoQueue = IF n > Size THEN Run(received - Size, Size) ELSE Run(received - n, n)
      BY <1>1, <2>1, <2>3, <2>4 DEF FifoQueue
    <2> QED BY <2>5 DEF n, m, QueueInWrite, Waiting
  <1>2. ASSUME NEW r \in Readers, mutex = r PROVE QueueInRead(r)
    <2> DEFINE n == Room(r)
    <2>1. a \in Nat /\ n \in Nat /\ count \in Nat
      BY Numbers DEF Room
    <2>2. dpc # "loop"
      BY <1>2, TaskAssumption DEF RInv, IInv, LoopsExclude
    <2>3. Contents = Run(a, count)
      BY ContentsAreRun
    <2> HIDE DEF a, n
    <2>4. /\ Prefix(Run(a, count), n) = Run(a, IF count > n THEN n ELSE count)
          /\ Rest(Run(a, count), n) = IF count > n THEN Run(a + n, count - n) ELSE <<>>
      BY <2>1, RunEnds
    <2>5. FifoQueue = IF count > n THEN Run(a + n, count - n) ELSE <<>>
      BY <1>2, <2>2, <2>3, <2>4 DEF FifoQueue, n, Room
    <2>6. FifoChunk[r] = dst[r] \o Run(a, IF count > n THEN n ELSE count)
      BY <1>2, <2>3, <2>4 DEF FifoChunk, n, Room
    <2>7. \A q \in Readers : q # r => FifoChunk[q] = dst[q]
      BY <1>2 DEF FifoChunk
    <2> QED BY <2>5, <2>6, <2>7 DEF a, n, QueueInRead
  <1>3. dpc # "loop" /\ mutex \notin Readers => QueueBetween
    BY ContentsAreRun DEF FifoQueue, QueueBetween
  <1> QED BY <1>1, <1>2, <1>3 DEF Mapped

(* A chunk is the abstract one as soon as its reader has left rb_read.     *)
LEMMA NoReader == mutex \notin Readers => FifoChunk = [r \in Readers |-> dst[r]]
  BY DEF FifoChunk
-----------------------------------------------------------------------------
(* The steps.  An action that leaves the mapped state alone is a stutter.  *)
FifoSame == UNCHANGED <<FifoQueue, FifoNext, FifoChunk>>

(* A fresh ring is an empty queue.                                         *)
LEMMA InitRefines == Init => Fifo!Init
  <1> SUFFICES ASSUME Init PROVE Fifo!Init
    OBVIOUS
  <1>1. RInv
    BY InitInv, BoundsInit DEF RInv
  <1>2. Stored = 0 /\ count = 0 /\ dpc = "uart" /\ mutex \notin Readers
    BY TaskAssumption DEF Init, Stored
  <1>3. FifoQueue = <<>>
    BY <1>1, <1>2, StateMaps, RunIsSeq DEF Mapped, QueueBetween
  <1>4. FifoNext = 0
    BY DEF Init, FifoNext
  <1>5. FifoChunk = [r \in Readers |-> <<>>]
    BY <1>2, NoReader DEF Init
  <1> QED BY <1>3, <1>4, <1>5 DEF Fifo!Init

(* Bytes that arrive are not written yet.                                  *)
LEMMA UartReadRefines ==
    ASSUME RInv, NEW n \in 1..BufSize, UartRead(n)
    PROVE  FifoSame
  <1>1. /\ dpc = "uart" /\ dpc' = "take" /\ UNCHANGED <<ringVars, mutex, dst>>
        /\ Len(tmp_buf') = n /\ received' = received + n /\ received \in Nat
    BY BufSizeAssumption DEF UartRead, RInv, IInv, TypeOK, readerVars
  <1>2. UNCHANGED Contents
    BY <1>1 DEF Contents, SlotOf, ringVars
  <1>3. UNCHANGED FifoQueue
    BY <1>1, <1>2 DEF FifoQueue
  <1>4. UNCHANGED FifoNext
    BY <1>1 DEF FifoNext
  <1>5. UNCHANGED FifoChunk
    BY <1>1, <1>2 DEF FifoChunk
  <1> QED BY <1>3, <1>4, <1>5 DEF FifoSame

(* The operators of SeqEnds are the same ones in the instance.             *)
LEMMA SameEnds ==
    ASSUME NEW s, NEW n
    PROVE  /\ Fifo!Prefix(s, n) = Prefix(s, n)
           /\ Fifo!Rest(s, n) = Rest(s, n)
           /\ Fifo!Newest(s, n) = Newest(s, n)
  BY DEF Fifo!Prefix, Fifo!Rest, Fifo!Newest, Prefix, Rest, Newest

(* rb_write gets the mutex: the whole write.                               *)
LEMMA WriteTakeRefines ==
    ASSUME RInv, Mapped, Mapped', WriteTake
    PROVE  \E n \in 1..BufSize : Fifo!Write(n)
  <1> DEFINE n == Len(tmp_buf)
             m == count + n
  <1>1. /\ dpc = "take" /\ mutex = Nobody /\ mutex' = Daemon /\ dpc' = "loop" /\ i' = 0
        /\ UNCHANGED <<count, tmp_buf, received, dst>>
    BY DEF WriteTake, ringVars, readerVars
  <1>2. /\ n \in 1..BufSize /\ received <= MaxBytes
    BY <1>1 DEF RInv, Bounds
  <1>3. /\ received \in Nat /\ n \in Nat /\ count \in Nat /\ Size \in Nat
        /\ Stored = received - n /\ Stored \in Nat /\ Stored - count \in Nat
    BY <1>1, Numbers
  <1>4. FifoNext = Stored /\ FifoNext' = Stored + n
    BY <1>1, <1>3 DEF FifoNext
  <1>5. UNCHANGED FifoChunk
    BY <1>1, TaskAssumption, NoReader DEF FifoChunk
  <1>6. FifoQueue = Run(Stored - count, count)
    BY <1>1, TaskAssumption DEF Mapped, QueueBetween
  <1>7. FifoQueue' = IF m > Size THEN Run(received - Size, Size) ELSE Run(received - m, m)
    <2>1. Waiting' = m
      BY <1>1, <1>3 DEF Waiting
    <2> QED BY <1>1, <2>1 DEF Mapped, QueueInWrite
  <1>8. FifoQueue' = Fifo!Newest(FifoQueue \o [k \in 1..n |-> FifoNext + k], Size)
    <2>1. [k \in 1..n |-> FifoNext + k] = Run(Stored, n)
      BY <1>4 DEF Run
    <2> DEFINE a == Stored - count
    <2>2. a \in Nat /\ a + count = Stored /\ a = received - m /\ a + (m - Size) = received - Size
          /\ m \in Nat
      BY <1>3
    <2> HIDE DEF a, n
    <2>3. Run(a, count) \o Run(a + count, n) = Run(a, m)
      <3>1. a \in Nat /\ count \in Nat /\ n \in Nat
        BY <1>3, <2>2
      <3> QED BY <3>1, RunConcat
    <2> HIDE DEF m
    <2>4. Newest(Run(a, m), Size) = IF m > Size THEN Run(a + (m - Size), Size) ELSE Run(a, m)
      BY <1>3, <2>2, RunEnds
    <2>5. FifoQueue \o Run(Stored, n) = Run(a, m)
      BY <1>6, <2>2, <2>3 DEF a
    <2>6. FifoQueue' = Newest(Run(a, m), Size)
      BY <1>7, <2>2, <2>4
    <2> QED BY <2>1, <2>5, <2>6, SameEnds
  <1>9. Fifo!Write(n)
    BY <1>2, <1>3, <1>4, <1>5, <1>8 DEF Fifo!Write
  <1> QED BY <1>2, <1>9

(* One byte of it stored: the write took effect before.                    *)
LEMMA WriteByteRefines ==
    ASSUME RInv, Mapped, Mapped', WriteByte
    PROVE  FifoSame
  <1>1. /\ dpc = "loop" /\ i < Len(tmp_buf) /\ i' = i + 1
        /\ \/ count < Size /\ count' = count + 1
           \/ ~(count < Size) /\ count' = count
        /\ UNCHANGED <<mutex, dpc, tmp_buf, received, dst>>
    BY DEF WriteByte, readerVars
  <1>2. /\ received \in Nat /\ Len(tmp_buf) \in Nat /\ i \in Nat /\ Size \in Nat
        /\ count \in Nat /\ count <= Size
    BY Numbers
  <1>3. \/ Waiting' = Waiting
        \/ Waiting > Size /\ Waiting' = Waiting - 1 /\ Waiting' >= Size
    BY <1>1, <1>2 DEF Waiting
  <1>4. Waiting \in Nat /\ received' = received
    BY <1>1, <1>2 DEF Waiting
  <1>5. UNCHANGED FifoQueue
    <2>1. CASE Waiting' = Waiting
      BY <1>1, <2>1 DEF Mapped, QueueInWrite
    <2>2. CASE Waiting > Size /\ Waiting' = Waiting - 1 /\ Waiting' >= Size
      <3>1. CASE Waiting' > Size
        BY <1>1, <2>2, <3>1 DEF Mapped, QueueInWrite
      <3>2. CASE Waiting' = Size
        BY <1>1, <1>2, <2>2, <3>2 DEF Mapped, QueueInWrite
      <3>3. Waiting - 1 > Size \/ Waiting - 1 = Size
        BY <1>2, <1>4, <2>2
      <3> QED BY <2>2, <3>1, <3>2, <3>3
    <2> QED BY <1>3, <2>1, <2>2
  <1>6. UNCHANGED FifoNext
    BY <1>1 DEF FifoNext
  <1>7. UNCHANGED FifoChunk
    <2>1. mutex \notin Readers
      BY <1>1, TaskAssumption DEF RInv, IInv, LoopsExclude
    <2> QED BY <1>1, <2>1 DEF FifoChunk
  <1> QED BY <1>5, <1>6, <1>7 DEF FifoSame

(* rb_write returns: nothing is left to store.                             *)
LEMMA WriteGiveRefines ==
    ASSUME RInv, Mapped, Mapped', WriteGive
    PROVE  FifoSame
  <1>1. /\ dpc = "loop" /\ dpc' = "uart" /\ i = Len(tmp_buf) /\ mutex' = Nobody
        /\ UNCHANGED <<count, tmp_buf, i, received, dst>>
    BY DEF WriteGive, ringVars, readerVars
  <1>2. /\ received \in Nat /\ Len(tmp_buf) \in Nat /\ Size \in Nat
        /\ count \in Nat /\ count <= Size /\ Stored = received - Len(tmp_buf) + i
    BY <1>1, Numbers
  <1>3. Waiting = count /\ Stored = received /\ Stored' = Stored
    BY <1>1, <1>2 DEF Waiting, Stored
  <1>4. UNCHANGED FifoQueue
    <2>1. ~(Waiting > Size)
      BY <1>2, <1>3
    <2>2. FifoQueue = Run(Stored - count, count)
      BY <1>1, <1>3, <2>1 DEF Mapped, QueueInWrite
    <2>3. FifoQueue' = Run(Stored - count, count)
      BY <1>1, <1>3, TaskAssumption DEF Mapped, QueueBetween
    <2> QED BY <2>2, <2>3
  <1>5. UNCHANGED FifoNext
    BY <1>1 DEF FifoNext
  <1>6. UNCHANGED FifoChunk
    <2>1. mutex \notin Readers
      BY <1>1, TaskAssumption DEF RInv, IInv, LoopsExclude
    <2> QED BY <1>1, <2>1, TaskAssumption DEF FifoChunk
  <1> QED BY <1>4, <1>5, <1>6 DEF FifoSame

(* rb_read gets the mutex: the whole read.                                 *)
LEMMA ReadTakeRefines ==
    ASSUME RInv, Mapped, NEW r \in Readers, ReadTake(r)
    PROVE  Fifo!Read(r)
  <1>1. /\ rpc[r] = "take" /\ mutex = Nobody /\ mutex' = r
        /\ UNCHANGED <<ringVars, daemonVars, dst>>
    BY DEF ReadTake
  <1>2. /\ dst[r] = <<>> /\ dpc # "loop" /\ mutex \notin Readers
    BY <1>1, TaskAssumption DEF RInv, IInv, LoopsExclude, ChunkEndsAtTail
  <1>3. FifoQueue = Contents /\ Contents' = Contents /\ dpc' = dpc
    BY <1>1, <1>2 DEF FifoQueue, Contents, SlotOf, ringVars, daemonVars
  <1>4. FifoChunk = dst
    BY <1>2, NoReader DEF RInv, IInv, TypeOK
  <1>5. BufSize - Len(dst[r]) = BufSize
    BY <1>2, BufSizeAssumption
  <1>6. FifoQueue' = Rest(FifoQueue, BufSize)
    BY <1>1, <1>2, <1>3, <1>5 DEF FifoQueue
  <1>7. FifoChunk' = [FifoChunk EXCEPT ![r] = Prefix(FifoQueue, BufSize)]
    <2> DEFINE p == Prefix(Contents, BufSize)
    <2>1. p \in Seq(Nat)
      <3> DEFINE a == Stored - count
      <3>1. a \in Nat /\ count \in Nat /\ BufSize \in Nat /\ Contents = Run(a, count)
        BY Numbers, ContentsAreRun
      <3> HIDE DEF a
      <3>2. p = Run(a, IF count > BufSize THEN BufSize ELSE count)
        BY <3>1, RunEnds
      <3> QED BY <3>1, <3>2, RunIsSeq
    <2> HIDE DEF p
    <2>2. <<>> \o p = p
      BY <2>1, ConcatEmptySeq
    <2>3. FifoChunk' = [q \in Readers |-> IF q = r THEN <<>> \o p ELSE dst[q]]
      BY <1>1, <1>2, <1>3, <1>5 DEF FifoChunk, p
    <2>4. dst \in [Readers -> Seq(Nat)]
      BY Numbers
    <2> QED BY <1>3, <1>4, <2>2, <2>3, <2>4 DEF p
  <1>8. UNCHANGED FifoNext
    BY <1>1 DEF FifoNext, daemonVars
  <1> QED BY <1>2, <1>4, <1>6, <1>7, <1>8, SameEnds DEF Fifo!Read

(* One byte of it moved from the ring to the chunk.                        *)
LEMMA ReadByteRefines ==
    ASSUME RInv, Mapped, Mapped', NEW r \in Readers, ReadByte(r)
    PROVE  FifoSame
  <1> DEFINE a == Stored - count
             n == Room(r)
             m == count - 1
  <1>1. /\ rpc[r] = "loop" /\ Len(dst[r]) < BufSize /\ count > 0 /\ count' = count - 1
        /\ dst' = [dst EXCEPT ![r] = Append(@, buffer[tail])]
        /\ UNCHANGED <<mutex, dpc, tmp_buf, received, i, rpc>>
    BY DEF ReadByte, daemonVars
  <1>2. mutex = r /\ mutex' = r /\ dpc # "loop"
    BY <1>1, TaskAssumption DEF RInv, IInv, LoopsExclude
  <1>3. buffer[tail] = a + 1
    BY <1>1, OldestByte DEF RInv
  <1>4. /\ a \in Nat /\ count \in Nat /\ m \in Nat /\ BufSize \in Nat
        /\ dst \in [Readers -> Seq(Nat)] /\ dst[r] \in Seq(Nat) /\ Len(dst[r]) \in Nat
        /\ n \in Nat /\ n > 0 /\ n - 1 \in Nat
    <2>1. /\ a \in Nat /\ count \in Nat /\ BufSize \in Nat
          /\ dst \in [Readers -> Seq(Nat)] /\ Len(dst[r]) \in Nat
      BY Numbers
    <2>2. dst[r] \in Seq(Nat)
      BY ONLY <2>1, r \in Readers
    <2>3. m \in Nat
      BY ONLY <1>1, <2>1
    <2>4. n \in Nat /\ n > 0 /\ n - 1 \in Nat
      BY ONLY <1>1, <2>1 DEF Room
    <2> QED BY ONLY <2>1, <2>2, <2>3, <2>4
  <1>5. /\ dst'[r] = Append(dst[r], a + 1) /\ Len(dst'[r]) = Len(dst[r]) + 1
        /\ \A q \in Readers : q # r => dst'[q] = dst[q]
    BY <1>1, <1>3, <1>4
  <1>6. Stored' - count' = a + 1 /\ Room(r)' = n - 1
    <2>1. Stored' = Stored
      BY <1>1 DEF Stored
    <2>2. Stored \in Nat /\ Stored - (count - 1) = a + 1
      BY Numbers
    <2>3. BufSize - (Len(dst[r]) + 1) = n - 1
      BY <1>4 DEF Room
    <2> QED BY <1>1, <1>5, <2>1, <2>2, <2>3 DEF Room
  <1>7. /\ FifoQueue = IF count > n THEN Run(a + n, count - n) ELSE <<>>
        /\ FifoChunk[r] = dst[r] \o Run(a, IF count > n THEN n ELSE count)
        /\ \A q \in Readers : q # r => FifoChunk[q] = dst[q]
    BY <1>2 DEF Mapped, QueueInRead
  <1>8. /\ FifoQueue' = IF m > n - 1 THEN Run((a + 1) + (n - 1), m - (n - 1)) ELSE <<>>
        /\ FifoChunk'[r] = Append(dst[r], a + 1) \o Run(a + 1, IF m > n - 1 THEN n - 1 ELSE m)
        /\ \A q \in Readers : q # r => FifoChunk'[q] = dst[q]
    BY <1>1, <1>2, <1>5, <1>6 DEF Mapped, QueueInRead
  <1> HIDE DEF a, n
  <1>9. UNCHANGED FifoQueue
    <2>1. /\ (m > n - 1) <=> (count > n)
          /\ (a + 1) + (n - 1) = a + n /\ m - (n - 1) = count - n
      BY <1>4
    <2> QED BY <1>7, <1>8, <2>1
  <1>10. FifoChunk'[r] = FifoChunk[r]
    <2> DEFINE k == IF m > n - 1 THEN n - 1 ELSE m
    <2>1. k \in Nat /\ k + 1 = IF count > n THEN n ELSE count
      BY <1>4
    <2> HIDE DEF k
    <2>2. Append(dst[r], a + 1) \o Run(a + 1, k) = dst[r] \o Run(a, k + 1)
      BY <1>4, <2>1, RunMoves
    <2> QED BY <1>7, <1>8, <2>1, <2>2 DEF k
  <1>11. UNCHANGED FifoChunk
    BY <1>7, <1>8, <1>10 DEF FifoChunk
  <1>12. UNCHANGED FifoNext
    BY <1>1 DEF FifoNext
  <1> QED BY <1>9, <1>11, <1>12 DEF FifoSame

(* rb_read returns, with a full chunk or an empty ring: nothing is left to *)
(* move.                                                                   *)
LEMMA ReadGiveRefines ==
    ASSUME RInv, Mapped, Mapped', NEW r \in Readers, ReadGive(r)
    PROVE  FifoSame
  <1> DEFINE a == Stored - count
             n == Room(r)
  <1>1. /\ rpc[r] = "loop" /\ mutex' = Nobody
        /\ Len(dst[r]) = BufSize \/ count = 0
        /\ UNCHANGED <<count, dpc, tmp_buf, received, i, dst>>
    BY DEF ReadGive, daemonVars, ringVars
  <1>2. mutex = r /\ dpc # "loop"
    BY <1>1, TaskAssumption DEF RInv, IInv, LoopsExclude
  <1>3. /\ a \in Nat /\ count \in Nat /\ n \in Nat /\ dst[r] \in Seq(Nat)
        /\ n = 0 \/ count = 0
        /\ Stored' - count' = a /\ dst \in [Readers -> Seq(Nat)]
    BY <1>1, Numbers DEF Room, Stored
  <1>4. /\ FifoQueue = IF count > n THEN Run(a + n, count - n) ELSE <<>>
        /\ FifoChunk[r] = dst[r] \o Run(a, IF count > n THEN n ELSE count)
        /\ \A q \in Readers : q # r => FifoChunk[q] = dst[q]
    BY <1>2 DEF Mapped, QueueInRead
  <1>5. FifoQueue' = Run(a, count)
    BY <1>1, <1>2, <1>3, TaskAssumption DEF Mapped, QueueBetween
  <1> HIDE DEF a, n
  <1>6. Run(a, 0) = <<>>
    BY <1>3, RunIsSeq
  <1>7. UNCHANGED FifoQueue
    <2>1. CASE n = 0 /\ count > 0
      <3>1. a + n = a /\ count - n = count
        BY <1>3, <2>1
      <3> QED BY <1>4, <1>5, <2>1, <3>1
    <2>2. CASE count = 0
      BY <1>3, <1>4, <1>5, <1>6, <2>2
    <2> QED BY <1>3, <2>1, <2>2
  <1>8. FifoChunk[r] = dst[r]
    <2>1. (IF count > n THEN n ELSE count) = 0
      BY <1>3
    <2> QED BY <1>3, <1>4, <1>6, <2>1, ConcatEmptySeq
  <1>9. FifoChunk' = [q \in Readers |-> dst[q]]
    BY <1>1, TaskAssumption DEF FifoChunk
  <1>10. UNCHANGED FifoChunk
    BY <1>4, <1>8, <1>9 DEF FifoChunk
  <1>11. UNCHANGED FifoNext
    BY <1>1 DEF FifoNext
  <1> QED BY <1>7, <1>10, <1>11 DEF FifoSame

(* The caller is done with its bytes; if there were none it asks again.    *)
LEMMA ConsumeRefines ==
    ASSUME RInv, NEW r \in Readers, Consume(r)
    PROVE  Fifo!Consume(r) \/ FifoSame
  <1>1. /\ rpc[r] = "have" /\ dst' = [dst EXCEPT ![r] = <<>>]
        /\ UNCHANGED <<ringVars, mutex, daemonVars>>
    BY DEF Consume
  <1>2. mutex # r /\ dst \in [Readers -> Seq(Nat)]
    BY <1>1 DEF RInv, IInv, TypeOK, LoopsExclude
  <1>3. UNCHANGED Contents
    BY <1>1 DEF Contents, SlotOf, ringVars
  <1>4. UNCHANGED <<FifoQueue, FifoNext>>
    <2>1. mutex \in Readers => Len(dst'[mutex]) = Len(dst[mutex])
      BY <1>1, <1>2
    <2> QED BY <1>1, <1>3, <2>1 DEF FifoQueue, FifoNext, daemonVars
  <1>5. FifoChunk[r] = dst[r]
    BY <1>2 DEF FifoChunk
  <1>6. FifoChunk' = [FifoChunk EXCEPT ![r] = <<>>]
    BY <1>1, <1>2, <1>3 DEF FifoChunk
  <1>7. CASE FifoChunk[r] # <<>>
    BY <1>4, <1>6, <1>7 DEF Fifo!Consume
  <1>8. CASE FifoChunk[r] = <<>>
    BY <1>4, <1>6, <1>8 DEF FifoSame, FifoChunk
  <1> QED BY <1>7, <1>8
-----------------------------------------------------------------------------
(* Every step of the ring is a step of the queue, or none.                 *)
LEMMA NextRefines ==
    RInv /\ RInv' /\ Mapped' /\ [Next]_vars => [Fifo!Next]_(Fifo!fifoVars)
  <1> SUFFICES ASSUME RInv, RInv', Mapped', [Next]_vars
               PROVE  Fifo!Next \/ FifoSame
    BY DEF FifoSame, Fifo!fifoVars
  <1>0. Mapped
    BY StateMaps
  <1>1. ASSUME NEW n \in 1..BufSize, UartRead(n) PROVE FifoSame
    BY <1>1, UartReadRefines
  <1>2. CASE WriteTake
    BY <1>0, <1>2, WriteTakeRefines DEF Fifo!Next
  <1>3. CASE WriteByte \/ WriteGive
    BY <1>0, <1>3, WriteByteRefines, WriteGiveRefines
  <1>4. ASSUME NEW r \in Readers, ReadTake(r) PROVE Fifo!Next
    BY <1>0, <1>4, ReadTakeRefines DEF Fifo!Next
  <1>5. ASSUME NEW r \in Readers, ReadByte(r) \/ ReadGive(r) PROVE FifoSame
    BY <1>0, <1>5, ReadByteRefines, ReadGiveRefines
  <1>6. ASSUME NEW r \in Readers, Consume(r) PROVE Fifo!Next \/ FifoSame
    BY <1>6, ConsumeRefines DEF Fifo!Next
  <1>7. CASE UNCHANGED vars
    <2>1. UNCHANGED <<buffer, tail, count, mutex, dpc, tmp_buf, i, received, dst>>
      BY <1>7 DEF vars, ringVars, daemonVars, readerVars
    <2>2. UNCHANGED Contents
      BY <2>1 DEF Contents, SlotOf
    <2> QED BY <2>1, <2>2 DEF FifoSame, FifoQueue, FifoNext, FifoChunk
  <1> QED BY <1>1, <1>2, <1>3, <1>4, <1>5, <1>6, <1>7 DEF Next

(* The cache is the atomic FIFO that its callers take it for.              *)
THEOREM CacheIsFifo == Spec => ImplementsFifo
  BY RInvariance, StateMaps, InitRefines, NextRefines, PTL
  DEF Spec, ImplementsFifo, Fifo!Spec
=============================================================================
