------------------------------- MODULE RunProofs -------------------------------
(***************************************************************************)
(* What the operators of SeqEnds make of a run of the serial stream, that  *)
(* is of consecutive numbers: the byte queues of the other modules hold    *)
(* nothing else.                                                           *)
(***************************************************************************)
EXTENDS Integers, Sequences, SeqEnds, SequenceTheorems, TLAPS

(* The n bytes that follow byte a. *)
Run(a, n) == [k \in 1..n |-> a + k]

(* A run is a sequence of bytes, with these elements.                      *)
LEMMA RunIsSeq ==
    ASSUME NEW a \in Nat, NEW n \in Nat
    PROVE  /\ Run(a, n) \in Seq(Nat)
           /\ Len(Run(a, n)) = n
           /\ \A k \in 1..n : Run(a, n)[k] = a + k
           /\ n = 0 => Run(a, n) = <<>>
  BY EmptySeq DEF Run

(* A sequence with the elements of a run is the run.                       *)
LEMMA EqualsRun ==
    ASSUME NEW a \in Nat, NEW s \in Seq(Nat), \A k \in 1..Len(s) : s[k] = a + k
    PROVE  s = Run(a, Len(s))
  <1>1. Len(s) \in Nat
    BY LenProperties
  <1> QED BY <1>1, RunIsSeq, SeqEqual
-----------------------------------------------------------------------------
(* A part of a run is a run.                                               *)
LEMMA SubRun ==
    ASSUME NEW a \in Nat, NEW n \in Nat, NEW j \in 1..(n + 1), NEW k \in 0..n, j <= k + 1
    PROVE  SubSeq(Run(a, n), j, k) = Run(a + j - 1, k + 1 - j)
  <1> DEFINE s == Run(a, n)
             t == SubSeq(s, j, k)
  <1>1. /\ j \in Int /\ k \in Int /\ a + j - 1 \in Nat /\ k + 1 - j \in Nat
        /\ \A x \in j..k : x \in 1..n
    OBVIOUS
  <1>2. \A x \in j..k : s[x] = a + x
    BY <1>1, RunIsSeq
  <1>3. \A x \in j..k : s[x] \in Nat
    BY <1>1, <1>2
  <1> HIDE DEF s
  <1>4. /\ t \in Seq(Nat)
        /\ Len(t) = IF j <= k THEN k - j + 1 ELSE 0
        /\ \A x \in 1..(k - j + 1) : t[x] = s[j + x - 1]
    BY <1>1, <1>3, SubSeqProperties
  <1>5. Len(t) = k + 1 - j
    BY <1>1, <1>4
  <1>6. \A x \in 1..Len(t) : t[x] = (a + j - 1) + x
    <2> SUFFICES ASSUME NEW x \in 1..Len(t) PROVE t[x] = (a + j - 1) + x
      OBVIOUS
    <2>1. x \in 1..(k - j + 1) /\ j + x - 1 \in j..k
      BY <1>1, <1>5
    <2>2. t[x] = s[j + x - 1]
      BY <1>4, <2>1
    <2> QED BY <1>1, <1>2, <2>1, <2>2
  <1>7. t = Run(a + j - 1, Len(t))
    BY <1>1, <1>4, <1>6, EqualsRun
  <1> QED BY <1>5, <1>7 DEF s

(* The first bytes of a run, what is left without them, and the newest.    *)
LEMMA RunEnds ==
    ASSUME NEW a \in Nat, NEW m \in Nat, NEW n \in Nat
    PROVE  /\ Prefix(Run(a, m), n) = Run(a, IF m > n THEN n ELSE m)
           /\ Rest(Run(a, m), n) = IF m > n THEN Run(a + n, m - n) ELSE <<>>
           /\ Newest(Run(a, m), n) = IF m > n THEN Run(a + (m - n), n) ELSE Run(a, m)
  <1>1. Len(Run(a, m)) = m
    BY RunIsSeq
  <1>2. Prefix(Run(a, m), n) = Run(a, IF m > n THEN n ELSE m)
    <2> DEFINE k == IF m > n THEN n ELSE m
    <2>1. k \in 0..m /\ 1 \in 1..(m + 1) /\ 1 <= k + 1 /\ a + 1 - 1 = a /\ k + 1 - 1 = k
      OBVIOUS
    <2>2. SubSeq(Run(a, m), 1, k) = Run(a + 1 - 1, k + 1 - 1)
      BY ONLY <2>1, SubRun, a \in Nat, m \in Nat
    <2>3. SubSeq(Run(a, m), 1, k) = Run(a, k)
      BY <2>1, <2>2
    <2> QED BY <1>1, <2>3 DEF Prefix
  <1>3. ASSUME NEW k \in 0..m
        PROVE  SubSeq(Run(a, m), k + 1, m) = Run(a + k, m - k)
    <2> DEFINE j == k + 1
    <2>1. /\ j \in 1..(m + 1) /\ m \in 0..m /\ j <= m + 1
          /\ a + j - 1 = a + k /\ m + 1 - j = m - k
      OBVIOUS
    <2> HIDE DEF j
    <2>2. SubSeq(Run(a, m), j, m) = Run(a + j - 1, m + 1 - j)
      BY <2>1, SubRun
    <2> QED BY <2>1, <2>2 DEF j
  <1>4. Run(a + m, 0) = <<>> /\ Run(a + 0, m) = Run(a, m)
    <2>1. a + m \in Nat /\ 0 \in Nat /\ a + 0 = a
      OBVIOUS
    <2> QED BY <2>1, RunIsSeq
  <1>5. ASSUME NEW k \in Nat
        PROVE  Rest(Run(a, m), k) = IF m > k THEN Run(a + k, m - k) ELSE <<>>
    <2>1. CASE m > k
      <3>1. k \in 0..m
        BY <2>1
      <3> QED BY <1>1, <1>3, <2>1, <3>1 DEF Rest
    <2>2. CASE ~(m > k)
      <3>1. SubSeq(Run(a, m), m + 1, m) = Run(a + m, m - m)
        BY <1>3
      <3> QED BY <1>1, <1>4, <2>2, <3>1 DEF Rest
    <2> QED BY <2>1, <2>2
  <1>6. Newest(Run(a, m), n) = IF m > n THEN Run(a + (m - n), n) ELSE Run(a, m)
    <2>1. CASE m > n
      <3>1. m - n \in Nat /\ m - (m - n) = n
        BY <2>1
      <3>2. CASE n > 0
        BY <1>1, <1>5, <2>1, <3>1, <3>2 DEF Newest
      <3>3. CASE n = 0
        BY <1>1, <1>4, <1>5, <2>1, <3>1, <3>3 DEF Newest
      <3> QED BY <3>2, <3>3
    <2>2. CASE ~(m > n)
      <3>1. CASE m > 0
        BY <1>1, <1>4, <1>5, <2>2, <3>1 DEF Newest
      <3>2. CASE m = 0
        BY <1>1, <1>4, <1>5, <2>2, <3>2 DEF Newest
      <3> QED BY <3>1, <3>2
    <2> QED BY <2>1, <2>2
  <1> QED BY <1>2, <1>5, <1>6

(* Two runs that meet are one.                                             *)
LEMMA RunConcat ==
    ASSUME NEW a \in Nat, NEW m \in Nat, NEW n \in Nat
    PROVE  Run(a, m) \o Run(a + m, n) = Run(a, m + n)
  <1> DEFINE s == Run(a, m)
             t == Run(a + m, n)
  <1>1. /\ s \in Seq(Nat) /\ Len(s) = m /\ \A k \in 1..m : s[k] = a + k
        /\ t \in Seq(Nat) /\ Len(t) = n /\ \A k \in 1..n : t[k] = a + m + k
    <2>1. a + m \in Nat
      OBVIOUS
    <2> QED BY <2>1, RunIsSeq
  <1> HIDE DEF s, t
  <1>2. /\ s \o t \in Seq(Nat)
        /\ Len(s \o t) = m + n
        /\ \A k \in 1..(m + n) : (s \o t)[k] = IF k <= m THEN s[k] ELSE t[k - m]
    BY <1>1, ConcatProperties
  <1>3. \A k \in 1..(m + n) : (s \o t)[k] = a + k
    <2> SUFFICES ASSUME NEW k \in 1..(m + n) PROVE (s \o t)[k] = a + k
      OBVIOUS
    <2>1. CASE k <= m
      BY <1>1, <1>2, <2>1
    <2>2. CASE ~(k <= m)
      <3>1. k - m \in 1..n
        BY <2>2
      <3> QED BY <1>1, <1>2, <2>2, <3>1
    <2> QED BY <2>1, <2>2
  <1>4. s \o t = Run(a, m + n)
    BY <1>2, <1>3, EqualsRun
  <1> QED BY <1>4 DEF s, t

(* Moving the first byte of a run to the end of what precedes it.          *)
LEMMA RunMoves ==
    ASSUME NEW d \in Seq(Nat), NEW a \in Nat, NEW n \in Nat
    PROVE  Append(d, a + 1) \o Run(a + 1, n) = d \o Run(a, n + 1)
  <1>1. /\ Run(a, 1) = <<a + 1>>
        /\ Run(a, 1) \in Seq(Nat) /\ Run(a + 1, n) \in Seq(Nat)
    BY RunIsSeq DEF Run
  <1>2. Append(d, a + 1) = d \o Run(a, 1)
    <2>1. a + 1 \in Nat
      OBVIOUS
    <2>2. Append(d, a + 1) = d \o <<a + 1>>
      BY <2>1, AppendIsConcat
    <2> QED BY <1>1, <2>2
  <1>3. Run(a, 1) \o Run(a + 1, n) = Run(a, n + 1)
    <2>1. Run(a, 1) \o Run(a + 1, n) = Run(a, 1 + n)
      BY RunConcat
    <2>2. 1 + n = n + 1
      OBVIOUS
    <2> QED BY <2>1, <2>2
  <1>4. (d \o Run(a, 1)) \o Run(a + 1, n) = d \o (Run(a, 1) \o Run(a + 1, n))
    <2> DEFINE u == Run(a, 1)
               v == Run(a + 1, n)
    <2>1. u \in Seq(Nat) /\ v \in Seq(Nat)
      BY <1>1
    <2> HIDE DEF u, v
    <2>2. (d \o u) \o v = d \o (u \o v)
      BY <2>1, ConcatAssociative
    <2> QED BY <2>2 DEF u, v
  <1> QED BY <1>2, <1>3, <1>4
=============================================================================
