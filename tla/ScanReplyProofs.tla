-------------------------- MODULE ScanReplyProofs --------------------------
(***************************************************************************)
(* The reply of scan_get_handler is a well-formed array of the visible     *)
(* access points and stays in its buffer, whatever a scan finds, in        *)
(* whatever order, and for every limit on the number of entries.           *)
(***************************************************************************)
EXTENDS ScanReply, FiniteSetTheorems, SequenceTheorems, TLAPS

Tokens == Aps \cup {"open", "comma", "close"}

(* The longest an entry gets: 55 + 4 + 1 bytes, an SSID of 32, a comma.    *)
EntryMax == 93

(* The text of the loop after n turns.  Its last token is a comma unless   *)
(* nothing is listed yet or the last turn of all has listed something.     *)
ListedSoFar(n) ==
    /\ Len(json) = IF ap_count \in Shown(n) THEN 2 * Count(n) ELSE 2 * Count(n) + 1
    /\ json[1] = "open"
    /\ \A k \in Shown(n) : json[2 * Count(k)] = found[k]
    /\ \A m \in 1..Count(n) : 2 * m + 1 <= Len(json) => json[2 * m + 1] = "comma"

(* The records the driver holds, and those of them in ap_list.             *)
RecordsThere == phase # "idle" => ap_count \in 1..Len(found)

(* What is held where: each return frees what was allocated before it.     *)
HeldHere == held = CASE phase = "json" -> {"ap_list"}
                     [] phase = "loop" -> {"ap_list", "json_buf"}
                     [] OTHER -> {}

LoopWrites == phase = "loop" => /\ i <= ap_count
                                /\ ListedSoFar(i)
                                /\ ptr <= EntryMax * i + 1

FinishedFits == phase = "idle" /\ reply = "json" => ptr <= EntryMax * ap_count + 2

(* The inductive invariant.                                                *)
IInv == TypeOK /\ RecordsThere /\ HeldHere /\ LoopWrites /\ FinishedFits /\ ListsVisible

-----------------------------------------------------------------------------
(* Counting the visible access points among the first n of a scan.         *)

(* There are at most n, and none among none.                               *)
LEMMA CountIsNat ==
    ASSUME NEW n \in Nat
    PROVE  IsFiniteSet(Shown(n)) /\ Count(n) \in Nat
<1>1. IsFiniteSet(1..n)
    BY FS_Interval
<1>2. Shown(n) \subseteq 1..n
    BY DEF Shown
<1> QED BY <1>1, <1>2, FS_Subset, FS_CardinalityType DEF Count

(* A visible one has its place among the visible ones.                     *)
LEMMA PlaceIsCount ==
    ASSUME NEW n \in Nat, NEW k \in Shown(n)
    PROVE  Count(k) \in 1..Count(n)
<1>1. k \in 1..n /\ k \in Nat /\ k \in Shown(k)
    BY DEF Shown
<1>2. Shown(k) \subseteq Shown(n)
    BY <1>1 DEF Shown
<1>3. IsFiniteSet(Shown(n)) /\ IsFiniteSet(Shown(k)) /\ Count(n) \in Nat /\ Count(k) \in Nat
    BY <1>1, CountIsNat
<1>4. Count(k) <= Count(n)
    BY <1>2, <1>3, FS_Subset DEF Count
<1>5. Count(k) # 0
    BY <1>1, <1>3, FS_EmptySet DEF Count
<1> QED BY <1>3, <1>4, <1>5

(* A hidden one leaves the count as it is.                                 *)
LEMMA HiddenNotCounted ==
    ASSUME NEW n \in Nat, found[n + 1] \notin Visible
    PROVE  Shown(n + 1) = Shown(n) /\ Count(n + 1) = Count(n)
BY DEF Shown, Count

(* A visible one is the next.                                              *)
LEMMA VisibleCounted ==
    ASSUME NEW n \in Nat, found[n + 1] \in Visible
    PROVE  Shown(n + 1) = Shown(n) \cup {n + 1} /\ Count(n + 1) = Count(n) + 1
<1>1. Shown(n + 1) = Shown(n) \cup {n + 1}
    BY DEF Shown
<1>2. n + 1 \notin Shown(n)
    BY DEF Shown
<1>3. IsFiniteSet(Shown(n))
    BY CountIsNat
<1> QED BY <1>1, <1>2, <1>3, FS_AddElement DEF Count

(* Nothing is counted before the first turn.                               *)
LEMMA NoneCounted == Shown(0) = {} /\ Count(0) = 0
BY FS_EmptySet DEF Shown, Count

-----------------------------------------------------------------------------
(* What a turn of the loop appends, and what the end makes of the text.    *)

(* The object of an access point is the last token.                        *)
LEMMA EntryAppended ==
    ASSUME NEW n \in Nat, NEW text \in Seq(Tokens), Len(text) = n, NEW token \in Tokens,
           NEW entry, entry = Append(text, token)
    PROVE  /\ entry \in Seq(Tokens)
           /\ Len(entry) = n + 1
           /\ \A p \in 1..n : entry[p] = text[p]
           /\ entry[n + 1] = token
BY AppendProperties

(* The comma behind it moves nothing.                                      *)
LEMMA CommaAppended ==
    ASSUME NEW n \in Nat, NEW text, NEW token, NEW entry \in Seq(Tokens),
           Len(entry) = n + 1, entry[n + 1] = token,
           \A p \in 1..n : entry[p] = text[p],
           NEW t, t = entry \o <<"comma">>
    PROVE  /\ t \in Seq(Tokens)
           /\ Len(t) = n + 2
           /\ \A p \in 1..n : t[p] = text[p]
           /\ t[n + 1] = token
           /\ t[n + 2] = "comma"
<1>1. "comma" \in Tokens
    BY DEF Tokens
<1>2. t = Append(entry, "comma")
    BY <1>1, AppendIsConcat
<1>3. n + 1 \in Nat /\ n + 1 + 1 = n + 2
    OBVIOUS
<1>4. /\ t \in Seq(Tokens)
      /\ Len(t) = n + 2
      /\ \A p \in 1..(n + 1) : t[p] = entry[p]
      /\ t[n + 2] = "comma"
  <2> DEFINE m == n + 1
  <2>1. m \in Nat /\ Len(entry) = m
      OBVIOUS
  <2> HIDE DEF m
  <2>2. /\ t \in Seq(Tokens)
        /\ Len(t) = m + 1
        /\ \A p \in 1..m : t[p] = entry[p]
        /\ t[m + 1] = "comma"
      BY <1>1, <1>2, <2>1, EntryAppended
  <2> QED BY ONLY <1>3, <2>2 DEF m
<1>5. /\ entry[n + 1] = token
      /\ \A p \in 1..n : entry[p] = text[p]
    OBVIOUS
<1>6. (\A p \in 1..n : t[p] = text[p]) /\ t[n + 1] = token
    BY ONLY n \in Nat, <1>4, <1>5
<1> QED BY <1>4, <1>6

(* The array is closed behind the text, or in the place of its last comma. *)
LEMMA ArrayClosed ==
    ASSUME NEW n \in Nat, NEW text \in Seq(Tokens), Len(text) = n + 1
    PROVE  /\ Append(text, "close") \in Seq(Tokens)
           /\ Len(Append(text, "close")) = n + 2
           /\ \A p \in 1..(n + 1) : Append(text, "close")[p] = text[p]
           /\ Append(text, "close")[n + 2] = "close"
           /\ Append(Front(text), "close") \in Seq(Tokens)
           /\ Len(Append(Front(text), "close")) = n + 1
           /\ \A p \in 1..n : Append(Front(text), "close")[p] = text[p]
           /\ Append(Front(text), "close")[n + 1] = "close"
<1> DEFINE front == SubSeq(text, 1, n)
           m == n + 1
<1>1. "close" \in Tokens
    BY DEF Tokens
<1>2. \A p \in 1..n : text[p] \in Tokens
    BY ElementOfSeq
<1>3. Front(text) = front
    BY DEF Front
<1>4. /\ front \in Seq(Tokens)
      /\ Len(front) = n
      /\ \A p \in 1..n : front[p] = text[p]
    BY <1>2, SubSeqProperties
<1> HIDE DEF front
<1>5. /\ Append(front, "close") \in Seq(Tokens)
      /\ Len(Append(front, "close")) = n + 1
      /\ \A p \in 1..n : Append(front, "close")[p] = front[p]
      /\ Append(front, "close")[n + 1] = "close"
    BY <1>1, <1>4, EntryAppended
<1>6. m \in Nat /\ m + 1 = n + 2 /\ Len(text) = m
    OBVIOUS
<1> HIDE DEF m
<1>7. /\ Append(text, "close") \in Seq(Tokens)
      /\ Len(Append(text, "close")) = m + 1
      /\ \A p \in 1..m : Append(text, "close")[p] = text[p]
      /\ Append(text, "close")[m + 1] = "close"
    BY <1>1, <1>6, EntryAppended
<1>8. /\ \A p \in 1..n : Append(front, "close")[p] = text[p]
    BY <1>4, <1>5
<1>9. m = n + 1
    BY DEF m
<1> QED BY ONLY <1>3, <1>5, <1>6, <1>7, <1>8, <1>9

-----------------------------------------------------------------------------
(* The invariant is inductive: one lemma per action.                       *)

(* It holds before the first request.                                      *)
LEMMA InitInv == Init => IInv
<1> SUFFICES ASSUME Init PROVE IInv
    OBVIOUS
<1>1. TypeOK
    BY EmptySeq, ScanAssumption DEF Init, TypeOK
<1> QED BY <1>1 DEF Init, IInv, RecordsThere, HeldHere, LoopWrites, FinishedFits, ListsVisible

(* What a scan finds is a sequence of access points, at most MaxAps of     *)
(* which are listed.                                                       *)
LEMMA FoundIsSeq == ASSUME TypeOK PROVE found \in Seq(Aps)
BY EmptySeq, ScanAssumption DEF TypeOK

(* The early returns of the scan.                                          *)
LEMMA ScanFailsInv == IInv /\ ScanFails => IInv'
<1> SUFFICES ASSUME IInv, ScanFails PROVE IInv'
    OBVIOUS
<1> USE DEF IInv, ScanFails, Answer
<1>1. TypeOK'
    BY DEF TypeOK
<1> QED BY <1>1 DEF RecordsThere, HeldHere, LoopWrites, FinishedFits, ListsVisible

(* A scan: no entry, or as many as there is room for.                      *)
LEMMA ScanDoneInv ==
    ASSUME IInv, NEW aps \in Scans, ScanDone(aps)
    PROVE  IInv'
<1>1. aps \in Seq(Aps) /\ Len(aps) \in Nat /\ MaxAps \in Nat \ {0}
    BY ScanAssumption
<1>2. aps # <<>> => Len(aps) > 0
    BY <1>1, EmptySeq
<1>3. ap_count' \in 0..MaxAps /\ (aps # <<>> => ap_count' \in 1..Len(aps))
    BY <1>1, <1>2 DEF ScanDone
<1>4. phase = "idle" /\ phase' \in {"idle", "list"} /\ reply' \in {"empty", reply}
      /\ (phase' = "idle" => reply' = "empty") /\ (phase' = "list" => aps # <<>>)
    BY DEF ScanDone, Answer
<1>5. TypeOK'
    BY <1>3, <1>4 DEF IInv, TypeOK, ScanDone
<1>6. RecordsThere' /\ LoopWrites' /\ FinishedFits' /\ ListsVisible'
    BY <1>3, <1>4 DEF ScanDone, RecordsThere, LoopWrites, FinishedFits, ListsVisible
<1>7. HeldHere'
    BY <1>4 DEF ScanDone, IInv, HeldHere
<1> QED BY <1>5, <1>6, <1>7 DEF IInv

(* Memory for the records, or none.                                        *)
LEMMA AllocListInv == IInv /\ AllocList => IInv'
<1> SUFFICES ASSUME IInv, AllocList PROVE IInv'
    OBVIOUS
<1>1. phase = "list" /\ held = {} /\ (phase' = "idle" \/ phase' = "json")
    BY DEF IInv, HeldHere, AllocList, Answer
<1>2. TypeOK'
    BY DEF IInv, TypeOK, AllocList, Answer
<1>3. RecordsThere' /\ LoopWrites' /\ FinishedFits' /\ ListsVisible'
    BY <1>1 DEF AllocList, Answer, IInv, RecordsThere, LoopWrites, FinishedFits, ListsVisible
<1>4. HeldHere'
    BY <1>1 DEF AllocList, Answer, HeldHere
<1> QED BY <1>2, <1>3, <1>4 DEF IInv

(* Memory for the text, which starts with a bracket; or the records are    *)
(* freed again.                                                            *)
LEMMA AllocJsonInv == IInv /\ AllocJson => IInv'
<1> SUFFICES ASSUME IInv, AllocJson PROVE IInv'
    OBVIOUS
<1>1. phase = "json" /\ held = {"ap_list"}
    BY DEF IInv, HeldHere, AllocJson
<1>2. CASE phase' = "idle"
  <2>1. held' = {} /\ reply' = "500" /\ UNCHANGED <<found, ap_count, i, json, ptr>>
      BY <1>1, <1>2 DEF AllocJson, Answer
  <2>2. TypeOK'
      BY <1>2, <2>1 DEF IInv, TypeOK
  <2> QED BY <1>2, <2>1, <2>2 DEF IInv, RecordsThere, HeldHere, LoopWrites, FinishedFits, ListsVisible
<1>3. CASE phase' = "loop"
  <2>1. /\ held' = {"ap_list", "json_buf"} /\ json' = <<"open">> /\ ptr' = 1 /\ i' = 0
        /\ UNCHANGED <<found, ap_count, reply>>
      BY <1>1, <1>3 DEF AllocJson, Answer
  <2>2. json' \in Seq(Aps \cup {"open", "comma", "close"}) /\ Len(json') = 1 /\ json'[1] = "open"
      BY <2>1
  <2>3. TypeOK'
      BY <1>3, <2>1, <2>2, ScanAssumption DEF IInv, TypeOK
  <2>4. Shown(0)' = {} /\ Count(0)' = 0
      BY FS_EmptySet DEF Shown, Count
  <2>5. ap_count \in Nat /\ ap_count \in 1..Len(found)
      BY <1>1 DEF IInv, TypeOK, RecordsThere
  <2>6. LoopWrites'
      BY <1>3, <2>1, <2>2, <2>4, <2>5 DEF LoopWrites, ListedSoFar, EntryMax
  <2> QED BY <1>1, <1>3, <2>1, <2>3, <2>5, <2>6 DEF IInv, RecordsThere, HeldHere, FinishedFits, ListsVisible
<1> QED BY <1>2, <1>3 DEF AllocJson, Answer

(* A turn of the loop that finds a hidden access point, or lists one with  *)
(* or without a comma.                                                     *)
LEMMA NextApInv ==
    ASSUME IInv, NextAp
    PROVE  IInv'
<1> DEFINE n == i + 1
           c == Count(i)
           ap == found[n]
<1>1. /\ phase = "loop" /\ i \in Nat /\ i < ap_count /\ ap_count \in 1..Len(found) /\ ap_count \in 0..MaxAps
      /\ ListedSoFar(i) /\ ptr <= EntryMax * i + 1 /\ ptr \in Nat /\ json \in Seq(Tokens)
    BY DEF IInv, TypeOK, NextAp, RecordsThere, LoopWrites, Tokens
<1>2. /\ phase' = "loop" /\ i' = n
      /\ UNCHANGED <<phase, found, ap_count, held, reply>>
    BY <1>1 DEF NextAp
<1>3. found \in Seq(Aps) /\ ap \in Aps /\ ap \in Tokens
  <2>1. found \in Seq(Aps)
      BY FoundIsSeq DEF IInv
  <2>2. n \in 1..Len(found)
      BY <1>1, <2>1
  <2> QED BY <2>1, <2>2, ElementOfSeq DEF Tokens
<1>4. n \in Nat /\ n <= ap_count /\ n \in 0..MaxAps /\ c \in Nat /\ MaxAps \in Nat
    BY <1>1, CountIsNat, ScanAssumption
<1>5. /\ Len(json) = 2 * c + 1
      /\ json[1] = "open"
      /\ \A k \in Shown(i) : json[2 * Count(k)] = found[k] /\ Count(k) \in 1..c
      /\ \A m \in 1..c : json[2 * m + 1] = "comma"
  <2>1. ap_count \notin Shown(i)
      BY <1>1 DEF Shown
  <2>2. Len(json) = 2 * c + 1
      BY <1>1, <2>1 DEF ListedSoFar
  <2>3. \A m \in 1..c : 2 * m + 1 <= Len(json)
      BY <1>4, <2>2
  <2> QED BY <1>1, <2>2, <2>3, PlaceIsCount DEF ListedSoFar
<1>6. SUFFICES /\ json' \in Seq(Tokens) /\ ptr' \in Nat
               /\ Len(json') = IF ap_count \in Shown(n) THEN 2 * Count(n) ELSE 2 * Count(n) + 1
               /\ json'[1] = "open"
               /\ \A k \in Shown(n) : json'[2 * Count(k)] = found[k]
               /\ \A m \in 1..Count(n) : 2 * m + 1 <= Len(json') => json'[2 * m + 1] = "comma"
               /\ ptr' <= EntryMax * n + 1
  <2>1. TypeOK'
      BY <1>2, <1>4, <1>6 DEF IInv, TypeOK, Tokens
  <2>2. ListedSoFar(i)'
      BY <1>2, <1>6 DEF ListedSoFar, Shown, Count
  <2>3. LoopWrites'
      BY <1>2, <1>4, <1>6, <2>2 DEF LoopWrites
  <2> QED BY <1>2, <2>1, <2>3 DEF IInv, RecordsThere, HeldHere, FinishedFits, ListsVisible
<1>7. CASE ap \in Hidden
  <2>1. json' = json /\ ptr' = ptr
      BY <1>7 DEF NextAp
  <2>2. ap \notin Visible
      BY <1>7, ApAssumption
  <2>3. Shown(n) = Shown(i) /\ Count(n) = c
      BY <1>1, <2>2, HiddenNotCounted
  <2>4. ap_count \notin Shown(i)
      BY <1>1 DEF Shown
  <2>5. ptr <= EntryMax * n + 1
      BY <1>1 DEF EntryMax
  <2> QED BY <1>1, <1>5, <2>1, <2>3, <2>4, <2>5
<1>8. CASE ap \notin Hidden
  <2>1. ap \in Visible /\ SsidLen[ap] \in 0..32
      BY <1>3, <1>8, ApAssumption DEF Aps
  <2>2. Shown(n) = Shown(i) \cup {n} /\ Count(n) = c + 1
      BY <1>1, <2>1, VisibleCounted
  <2> DEFINE entry == Append(json, ap)
             len == 2 * c + 1
  <2>3. len \in Nat /\ len + 1 = 2 * (c + 1) /\ len + 2 = 2 * (c + 1) + 1
      BY <1>4
  <2>4. /\ entry \in Seq(Tokens)
        /\ Len(entry) = len + 1
        /\ \A p \in 1..len : entry[p] = json[p]
        /\ entry[len + 1] = ap
    <3> HIDE DEF len, c, n, ap
    <3>1. Len(json) = len
        BY <1>5 DEF len
    <3> QED BY <1>1, <1>3, <2>3, <3>1, EntryAppended
  <2>5. json' = entry \o Comma /\ ptr' = ptr + ObjectBytes(ap) + Len(Comma)
      BY <1>8 DEF NextAp
  \* With a comma or without: what the text is, token for token.
  <2>6. /\ json' \in Seq(Tokens)
        /\ Len(json') = IF n = ap_count THEN len + 1 ELSE len + 2
        /\ \A p \in 1..len : json'[p] = json[p]
        /\ json'[len + 1] = ap
        /\ n # ap_count => json'[len + 2] = "comma"
        /\ Len(Comma) \in 0..1
    <3> HIDE DEF entry, len, c, ap
    <3>1. CASE n = ap_count
      <4>1. Comma = <<>> /\ Len(Comma) = 0
          BY <1>1, <3>1 DEF Comma
      <4>2. json' = entry
          BY <2>4, <2>5, <4>1, ConcatEmptySeq
      <4> QED BY <2>4, <3>1, <4>1, <4>2
    <3>2. CASE n # ap_count
      <4>1. Comma = <<"comma">> /\ Len(Comma) = 1
          BY <1>1, <3>2 DEF Comma
      <4>2. /\ json' \in Seq(Tokens)
            /\ Len(json') = len + 2
            /\ \A p \in 1..len : json'[p] = json[p]
            /\ json'[len + 1] = ap
            /\ json'[len + 2] = "comma"
        <5> DEFINE t == json'
        <5>1. t = entry \o <<"comma">>
            BY <2>5, <4>1
        <5> HIDE DEF t
        <5>2. /\ t \in Seq(Tokens)
              /\ Len(t) = len + 2
              /\ \A p \in 1..len : t[p] = json[p]
              /\ t[len + 1] = ap
              /\ t[len + 2] = "comma"
            BY ONLY <2>3, <2>4, <5>1, CommaAppended
        <5> QED BY <5>2 DEF t
      <4> QED BY <3>2, <4>1, <4>2
    <3> QED BY <3>1, <3>2
  <2>7. ptr' \in Nat /\ ptr' <= EntryMax * n + 1
    <3> DEFINE w == SsidLen[ap]
               l == Len(Comma)
    <3>1. w \in 0..32 /\ l \in 0..1 /\ ptr' = ptr + (55 + 4 + 1 + w) + l
        BY <2>1, <2>5, <2>6 DEF ObjectBytes
    <3> HIDE DEF w, l
    <3> QED BY <1>1, <3>1 DEF EntryMax
  <2>8. ap_count \in Shown(n) <=> n = ap_count
      BY <1>1, <2>2, <1>4 DEF Shown
  <2>9. Len(json') = IF ap_count \in Shown(n) THEN 2 * Count(n) ELSE 2 * Count(n) + 1
      BY <2>2, <2>3, <2>6, <2>8
  <2>10. json'[1] = "open"
      BY <1>4, <1>5, <2>6
  <2>11. ASSUME NEW k \in Shown(n) PROVE json'[2 * Count(k)] = found[k]
    <3>1. CASE k = n
        BY <2>2, <2>3, <2>6, <3>1
    <3>2. CASE k # n
      <4>1. k \in Shown(i) /\ json[2 * Count(k)] = found[k] /\ Count(k) \in 1..c
          BY <1>5, <2>2, <3>2
      <4>2. 2 * Count(k) \in 1..len
          BY <1>4, <4>1
      <4> QED BY <2>6, <4>1, <4>2
    <3> QED BY <3>1, <3>2
  <2>12. ASSUME NEW m \in 1..Count(n), 2 * m + 1 <= Len(json') PROVE json'[2 * m + 1] = "comma"
    <3>1. CASE m = c + 1
      <4>1. n # ap_count
          BY <1>4, <2>3, <2>6, <2>12, <3>1
      <4> QED BY <2>3, <2>6, <3>1, <4>1
    <3>2. CASE m # c + 1
      <4>1. m \in 1..c
          BY <1>4, <2>2, <3>2
      <4>2. 2 * m + 1 \in 1..len
          BY <1>4, <4>1
      <4> QED BY <1>5, <2>6, <4>1, <4>2
    <3> QED BY <3>1, <3>2
  <2> QED BY <2>6, <2>7, <2>9, <2>10, <2>11, <2>12
<1> QED BY <1>7, <1>8

(* The end of the loop: what is listed is the whole array, and the comma   *)
(* that the last turn left, if any, gives way to the bracket.              *)
LEMMA FinishInv ==
    ASSUME IInv, Finish
    PROVE  IInv'
<1> DEFINE n == ap_count
           c == Count(n)
<1>1. /\ phase = "loop" /\ i = n /\ n \in 1..Len(found) /\ n \in Nat
      /\ ListedSoFar(n) /\ ptr <= EntryMax * n + 1 /\ ptr \in Nat /\ json \in Seq(Tokens)
      /\ held = {"ap_list", "json_buf"}
    BY ScanAssumption DEF IInv, TypeOK, Finish, RecordsThere, LoopWrites, HeldHere, Tokens
<1>2. /\ phase' = "idle" /\ reply' = "json" /\ held' = {}
      /\ UNCHANGED <<found, ap_count, i>>
    BY <1>1 DEF Finish, Answer
<1>3. c \in Nat /\ \A k \in Shown(n) : Count(k) \in 1..c
    BY <1>1, CountIsNat, PlaceIsCount
<1>4. /\ Len(json) = IF n \in Shown(n) THEN 2 * c ELSE 2 * c + 1
      /\ json[1] = "open"
      /\ \A k \in Shown(n) : json[2 * Count(k)] = found[k]
      /\ \A m \in 1..c : 2 * m + 1 <= Len(json) => json[2 * m + 1] = "comma"
    BY <1>1 DEF ListedSoFar
<1> DEFINE kept == IF c = 0 THEN 1 ELSE 2 * c
<1>5. kept \in Nat /\ kept >= 1 /\ kept >= 2 * c
    BY <1>3
\* The bracket comes behind the tokens of the entries and the commas between.
<1>6. /\ json' \in Seq(Tokens)
      /\ Len(json') = kept + 1
      /\ \A p \in 1..kept : json'[p] = json[p]
      /\ json'[kept + 1] = "close"
      /\ ptr' \in {ptr, ptr + 1}
  <2>1. CASE n \in Shown(n)
    <3> DEFINE len == kept - 1
    <3>1. len \in Nat /\ len + 1 = kept /\ len + 2 = kept + 1 /\ kept = 2 * c /\ Len(json) = len + 1
        BY <1>3, <1>4, <2>1
    <3>2. Last(json) # "comma"
      <4>1. Last(json) = json[2 * c]
          BY <3>1 DEF Last
      <4>2. json[2 * c] = found[n]
          BY <1>4, <2>1
      <4>3. found[n] \in Visible
          BY <2>1 DEF Shown
      <4> QED BY <4>1, <4>2, <4>3, ApAssumption DEF Aps
    <3>3. json' = Append(json, "close") /\ ptr' = ptr + 1
        BY <3>2 DEF Finish
    <3> HIDE DEF len, kept
    <3>4. /\ json' \in Seq(Tokens)
          /\ Len(json') = len + 2
          /\ \A p \in 1..(len + 1) : json'[p] = json[p]
          /\ json'[len + 2] = "close"
        BY <1>1, <3>1, <3>3, ArrayClosed
    <3> QED BY <3>1, <3>3, <3>4
  <2>2. CASE n \notin Shown(n) /\ c = 0
    <3>1. Len(json) = 1 /\ kept = 1
        BY <1>4, <2>2
    <3>2. Last(json) = "open"
        BY <1>4, <3>1 DEF Last
    <3>3. json' = Append(json, "close") /\ ptr' = ptr + 1
        BY <3>2 DEF Finish
    <3> HIDE DEF kept
    <3>4. /\ json' \in Seq(Tokens)
          /\ Len(json') = 2
          /\ \A p \in 1..1 : json'[p] = json[p]
          /\ json'[2] = "close"
      <4>1. "close" \in Tokens
          BY ONLY DEF Tokens
      <4>2. 1 \in Nat /\ 1 + 1 = 2
          BY ONLY SMT
      <4> DEFINE text == json
                 entry == json'
      <4>3. text \in Seq(Tokens) /\ Len(text) = 1 /\ entry = Append(text, "close")
          BY <1>1, <3>1, <3>3
      <4> HIDE DEF text, entry
      <4>4. /\ entry \in Seq(Tokens)
            /\ Len(entry) = 2
            /\ \A p \in 1..1 : entry[p] = text[p]
            /\ entry[2] = "close"
          BY ONLY <4>1, <4>2, <4>3, EntryAppended
      <4> QED BY <4>4 DEF text, entry
    <3>5. kept = 1 /\ kept + 1 = 2
        BY ONLY <3>1
    <3> QED BY ONLY <3>3, <3>4, <3>5
  <2>3. CASE n \notin Shown(n) /\ c # 0
    <3>1. Len(json) = kept + 1 /\ kept = 2 * c
        BY <1>4, <2>3
    <3>2. Last(json) = "comma"
      <4>1. c \in 1..c /\ 2 * c + 1 <= Len(json)
          BY <1>3, <2>3, <3>1
      <4> QED BY <1>4, <3>1, <4>1 DEF Last
    <3>3. json' = Append(Front(json), "close") /\ ptr' = ptr
        BY <3>2 DEF Finish
    <3> HIDE DEF kept
    <3> QED BY <1>1, <1>5, <3>1, <3>3, ArrayClosed
  <2> QED BY <2>1, <2>2, <2>3
<1>7. TypeOK'
    BY <1>1, <1>2, <1>6 DEF IInv, TypeOK, Tokens
<1>8. ptr' <= EntryMax * n + 2
    BY <1>1, <1>6 DEF EntryMax
<1>9. ListsVisible'
  <2> HIDE DEF kept
  <2>1. /\ json'[1] = "open"
        /\ json'[Len(json')] = "close"
      BY <1>4, <1>5, <1>6
  <2>2. Len(json') = IF c = 0 THEN 2 ELSE 2 * c + 1
      BY <1>3, <1>6 DEF kept
  <2>3. ASSUME NEW k \in Shown(n) PROVE json'[2 * Count(k)] = found[k]
    <3>1. 2 * Count(k) \in 1..kept
        BY <1>3, <1>5
    <3> QED BY <1>4, <1>6, <3>1
  <2>4. ASSUME NEW m \in 1..(c - 1) PROVE json'[2 * m + 1] = "comma"
    <3>1. m \in 1..c /\ 2 * m + 1 \in 1..kept /\ 2 * m + 1 <= Len(json)
        BY <1>3, <1>4, <1>5
    <3> QED BY <1>4, <1>6, <3>1
  <2> QED BY <1>2, <2>1, <2>2, <2>3, <2>4 DEF ListsVisible, Shown, Count
<1> QED BY <1>2, <1>7, <1>8, <1>9 DEF IInv, RecordsThere, HeldHere, LoopWrites, FinishedFits

(* Nothing else happens.                                                   *)
LEMMA NextInv ==
    ASSUME IInv, [Next]_vars
    PROVE  IInv'
<1>1. CASE UNCHANGED vars
    BY <1>1 DEF vars, IInv, TypeOK, RecordsThere, HeldHere, LoopWrites, ListedSoFar, FinishedFits,
                ListsVisible, Shown, Count
<1>2. CASE Next
    BY <1>2, ScanFailsInv, ScanDoneInv, AllocListInv, AllocJsonInv, NextApInv, FinishInv DEF Next
<1> QED BY <1>1, <1>2

(* The invariant holds throughout.                                         *)
LEMMA Invariance == Spec => []IInv
<1>1. Init => IInv
    BY InitInv
<1>2. IInv /\ [Next]_vars => IInv'
    BY NextInv
<1> QED BY <1>1, <1>2, PTL DEF Spec

-----------------------------------------------------------------------------
(* The results, for every scan and every limit.                            *)

(* Every variable of scan_get_handler keeps its type.                      *)
THEOREM TypeCorrect == Spec => []TypeOK
<1>1. IInv => TypeOK
    BY DEF IInv
<1> QED BY <1>1, Invariance, PTL

(* The reply to GET /scan is a well-formed array of the visible ones among *)
(* the first MaxAps access points, in their order (246-264).               *)
THEOREM ArrayIsWellFormed == Spec => []ListsVisible
<1>1. IInv => ListsVisible
    BY DEF IInv
<1> QED BY <1>1, Invariance, PTL

(* The text and its NUL stay in json_buf, although nothing limits a write  *)
(* (236-264): 128 bytes per access point are more than any entry takes.    *)
THEOREM BufferSuffices == Spec => []StaysInBuffer
<1>1. IInv => StaysInBuffer
  <2> SUFFICES ASSUME IInv, Written PROVE ptr + 1 <= BufferSize(ap_count)
      BY DEF StaysInBuffer
  <2>1. ap_count \in Nat /\ i \in Nat /\ ptr \in Nat
      BY ScanAssumption DEF IInv, TypeOK
  <2>2. CASE phase = "loop"
    <3>1. i <= ap_count /\ ptr <= EntryMax * i + 1
        BY <2>2 DEF IInv, LoopWrites
    <3> QED BY <2>1, <3>1 DEF EntryMax, BufferSize
  <2>3. CASE phase = "idle" /\ reply = "json"
    <3>1. ptr <= EntryMax * ap_count + 2
        BY <2>3 DEF IInv, FinishedFits
    <3> QED BY <2>1, <3>1 DEF EntryMax, BufferSize
  <2> QED BY <2>2, <2>3 DEF Written
<1> QED BY <1>1, Invariance, PTL

(* A finished request holds no memory, whichever malloc returned NULL      *)
(* (222-241, 270-271).                                                     *)
THEOREM RequestHoldsNothing == Spec => []NothingHeld
<1>1. IInv => NothingHeld
    BY DEF IInv, HeldHere, NothingHeld
<1> QED BY <1>1, Invariance, PTL
=============================================================================
