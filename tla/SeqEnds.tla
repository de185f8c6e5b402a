------------------------------- MODULE SeqEnds -------------------------------
(***************************************************************************)
(* The ends of a sequence, for the byte queues of the other modules.       *)
(***************************************************************************)
LOCAL INSTANCE Naturals
LOCAL INSTANCE Sequences

(* The first n elements of s, and what is left of s without them. *)
Prefix(s, n) == SubSeq(s, 1, IF Len(s) > n THEN n ELSE Len(s))
Rest(s, n)   == SubSeq(s, IF Len(s) > n THEN n + 1 ELSE Len(s) + 1, Len(s))

(* The last n elements of s. *)
Newest(s, n) == Rest(s, IF Len(s) > n THEN Len(s) - n ELSE 0)
=============================================================================
