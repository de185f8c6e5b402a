------------------------------ MODULE UrlCoding ------------------------------
(***************************************************************************)
(* url_decode of utils.c, and the encoding of form fields it undoes.       *)
(* Texts are sequences of bytes.  For TLC only: url_decode is recursive.   *)
(***************************************************************************)
EXTENDS Integers, Sequences, SequencesExt

Percent == 37
Plus    == 43
Space   == 32

isxdigit(c) == c \in (48..57) \cup (65..70) \cup (97..102)

(* A digit of either case, by way of upper case. *)
Digit(c) == LET up == IF c >= 97 THEN c - 32 ELSE c
            IN  IF up >= 65 THEN up - 55 ELSE up - 48

Escape(src) == /\ Len(src) >= 3
               /\ src[1] = Percent /\ isxdigit(src[2]) /\ isxdigit(src[3])

(* What any other byte stands for; and as it is (a mutant). *)
LiteralAsIs(c) == c
Literal(c)     == IF c = Plus THEN Space ELSE c

(* room is dst_len - 1, one byte being kept for the NUL. *)
RECURSIVE url_decode(_, _)
url_decode(src, room) ==
    IF src = <<>> \/ room = 0 THEN <<>>
    ELSE IF Escape(src)
         THEN <<16 * Digit(src[2]) + Digit(src[3])>> \o url_decode(SubSeq(src, 4, Len(src)), room - 1)
         ELSE <<Literal(src[1])>> \o url_decode(Tail(src), room - 1)

(* The browser's encoding of a field.  (External.) *)
Unreserved == (48..57) \cup (65..90) \cup (97..122) \cup {42, 45, 46, 95}
HexOf(d)   == IF d < 10 THEN 48 + d ELSE 55 + d
Encoded(c) == IF c \in Unreserved THEN <<c>>
              ELSE IF c = Space THEN <<Plus>>
              ELSE <<Percent, HexOf(c \div 16), HexOf(c % 16)>>
UrlEncode(text) == FlattenSeq([k \in DOMAIN text |-> Encoded(text[k])])
=============================================================================
