---------------------------- MODULE MCFormTexts ----------------------------
(***************************************************************************)
(* What users type into the form of the configuration page: every short    *)
(* text over a letter, a digit, a space, "%" and "+", so that a password   *)
(* may itself look encoded, and texts of one character around the limits.  *)
(***************************************************************************)
EXTENDS Integers, Sequences, UrlCoding

Letter == 65
Digit2 == 50
Typed  == {Letter, Digit2, Space, Percent, Plus}

Repeated(c, n) == [k \in 1..n |-> c]

MCSsids     == UNION {[1..n -> Typed] : n \in 0..1}
               \cup {Repeated(Letter, 32), Repeated(Percent, 32), Repeated(Letter, 33)}
MCPasswords == UNION {[1..n -> Typed] : n \in 0..2}
               \cup {<<Percent, Digit2, Letter>>, <<Letter, Percent, Digit2, Digit2>>}
               \cup {Repeated(Letter, 63), Repeated(Letter, 65),
                     Repeated(Percent, 42), Repeated(Percent, 43)}
MCBssids    == {"colons", "dashes", "other"}
=============================================================================
