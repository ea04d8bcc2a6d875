------------------------------ MODULE TextTime ------------------------------
(***************************************************************************)
(* How the store writes and compares instants.  Every time column is TEXT  *)
(* written by formatTime as UTC RFC3339Nano, and SQLite compares TEXT byte *)
(* by byte.  The date and time down to the second have a fixed width, so   *)
(* they are one letter, `sec'.  RFC3339Nano trims the trailing zeros of    *)
(* the fraction (and drops its dot when nothing is left), so a fraction is *)
(* written with a variable number of letters.  Go's nine digits are        *)
(* abstracted to two: one that may be trimmed and one that may not.        *)
(***************************************************************************)
EXTENDS Integers, Sequences

Instant == [sec : Nat, frac : 0..99]

(* time.Time.Before                                                        *)
Before(s, t) ==
    \/ s.sec < t.sec
    \/ s.sec = t.sec /\ s.frac < t.frac

(* The letters of the text, by their byte values.                          *)
Dot == 46
Digit(d) == 48 + d
Zulu == 90

FractionText(f) ==
    IF f = 0 THEN << >>
    ELSE IF f % 10 = 0 THEN << Dot, Digit(f \div 10) >>
    ELSE << Dot, Digit(f \div 10), Digit(f % 10) >>

FormatTime(t) == << t.sec >> \o FractionText(t.frac) \o << Zulu >>

(* SQLite's BINARY collation: the first differing byte decides, and a      *)
(* proper prefix comes first.                                              *)
TextLess(s, t) ==
    \/ \E i \in DOMAIN s \cap DOMAIN t :
          s[i] < t[i] /\ \A j \in 1..(i - 1) : s[j] = t[j]
    \/ Len(s) < Len(t) /\ \A j \in DOMAIN s : s[j] = t[j]

(* `a < b' on two time columns.                                            *)
SqlBefore(a, b) == TextLess(FormatTime(a), FormatTime(b))
=============================================================================
