----------------------------- MODULE StampOrder -----------------------------
(***************************************************************************)
(* How stamps are ordered.  Every stamp of the database is TEXT, and SQLite *)
(* compares it byte by byte: lease_until with "now" (claimNext,             *)
(* silenceClock, TryAcquireSeat, FenceSeat), observed_at with observed_at   *)
(* (LastHandoff).  Two layouts are in use: the one of lease.go writes all   *)
(* the digits of the fraction, RFC3339Nano drops its trailing zeros, and    *)
(* the point with the last of them.                                         *)
(*                                                                         *)
(* A stamp is a number of seconds and a fraction of Width digits.  The      *)
(* digits of date and time have one width in both layouts, so the seconds   *)
(* are one character here; stamps are UTC and end in "Z".                   *)
(***************************************************************************)
EXTENDS Integers, Sequences

CONSTANTS
    MaxSecond,  \* bound on the seconds
    Base,       \* digits are 0 .. Base - 1; ten in the code
    Width       \* digits of the fraction; nine in the code

ASSUME SizeAssumption == MaxSecond \in Nat /\ Base \in 1 .. 10 /\ Width \in Nat \ {0}

Point == 46     \* "."
Zero == 48      \* "0"
Zulu == 90      \* "Z"

Digits == 0 .. (Base - 1)
Stamps == [second : 0 .. MaxSecond, fraction : [1 .. Width -> Digits]]

(***************************************************************************)
(* time.Time.Before on two stamps.                                          *)
(***************************************************************************)
FirstDifference(a, b) ==
    CHOOSE i \in 1 .. Width : a[i] # b[i] /\ \A j \in 1 .. (i - 1) : a[j] = b[j]

Before(a, b) ==
    \/ a.second < b.second
    \/ /\ a.second = b.second /\ a.fraction # b.fraction
       /\ LET i == FirstDifference(a.fraction, b.fraction)
          IN  a.fraction[i] < b.fraction[i]

(***************************************************************************)
(* The texts: leaseTimeLayout, and time.RFC3339Nano.                        *)
(***************************************************************************)
Chars(digits) == [i \in DOMAIN digits |-> Zero + digits[i]]

LeaseText(a) == <<Zero + a.second, Point>> \o Chars(a.fraction) \o <<Zulu>>

Significant(fraction) ==
    CHOOSE n \in 0 .. Width : /\ \A i \in (n + 1) .. Width : fraction[i] = 0
                              /\ n > 0 => fraction[n] # 0

NanoText(a) ==
    LET n == Significant(a.fraction)
    IN  IF n = 0 THEN <<Zero + a.second, Zulu>>
        ELSE <<Zero + a.second, Point>> \o Chars(SubSeq(a.fraction, 1, n)) \o <<Zulu>>

(***************************************************************************)
(* SQLite's BINARY collation.                                               *)
(***************************************************************************)
TextBefore(s, t) ==
    \/ /\ Len(s) < Len(t) /\ SubSeq(t, 1, Len(s)) = s
    \/ \E i \in DOMAIN s \cap DOMAIN t :
          s[i] < t[i] /\ SubSeq(s, 1, i - 1) = SubSeq(t, 1, i - 1)

-----------------------------------------------------------------------------
(***************************************************************************)
(* With the layout of lease.go the text order is the order of time, so the  *)
(* conditions of the queries on watch seats compare times, whatever the     *)
(* fractions.                                                               *)
(***************************************************************************)
LeaseTextOrdersTime ==
    \A a, b \in Stamps : TextBefore(LeaseText(a), LeaseText(b)) <=> Before(a, b)

(***************************************************************************)
(* With RFC3339Nano the text order is the order of time when the seconds    *)
(* differ: an answer is wrong by less than a second.                        *)
(***************************************************************************)
NanoTextOrdersSeconds ==
    \A a, b \in Stamps :
        a.second # b.second => (TextBefore(NanoText(a), NanoText(b)) <=> Before(a, b))
=============================================================================
