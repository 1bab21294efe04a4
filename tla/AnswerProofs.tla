---------------------------- MODULE AnswerProofs ----------------------------
(***************************************************************************)
(* The order of stamps as texts; what attach and chart print; the homes and *)
(* the documents a verb was given: for any width of a fraction, any number  *)
(* of readers, handovers and homes.                                         *)
(***************************************************************************)
EXTENDS MCVerbs, WellFoundedInduction, TLAPS

(***************************************************************************)
(* A set of numbers has a least one.                                        *)
(***************************************************************************)
LEMMA Least ==
    \A T \in SUBSET Nat : T # {} => \E n \in T : \A m \in T : n <= m
<1> SUFFICES ASSUME NEW T \in SUBSET Nat, T # {}
             PROVE  \E n \in T : \A m \in T : n <= m
  OBVIOUS
<1> DEFINE R == OpToRel(<, Nat)
<1>1. \A m, n \in Nat : m < n => <<m, n>> \in R
  BY DEF OpToRel
<1>2. IsWellFoundedOn(R, Nat)
  BY NatLessThanWellFounded
<1> HIDE DEF R
<1>3. PICK n \in T : \A m \in T : ~(<<m, n>> \in R)
  BY <1>2, WFMin
<1>4. \A m \in T : m \in Nat /\ n \in Nat /\ ~(m < n)
  BY <1>1, <1>3
<1> QED
  BY <1>4

-----------------------------------------------------------------------------
(***************************************************************************)
(* Stamps.  Two texts that agree before a place, and differ there, are      *)
(* ordered by it; texts of one length in no other way.                      *)
(***************************************************************************)
LEMMA SameStart ==
    \A s \in Seq(Nat), t \in Seq(Nat), n \in Nat :
       n <= Len(s) /\ n <= Len(t) =>
          (SubSeq(s, 1, n) = SubSeq(t, 1, n) <=> \A i \in 1 .. n : s[i] = t[i])
<1> SUFFICES ASSUME NEW s \in Seq(Nat), NEW t \in Seq(Nat), NEW n \in Nat,
                    n <= Len(s), n <= Len(t)
             PROVE  SubSeq(s, 1, n) = SubSeq(t, 1, n) <=> \A i \in 1 .. n : s[i] = t[i]
  OBVIOUS
<1>1. /\ Len(SubSeq(s, 1, n)) = n /\ Len(SubSeq(t, 1, n)) = n
      /\ SubSeq(s, 1, n) \in Seq(Nat) /\ SubSeq(t, 1, n) \in Seq(Nat)
      /\ \A i \in 1 .. n : SubSeq(s, 1, n)[i] = s[i] /\ SubSeq(t, 1, n)[i] = t[i]
  OBVIOUS
<1> DEFINE a == SubSeq(s, 1, n)
           b == SubSeq(t, 1, n)
<1>2. a = [i \in 1 .. n |-> a[i]] /\ b = [i \in 1 .. n |-> b[i]]
  BY <1>1
<1>3. \A i \in 1 .. n : a[i] = s[i] /\ b[i] = t[i]
  BY <1>1
<1> HIDE DEF a, b
<1>4. (\A i \in 1 .. n : s[i] = t[i]) => a = b
  BY <1>2, <1>3
<1>5. a = b => \A i \in 1 .. n : s[i] = t[i]
  BY <1>3
<1> QED
  BY <1>4, <1>5 DEF a, b

Differs(s, t, i) == s[i] < t[i] /\ \A j \in 1 .. i - 1 : s[j] = t[j]

LEMMA TextOrder ==
    \A s, t \in Seq(Nat) :
       Len(s) = Len(t) => (H!TextBefore(s, t) <=> \E i \in 1 .. Len(s) : Differs(s, t, i))
<1> SUFFICES ASSUME NEW s \in Seq(Nat), NEW t \in Seq(Nat), Len(s) = Len(t)
             PROVE  H!TextBefore(s, t) <=> \E i \in 1 .. Len(s) : Differs(s, t, i)
  OBVIOUS
<1> DEFINE Differ(i) == s[i] < t[i] /\ SubSeq(s, 1, i - 1) = SubSeq(t, 1, i - 1)
<1>1. Len(s) \in Nat /\ DOMAIN s \cap DOMAIN t = 1 .. Len(s)
  OBVIOUS
<1>2. H!TextBefore(s, t) <=> \E i \in DOMAIN s \cap DOMAIN t : Differ(i)
  BY <1>1 DEF H!TextBefore
<1>3. ASSUME NEW i \in 1 .. Len(s)
      PROVE  Differ(i) <=> Differs(s, t, i)
  <2>1. PICK n \in Nat : n = i - 1 /\ n <= Len(s) /\ n <= Len(t)
    BY <1>1
  <2>2. SubSeq(s, 1, n) = SubSeq(t, 1, n) <=> \A j \in 1 .. n : s[j] = t[j]
    BY <2>1, SameStart
  <2> QED
    BY <2>1, <2>2 DEF Differs
<1> HIDE DEF Differ
<1> QED
  BY <1>1, <1>2, <1>3

LEMMA Joined ==
    \A s, t \in Seq(Nat) :
       /\ s \o t \in Seq(Nat) /\ Len(s \o t) = Len(s) + Len(t)
       /\ \A i \in 1 .. Len(s) : (s \o t)[i] = s[i]
       /\ \A i \in 1 .. Len(t) : (s \o t)[Len(s) + i] = t[i]
OBVIOUS

(***************************************************************************)
(* The layout of lease.go, character by character.                          *)
(***************************************************************************)
Spells(s, second, fraction) ==
    /\ s \in Seq(Nat) /\ Len(s) = 3 + Width
    /\ s[1] = 48 + second /\ s[2] = 46 /\ s[3 + Width] = 90
    /\ \A i \in 1 .. Width : s[2 + i] = 48 + fraction[i]

LEMMA LeaseTextIs == \A a \in H!Stamps : Spells(H!LeaseText(a), a.second, a.fraction)
<1> SUFFICES ASSUME NEW a \in H!Stamps PROVE Spells(H!LeaseText(a), a.second, a.fraction)
  OBVIOUS
<1> DEFINE front == <<48 + a.second, 46>>
           digits == H!Chars(a.fraction)
<1>1. a.second \in Nat /\ a.fraction \in [1 .. Width -> Nat] /\ Width \in Nat
  BY HandoverAssumption DEF H!Stamps, H!Digits
<1>2. front \in Seq(Nat) /\ Len(front) = 2 /\ front[1] = 48 + a.second /\ front[2] = 46
  BY <1>1
<1>3. digits \in [1 .. Width -> Nat] /\ \A i \in 1 .. Width : digits[i] = 48 + a.fraction[i]
  BY <1>1 DEF H!Chars, H!Zero
<1>4. digits \in Seq(Nat) /\ Len(digits) = Width
  BY <1>1, <1>3
<1>5. <<90>> \in Seq(Nat) /\ Len(<<90>>) = 1 /\ <<90>>[1] = 90
  OBVIOUS
<1>6. H!LeaseText(a) = (front \o digits) \o <<90>>
  BY DEF H!LeaseText, H!Zero, H!Point, H!Zulu
<1> HIDE DEF front, digits
<1> DEFINE most == front \o digits
<1>7. /\ most \in Seq(Nat) /\ Len(most) = 2 + Width
      /\ \A i \in 1 .. 2 : most[i] = front[i]
      /\ \A i \in 1 .. Width : most[2 + i] = digits[i]
  <2>1. /\ most \in Seq(Nat) /\ Len(most) = Len(front) + Len(digits)
        /\ \A i \in 1 .. Len(front) : most[i] = front[i]
        /\ \A i \in 1 .. Len(digits) : most[Len(front) + i] = digits[i]
    BY <1>2, <1>4, Joined, Zenon
  <2> HIDE DEF most
  <2> QED
    BY <1>2, <1>4, <2>1
<1> HIDE DEF most
<1>8. /\ most \o <<90>> \in Seq(Nat) /\ Len(most \o <<90>>) = (2 + Width) + 1
      /\ \A i \in 1 .. 2 + Width : (most \o <<90>>)[i] = most[i]
      /\ \A i \in 1 .. 1 : (most \o <<90>>)[(2 + Width) + i] = <<90>>[i]
  BY <1>5, <1>7, Joined
<1>9. H!LeaseText(a) = most \o <<90>>
  BY <1>6 DEF most
<1>10. \A i \in 1 .. Width : 2 + i \in 1 .. 2 + Width
  BY <1>1
<1>11. 1 \in 1 .. 2 + Width /\ 2 \in 1 .. 2 + Width /\ 1 \in 1 .. 2 /\ 2 \in 1 .. 2 /\ 1 \in 1 .. 1
  BY <1>1
<1>12. (2 + Width) + 1 = 3 + Width
  BY <1>1
<1> QED
  BY <1>2, <1>3, <1>5, <1>7, <1>8, <1>9, <1>10, <1>11, <1>12 DEF Spells

(***************************************************************************)
(* The first digit in which two fractions differ.                           *)
(***************************************************************************)
LEMMA FirstDifferenceIs ==
    ASSUME NEW a \in [1 .. Width -> Nat], NEW b \in [1 .. Width -> Nat], a # b
    PROVE  /\ H!FirstDifference(a, b) \in 1 .. Width
           /\ a[H!FirstDifference(a, b)] # b[H!FirstDifference(a, b)]
           /\ \A j \in 1 .. H!FirstDifference(a, b) - 1 : a[j] = b[j]
           /\ \A i \in 1 .. Width :
                 a[i] # b[i] /\ (\A j \in 1 .. i - 1 : a[j] = b[j])
                    => i = H!FirstDifference(a, b)
<1> DEFINE differ == {i \in 1 .. Width : a[i] # b[i]}
           Is(i) == a[i] # b[i] /\ \A j \in 1 .. i - 1 : a[j] = b[j]
<1>1. differ \in SUBSET Nat /\ differ # {} /\ Width \in Nat
  BY HandoverAssumption
<1>2. PICK n \in differ : \A m \in differ : n <= m
  BY <1>1, Least
<1>3. n \in 1 .. Width /\ Is(n)
  BY <1>1, <1>2
<1>4. \A i, k \in 1 .. Width : Is(i) /\ Is(k) => i = k
  <2> SUFFICES ASSUME NEW i \in 1 .. Width, NEW k \in 1 .. Width, Is(i), Is(k) PROVE i = k
    OBVIOUS
  <2>1. ~(i < k) /\ ~(k < i)
    BY <1>1
  <2> QED
    BY <1>1, <2>1
<1>5. H!FirstDifference(a, b) = CHOOSE i \in 1 .. Width : Is(i)
  BY DEF H!FirstDifference
<1> HIDE DEF Is
<1>6. H!FirstDifference(a, b) \in 1 .. Width /\ Is(H!FirstDifference(a, b))
  BY <1>3, <1>5
<1> QED
  BY <1>4, <1>6 DEF Is

(***************************************************************************)
(* Two texts of seconds x and y, fractions f and g, a point and an end.     *)
(***************************************************************************)
LEMMA OrderOfParts ==
    ASSUME NEW x \in Nat, NEW f \in [1 .. Width -> Nat], NEW s, Spells(s, x, f),
           NEW y \in Nat, NEW g \in [1 .. Width -> Nat], NEW t, Spells(t, y, g)
    PROVE  (\E i \in 1 .. 3 + Width : Differs(s, t, i)) <=>
              x < y \/ (x = y /\ f # g /\ f[H!FirstDifference(f, g)] < g[H!FirstDifference(f, g)])
<1>1. Width \in Nat
  BY HandoverAssumption
<1>2. \A i \in 1 .. Width : f[i] \in Nat /\ g[i] \in Nat
  OBVIOUS
<1>3. ASSUME NEW i \in 1 .. Width
      PROVE  (s[2 + i] = t[2 + i] <=> f[i] = g[i]) /\ (s[2 + i] < t[2 + i] <=> f[i] < g[i])
  <2>1. s[2 + i] = 48 + f[i] /\ t[2 + i] = 48 + g[i]
    BY DEF Spells
  <2> QED
    BY <1>2, <2>1
<1>4. (s[1] = t[1] <=> x = y) /\ (s[1] < t[1] <=> x < y)
  BY DEF Spells
<1>5. ASSUME NEW i \in 1 .. 3 + Width, Differs(s, t, i)
      PROVE  x < y \/ (x = y /\ f # g /\ f[H!FirstDifference(f, g)] < g[H!FirstDifference(f, g)])
  <2>1. CASE i = 1
    BY <1>4, <1>5, <2>1 DEF Differs
  <2>2. CASE i = 2 \/ i = 3 + Width
    <3>1. s[i] = t[i] /\ s[i] \in Nat
      BY <2>2 DEF Spells
    <3> QED
      BY <1>5, <3>1 DEF Differs
  <2>3. CASE i \in 3 .. 2 + Width
    <3> DEFINE k == i - 2
    <3>1. k \in 1 .. Width /\ i = 2 + k /\ 1 \in 1 .. i - 1
      BY <1>1, <2>3
    <3> HIDE DEF k
    <3>2. f[k] < g[k] /\ x = y
      BY <1>3, <1>4, <1>5, <3>1 DEF Differs
    <3>3. ASSUME NEW j \in 1 .. k - 1 PROVE f[j] = g[j]
      <4>1. 2 + j \in 1 .. i - 1 /\ j \in 1 .. Width
        BY <1>1, <3>1
      <4> QED
        BY <1>3, <1>5, <4>1 DEF Differs
    <3>4. f[k] # g[k] /\ f # g
      BY <1>2, <3>1, <3>2
    <3>5. \A m \in 1 .. Width :
             f[m] # g[m] /\ (\A j \in 1 .. m - 1 : f[j] = g[j]) => m = H!FirstDifference(f, g)
      BY <3>4, FirstDifferenceIs
    <3>6. k = H!FirstDifference(f, g)
      BY <3>1, <3>3, <3>4, <3>5
    <3> QED
      BY <3>2, <3>4, <3>6
  <2> QED
    BY <1>1, <2>1, <2>2, <2>3
<1>6. ASSUME x < y PROVE Differs(s, t, 1) /\ 1 \in 1 .. 3 + Width
  BY <1>1, <1>4, <1>6 DEF Differs
<1>7. ASSUME x = y, f # g, f[H!FirstDifference(f, g)] < g[H!FirstDifference(f, g)]
      PROVE  \E i \in 1 .. 3 + Width : Differs(s, t, i)
  <2> DEFINE k == H!FirstDifference(f, g)
  <2>1. k \in 1 .. Width /\ \A j \in 1 .. k - 1 : f[j] = g[j]
    BY <1>7, FirstDifferenceIs
  <2>2. f[k] < g[k]
    BY <1>7
  <2> HIDE DEF k
  <2>3. s[2 + k] < t[2 + k] /\ 2 + k \in 1 .. 3 + Width
    BY <1>1, <1>3, <2>1, <2>2
  <2>4. ASSUME NEW j \in 1 .. (2 + k) - 1 PROVE s[j] = t[j]
    <3>1. CASE j = 1 \/ j = 2
      BY <1>4, <1>7, <3>1 DEF Spells
    <3>2. CASE ~(j = 1 \/ j = 2)
      <4> DEFINE m == j - 2
      <4>1. m \in 1 .. k - 1 /\ m \in 1 .. Width /\ j = 2 + m
        BY <1>1, <2>1, <3>2
      <4> HIDE DEF m
      <4> QED
        BY <1>3, <2>1, <4>1
    <3> QED
      BY <3>1, <3>2
  <2> QED
    BY <2>3, <2>4 DEF Differs
<1> QED
  BY <1>5, <1>6, <1>7

(***************************************************************************)
(* lease.go: for any number of digits the texts of leaseTimeLayout sort     *)
(* like the times they stand for, so that the conditions of the queries on  *)
(* watch seats compare times.                                               *)
(***************************************************************************)
THEOREM LeaseTextsSortLikeTime == H!LeaseTextOrdersTime
<1> SUFFICES ASSUME NEW a \in H!Stamps, NEW b \in H!Stamps
             PROVE  H!TextBefore(H!LeaseText(a), H!LeaseText(b)) <=> H!Before(a, b)
  BY DEF H!LeaseTextOrdersTime
<1> DEFINE x == a.second
           y == b.second
           f == a.fraction
           g == b.fraction
<1>1. x \in Nat /\ y \in Nat /\ f \in [1 .. Width -> Nat] /\ g \in [1 .. Width -> Nat]
  BY HandoverAssumption DEF H!Stamps, H!Digits
<1> DEFINE s == H!LeaseText(a)
           t == H!LeaseText(b)
<1>2. Spells(s, x, f) /\ Spells(t, y, g)
  BY LeaseTextIs
<1>3. H!Before(a, b) <=>
         x < y \/ (x = y /\ f # g /\ f[H!FirstDifference(f, g)] < g[H!FirstDifference(f, g)])
  BY DEF H!Before
<1> HIDE DEF s, t, x, y, f, g
<1>4. H!TextBefore(s, t) <=> \E i \in 1 .. 3 + Width : Differs(s, t, i)
  BY <1>2, TextOrder DEF Spells
<1>5. (\E i \in 1 .. 3 + Width : Differs(s, t, i)) <=>
         x < y \/ (x = y /\ f # g /\ f[H!FirstDifference(f, g)] < g[H!FirstDifference(f, g)])
  BY <1>1, <1>2, OrderOfParts
<1> QED
  BY <1>3, <1>4, <1>5 DEF s, t

(***************************************************************************)
(* RFC3339Nano: the digits up to the last that is not zero.                 *)
(***************************************************************************)
LEMMA SignificantIs ==
    \A f \in [1 .. Width -> Nat] : H!Significant(f) \in 0 .. Width
<1> SUFFICES ASSUME NEW f \in [1 .. Width -> Nat] PROVE H!Significant(f) \in 0 .. Width
  OBVIOUS
<1> DEFINE Zeros(n) == \A i \in (n + 1) .. Width : f[i] = 0
           enough == {n \in 0 .. Width : Zeros(n)}
           Is(n) == Zeros(n) /\ (n > 0 => f[n] # 0)
<1>1. Width \in Nat
  BY HandoverAssumption
<1>2. enough \in SUBSET Nat /\ Width \in enough
  BY <1>1
<1>3. PICK n \in enough : \A m \in enough : n <= m
  BY <1>2, Least
<1>4. ASSUME n > 0, f[n] = 0 PROVE FALSE
  <2>1. n - 1 \in 0 .. Width /\ \A i \in ((n - 1) + 1) .. Width : i = n \/ i \in (n + 1) .. Width
    BY <1>1, <1>3, <1>4
  <2>2. n - 1 \in enough
    BY <1>3, <1>4, <2>1
  <2> QED
    BY <1>1, <1>3, <2>1, <2>2
<1>5. n \in 0 .. Width /\ Is(n)
  BY <1>3, <1>4
<1>6. H!Significant(f) = CHOOSE m \in 0 .. Width : Is(m)
  BY DEF H!Significant
<1> HIDE DEF Is
<1> QED
  BY <1>5, <1>6

LEMMA CharsAre == \A d \in Seq(Nat) : H!Chars(d) \in Seq(Nat)
<1> SUFFICES ASSUME NEW d \in Seq(Nat) PROVE H!Chars(d) \in Seq(Nat)
  OBVIOUS
<1>1. DOMAIN d = 1 .. Len(d) /\ Len(d) \in Nat /\ \A i \in 1 .. Len(d) : d[i] \in Nat
  OBVIOUS
<1>2. H!Chars(d) \in [1 .. Len(d) -> Nat]
  BY <1>1 DEF H!Chars, H!Zero
<1> QED
  BY <1>1, <1>2

LEMMA NanoTextIs ==
    \A a \in H!Stamps :
       H!NanoText(a) \in Seq(Nat) /\ Len(H!NanoText(a)) > 0 /\ H!NanoText(a)[1] = 48 + a.second
<1> SUFFICES ASSUME NEW a \in H!Stamps
             PROVE  /\ H!NanoText(a) \in Seq(Nat) /\ Len(H!NanoText(a)) > 0
                    /\ H!NanoText(a)[1] = 48 + a.second
  OBVIOUS
<1> DEFINE n == H!Significant(a.fraction)
           whole == <<48 + a.second, 90>>
           front == <<48 + a.second, 46>>
           digits == H!Chars(SubSeq(a.fraction, 1, n))
<1>1. a.second \in Nat /\ a.fraction \in [1 .. Width -> Nat] /\ Width \in Nat
  BY HandoverAssumption DEF H!Stamps, H!Digits
<1>2. n \in 0 .. Width
  BY <1>1, SignificantIs
<1>3. H!NanoText(a) = IF n = 0 THEN whole ELSE (front \o digits) \o <<90>>
  BY DEF H!NanoText, H!Zero, H!Point, H!Zulu
<1>4. /\ whole \in Seq(Nat) /\ Len(whole) = 2 /\ whole[1] = 48 + a.second
      /\ front \in Seq(Nat) /\ Len(front) = 2 /\ front[1] = 48 + a.second
      /\ <<90>> \in Seq(Nat) /\ Len(<<90>>) = 1
  BY <1>1
<1> HIDE DEF n
<1>5. SubSeq(a.fraction, 1, n) \in Seq(Nat)
  BY <1>1, <1>2
<1>6. digits \in Seq(Nat)
  BY <1>5, CharsAre
<1> HIDE DEF whole, front, digits
<1> DEFINE most == front \o digits
<1>7. /\ most \in Seq(Nat) /\ Len(most) = Len(front) + Len(digits)
      /\ \A i \in 1 .. Len(front) : most[i] = front[i]
  BY <1>4, <1>6, Joined, Zenon
<1>8. Len(digits) \in Nat
  BY <1>6
<1> HIDE DEF most
<1>9. Len(most) > 0 /\ most[1] = front[1] /\ 1 \in 1 .. Len(most)
  BY <1>4, <1>7, <1>8
<1> DEFINE full == most \o <<90>>
<1>10. /\ full \in Seq(Nat) /\ Len(full) = Len(most) + Len(<<90>>)
       /\ \A i \in 1 .. Len(most) : full[i] = most[i]
  BY <1>4, <1>7, Joined, Zenon
<1>11. H!NanoText(a) = IF n = 0 THEN whole ELSE full
  BY <1>3 DEF most
<1> HIDE DEF full
<1>12. full[1] = 48 + a.second
  BY <1>4, <1>9, <1>10
<1>13. Len(full) > 0
  BY <1>4, <1>7, <1>9, <1>10
<1>14. H!NanoText(a) = whole \/ H!NanoText(a) = full
  BY <1>11
<1>15. Len(whole) > 0
  BY <1>4
<1> QED
  BY <1>4, <1>10, <1>12, <1>13, <1>14, <1>15, Zenon

LEMMA FirstDecides ==
    \A s, t \in Seq(Nat) :
       Len(s) > 0 /\ Len(t) > 0 /\ s[1] # t[1] => (H!TextBefore(s, t) <=> s[1] < t[1])
<1> SUFFICES ASSUME NEW s \in Seq(Nat), NEW t \in Seq(Nat), Len(s) > 0, Len(t) > 0, s[1] # t[1]
             PROVE  H!TextBefore(s, t) <=> s[1] < t[1]
  OBVIOUS
<1>1. /\ Len(s) \in Nat /\ Len(t) \in Nat
      /\ \A i : i \in DOMAIN s \cap DOMAIN t <=> i \in 1 .. Len(s) /\ i \in 1 .. Len(t)
  OBVIOUS
<1>2. ~(Len(s) < Len(t) /\ SubSeq(t, 1, Len(s)) = s)
  <2>1. Len(s) <= Len(t) => SubSeq(t, 1, Len(s))[1] = t[1]
    BY <1>1
  <2> QED
    BY <1>1, <2>1
<1>3. ASSUME NEW i \in DOMAIN s \cap DOMAIN t, s[i] < t[i], SubSeq(s, 1, i - 1) = SubSeq(t, 1, i - 1)
      PROVE  i = 1
  <2>1. i \in 1 .. Len(s) /\ i \in 1 .. Len(t)
    BY <1>1
  <2>2. i > 1 => SubSeq(s, 1, i - 1)[1] = s[1] /\ SubSeq(t, 1, i - 1)[1] = t[1]
    BY <2>1
  <2> QED
    BY <1>3, <2>1, <2>2
<1>4. SubSeq(s, 1, 0) = SubSeq(t, 1, 0)
  BY SameStart
<1>5. 1 \in DOMAIN s \cap DOMAIN t /\ 1 - 1 = 0
  BY <1>1
<1> QED
  BY <1>2, <1>3, <1>4, <1>5 DEF H!TextBefore

(***************************************************************************)
(* nerve.go: the texts of RFC3339Nano sort like time when the seconds       *)
(* differ, for any number of digits.                                        *)
(***************************************************************************)
THEOREM NanoTextsSortSeconds == H!NanoTextOrdersSeconds
<1> SUFFICES ASSUME NEW a \in H!Stamps, NEW b \in H!Stamps, a.second # b.second
             PROVE  H!TextBefore(H!NanoText(a), H!NanoText(b)) <=> H!Before(a, b)
  BY DEF H!NanoTextOrdersSeconds
<1> DEFINE s == H!NanoText(a)
           t == H!NanoText(b)
<1>1. a.second \in Nat /\ b.second \in Nat
  BY HandoverAssumption DEF H!Stamps
<1>2. /\ s \in Seq(Nat) /\ Len(s) > 0 /\ s[1] = 48 + a.second
      /\ t \in Seq(Nat) /\ Len(t) > 0 /\ t[1] = 48 + b.second
  BY NanoTextIs
<1> HIDE DEF s, t
<1>3. s[1] # t[1]
  BY <1>1, <1>2
<1>4. H!TextBefore(s, t) <=> s[1] < t[1]
  BY <1>2, <1>3, FirstDecides, Zenon
<1>5. H!TextBefore(s, t) <=> H!Before(a, b)
  BY <1>1, <1>2, <1>4 DEF H!Before
<1> QED
  BY <1>5 DEF s, t

-----------------------------------------------------------------------------
(***************************************************************************)
(* The handoff attach prints.  SQLite gives a row the number after those of *)
(* its table.                                                               *)
(***************************************************************************)
LEMMA FreeIdIs ==
    ASSUME H!TypeOK, NEW table \in {RootDocs, Artifacts}
    PROVE  /\ H!FreeId(table) \in 1 .. MaxId + 1
           /\ \A h \in DOMAIN current \cap table : current[h].id < H!FreeId(table)
<1> DEFINE ids == {current[h].id : h \in DOMAIN current \cap table}
           Above(n) == \A h \in DOMAIN current \cap table : current[h].id < n
           free == {n \in 1 .. MaxId + 1 : Above(n)}
           Is(n) == Above(n) /\ (n > 1 => \E h \in DOMAIN current \cap table : current[h].id = n - 1)
<1>1. MaxId \in Nat /\ \A h \in DOMAIN current : current[h].id \in 1 .. MaxId
  BY HandoverAssumption DEF H!TypeOK
<1>2. free \in SUBSET Nat /\ MaxId + 1 \in free
  BY <1>1
<1>3. PICK n \in free : \A m \in free : n <= m
  BY <1>2, Least
<1>4. ASSUME n > 1 PROVE \E h \in DOMAIN current \cap table : current[h].id = n - 1
  <2>1. n - 1 \in 1 .. MaxId + 1 /\ n - 1 \notin free
    BY <1>1, <1>3, <1>4
  <2>2. PICK h \in DOMAIN current \cap table : ~(current[h].id < n - 1)
    BY <2>1
  <2>3. current[h].id < n
    BY <1>3, <2>2
  <2> QED
    BY <1>1, <1>3, <2>2, <2>3
<1>5. n \in 1 .. MaxId + 1 /\ Is(n)
  BY <1>3, <1>4
<1>6. H!FreeId(table) = CHOOSE m \in 1 .. MaxId + 1 : Is(m)
  BY DEF H!FreeId
<1> HIDE DEF Is
<1>7. H!FreeId(table) \in 1 .. MaxId + 1 /\ Is(H!FreeId(table))
  BY <1>5, <1>6
<1> QED
  BY <1>7 DEF Is

LEMMA MirrorTyped ==
    ASSUME H!TypeOK, NEW table \in {RootDocs, Artifacts}, NEW d, H!Mirror(table, d)
    PROVE  H!TypeOK'
<1> DEFINE id == H!FreeId(table)
<1>1. id \in 1 .. MaxId /\ \A h \in DOMAIN current \cap table : current[h].id < id
  BY FreeIdIs, HandoverAssumption DEF H!Mirror
<1>2. /\ DOMAIN current' = DOMAIN current \cup {d} /\ d \in table /\ now' = now
      /\ current'[d] = [observed |-> now, id |-> id]
      /\ \A h \in DOMAIN current \ {d} : current'[h] = current[h]
  BY DEF H!Mirror
<1> HIDE DEF id
<1>3. now' \in H!Stamps /\ DOMAIN current' \subseteq H!Handovers
  BY <1>2 DEF H!TypeOK, H!Handovers
<1>4. \A h \in DOMAIN current' : current'[h] \in [observed : H!Stamps, id : 1 .. MaxId]
  BY <1>1, <1>2 DEF H!TypeOK
<1>5. ASSUME NEW g \in DOMAIN current', NEW h \in DOMAIN current', g # h,
             {g, h} \subseteq RootDocs \/ {g, h} \subseteq Artifacts
      PROVE  current'[g].id # current'[h].id
  <2>1. \A k \in DOMAIN current : current[k].id \in 1 .. MaxId
    BY DEF H!TypeOK
  <2>2. CASE g # d /\ h # d
    BY <1>2, <1>5, <2>2 DEF H!TypeOK
  <2>3. CASE g = d \/ h = d
    <3>1. {g, h} \subseteq table
      BY <1>2, <1>5, <2>3, HandoverAssumption
    <3> QED
      BY <1>1, <1>2, <1>5, <2>1, <2>3, <3>1, HandoverAssumption
  <2> QED
    BY <2>2, <2>3
<1> QED
  BY <1>3, <1>4, <1>5 DEF H!TypeOK

LEMMA HandoffTyped == H!TypeOK /\ [H!Next]_handing => H!TypeOK'
<1> SUFFICES ASSUME H!TypeOK, [H!Next]_handing PROVE H!TypeOK'
  OBVIOUS
<1>1. CASE H!Passes
  <2>1. now' \in H!Stamps /\ UNCHANGED current
    BY <1>1 DEF H!Passes
  <2> QED
    BY <2>1 DEF H!TypeOK
<1>2. CASE \E h \in RootDocs : H!Mirror(RootDocs, h)
  BY <1>2, MirrorTyped
<1>3. CASE \E h \in Artifacts : H!Mirror(Artifacts, h)
  BY <1>3, MirrorTyped
<1>4. CASE UNCHANGED handing
  BY <1>4 DEF H!TypeOK, handing
<1> QED
  BY <1>1, <1>2, <1>3, <1>4 DEF H!Next

(***************************************************************************)
(* ORDER BY observed_at DESC: a later second has a later text.              *)
(***************************************************************************)
LEMMA HandoffIsLate == H!TypeOK => H!HandoffOfLatestSecond
<1> SUFFICES ASSUME H!TypeOK, NEW h \in H!LastHandoff, NEW g \in DOMAIN current
             PROVE  current[g].observed.second <= current[h].observed.second
  BY DEF H!HandoffOfLatestSecond
<1> DEFINE a == current[g].observed
           b == current[h].observed
<1>1. h \in DOMAIN current /\ H!ComesFirst(current[h], current[g])
  BY DEF H!LastHandoff
<1>2. a \in H!Stamps /\ b \in H!Stamps
  BY <1>1 DEF H!TypeOK
<1>3. a.second \in Nat /\ b.second \in Nat
  BY <1>2, HandoverAssumption DEF H!Stamps
<1>4. H!TextBefore(H!NanoText(a), H!NanoText(b)) \/ a = b
  BY <1>1 DEF H!ComesFirst
<1>5. a.second # b.second => (H!TextBefore(H!NanoText(a), H!NanoText(b)) <=> H!Before(a, b))
  BY <1>2, NanoTextsSortSeconds DEF H!NanoTextOrdersSeconds
<1>6. H!Before(a, b) => a.second <= b.second
  BY <1>3 DEF H!Before
<1> HIDE DEF a, b
<1>7. a.second <= b.second
  BY <1>3, <1>4, <1>5, <1>6
<1> QED
  BY <1>7 DEF a, b

-----------------------------------------------------------------------------
(***************************************************************************)
(* The chart.  A row of the cache is of the body in its watermark; a reader *)
(* that nothing disturbed has read the database as it is, as far as it is.  *)
(***************************************************************************)
RowsAreTheirMarks == \A kept \in cache : kept.mark.snapshot = kept.body

ReadsAsIs(r) ==
    /\ chart[r].at \in {"look", "store"} => chart[r].mark.snapshot = chart[r].body
    /\ r \in quiet =>
          /\ chart[r].at \in {"docs", "open", "markDocs", "markOpen", "look", "store"}
                => chart[r].body.label = db.label
          /\ chart[r].at \in {"open", "markDocs", "markOpen", "look", "store"}
                => chart[r].body.docs = db.docs
          /\ chart[r].at \in {"markDocs", "markOpen", "look", "store"}
                => chart[r].body.open = db.open
          /\ C!Answered(r) => chart[r].result = db

ChartInv ==
    /\ C!TypeOK /\ db.open <= db.docs /\ RowsAreTheirMarks
    /\ \A r \in Readers : ReadsAsIs(r)

States == [at : C!Steps, body : C!Bodies, mark : C!Marks,
           status : {"none", "created", "cached", "regenerated"}, result : C!Bodies]

LEMMA EmptyIs ==
    C!Empty \in C!Bodies /\ C!Starting \in States /\ C!Empty.open <= C!Empty.docs
<1>1. (CHOOSE l \in Labels : TRUE) \in Labels
  BY ChartAssumption
<1>2. C!Empty \in C!Bodies /\ C!Empty.open <= C!Empty.docs
  BY <1>1, ChartAssumption DEF C!Empty, C!Bodies
<1> QED
  BY <1>2, ChartAssumption DEF C!Starting, States, C!Steps, C!Marks

LEMMA ChartInit == C!Init => ChartInv
<1> SUFFICES ASSUME C!Init PROVE ChartInv
  OBVIOUS
<1>1. C!TypeOK
  BY EmptyIs DEF C!Init, C!TypeOK, C!NoCache, States
<1>2. \A r \in Readers : chart[r].at = "homes"
  BY DEF C!Init, C!Starting
<1> QED
  BY <1>1, <1>2, EmptyIs
  DEF C!Init, ChartInv, RowsAreTheirMarks, C!NoCache, ReadsAsIs, C!Answered, C!At

(***************************************************************************)
(* A write leaves nobody undisturbed.                                       *)
(***************************************************************************)
LEMMA WriteKeeps ==
    ASSUME ChartInv, NEW contents \in C!Bodies, contents.open <= contents.docs, C!Write(contents)
    PROVE  ChartInv'
BY DEF ChartInv, C!Write, C!TypeOK, RowsAreTheirMarks, ReadsAsIs, C!Answered, C!At

LEMMA WritersKeep == ChartInv /\ (C!Mirror \/ C!Handle \/ C!Relabel) => ChartInv'
<1> SUFFICES ASSUME ChartInv, C!Mirror \/ C!Handle \/ C!Relabel PROVE ChartInv'
  OBVIOUS
<1>1. db \in C!Bodies /\ db.open <= db.docs
  BY DEF ChartInv, C!TypeOK
<1>2. CASE C!Mirror
  <2> DEFINE contents == [db EXCEPT !.docs = @ + 1, !.open = @ + 1]
  <2>1. db.docs + 1 \in 0 .. MaxDocs /\ db.open + 1 \in 0 .. MaxDocs /\ db.open + 1 <= db.docs + 1
    BY <1>1, <1>2, ChartAssumption DEF C!Mirror, C!Bodies
  <2>2. contents \in C!Bodies /\ contents.open <= contents.docs
    BY <1>1, <2>1 DEF C!Bodies
  <2> QED
    BY <1>2, <2>2, WriteKeeps DEF C!Mirror
<1>3. CASE C!Handle
  <2> DEFINE contents == [db EXCEPT !.open = @ - 1]
  <2>1. contents \in C!Bodies /\ contents.open <= contents.docs
    BY <1>1, <1>3, ChartAssumption DEF C!Handle, C!Bodies
  <2> QED
    BY <1>3, <2>1, WriteKeeps DEF C!Handle
<1>4. CASE C!Relabel
  <2>1. PICK l \in Labels : C!Write([db EXCEPT !.label = l])
    BY <1>4 DEF C!Relabel
  <2> DEFINE contents == [db EXCEPT !.label = l]
  <2>2. contents \in C!Bodies /\ contents.open <= contents.docs
    BY <1>1 DEF C!Bodies
  <2> QED
    BY <2>1, <2>2, WriteKeeps
<1> QED
  BY <1>2, <1>3, <1>4

(***************************************************************************)
(* A step of one reader: it stays true to what it has read, and what it     *)
(* stores is of its mark.                                                   *)
(***************************************************************************)
LEMMA ReaderKeeps ==
    ASSUME ChartInv, NEW r \in Readers, NEW state \in States,
           chart' = [chart EXCEPT ![r] = state], UNCHANGED db, quiet' \in {quiet, quiet \cup {r}},
           UNCHANGED cache \/ cache' = {[mark |-> chart[r].mark, body |-> chart[r].body]},
           RowsAreTheirMarks', ReadsAsIs(r)'
    PROVE  ChartInv'
<1>1. C!TypeOK'
  <2>1. chart' \in [Readers -> States] /\ chart[r] \in States
    BY DEF ChartInv, C!TypeOK, States
  <2>2. cache' \subseteq [mark : C!Marks, body : C!Bodies]
    BY <2>1 DEF ChartInv, C!TypeOK, States
  <2> QED
    BY <2>1, <2>2 DEF ChartInv, C!TypeOK, States
<1>2. ASSUME NEW s \in Readers, s # r PROVE ReadsAsIs(s)'
  <2>1. chart'[s] = chart[s] /\ (s \in quiet' <=> s \in quiet) /\ ReadsAsIs(s)
    BY <1>2 DEF ChartInv, C!TypeOK
  <2> QED
    BY <2>1 DEF ReadsAsIs, C!Answered, C!At
<1> QED
  BY <1>1, <1>2 DEF ChartInv

LEMMA ReadersKeep ==
    ASSUME ChartInv, NEW r \in Readers, C!GetOrCreate(r)
    PROVE  ChartInv'
<1>1. /\ chart \in [Readers -> States] /\ chart[r] \in States /\ db \in C!Bodies
      /\ ReadsAsIs(r) /\ RowsAreTheirMarks
      /\ cache \subseteq [mark : C!Marks, body : C!Bodies]
  BY DEF ChartInv, C!TypeOK, States
<1>2. CASE C!Begin(r)
  <2>1. C!Starting.at = "homes" /\ chart'[r] = C!Starting
    BY <1>1, <1>2 DEF C!Begin, C!Starting
  <2>2. ReadsAsIs(r)'
    BY <2>1 DEF ReadsAsIs, C!Answered, C!At
  <2> QED
    BY <1>1, <1>2, <2>2, EmptyIs, ReaderKeeps DEF C!Begin, RowsAreTheirMarks
<1>3. CASE C!ReadHomes(r)
  <2> DEFINE state == [chart[r] EXCEPT !.at = "docs", !.body.label = db.label]
  <2>1. /\ state \in States /\ state.at = "docs" /\ state.body.label = db.label
        /\ chart'[r] = state /\ chart' = [chart EXCEPT ![r] = state]
    BY <1>1, <1>3 DEF C!ReadHomes, C!Becomes, States, C!Steps, C!Bodies
  <2> HIDE DEF state
  <2>2. ReadsAsIs(r)'
    BY <1>3, <2>1 DEF C!ReadHomes, C!Becomes, ReadsAsIs, C!Answered, C!At
  <2> QED
    BY <1>1, <1>3, <2>1, <2>2, ReaderKeeps DEF C!ReadHomes, C!Becomes, RowsAreTheirMarks
<1>4. CASE C!ReadDocs(r)
  <2> DEFINE state == [chart[r] EXCEPT !.at = "open", !.body.docs = db.docs]
  <2>1. /\ state \in States /\ state.at = "open" /\ state.body.docs = db.docs
        /\ state.body.label = chart[r].body.label
        /\ chart'[r] = state /\ chart' = [chart EXCEPT ![r] = state]
    BY <1>1, <1>4 DEF C!ReadDocs, C!Becomes, States, C!Steps, C!Bodies
  <2> HIDE DEF state
  <2>2. ReadsAsIs(r)'
    BY <1>1, <1>4, <2>1 DEF C!ReadDocs, C!Becomes, ReadsAsIs, C!Answered, C!At
  <2> QED
    BY <1>1, <1>4, <2>1, <2>2, ReaderKeeps DEF C!ReadDocs, C!Becomes, RowsAreTheirMarks
<1>5. CASE C!ReadUnhandled(r)
  <2> DEFINE state == [chart[r] EXCEPT !.at = "markDocs", !.body.open = db.open]
  <2>1. /\ state \in States /\ state.at = "markDocs" /\ state.body.open = db.open
        /\ state.body.label = chart[r].body.label /\ state.body.docs = chart[r].body.docs
        /\ chart'[r] = state /\ chart' = [chart EXCEPT ![r] = state]
    BY <1>1, <1>5 DEF C!ReadUnhandled, C!Becomes, States, C!Steps, C!Bodies
  <2> HIDE DEF state
  <2>2. ReadsAsIs(r)'
    BY <1>1, <1>5, <2>1 DEF C!ReadUnhandled, C!Becomes, ReadsAsIs, C!Answered, C!At
  <2> QED
    BY <1>1, <1>5, <2>1, <2>2, ReaderKeeps DEF C!ReadUnhandled, C!Becomes, RowsAreTheirMarks
<1>6. CASE C!MarkDocs(r)
  <2> DEFINE state == [chart[r] EXCEPT !.at = "markOpen", !.mark.docs = db.docs]
  <2>1. /\ state \in States /\ state.at = "markOpen" /\ state.body = chart[r].body
        /\ chart'[r] = state /\ chart' = [chart EXCEPT ![r] = state]
    BY <1>1, <1>6 DEF C!MarkDocs, C!Becomes, States, C!Steps, C!Bodies, C!Marks
  <2> HIDE DEF state
  <2>2. ReadsAsIs(r)'
    BY <1>1, <1>6, <2>1 DEF C!MarkDocs, C!Becomes, ReadsAsIs, C!Answered, C!At
  <2> QED
    BY <1>1, <1>6, <2>1, <2>2, ReaderKeeps DEF C!MarkDocs, C!Becomes, RowsAreTheirMarks
<1>7. CASE C!MarkUnhandled(r)
  <2> DEFINE mark == [docs |-> chart[r].mark.docs, open |-> db.open, snapshot |-> chart[r].body]
             state == [chart[r] EXCEPT !.at = "look", !.mark = mark]
  <2>1. mark \in C!Marks /\ mark.snapshot = chart[r].body
    BY <1>1 DEF States, C!Bodies, C!Marks
  <2>2. chart' = [chart EXCEPT ![r] = state]
    BY <1>7 DEF C!MarkUnhandled, C!Becomes, C!Watermark
  <2> HIDE DEF mark
  <2>3. /\ state \in States /\ state.at = "look" /\ state.body = chart[r].body
        /\ state.mark.snapshot = chart[r].body /\ chart'[r] = state
    BY <1>1, <2>1, <2>2 DEF States, C!Steps
  <2> HIDE DEF state
  <2>4. ReadsAsIs(r)'
    BY <1>1, <1>7, <2>3 DEF C!MarkUnhandled, C!Becomes, ReadsAsIs, C!Answered, C!At
  <2> QED
    BY <1>1, <1>7, <2>2, <2>3, <2>4, ReaderKeeps DEF C!MarkUnhandled, C!Becomes, RowsAreTheirMarks
<1>8. r \in quiet /\ chart[r].at \in {"look", "store"} => chart[r].body = db
  BY <1>1 DEF ReadsAsIs, States, C!Bodies
<1>9. CASE C!Look(r)
  <2>1. CASE \E step \in {"created", "regenerated"} :
                C!Becomes(r, [chart[r] EXCEPT !.at = "store", !.status = step])
    <3>1. PICK step \in {"created", "regenerated"} :
             C!Becomes(r, [chart[r] EXCEPT !.at = "store", !.status = step])
      BY <2>1
    <3> DEFINE state == [chart[r] EXCEPT !.at = "store", !.status = step]
    <3>2. /\ state \in States /\ state.at = "store" /\ state.body = chart[r].body
          /\ state.mark = chart[r].mark
          /\ chart'[r] = state /\ chart' = [chart EXCEPT ![r] = state]
      BY <1>1, <3>1 DEF C!Becomes, States, C!Steps
    <3> HIDE DEF state
    <3>3. ReadsAsIs(r)'
      BY <1>1, <1>9, <3>1, <3>2 DEF C!Look, C!Becomes, ReadsAsIs, C!Answered, C!At
    <3> QED
      BY <1>1, <1>9, <3>1, <3>2, <3>3, ReaderKeeps DEF C!Look, C!Becomes, RowsAreTheirMarks
  <2>2. CASE \E kept \in cache :
                /\ kept.mark = chart[r].mark
                /\ C!Becomes(r, [chart[r] EXCEPT !.at = "done", !.status = "cached",
                                                 !.result = kept.body])
    <3>1. PICK kept \in cache :
             /\ kept.mark = chart[r].mark
             /\ C!Becomes(r, [chart[r] EXCEPT !.at = "done", !.status = "cached",
                                              !.result = kept.body])
      BY <2>2
    <3> DEFINE state == [chart[r] EXCEPT !.at = "done", !.status = "cached", !.result = kept.body]
    <3>2. kept.body = chart[r].body /\ kept.body \in C!Bodies
      BY <1>1, <1>9, <3>1 DEF C!Look, C!At, ReadsAsIs, RowsAreTheirMarks
    <3>3. /\ state \in States /\ state.at = "done" /\ state.result = chart[r].body
          /\ chart'[r] = state /\ chart' = [chart EXCEPT ![r] = state]
      BY <1>1, <3>1, <3>2 DEF C!Becomes, States, C!Steps
    <3> HIDE DEF state
    <3>4. ReadsAsIs(r)'
      BY <1>1, <1>8, <1>9, <3>1, <3>3 DEF C!Look, C!Becomes, ReadsAsIs, C!Answered, C!At
    <3> QED
      BY <1>1, <1>9, <3>1, <3>3, <3>4, ReaderKeeps DEF C!Look, C!Becomes, RowsAreTheirMarks
  <2> QED
    BY <1>9, <2>1, <2>2 DEF C!Look
<1>10. CASE C!Store(r)
  <2> DEFINE state == [chart[r] EXCEPT !.at = "done", !.result = chart[r].body]
  <2>1. /\ state \in States /\ state.at = "done" /\ state.result = chart[r].body
        /\ chart'[r] = state /\ chart' = [chart EXCEPT ![r] = state]
    BY <1>1, <1>10 DEF C!Store, C!Becomes, States, C!Steps
  <2> HIDE DEF state
  <2>2. ReadsAsIs(r)'
    BY <1>1, <1>8, <1>10, <2>1 DEF C!Store, C!Becomes, ReadsAsIs, C!Answered, C!At
  <2>3. RowsAreTheirMarks'
    BY <1>1, <1>10 DEF C!Store, C!At, ReadsAsIs, RowsAreTheirMarks
  <2> QED
    BY <1>1, <1>10, <2>1, <2>2, <2>3, ReaderKeeps DEF C!Store, C!Becomes
<1>11. CASE C!Fails(r)
  <2> DEFINE state == [C!Starting EXCEPT !.at = "done"]
  <2>1. /\ state \in States /\ state.at = "done" /\ state.status = "none"
        /\ chart'[r] = state /\ chart' = [chart EXCEPT ![r] = state]
    BY <1>1, <1>11, EmptyIs DEF C!Fails, C!Becomes, C!Starting, States, C!Steps
  <2> HIDE DEF state
  <2>2. ReadsAsIs(r)'
    BY <2>1 DEF ReadsAsIs, C!Answered, C!At
  <2> QED
    BY <1>1, <1>11, <2>1, <2>2, ReaderKeeps DEF C!Fails, C!Becomes, RowsAreTheirMarks
<1> QED
  BY <1>2, <1>3, <1>4, <1>5, <1>6, <1>7, <1>9, <1>10, <1>11 DEF C!GetOrCreate

LEMMA ChartStep == ChartInv /\ [C!Next]_charting => ChartInv'
<1> SUFFICES ASSUME ChartInv, [C!Next]_charting PROVE ChartInv'
  OBVIOUS
<1>1. CASE UNCHANGED charting
  BY <1>1
  DEF charting, ChartInv, C!TypeOK, RowsAreTheirMarks, ReadsAsIs, C!Answered, C!At
<1> QED
  BY <1>1, WritersKeep, ReadersKeep DEF C!Next

(***************************************************************************)
(* A chart made while nothing is written shows the database as it is,       *)
(* whatever readers stored meanwhile (GetOrCreate).                         *)
(***************************************************************************)
THEOREM QuietChartsAreCurrent == C!Spec => []C!QuietChartIsCurrent
<1>1. ChartInv => C!QuietChartIsCurrent
  BY DEF ChartInv, C!TypeOK, ReadsAsIs, C!QuietChartIsCurrent
<1>2. ChartInv /\ [C!Next]_(C!vars) => ChartInv'
  BY ChartStep DEF C!vars, charting
<1>3. C!Spec => []ChartInv
  BY <1>2, ChartInit, PTL DEF C!Spec
<1> QED
  BY <1>1, <1>3, PTL

-----------------------------------------------------------------------------
(***************************************************************************)
(* The homes of a verb.  alignOptional gives each home the value at its     *)
(* place, or the only one.                                                  *)
(***************************************************************************)
LEMMA AlignedAt ==
    ASSUME NEW V, NEW values \in Seq(V), values # <<>>, NEW n \in Nat, CanAlign(values, n),
           NEW i \in 1 .. n
    PROVE  Align(values, n)[i] = At(values, i)
<1>1. Len(values) # 0
  OBVIOUS
<1> QED
  BY <1>1 DEF CanAlign, Align, At

PairedAs(paths, ids, labels, kinds, r) ==
    /\ Len(ids) = Len(paths) /\ Len(r.pairs) = Len(paths) /\ DOMAIN r.pairs = 1 .. Len(paths)
    /\ r.filters = <<>>
    /\ \A i \in 1 .. Len(paths) :
          /\ r.pairs[i].path = paths[i] /\ r.pairs[i].id = ids[i]
          /\ labels # <<>> /\ At(labels, i) # Blank => r.pairs[i].label = At(labels, i)
          /\ kinds # <<>> /\ At(kinds, i) # Blank => r.pairs[i].kind = At(kinds, i)

LEMMA PairsAre ==
    ASSUME NEW V, NEW paths \in Seq(V), NEW ids \in Seq(V), NEW labels \in Seq(V),
           NEW kinds \in Seq(V), PairHomes(paths, ids, labels, kinds).error = "none"
    PROVE  PairedAs(paths, ids, labels, kinds, PairHomes(paths, ids, labels, kinds))
<1> DEFINE n == Len(paths)
           list == [i \in 1 .. n |->
                      [path |-> paths[i], id |-> ids[i],
                       label |-> OrElse(Align(labels, n)[i], ids[i]),
                       kind |-> OrElse(Align(kinds, n)[i], "primary")]]
<1>1. n \in Nat
  OBVIOUS
<1>2. /\ Len(ids) = n /\ CanAlign(labels, n) /\ CanAlign(kinds, n)
      /\ PairHomes(paths, ids, labels, kinds) = Paired(list)
  BY DEF PairHomes, Refused, Paired
<1>3. DOMAIN list = 1 .. n /\ Len(list) = n
  BY <1>1
<1>4. ASSUME NEW i \in 1 .. n
      PROVE  /\ list[i].path = paths[i] /\ list[i].id = ids[i]
             /\ labels # <<>> /\ At(labels, i) # Blank => list[i].label = At(labels, i)
             /\ kinds # <<>> /\ At(kinds, i) # Blank => list[i].kind = At(kinds, i)
  <2>1. labels # <<>> => Align(labels, n)[i] = At(labels, i)
    BY <1>1, <1>2, AlignedAt
  <2>2. kinds # <<>> => Align(kinds, n)[i] = At(kinds, i)
    BY <1>1, <1>2, AlignedAt
  <2> QED
    BY <2>1, <2>2 DEF OrElse
<1> HIDE DEF list
<1>5. Paired(list).pairs = list /\ Paired(list).filters = <<>>
  BY DEF Paired
<1> QED
  BY <1>1, <1>2, <1>3, <1>4, <1>5 DEF PairedAs

LEMMA OneIs ==
    ASSUME NEW V, NEW value \in V
    PROVE  /\ One(value) \in Seq(V)
           /\ value = Blank => One(value) = <<>>
           /\ value # Blank => One(value) = <<value>> /\ Len(One(value)) = 1 /\ One(value)[1] = value
BY DEF One

Values == HomeValues \cup IdValues \cup LabelValues \cup KindValues \cup {Blank, "homeE", "idE"}

LEMMA CallIs ==
    ASSUME NEW c \in Calls
    PROVE  /\ c.flags.homes \in Seq(HomeValues) /\ c.flags.ids \in Seq(IdValues)
           /\ c.flags.labels \in Seq(Values) /\ c.flags.kinds \in Seq(Values)
           /\ c.env.home \in {Blank, "homeE"} /\ c.env.id \in {Blank, "idE"}
<1>1. ASSUME NEW S, NEW q \in UpToTwo(S) PROVE q \in Seq(S)
  <2>1. q = <<>> \/ (\E a \in S : q = <<a>>) \/ \E a, b \in S : q = <<a, b>>
    BY DEF UpToTwo
  <2>2. <<>> \in Seq(S) /\ \A a, b \in S : <<a>> \in Seq(S) /\ <<a, b>> \in Seq(S)
    OBVIOUS
  <2> QED
    BY <2>1, <2>2, Zenon
<1>2. LabelValues \subseteq Values /\ KindValues \subseteq Values
  BY DEF Values
<1>3. \A S, T : S \subseteq T => Seq(S) \subseteq Seq(T)
  OBVIOUS
<1> HIDE DEF Values
<1>4. /\ c.flags.homes \in UpToTwo(HomeValues) /\ c.flags.ids \in UpToTwo(IdValues)
      /\ c.flags.labels \in UpToTwo(LabelValues) /\ c.flags.kinds \in UpToTwo(KindValues)
      /\ c.env.home \in {Blank, "homeE"} /\ c.env.id \in {Blank, "idE"}
  BY DEF Calls
<1>5. Seq(LabelValues) \subseteq Seq(Values) /\ Seq(KindValues) \subseteq Seq(Values)
  BY <1>2, <1>3
<1> QED
  BY <1>1, <1>4, <1>5

(***************************************************************************)
(* resolveHomes, for a command line of any length: what it makes of the     *)
(* flags and the environment keeps path and identity together.              *)
(***************************************************************************)
AsGiven(flags, env, filterOnly, r) ==
    LET explicit == flags.homes # <<>> \/ flags.ids # <<>>
    IN  /\ r.error = "none" /\ flags.homes # <<>> =>
              /\ Len(r.pairs) = Len(flags.homes) /\ Len(flags.ids) = Len(flags.homes)
              /\ \A i \in DOMAIN r.pairs :
                    /\ r.pairs[i].path = flags.homes[i] /\ r.pairs[i].id = flags.ids[i]
                    /\ flags.labels # <<>> /\ At(flags.labels, i) # Blank
                          => r.pairs[i].label = At(flags.labels, i)
                    /\ flags.kinds # <<>> /\ At(flags.kinds, i) # Blank
                          => r.pairs[i].kind = At(flags.kinds, i)
        /\ explicit => \A i \in DOMAIN r.pairs :
              \E k \in DOMAIN flags.homes : \E m \in DOMAIN flags.ids :
                 r.pairs[i].path = flags.homes[k] /\ r.pairs[i].id = flags.ids[m]
        /\ ~explicit => \A i \in DOMAIN r.pairs :
              r.pairs[i].path = env.home /\ env.home # Blank /\ r.pairs[i].id = env.id
        /\ \A i \in DOMAIN r.pairs : r.pairs[i].id # Blank
        /\ \A i \in DOMAIN r.filters : r.filters[i] # Blank
        /\ ~filterOnly => r.filters = <<>> /\ (r.error = "none" => r.pairs # <<>>)

LEMMA RefusedIs ==
    ASSUME NEW flags, NEW env, NEW filterOnly, NEW why, why # "none"
    PROVE  AsGiven(flags, env, filterOnly, Refused(why))
BY DEF AsGiven, Refused

LEMMA ResolvedAsGiven ==
    ASSUME NEW V, NEW flags, NEW env, NEW filterOnly \in BOOLEAN,
           flags.homes \in Seq(V), flags.ids \in Seq(V), flags.labels \in Seq(V),
           flags.kinds \in Seq(V), env.home \in V, env.id \in V
    PROVE  AsGiven(flags, env, filterOnly, ResolveHomes(flags, env, filterOnly))
<1> DEFINE bare == flags.homes = <<>> /\ flags.ids = <<>>
           paths == IF bare THEN One(env.home) ELSE flags.homes
           ids == IF bare THEN One(env.id) ELSE flags.ids
           pairing == PairHomes(paths, ids, flags.labels, flags.kinds)
           r == ResolveHomes(flags, env, filterOnly)
<1>1. paths \in Seq(V) /\ ids \in Seq(V)
  BY OneIs
<1>2. \/ \E why \in {"blank id", "required"} : r = Refused(why)
      \/ /\ \A i \in DOMAIN flags.ids : flags.ids[i] # Blank
         /\ \/ paths = <<>> /\ filterOnly /\ r = Filtered(ids)
            \/ paths # <<>> /\ r = pairing
  BY DEF ResolveHomes
<1>3. \E why \in {"unbalanced", "label", "kind"} : pairing = Refused(why) \/ pairing.error = "none"
  BY DEF PairHomes, Paired
<1>4. (\A i \in DOMAIN flags.ids : flags.ids[i] # Blank) => \A i \in DOMAIN ids : ids[i] # Blank
  BY OneIs
<1>5. bare => /\ paths = <<>> \/ (Len(paths) = 1 /\ paths[1] = env.home /\ env.home # Blank)
              /\ ids = <<>> \/ (Len(ids) = 1 /\ ids[1] = env.id)
  BY OneIs
<1>6. (~bare => paths = flags.homes /\ ids = flags.ids) /\ (flags.homes # <<>> => ~bare)
  OBVIOUS
<1>7. pairing.error = "none" => PairedAs(paths, ids, flags.labels, flags.kinds, pairing)
  BY <1>1, PairsAre
<1> HIDE DEF pairing, r, paths, ids
<1>8. ASSUME \A i \in DOMAIN ids : ids[i] # Blank, paths # <<>>, r = pairing, pairing.error = "none"
      PROVE  AsGiven(flags, env, filterOnly, r)
  <2>1. PairedAs(paths, ids, flags.labels, flags.kinds, r)
    BY <1>7, <1>8
  <2>2. r.pairs # <<>> /\ Len(paths) \in Nat /\ Len(paths) # 0
    BY <1>1, <1>8, <2>1 DEF PairedAs
  <2>3. DOMAIN paths = 1 .. Len(paths) /\ DOMAIN ids = 1 .. Len(ids)
    BY <1>1
  <2>4. \A i \in DOMAIN r.pairs : r.pairs[i].id # Blank
    BY <1>8, <2>1, <2>3 DEF PairedAs
  <2>5. ~bare => \A i \in DOMAIN r.pairs :
              \E k \in DOMAIN flags.homes : \E m \in DOMAIN flags.ids :
                 r.pairs[i].path = flags.homes[k] /\ r.pairs[i].id = flags.ids[m]
    BY <1>6, <2>1, <2>3 DEF PairedAs
  <2>6. bare => \A i \in DOMAIN r.pairs :
              r.pairs[i].path = env.home /\ env.home # Blank /\ r.pairs[i].id = env.id
    <3>1. bare => Len(paths) = 1 /\ paths[1] = env.home /\ env.home # Blank /\ Len(ids) = 1 /\ ids[1] = env.id
      BY <1>5, <1>8, <2>1 DEF PairedAs
    <3> QED
      BY <2>1, <3>1 DEF PairedAs
  <2>7. flags.homes # <<>> =>
           /\ Len(r.pairs) = Len(flags.homes) /\ Len(flags.ids) = Len(flags.homes)
           /\ \A i \in DOMAIN r.pairs :
                 /\ r.pairs[i].path = flags.homes[i] /\ r.pairs[i].id = flags.ids[i]
                 /\ flags.labels # <<>> /\ At(flags.labels, i) # Blank
                       => r.pairs[i].label = At(flags.labels, i)
                 /\ flags.kinds # <<>> /\ At(flags.kinds, i) # Blank
                       => r.pairs[i].kind = At(flags.kinds, i)
    BY <1>6, <2>1 DEF PairedAs
  <2>8. r.filters = <<>>
    BY <2>1 DEF PairedAs
  <2> QED
    BY <2>2, <2>4, <2>5, <2>6, <2>7, <2>8 DEF AsGiven
<1>9. ASSUME \A i \in DOMAIN ids : ids[i] # Blank, paths = <<>>, filterOnly, r = Filtered(ids)
      PROVE  AsGiven(flags, env, filterOnly, r)
  <2>1. r.error = "none" /\ r.pairs = <<>> /\ r.filters = ids
    BY <1>9 DEF Filtered
  <2>2. flags.homes = <<>>
    BY <1>6, <1>9
  <2> QED
    BY <1>9, <2>1, <2>2 DEF AsGiven
<1>10. AsGiven(flags, env, filterOnly, r)
  BY <1>2, <1>3, <1>4, <1>8, <1>9, RefusedIs
<1> QED
  BY <1>10 DEF r

(***************************************************************************)
(* The parts share nothing: what one of them does alone holds in the whole. *)
(***************************************************************************)
Resolved == call \in Calls /\ request \in {Parsing, Request(call.verb, call.flags, call.env)}
Read == path \in Documents /\ row \in {Unread, Classify(path)}

LEMMA Apart ==
    AllInit /\ [][AllNext]_all
        => /\ C!Init /\ [][C!Next]_charting
           /\ H!Init /\ [][H!Next]_handing
           /\ [][Resolve \/ ReadPath]_reading
<1>1. AllInit => C!Init /\ H!Init
  BY DEF AllInit
<1>2. [AllNext]_all => [C!Next]_charting /\ [H!Next]_handing /\ [Resolve \/ ReadPath]_reading
  <2> SUFFICES ASSUME [AllNext]_all
               PROVE  [C!Next]_charting /\ [H!Next]_handing /\ [Resolve \/ ReadPath]_reading
    OBVIOUS
  <2>1. CASE UNCHANGED all
    BY <2>1, Zenon DEF all
  <2>2. CASE AllNext
    BY <2>2, Zenon DEF AllNext
  <2> QED
    BY <2>1, <2>2
<1> QED
  BY <1>1, <1>2, PTL

LEMMA NoCallIs == NoCall \in Calls
<1> DEFINE plain == [verb |-> "attach", env |-> [home |-> Blank, id |-> Blank],
                     flags |-> [homes |-> <<>>, ids |-> <<>>, labels |-> <<>>, kinds |-> <<>>]]
<1>1. \A S : <<>> \in UpToTwo(S)
  BY DEF UpToTwo
<1>2. plain \in Calls /\ plain.flags.homes = <<>>
  BY <1>1 DEF Calls
<1> QED
  BY <1>2 DEF NoCall

LEMMA ResolvedInit == AllInit => Resolved
BY NoCallIs DEF AllInit, Resolved

LEMMA ResolvedStep == Resolved /\ [Resolve \/ ReadPath]_reading => Resolved'
BY DEF Resolved, Resolve, ReadPath, reading

LEMMA ResolvedIsAsGiven == Resolved => HomesAreAsGiven
<1> SUFFICES ASSUME Resolved PROVE HomesAreAsGiven
  OBVIOUS
<1>1. CASE request = Parsing
  <2>1. request.error # "none" /\ request.pairs = <<>> /\ request.filters = <<>>
    BY <1>1 DEF Parsing, Refused
  <2> QED
    BY <2>1 DEF HomesAreAsGiven, PairsArePositional, EnvironmentIsNotMixed, IdentitiesAreNamed,
                Accepted
<1>2. CASE request = Request(call.verb, call.flags, call.env)
  <2> DEFINE filterOnly == call.verb \in FilterVerbs
  <2>1. /\ call.flags.homes \in Seq(HomeValues) /\ call.flags.ids \in Seq(IdValues)
        /\ call.flags.labels \in Seq(Values) /\ call.flags.kinds \in Seq(Values)
        /\ call.env.home \in {Blank, "homeE"} /\ call.env.id \in {Blank, "idE"}
    BY CallIs DEF Resolved
  <2>2. /\ call.flags.homes \in Seq(Values) /\ call.flags.ids \in Seq(Values)
        /\ call.env.home \in Values /\ call.env.id \in Values
    <3>1. \A S, T : S \subseteq T => Seq(S) \subseteq Seq(T)
      OBVIOUS
    <3>2. HomeValues \subseteq Values /\ IdValues \subseteq Values
      BY DEF Values
    <3>3. {Blank, "homeE"} \subseteq Values /\ {Blank, "idE"} \subseteq Values
      BY DEF Values
    <3> QED
      BY <2>1, <3>1, <3>2, <3>3, Zenon
  <2>3. filterOnly \in BOOLEAN
    OBVIOUS
  <2> HIDE DEF filterOnly
  <2>4. AsGiven(call.flags, call.env, filterOnly, Request(call.verb, call.flags, call.env))
    BY <2>1, <2>2, <2>3, ResolvedAsGiven, Zenon DEF Request, filterOnly
  <2>5. AsGiven(call.flags, call.env, filterOnly, request)
    BY <1>2, <2>4
  <2>6. PairsArePositional
    BY <2>5 DEF AsGiven, PairsArePositional, Accepted, Flags
  <2>7. ASSUME NEW i \in DOMAIN request.pairs
        PROVE  (request.pairs[i].path = "homeE" <=> ~Explicit) /\ (request.pairs[i].id = "idE" <=> ~Explicit)
    <3>1. CASE Explicit
      <4>1. PICK k \in DOMAIN call.flags.homes, m \in DOMAIN call.flags.ids :
               request.pairs[i].path = call.flags.homes[k] /\ request.pairs[i].id = call.flags.ids[m]
        BY <2>5, <3>1 DEF AsGiven, Explicit, Flags
      <4>2. call.flags.homes[k] \in HomeValues /\ call.flags.ids[m] \in IdValues
        BY <2>1, <4>1
      <4> QED
        BY <3>1, <4>1, <4>2, ValueAssumption, Zenon
    <3>2. CASE ~Explicit
      <4>1. /\ request.pairs[i].path = call.env.home /\ call.env.home # Blank
            /\ request.pairs[i].id = call.env.id /\ request.pairs[i].id # Blank
        BY <2>5, <3>2 DEF AsGiven, Explicit, Flags
      <4> QED
        BY <2>1, <3>2, <4>1, Zenon
    <3> QED
      BY <3>1, <3>2
  <2>8. EnvironmentIsNotMixed
    BY <2>7 DEF EnvironmentIsNotMixed
  <2>9. IdentitiesAreNamed
    BY <2>5 DEF AsGiven, IdentitiesAreNamed, Accepted, filterOnly
  <2> QED
    BY <2>6, <2>8, <2>9 DEF HomesAreAsGiven
<1> QED
  BY <1>1, <1>2 DEF Resolved

(***************************************************************************)
(* resolveHomes: the homes of a verb are those it was given.                *)
(***************************************************************************)
THEOREM HomesComeAsGiven == AllSpec => []HomesAreAsGiven
<1>1. AllSpec => []Resolved
  BY Apart, ResolvedInit, ResolvedStep, PTL DEF AllSpec
<1> QED
  BY <1>1, ResolvedIsAsGiven, PTL

(***************************************************************************)
(* What attach and chart print is current: the chart of a quiet database is *)
(* that of the database, and the handoff is of the latest second.           *)
(***************************************************************************)
THEOREM WhatIsPrintedIsCurrent == AllSpec => []PrintedIsCurrent
<1>1. ChartInv => C!TypeOK /\ C!QuietChartIsCurrent
  BY DEF ChartInv, C!TypeOK, ReadsAsIs, C!QuietChartIsCurrent
<1>2. H!Init => H!TypeOK
  BY DEF H!Init, H!TypeOK
<1>3. AllSpec => []ChartInv /\ []H!TypeOK
  BY <1>2, Apart, ChartInit, ChartStep, HandoffTyped, PTL DEF AllSpec
<1>4. ChartInv /\ H!TypeOK => PrintedIsCurrent
  BY <1>1, HandoffIsLate DEF PrintedIsCurrent
<1> QED
  BY <1>3, <1>4, PTL

-----------------------------------------------------------------------------
(***************************************************************************)
(* Families.  A document lies in the root, or in directories with names     *)
(* that a file system gives (none is a dot, two dots or empty).             *)
(***************************************************************************)
Lies(p) ==
    p.dirs = <<>> \/ (TaskIds(p) = {p.dirs[1]} /\ \A i \in DOMAIN p.dirs : p.dirs[i] # "..")

LEMMA NamesApart ==
    /\ WorkingSet = WorkingSetChecked /\ Archives = ArchivesChecked /\ TaskState = TaskStateChecked
    /\ WorkingSet \cap Archives = {} /\ WorkingSet \cap TaskState = {} /\ Archives \cap TaskState = {}
BY DEF WorkingSet, WorkingSetChecked, Archives, ArchivesChecked, TaskState, TaskStateChecked

(***************************************************************************)
(* classify, and what the tables of schema.sql take, for any document.      *)
(***************************************************************************)
THEOREM TablesTakeWhatIsClassified ==
    ASSUME NEW p, Lies(p)
    PROVE  Takes(p, Classify(p)) /\ {t \in Tables : TakesPath(t, p)} = {Classify(p).table}
<1> DEFINE r == Classify(p)
           exact == p.ext = ".md"
<1>1. CASE p.dirs # <<>>
  <2>1. r.table = "task_artifact" /\ r.task = p.dirs[1]
    BY <1>1 DEF Classify, Row
  <2>2. TaskIds(p) = {p.dirs[1]} /\ \A i \in DOMAIN p.dirs : p.dirs[i] # ".."
    BY <1>1 DEF Lies
  <2> HIDE DEF r
  <2>3. TakesPath("task_artifact", p) /\ TakesTask(p, r.task) /\ TakesKind("task_artifact", r.kind)
    BY <1>1, <2>1, <2>2 DEF TakesPath, TakesTask, TakesKind
  <2>4. \A t \in Tables : TakesPath(t, p) => t = "task_artifact"
    BY <1>1 DEF Tables, TakesPath, Listed
  <2> QED
    BY <2>1, <2>3, <2>4 DEF Takes, Tables, r
<1>2. CASE p.dirs = <<>>
  <2>1. r.task = NoTask
    BY <1>2 DEF Classify, Row
  <2>2. /\ exact /\ p.words \in WorkingSet => r.table = "working_set" /\ r.kind = p.words
        /\ exact /\ p.words \in Archives => r.table = "archive" /\ r.kind = p.words
        /\ exact /\ p.words \in TaskState => r.table = "task_state" /\ r.kind = p.words
        /\ ~(exact /\ p.words \in WorkingSet \cup Archives \cup TaskState)
              => r.table = "operational_doc"
    BY <1>2, NamesApart DEF Classify, Row
  <2> HIDE DEF r
  <2>3. /\ TakesPath("working_set", p) <=> exact /\ p.words \in WorkingSet
        /\ TakesPath("archive", p) <=> exact /\ p.words \in Archives
        /\ TakesPath("task_state", p) <=> exact /\ p.words \in TaskState
        /\ TakesPath("operational_doc", p)
              <=> ~(exact /\ p.words \in WorkingSet \cup Archives \cup TaskState)
        /\ ~TakesPath("task_artifact", p)
    BY <1>2, NamesApart DEF TakesPath, Listed, TaskIds
  <2>4. TakesPath(r.table, p) /\ TakesKind(r.table, r.kind) /\ TakesTask(p, r.task)
    BY <1>2, <2>1, <2>2, <2>3, NamesApart DEF TakesKind, TakesTask
  <2>5. \A t \in Tables : TakesPath(t, p) <=> t = r.table
    BY <2>2, <2>3, NamesApart DEF Tables
  <2>6. r.table \in Tables
    BY <2>2 DEF Tables
  <2> QED
    BY <2>4, <2>5, <2>6 DEF Takes, r
<1> QED
  BY <1>1, <1>2

(***************************************************************************)
(* The names of files here: one to four words.                              *)
(***************************************************************************)
LEMMA FileNamesAre ==
    ASSUME NEW words \in FileNames
    PROVE  words \in Seq(Words) /\ Len(words) > 0
<1>1. \/ \E a \in Words : words = <<a>>
      \/ \E a, b \in Words : words = <<a, b>>
      \/ \E a, b, c \in Words : words = <<a, b, c>>
      \/ \E a, b, c, d \in Words : words = <<a, b, c, d>>
  BY DEF FileNames
<1>2. \A a \in Words : <<a>> \in Seq(Words) /\ Len(<<a>>) > 0
  OBVIOUS
<1>3. \A a, b \in Words : <<a, b>> \in Seq(Words) /\ Len(<<a, b>>) > 0
  OBVIOUS
<1>4. \A a, b, c \in Words : <<a, b, c>> \in Seq(Words) /\ Len(<<a, b, c>>) > 0
  OBVIOUS
<1>5. \A a, b, c, d \in Words : <<a, b, c, d>> \in Seq(Words) /\ Len(<<a, b, c, d>>) > 0
  OBVIOUS
<1> QED
  BY <1>1, <1>2, <1>3, <1>4, <1>5, Zenon

LEMMA DocumentsLie == \A p \in Documents : Lies(p)
<1> SUFFICES ASSUME NEW p \in Documents PROVE Lies(p)
  OBVIOUS
<1> DEFINE Plain(name) == name # "" /\ name # "." /\ name # ".."
<1>1. Plain("t1") /\ Plain("notes") /\ Plain("captain")
  BY Zenon
<1>2. p.dirs \in {<<>>, <<"t1">>, <<"t1", "notes">>, <<"captain">>}
  BY DEF Documents
<1> HIDE DEF Plain
<1>3. p.dirs = <<>> \/ (p.dirs # <<>> /\ \A i \in DOMAIN p.dirs : Plain(p.dirs[i]))
  BY <1>1, <1>2
<1>4. p.dirs # <<>> => 1 \in DOMAIN p.dirs
  BY <1>2
<1> QED
  BY <1>3, <1>4, Zenon DEF Lies, TaskIds, Plain

LEMMA NoDocumentIs == NoDocument \in Documents
BY DEF NoDocument, Documents, FileNames, Words

LEMMA ReadInit == AllInit => Read
BY NoDocumentIs DEF AllInit, Read

LEMMA ReadStep == Read /\ [Resolve \/ ReadPath]_reading => Read'
<1> SUFFICES ASSUME Read, [Resolve \/ ReadPath]_reading PROVE Read'
  OBVIOUS
<1>1. path' = path /\ (row' = row \/ row' = Classify(path))
  BY DEF Resolve, ReadPath, reading
<1>2. path' = path => Classify(path)' = Classify(path)
  OBVIOUS
<1> QED
  BY <1>1, <1>2 DEF Read

(***************************************************************************)
(* A document named as a handover has the kind LastHandoff asks for.        *)
(***************************************************************************)
LEMMA HandoverKind ==
    ASSUME NEW words \in FileNames,
           \/ words[1] = "handover"
           \/ Len(words) = 4 /\ words = <<"2026", "07", "14", "handover">>
    PROVE  DocumentKind(words) = "handover" /\ words \notin WorkingSet \cup Archives \cup TaskState
<1>1. CleanKind("handover") = "handover"
  BY WordAssumption, Zenon DEF CleanKind
<1>2. words \in Seq(Words) /\ Len(words) > 0
  BY FileNamesAre
<1>3. CASE words[1] = "handover"
  <2>1. Len(words) >= 4 => SubSeq(words, 1, 3)[1] = "handover"
    BY <1>2, <1>3
  <2>2. ~(Len(words) >= 4 /\ SubSeq(words, 1, 3) \in Dates)
    BY <2>1, WordAssumption
  <2> QED
    BY <1>1, <1>3, <2>2 DEF DocumentKind, WorkingSet, Archives, TaskState
<1>4. CASE words = <<"2026", "07", "14", "handover">>
  <2>1. Len(words) = 4 /\ words[4] = "handover"
    BY <1>4
  <2>2. SubSeq(words, 1, 3) = <<words[1], words[2], words[3]>>
    <3> DEFINE date == <<words[1], words[2], words[3]>>
    <3>1. 1 \in 1 .. 4 /\ 2 \in 1 .. 4 /\ 3 \in 1 .. 4 /\ DOMAIN words = 1 .. 4
      BY <1>2, <2>1
    <3>2. words[1] \in Words /\ words[2] \in Words /\ words[3] \in Words
      BY <1>2, <3>1
    <3>3. date \in Seq(Words) /\ Len(date) = 3 /\ date = [i \in 1 .. 3 |-> date[i]]
      BY <3>2
    <3>4. SubSeq(words, 1, 3) = [i \in 1 .. 3 |-> words[i]]
      BY <1>2, <2>1
    <3>5. \A i \in 1 .. 3 : date[i] = words[i]
      OBVIOUS
    <3> HIDE DEF date
    <3>6. SubSeq(words, 1, 3) = date
      BY <3>3, <3>4, <3>5
    <3> QED
      BY <3>6 DEF date
  <2>3. words[1] = "2026" /\ words[2] = "07" /\ words[3] = "14"
    BY <1>4
  <2>4. SubSeq(words, 1, 3) \in Dates
    BY <2>2, <2>3, WordAssumption
  <2> QED
    BY <1>1, <1>4, <2>1, <2>4 DEF DocumentKind, WorkingSet, Archives, TaskState
<1> QED
  BY <1>3, <1>4

(***************************************************************************)
(* classify, the checks of schema.sql and LastHandoff agree on every        *)
(* document that is read.                                                   *)
(***************************************************************************)
THEOREM FamiliesAlwaysAgree == AllSpec => []FamiliesAgree
<1>1. AllSpec => []Read
  BY Apart, ReadInit, ReadStep, PTL DEF AllSpec
<1>2. Read => FamiliesAgree
  <2> SUFFICES ASSUME path \in Documents, row = Classify(path) PROVE FamiliesAgree
    BY DEF Read, FamiliesAgree, EveryDocumentFits, FamiliesPartition, HandoversAreFound
  <2>1. EveryDocumentFits /\ FamiliesPartition
    BY DocumentsLie, TablesTakeWhatIsClassified DEF EveryDocumentFits, FamiliesPartition
  <2>2. path.words \in FileNames
    BY DEF Documents
  <2>3. HandoversAreFound
    <3> SUFFICES ASSUME \/ path.words[1] = "handover"
                        \/ Len(path.words) = 4 /\ path.words = <<"2026", "07", "14", "handover">>
                 PROVE  row.kind = <<"handover">>
      BY DEF HandoversAreFound
    <3>1. /\ DocumentKind(path.words) = "handover"
          /\ path.words \notin WorkingSet \cup Archives \cup TaskState
      BY <2>2, HandoverKind
    <3> QED
      BY <3>1 DEF Classify, Row
  <2> QED
    BY <2>1, <2>3 DEF FamiliesAgree
<1> QED
  BY <1>1, <1>2, PTL
=============================================================================
