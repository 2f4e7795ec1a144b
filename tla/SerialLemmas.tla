---------------------------- MODULE SerialLemmas ----------------------------
(***************************************************************************)
(* What the proofs about the serial port and its line share: numbers and   *)
(* their binary digits, for bytes of any width, and short sequences.       *)
(***************************************************************************)
EXTENDS Integers, FiniteSetTheorems, FunctionTheorems, SequenceTheorems,
        WellFoundedInduction, TLAPS

-----------------------------------------------------------------------------
(* Numbers and their binary digits                                         *)

\* A set of numbers has a least element.
LEMMA LeastNat ==
  ASSUME NEW T \in SUBSET Nat, T # {}
  PROVE  \E n \in T : \A m \in T : ~(m < n)
<1>1. IsWellFoundedOn(OpToRel(<, Nat), Nat)
  BY NatLessThanWellFounded
<1>2. \E n \in T : \A m \in T : ~(<<m, n>> \in OpToRel(<, Nat))
  BY <1>1, WFMin
<1> QED
  BY <1>2 DEF OpToRel

\* Induction, over a set of numbers.
LEMMA SetInduction ==
  ASSUME NEW T, 0 \in T, \A n \in Nat : n \in T => n + 1 \in T
  PROVE  Nat \subseteq T
<1>1. SUFFICES ASSUME Nat \ T # {} PROVE FALSE
  OBVIOUS
<1>2. PICK n \in Nat \ T : \A m \in Nat \ T : ~(m < n)
  BY <1>1, LeastNat
<1>3. n # 0 /\ n - 1 \in Nat
  BY <1>2
<1>4. n - 1 \in T
  BY <1>2, <1>3
<1> QED
  BY <1>2, <1>3, <1>4

\* What a division comes to.
LEMMA Divided ==
  ASSUME NEW a \in Nat, NEW d \in Nat \ {0}
  PROVE  /\ a \div d \in Nat /\ a % d \in Nat /\ a % d < d
         /\ a = d * (a \div d) + (a % d)
OBVIOUS

\* ... and what comes to it.
LEMMA Quotient ==
  ASSUME NEW a \in Nat, NEW d \in Nat \ {0}, NEW q \in Nat, NEW r \in Nat, r < d,
         a = d * q + r
  PROVE  a \div d = q /\ a % d = r
OBVIOUS

\* A power of two: a set of n + 1 elements has twice the subsets of one of n.
LEMMA Power ==
  ASSUME NEW n \in Nat
  PROVE  2 ^ n \in Nat /\ 2 ^ n > 0 /\ 2 ^ (n + 1) = 2 * 2 ^ n
<1> DEFINE S == 1 .. n
           old == SUBSET S
           new == {X \cup {n + 1} : X \in old}
           f == [X \in old |-> X \cup {n + 1}]
<1>1. IsFiniteSet(S) /\ Cardinality(S) = n
  BY FS_Interval
<1>2. IsFiniteSet(old) /\ Cardinality(old) = 2 ^ n
  <2> HIDE DEF S
  <2> QED BY <1>1, FS_SUBSET
<1>3. Cardinality(old) \in Nat /\ Cardinality(old) # 0
  <2>1. old # {}
    OBVIOUS
  <2> HIDE DEF old
  <2> QED BY <1>2, <2>1, FS_CardinalityType, FS_EmptySet
<1>4. f \in Bijection(old, new)
  <2>1. f \in [old -> new] /\ \A y \in new : \E X \in old : f[X] = y
    OBVIOUS
  <2>2. ASSUME NEW X \in old, NEW Y \in old, f[X] = f[Y] PROVE X = Y
    <3>1. n + 1 \notin X /\ n + 1 \notin Y /\ X \cup {n + 1} = Y \cup {n + 1}
      BY <2>2
    <3> QED BY <3>1
  <2> HIDE DEF f, new, old
  <2> QED BY <2>1, <2>2, Fun_IsBij
<1>5. IsFiniteSet(new) /\ Cardinality(new) = 2 ^ n
  <2>1. ExistsBijection(old, new)
    <3> HIDE DEF f, new, old
    <3> QED BY <1>4 DEF ExistsBijection
  <2> HIDE DEF new, old
  <2> QED BY <1>2, <2>1, FS_Bijection
<1>6. old \cap new = {}
  OBVIOUS
<1>7. SUBSET (1 .. n + 1) = old \cup new
  <2>1. ASSUME NEW X \in SUBSET (1 .. n + 1) PROVE X \in old \cup new
    <3>1. CASE n + 1 \in X
      <4>1. X = (X \ {n + 1}) \cup {n + 1} /\ X \ {n + 1} \in old
        BY <3>1
      <4> QED BY <4>1
    <3>2. CASE n + 1 \notin X
      BY <3>2
    <3> QED BY <3>1, <3>2
  <2>2. ASSUME NEW X \in old
        PROVE  X \in SUBSET (1 .. n + 1) /\ X \cup {n + 1} \in SUBSET (1 .. n + 1)
    OBVIOUS
  <2>3. \A Y \in new : \E X \in old : Y = X \cup {n + 1}
    OBVIOUS
  <2> HIDE DEF old, new
  <2> QED BY <2>1, <2>2, <2>3
<1>8. Cardinality(old \cup new) = 2 ^ n + 2 ^ n
  <2>1. Cardinality({}) = 0
    BY FS_EmptySet
  <2>2. Cardinality(old \cup new) = Cardinality(old) + Cardinality(new) - Cardinality(old \cap new)
    <3> HIDE DEF old, new
    <3> QED BY <1>2, <1>5, FS_Union
  <2> HIDE DEF old, new
  <2> QED BY <1>2, <1>3, <1>5, <1>6, <2>1, <2>2
<1>9. Cardinality(SUBSET (1 .. n + 1)) = 2 ^ (n + 1)
  <2>1. IsFiniteSet(1 .. n + 1) /\ Cardinality(1 .. n + 1) = n + 1
    BY FS_Interval
  <2> QED BY <2>1, FS_SUBSET
<1> HIDE DEF old, new
<1>10. 2 ^ (n + 1) = 2 ^ n + 2 ^ n
  BY <1>7, <1>8, <1>9
<1>11. 2 ^ n \in Nat /\ 2 ^ n # 0
  BY <1>2, <1>3
<1> QED BY <1>10, <1>11

\* The first of them.
LEMMA PowerZero == 2 ^ 0 = 1
OBVIOUS

\* A power to a sum.
LEMMA PowerSum ==
  ASSUME NEW m \in Nat, NEW n \in Nat
  PROVE  2 ^ (m + n) = 2 ^ m * 2 ^ n
<1> DEFINE T == {k \in Nat : 2 ^ (m + k) = 2 ^ m * 2 ^ k}
<1>1. 0 \in T
  <2>1. 2 ^ (m + 0) = 2 ^ m
    BY m + 0 = m
  <2> QED BY <2>1, Power, PowerZero
<1>2. ASSUME NEW k \in Nat, k \in T PROVE k + 1 \in T
  <2>1. 2 ^ (m + (k + 1)) = 2 * 2 ^ (m + k)
    <3>1. m + (k + 1) = (m + k) + 1 /\ m + k \in Nat
      OBVIOUS
    <3> QED BY <3>1, Power
  <2>2. 2 ^ (k + 1) = 2 * 2 ^ k
    BY Power
  <2>3. 2 ^ (m + k) = 2 ^ m * 2 ^ k
    BY <1>2
  <2>4. \A x, y, z \in Nat : x = y * z => 2 * x = y * (2 * z)
    OBVIOUS
  <2>5. 2 ^ m \in Nat /\ 2 ^ k \in Nat /\ 2 ^ (m + k) \in Nat
    BY Power
  <2> QED BY <2>1, <2>2, <2>3, <2>4, <2>5
<1> HIDE DEF T
<1>3. Nat \subseteq T
  BY <1>1, <1>2, SetInduction
<1> QED BY <1>3 DEF T

\* The power, for provers that know too much of it.
Two(n) == 2 ^ n

\* Bit i of a number.
Digit(b, i) == (b \div 2 ^ i) % 2

\* A bit of a half is the next bit of the whole.
LEMMA HalfQuotient ==
  ASSUME NEW b \in Nat, NEW i \in Nat
  PROVE  (b \div 2) \div 2 ^ i = b \div 2 ^ (i + 1)
<1> DEFINE d == 2 ^ i
           q == b \div 2
           p == q \div d
<1>1. d \in Nat \ {0} /\ 2 ^ (i + 1) = 2 * d
  BY Power
<1> HIDE DEF d
<1>2. q \in Nat /\ b = 2 * q + (b % 2) /\ b % 2 \in {0, 1}
  OBVIOUS
<1> HIDE DEF q
<1>3. PICK r \in Nat : p \in Nat /\ r < d /\ q = d * p + r
  BY <1>1, <1>2, Divided
<1>4. PICK e \in {0, 1} : b = 2 * q + e
  BY <1>2
<1> HIDE DEF p
<1> DEFINE s == 2 * r + e
           D == 2 * d
<1>5. s < D /\ s \in Nat /\ D \in Nat \ {0}
  BY <1>1, <1>3
<1>6. b = D * p + s
  <2>1. D * p = 2 * (d * p)
    BY <1>1, <1>3
  <2>2. d * p \in Nat
    BY <1>1, <1>3
  <2> HIDE DEF D
  <2> QED BY <2>1, <2>2, <1>3, <1>4
<1>7. b \div D = p
  <2> HIDE DEF D, s
  <2> QED BY <1>3, <1>5, <1>6, Quotient
<1> QED BY <1>1, <1>7 DEF p, q, d

\* A multiple of the divisor goes through a division.
LEMMA QuotientPlus ==
  ASSUME NEW a \in Nat, NEW d \in Nat \ {0}, NEW k \in Nat
  PROVE  (a + d * k) \div d = (a \div d) + k
<1> DEFINE q == a \div d
<1>1. PICK r \in Nat : q \in Nat /\ r < d /\ a = d * q + r
  BY Divided
<1> HIDE DEF q
<1> DEFINE n == q + k
           c == a + d * k
<1>2. c = d * n + r /\ c \in Nat /\ n \in Nat
  BY <1>1
<1>3. c \div d = n
  <2> HIDE DEF n, c
  <2> QED BY <1>1, <1>2, Quotient
<1> QED BY <1>3 DEF q

\* A shift to the right.
LEMMA Shifted ==
  ASSUME NEW n \in Nat, NEW b \in Nat, b < Two(n + 1), NEW x \in {0, 1},
         NEW s, s = (b \div 2) + x * Two(n)
  PROVE  s \in Nat /\ s < Two(n + 1) /\ Digit(s, n) = x
<1> DEFINE d == 2 ^ n
           q == b \div 2
<1>1. d \in Nat \ {0} /\ Two(n + 1) = 2 * d /\ Two(n) = d
  BY Power DEF Two
<1>2. q \in Nat /\ q < d /\ s = q + d * x /\ s \in Nat
  BY <1>1
<1>3. s < Two(n + 1)
  <2> HIDE DEF d, q
  <2> QED BY <1>1, <1>2
<1>4. Digit(s, n) = x
  <2>1. s \div d = (q \div d) + x
    <3> HIDE DEF d, q
    <3>1. (q + d * x) \div d = (q \div d) + x
      BY <1>1, <1>2, x \in Nat, QuotientPlus
    <3> QED BY <1>2, <3>1
  <2>2. q \div d = 0
    <3> HIDE DEF d, q
    <3>1. q = d * 0 + q
      BY <1>1, <1>2
    <3> QED BY <1>1, <1>2, <3>1, Quotient
  <2>3. s \div d = x
    <3> HIDE DEF d, q
    <3> QED BY <2>1, <2>2
  <2>4. x % 2 = x
    OBVIOUS
  <2>5. Digit(s, n) = (s \div d) % 2
    BY DEF Digit
  <2> QED BY <2>3, <2>4, <2>5
<1> QED BY <1>2, <1>3, <1>4

\* ... and the digits below.
LEMMA ShiftedOn ==
  ASSUME NEW n \in Nat, NEW b \in Nat, b < Two(n + 1), NEW x \in {0, 1},
         NEW s, s = (b \div 2) + x * Two(n), NEW i \in Nat, i < n
  PROVE  Digit(s, i) = Digit(b, i + 1)
<1> DEFINE d == 2 ^ n
           q == b \div 2
<1>1. d \in Nat \ {0} /\ Two(n) = d
  BY Power DEF Two
<1>2. q \in Nat /\ s = q + d * x
  BY <1>1
<1>3. Digit(s, i) = Digit(b, i + 1)
  <2> DEFINE e == 2 ^ i
             h == 2 ^ (n - i - 1)
  <2>1. e \in Nat \ {0} /\ h \in Nat /\ d = e * (2 * h)
    <3>1. n - i - 1 \in Nat /\ n = i + ((n - i - 1) + 1)
      OBVIOUS
    <3>2. 2 ^ n = 2 ^ i * 2 ^ ((n - i - 1) + 1)
      BY <3>1, PowerSum
    <3> QED BY <3>1, <3>2, Power
  <2> HIDE DEF e, h, d
  <2>2. s = q + e * ((2 * h) * x)
    <3>1. (e * (2 * h)) * x = e * ((2 * h) * x)
      BY <2>1
    <3> QED BY <3>1, <2>1, <1>2
  <2>3. s \div e = (q \div e) + (2 * h) * x
    <3> DEFINE k == (2 * h) * x
    <3>1. k \in Nat
      BY <2>1
    <3>2. s = q + e * k
      BY <2>2
    <3> HIDE DEF k, q
    <3>3. (q + e * k) \div e = (q \div e) + k
      BY <3>1, <2>1, <1>2, QuotientPlus
    <3>4. s \div e = (q \div e) + k
      BY <3>2, <3>3
    <3> QED BY <3>4 DEF k
  <2>4. q \div e \in Nat
    <3> HIDE DEF q
    <3> QED BY <1>2, <2>1, Divided
  <2>5. (s \div e) % 2 = (q \div e) % 2
    <3> DEFINE m == q \div e
    <3> HIDE DEF q, m
    <3>1. m \in Nat /\ s \div e = m + (2 * h) * x
      BY <2>3, <2>4 DEF m
    <3>2. (2 * h) * x = 0 \/ (2 * h) * x = 2 * h
      BY <2>1
    <3> QED BY <2>1, <3>1, <3>2 DEF m
  <2>6. q \div e = b \div 2 ^ (i + 1)
    BY HalfQuotient DEF e
  <2> QED BY <2>5, <2>6 DEF Digit, e
<1> QED BY <1>3

\* A number is its digits.
LEMMA SameDigits ==
  ASSUME NEW n \in Nat
  PROVE  \A a, b \in Nat :
           a < Two(n) /\ b < Two(n) /\ (\A i \in Nat : i < n => Digit(a, i) = Digit(b, i))
           => a = b
<1> DEFINE Same(m) ==
      \A a, b \in Nat :
           a < Two(m) /\ b < Two(m) /\ (\A i \in Nat : i < m => Digit(a, i) = Digit(b, i))
           => a = b
           T == {m \in Nat : Same(m)}
<1>1. 0 \in T
  BY PowerZero DEF Two
<1>2. ASSUME NEW m \in Nat, m \in T PROVE m + 1 \in T
  <2> SUFFICES ASSUME NEW a \in Nat, NEW b \in Nat, a < Two(m + 1), b < Two(m + 1),
                      \A i \in Nat : i < m + 1 => Digit(a, i) = Digit(b, i)
               PROVE  a = b
    OBVIOUS
  <2>1. Two(m) \in Nat /\ Two(m + 1) = 2 * Two(m)
    BY Power DEF Two
  <2>2. a \div 2 \in Nat /\ b \div 2 \in Nat /\ a \div 2 < Two(m) /\ b \div 2 < Two(m)
    BY <2>1
  <2>3. \A i \in Nat : i < m => Digit(a \div 2, i) = Digit(b \div 2, i)
    <3> SUFFICES ASSUME NEW i \in Nat, i < m PROVE Digit(a \div 2, i) = Digit(b \div 2, i)
      OBVIOUS
    <3>1. Digit(a, i + 1) = Digit(b, i + 1)
      OBVIOUS
    <3> QED BY <3>1, HalfQuotient DEF Digit
  <2>4. a \div 2 = b \div 2
    BY <1>2, <2>2, <2>3
  <2>5. a % 2 = b % 2
    <3>1. Digit(a, 0) = Digit(b, 0)
      OBVIOUS
    <3> QED BY <3>1, PowerZero DEF Digit
  <2> QED BY <2>4, <2>5
<1> HIDE DEF T
<1>3. Nat \subseteq T
  BY <1>1, <1>2, SetInduction
<1> QED BY <1>3 DEF T

-----------------------------------------------------------------------------
(* Short sequences                                                         *)

\* Sequences of one byte and of two.
LEMMA Joined ==
  /\ \A a, b : <<a>> \o <<b>> = <<a, b>>
  /\ \A a, b : Len(<<a>>) = 1 /\ Head(<<a>>) = a /\ Tail(<<a>>) = <<>> /\ Append(<<a>>, b) = <<a, b>>
  /\ \A a, b : Head(<<a, b>>) = a /\ Tail(<<a, b>>) = <<b>> /\ <<a, b>> # <<>> /\ <<a>> # <<>>
  /\ \A a : Append(<<>>, a) = <<a>> /\ <<>> \o <<a>> = <<a>> /\ <<a>> \o <<>> = <<a>>
  /\ <<>> \o <<>> = <<>> /\ Len(<<>>) = 0
<1>1. ASSUME NEW a, NEW b PROVE <<a>> \o <<b>> = <<a, b>>
  <2> DEFINE S == {a, b}
             p == <<a>> \o <<b>>
             q == <<a, b>>
  <2>1. <<a>> \in Seq(S) /\ <<b>> \in Seq(S) /\ Len(<<a>>) = 1 /\ Len(<<b>>) = 1
    OBVIOUS
  <2>2. p \in Seq(S) /\ Len(p) = 2 /\ p[1] = <<a>>[1] /\ p[2] = <<b>>[1]
    BY <2>1, ConcatProperties
  <2>3. q \in Seq(S) /\ Len(q) = 2 /\ q[1] = a /\ q[2] = b
    OBVIOUS
  <2>4. \A i \in 1 .. Len(p) : p[i] = q[i]
    <3> HIDE DEF p, q
    <3>1. \A i \in 1 .. 2 : i = 1 \/ i = 2
      OBVIOUS
    <3> QED BY <2>2, <2>3, <3>1
  <2> HIDE DEF p, q, S
  <2>5. p = q
    BY <2>2, <2>3, <2>4, SeqEqual
  <2> QED BY <2>5 DEF p, q
<1>2. \A a, b : Len(<<a>>) = 1 /\ Head(<<a>>) = a /\ Tail(<<a>>) = <<>>
  OBVIOUS
<1>3. ASSUME NEW a, NEW b PROVE Append(<<a>>, b) = <<a, b>>
  <2>1. <<a>> \in Seq({a, b}) /\ b \in {a, b}
    OBVIOUS
  <2>2. Append(<<a>>, b) = <<a>> \o <<b>>
    BY <2>1, AppendIsConcat
  <2> QED BY <1>1, <2>2
<1>4. \A a, b : Head(<<a, b>>) = a /\ <<a, b>> # <<>> /\ <<a>> # <<>>
  OBVIOUS
<1>5. \A a, b : Tail(<<a, b>>) = <<b>>
  OBVIOUS
<1>6. \A a : Append(<<>>, a) = <<a>>
  OBVIOUS
<1>7. \A a : <<>> \o <<a>> = <<a>> /\ <<a>> \o <<>> = <<a>>
  OBVIOUS
<1>8. <<>> \o <<>> = <<>> /\ Len(<<>>) = 0
  OBVIOUS
<1> QED BY <1>1, <1>2, <1>3, <1>4, <1>5, <1>6, <1>7, <1>8

=============================================================================
