--------------------------- MODULE WebServer_proofs ---------------------------
(***************************************************************************)
(* Theorems about the web server, for every page, piece length, timeout    *)
(* and number space, every set of hosts and pings, whatever the network    *)
(* loses, duplicates, damages and reorders: what a browser reads is the    *)
(* page, only what was sent is acknowledged, a standstill has one of the   *)
(* three causes, and an echo is true.                                      *)
(***************************************************************************)
EXTENDS WebServer, SequenceTheorems, FiniteSetTheorems, WellFoundedInduction, TLAPS

-----------------------------------------------------------------------------
(* What the sums of Checksum come to, for packets of any length: a sum and *)
(* its folded complement verify, and the reply to a ping is a true echo.   *)
(* What the recursive function adds up is found by induction over sets of  *)
(* numbers, each from the least element of a set.                          *)

\* What a sequence of bytes is made of.
Byte == 0 .. 255

\* A set of numbers has a least element.
LEMMA LeastNat ==
  ASSUME NEW T \in SUBSET Nat, T # {}
  PROVE  \E n \in T : \A m \in T : ~(m < n)
<1>1. IsWellFoundedOn(OpToRel(<, Nat), Nat)
  BY NatLessThanWellFounded
<1>2. \E n \in T : \A m \in T : ~(<<m, n>> \in OpToRel(<, Nat))
  BY <1>1, WFMin
<1> QED
  BY <1>2 DEF OpToRel

\* Induction, over a set of numbers.
LEMMA SetInduction ==
  ASSUME NEW T, 0 \in T, \A n \in Nat : n \in T => n + 1 \in T
  PROVE  Nat \subseteq T
<1>1. SUFFICES ASSUME Nat \ T # {} PROVE FALSE
  OBVIOUS
<1>2. PICK n \in Nat \ T : \A m \in Nat \ T : ~(m < n)
  BY <1>1, LeastNat
<1>3. n # 0 /\ n - 1 \in Nat
  BY <1>2
<1>4. n - 1 \in T
  BY <1>2, <1>3
<1> QED
  BY <1>2, <1>3, <1>4

\* How many words the bytes fill.
NWords(bytes) == (Len(bytes) + 1) \div 2
\* up[n] is the sum of the first n words.
AddsUp(up, bytes) ==
  up = [n \in 0 .. NWords(bytes) |-> IF n = 0 THEN 0 ELSE up[n - 1] + Word(bytes, 2 * n - 1)]

\* A byte is a number below 256.
LEMMA ByteType == \A x \in Byte : x \in Nat /\ x <= 255
  BY DEF Byte

\* A word of bytes is a number of sixteen bits.
LEMMA WordType ==
  ASSUME NEW bytes \in Seq(Byte), NEW n \in 1 .. NWords(bytes)
  PROVE  Word(bytes, 2 * n - 1) \in Nat /\ Word(bytes, 2 * n - 1) <= 65535
<1>1. Len(bytes) \in Nat /\ 2 * n - 1 \in 1 .. Len(bytes)
  BY LenProperties DEF NWords
<1>2. bytes[2 * n - 1] \in Byte
  BY <1>1, ElementOfSeq
<1>3. 2 * n <= Len(bytes) => bytes[2 * n] \in Byte
  BY <1>1, ElementOfSeq
<1>4. (2 * n - 1) + 1 = 2 * n
  BY <1>1
<1>5. Word(bytes, 2 * n - 1) =
        256 * bytes[2 * n - 1] + (IF 2 * n <= Len(bytes) THEN bytes[2 * n] ELSE 0)
  BY <1>4 DEF Word
<1>6. bytes[2 * n - 1] \in Nat /\ bytes[2 * n - 1] <= 255
  BY <1>2, ByteType
<1>7. CASE 2 * n <= Len(bytes)
  <2>1. bytes[2 * n] \in Nat /\ bytes[2 * n] <= 255
    BY <1>3, <1>7, ByteType
  <2> QED
    BY SMTT(30), <1>5, <1>6, <1>7, <2>1
<1>8. CASE ~(2 * n <= Len(bytes))
  BY <1>5, <1>6, <1>8
<1> QED
  BY <1>7, <1>8

\* There is such a function.
LEMMA SumExists ==
  ASSUME NEW bytes \in Seq(Byte)
  PROVE  \E up : AddsUp(up, bytes)
<1> DEFINE N == NWords(bytes)
           w(n) == Word(bytes, 2 * n - 1)
           Upto(f, n) == f = [m \in 0 .. n |-> IF m = 0 THEN 0 ELSE f[m - 1] + w(m)]
           T == {n \in Nat : \E f : Upto(f, n)}
<1>1. 0 \in T
  <2>1. Upto([m \in 0 .. 0 |-> 0], 0)
    OBVIOUS
  <2> QED
    BY <2>1
<1>2. ASSUME NEW n \in Nat, n \in T
      PROVE  n + 1 \in T
  <2>1. PICK f : Upto(f, n)
    BY <1>2
  <2> DEFINE g == [m \in 0 .. n + 1 |-> IF m = n + 1 THEN f[n] + w(n + 1) ELSE f[m]]
  <2> HIDE DEF w
  <2>2. \A m \in 0 .. n : f[m] = IF m = 0 THEN 0 ELSE f[m - 1] + w(m)
    BY <2>1
  <2>3. ASSUME NEW m \in 0 .. n + 1 PROVE g[m] = IF m = 0 THEN 0 ELSE g[m - 1] + w(m)
    <3>1. CASE m = n + 1
      BY <3>1
    <3>2. CASE m # n + 1
      <4>1. m \in 0 .. n /\ (m # 0 => m - 1 \in 0 .. n)
        BY <3>2
      <4> QED
        BY <2>2, <3>2, <4>1
    <3> QED
      BY <3>1, <3>2
  <2>4. Upto(g, n + 1)
    BY <2>3
  <2> HIDE DEF g
  <2> QED
    BY <2>4
<1>3. N \in Nat
  BY LenProperties DEF NWords
<1>4. N \in T
  BY <1>1, <1>2, <1>3, SetInduction
<1> QED
  BY <1>4 DEF AddsUp

\* A sum of m words and one more.
LEMMA OneMoreWord ==
  ASSUME NEW m \in Nat, NEW x \in 0 .. 65535 * m, NEW y \in Nat, y <= 65535
  PROVE  x + y \in 0 .. 65535 * (m + 1)
  OBVIOUS

\* It is a sum of numbers of sixteen bits.
LEMMA SumType ==
  ASSUME NEW bytes \in Seq(Byte), NEW up, AddsUp(up, bytes), NEW n \in 0 .. NWords(bytes)
  PROVE  up[n] \in 0 .. 65535 * n
<1> DEFINE N == NWords(bytes)
           T == {m \in Nat : m <= N => up[m] \in 0 .. 65535 * m}
<1>0. N \in Nat
  BY LenProperties DEF NWords
<1>1. 0 \in T
  BY <1>0 DEF AddsUp
<1>2. ASSUME NEW m \in Nat, m \in T
      PROVE  m + 1 \in T
  <2>1. SUFFICES ASSUME m + 1 <= N PROVE up[m + 1] \in 0 .. 65535 * (m + 1)
    OBVIOUS
  <2>2. m \in 0 .. N /\ m + 1 \in 1 .. N
    BY <1>0, <2>1
  <2>3. up[m] \in 0 .. 65535 * m
    BY <1>2, <2>2
  <2>4. up[m + 1] = up[m] + Word(bytes, 2 * (m + 1) - 1)
    BY <2>2 DEF AddsUp
  <2>5. Word(bytes, 2 * (m + 1) - 1) \in Nat /\ Word(bytes, 2 * (m + 1) - 1) <= 65535
    BY <2>2, WordType
  <2> QED
    BY <2>3, <2>4, <2>5, OneMoreWord
<1>3. n \in Nat /\ n <= N
  BY <1>0
<1> HIDE DEF T
<1>4. n \in T
  BY <1>1, <1>2, <1>3, SetInduction
<1> QED
  BY <1>3, <1>4 DEF T

\* It is the only one, the one that the program adds up.
LEMMA SumIs ==
  ASSUME NEW bytes \in Seq(Byte), NEW up, AddsUp(up, bytes)
  PROVE  SumOfWords(bytes) = up[NWords(bytes)]
<1> DEFINE N == NWords(bytes)
           F == CHOOSE f : AddsUp(f, bytes)
           T == {m \in Nat : m <= N => up[m] = F[m]}
<1>0. N \in Nat
  BY LenProperties DEF NWords
<1>1. AddsUp(F, bytes)
  OBVIOUS
<1>2. SumOfWords(bytes) = F[N]
  BY DEF SumOfWords, AddsUp, NWords
<1> HIDE DEF F
<1>3. 0 \in T
  BY <1>0, <1>1 DEF AddsUp
<1>4. ASSUME NEW m \in Nat, m \in T
      PROVE  m + 1 \in T
  <2>1. SUFFICES ASSUME m + 1 <= N PROVE up[m + 1] = F[m + 1]
    OBVIOUS
  <2>2. m \in 0 .. N /\ m + 1 \in 1 .. N
    BY <1>0, <2>1
  <2>3. up[m] = F[m]
    BY <1>4, <2>2
  <2>4. up[m + 1] = up[m] + Word(bytes, 2 * (m + 1) - 1)
    BY <2>2 DEF AddsUp
  <2>5. F[m + 1] = F[m] + Word(bytes, 2 * (m + 1) - 1)
    BY <1>1, <2>2 DEF AddsUp
  <2> QED
    BY <2>3, <2>4, <2>5
<1>5. N \in T
  BY <1>0, <1>3, <1>4, SetInduction
<1> QED
  BY <1>0, <1>2, <1>5

\* The sum of all the words, and how large it gets.
LEMMA SumOfWordsType ==
  ASSUME NEW bytes \in Seq(Byte)
  PROVE  SumOfWords(bytes) \in Nat /\ SumOfWords(bytes) <= 65535 * NWords(bytes)
<1>1. PICK up : AddsUp(up, bytes)
  BY SumExists
<1>2. NWords(bytes) \in Nat
  BY LenProperties DEF NWords
<1>3. up[NWords(bytes)] \in 0 .. 65535 * NWords(bytes)
  BY <1>1, <1>2, SumType
<1> QED
  BY <1>1, <1>2, <1>3, SumIs

\* A fold changes a sum by a multiple of 65535.
LEMMA FoldCongruent ==
  \A n \in Int : fold(n) \in Int /\ \E q \in Int : fold(n) = n - 65535 * q
  BY DEF fold

\* A sum and its folded complement verify.
LEMMA FoldedVerifies ==
  ASSUME NEW n \in Int
  PROVE  Folded(n) \in Int /\ Verifies(n + Folded(n))
<1>1. fold(n) \in Int /\ fold(fold(n)) \in Int
  BY FoldCongruent
<1> DEFINE m == fold(n)
<1>2. PICK p \in Int : m = n - 65535 * p
  BY FoldCongruent
<1>a. m \in Int
  BY <1>1
<1> HIDE DEF m
<1>3. PICK q \in Int : fold(m) = m - 65535 * q
  BY <1>a, FoldCongruent
<1>4. n + Folded(n) = 65535 * (1 + p + q)
  BY <1>2, <1>3 DEF Folded, m
<1>5. (65535 * (1 + p + q)) % 65535 = 0
  BY <1>4
<1> QED
  BY <1>1, <1>4, <1>5 DEF Verifies, Folded

\* The complement of a sum below 2^32 has sixteen bits.
LEMMA FoldedType ==
  ASSUME NEW n \in Nat, n < 4294967296
  PROVE  Folded(n) \in Nat /\ Folded(n) <= 65535
<1>1. fold(n) \in Nat /\ fold(n) <= 131070
  BY DEF fold
<1>2. fold(fold(n)) \in Nat /\ fold(fold(n)) <= 65535
  BY <1>1 DEF fold
<1> QED
  BY <1>2 DEF Folded

\* Two bytes hold sixteen bits.
LEMMA Int2mem2Type ==
  ASSUME NEW n \in Nat, n <= 65535
  PROVE  /\ int2mem2(n)[1] \in Byte /\ int2mem2(n)[2] \in Byte
         /\ 256 * int2mem2(n)[1] + int2mem2(n)[2] = n
<1>1. int2mem2(n)[1] = MSB(n) /\ int2mem2(n)[2] = LSB(n)
  BY DEF int2mem2
<1>2. MSB(n) \in Byte /\ LSB(n) \in Byte
  BY DEF MSB, LSB, Byte
<1>3. 256 * MSB(n) + LSB(n) = n
  BY DEF MSB, LSB
<1> QED
  BY <1>1, <1>2, <1>3

\* The second word of the bytes is what bytes 3 and 4 say.
LEMMA ChecksumBytes ==
  ASSUME NEW x \in Seq(Byte), NEW y \in Seq(Byte), Len(x) >= 4, Len(y) = Len(x),
         y[3] = 0, y[4] = 0,
         \A i \in 1 .. Len(x) : i \notin {3, 4} => x[i] = y[i]
  PROVE  SumOfWords(x) = SumOfWords(y) + 256 * x[3] + x[4]
<1> DEFINE N == NWords(x)
           a == x[3]
           b == x[4]
<1>0. Len(x) \in Nat /\ N \in Nat /\ N >= 2 /\ a \in Byte /\ b \in Byte
  BY LenProperties, ElementOfSeq DEF NWords
<1> HIDE DEF a, b
<1>1. x \in Seq(Byte) /\ y \in Seq(Byte)
  OBVIOUS
<1>3. NWords(x) = N /\ NWords(y) = N
  BY DEF NWords
<1>4. PICK up : AddsUp(up, y)
  BY <1>1, SumExists
<1> DEFINE more == 256 * a + b
           up2 == [n \in 0 .. N |-> IF n >= 2 THEN up[n] + more ELSE up[n]]
<1>5. ASSUME NEW n \in 1 .. N
      PROVE  Word(x, 2 * n - 1) = Word(y, 2 * n - 1) + (IF n = 2 THEN more ELSE 0)
  <2>1. n \in Nat /\ 2 * n - 1 \in 1 .. Len(x)
    BY <1>0 DEF NWords
  <2>2. /\ Word(x, 2 * n - 1) = 256 * x[2 * n - 1] + (IF 2 * n <= Len(x) THEN x[2 * n] ELSE 0)
        /\ Word(y, 2 * n - 1) = 256 * y[2 * n - 1] + (IF 2 * n <= Len(x) THEN y[2 * n] ELSE 0)
    <3>1. (2 * n - 1) + 1 = 2 * n
      BY <2>1
    <3> QED
      BY <3>1 DEF Word
  <2>3. CASE n = 2
    <3>1. x[3] = a /\ x[4] = b /\ y[3] = 0 /\ y[4] = 0
      BY DEF a, b
    <3>4. 2 * n - 1 = 3 /\ 2 * n = 4 /\ 4 <= Len(x)
      BY <1>0, <2>3 DEF NWords
    <3>5. Word(x, 2 * n - 1) = 256 * x[3] + x[4] /\ Word(y, 2 * n - 1) = 256 * y[3] + y[4]
      BY <2>2, <3>4
    <3>2. Word(x, 2 * n - 1) = 256 * a + b /\ Word(y, 2 * n - 1) = 0
      BY <3>1, <3>5
    <3>3. a \in Nat /\ b \in Nat
      BY <1>0, ByteType
    <3> QED
      BY <2>3, <3>2, <3>3
  <2>4. CASE n # 2
    <3>1. x[2 * n - 1] = y[2 * n - 1] /\ (2 * n <= Len(x) => x[2 * n] = y[2 * n])
      <4>1. 2 * n - 1 \notin {3, 4} /\ 2 * n \notin {3, 4}
        BY <2>1, <2>4
      <4>2. 2 * n <= Len(x) => 2 * n \in 1 .. Len(x)
        BY <1>0, <2>1
      <4> QED
        BY <2>1, <4>1, <4>2
    <3>2. ASSUME NEW i \in 1 .. Len(x) PROVE x[i] \in Nat
      BY <1>1, ElementOfSeq, ByteType
    <3> QED
      <4>1. Word(x, 2 * n - 1) = Word(y, 2 * n - 1)
        BY <2>2, <3>1
      <4>2. x[2 * n - 1] \in Nat /\ (2 * n <= Len(x) => x[2 * n] \in Nat)
        <5> DEFINE odd == 2 * n - 1
                   even == 2 * n
        <5>1. odd \in 1 .. Len(x) /\ (even <= Len(x) => even \in 1 .. Len(x))
          BY <1>0, <2>1
        <5> HIDE DEF odd, even
        <5>2. x[odd] \in Nat /\ (even <= Len(x) => x[even] \in Nat)
          BY <3>2, <5>1
        <5> QED
          BY <5>2 DEF odd, even
      <4>3. Word(x, 2 * n - 1) \in Int
        BY <2>2, <4>2
      <4> QED
        BY <2>4, <4>1, <4>3
  <2> QED
    BY <2>3, <2>4
<1>6. more \in Nat /\ \A n \in 0 .. N : up[n] \in Nat
  <2>1. ASSUME NEW n \in 0 .. N PROVE up[n] \in 0 .. 65535 * n
    BY <1>1, <1>3, <1>4, SumType
  <2>2. a \in Nat /\ b \in Nat
    BY <1>0, ByteType
  <2> QED
    BY <2>1, <2>2
<1>7. \A n \in 0 .. N : up[n] = IF n = 0 THEN 0 ELSE up[n - 1] + Word(y, 2 * n - 1)
  BY <1>3, <1>4 DEF AddsUp
<1>8. ASSUME NEW n \in 1 .. N
      PROVE  Word(y, 2 * n - 1) \in Nat
  BY <1>1, <1>3, WordType
<1>9. ASSUME NEW n \in 0 .. N
      PROVE  up2[n] = IF n = 0 THEN 0 ELSE up2[n - 1] + Word(x, 2 * n - 1)
  <2> HIDE DEF more, N
  <2>1. CASE n = 0
    BY <1>0, <1>7, <2>1
  <2>2. CASE n # 0
    <3>1. n - 1 \in 0 .. N /\ n \in 1 .. N /\ n \in Nat
      BY <1>0, <2>2
    <3>2. up[n] = up[n - 1] + Word(y, 2 * n - 1) /\ up[n - 1] \in Nat /\ Word(y, 2 * n - 1) \in Nat
      BY <1>6, <1>7, <1>8, <2>2, <3>1
    <3>3. Word(x, 2 * n - 1) = Word(y, 2 * n - 1) + (IF n = 2 THEN more ELSE 0)
      BY <1>5, <3>1
    <3> QED
      BY SMTT(30), <1>6, <2>2, <3>1, <3>2, <3>3
  <2> QED
    BY <2>1, <2>2
<1>10. AddsUp(up2, x)
  BY <1>3, <1>9 DEF AddsUp
<1>11. SumOfWords(x) = up2[N] /\ SumOfWords(y) = up[N]
  BY <1>1, <1>3, <1>4, <1>10, SumIs
<1>12. up2[N] = up[N] + more
  BY <1>0
<1> HIDE DEF more, up2
<1>13. SumOfWords(x) = SumOfWords(y) + more
  BY <1>11, <1>12
<1>14. SumOfWords(y) \in Nat
  BY <1>1, SumOfWordsType
<1>15. SumOfWords(x) = SumOfWords(y) + 256 * a + b
  BY <1>0, <1>13, <1>14, ByteType DEF more
<1> QED
  BY <1>15 DEF a, b

\* The reply to a ping repeats it, under a checksum that verifies.
LEMMA EchoReplyRepeats ==
  ASSUME NEW request \in Seq(Byte), Len(request) \in Nat, Len(request) >= 8, Len(request) <= 1480
  PROVE  Repeats(EchoReply(request), request)
<1> DEFINE buf == <<ICMP_TYPE_ECHO_REPLY, 0>> \o SubSeq(request, 3, Len(request))
           cleared == [buf EXCEPT ![3] = 0, ![4] = 0]
           n == Folded(SumOfWords(cleared))
           sum == int2mem2(n)
           reply == [buf EXCEPT ![3] = sum[1], ![4] = sum[2]]
<1>1. 0 \in Byte
  BY DEF Byte
<1>2. /\ SubSeq(request, 3, Len(request)) \in Seq(Byte)
      /\ Len(SubSeq(request, 3, Len(request))) = Len(request) - 2
      /\ \A i \in 1 .. Len(request) - 2 : SubSeq(request, 3, Len(request))[i] = request[i + 2]
  <2>1. ASSUME NEW i \in 3 .. Len(request) PROVE request[i] \in Byte
    BY ElementOfSeq
  <2> QED
    BY <2>1, SubSeqProperties
<1>3. <<ICMP_TYPE_ECHO_REPLY, 0>> \in Seq(Byte) /\ Len(<<ICMP_TYPE_ECHO_REPLY, 0>>) = 2
  BY <1>1 DEF ICMP_TYPE_ECHO_REPLY
<1>4. /\ buf \in Seq(Byte) /\ Len(buf) = Len(request)
      /\ \A i \in 1 .. Len(request) :
           buf[i] = IF i <= 2 THEN <<ICMP_TYPE_ECHO_REPLY, 0>>[i] ELSE request[i]
  <2> DEFINE s == <<ICMP_TYPE_ECHO_REPLY, 0>>
             t == SubSeq(request, 3, Len(request))
  <2> HIDE DEF s, t
  <2>1. /\ s \o t \in Seq(Byte) /\ Len(s \o t) = Len(request)
        /\ \A i \in 1 .. Len(request) : (s \o t)[i] = IF i <= 2 THEN s[i] ELSE t[i - 2]
    BY <1>2, <1>3, ConcatProperties DEF s, t
  <2>2. ASSUME NEW i \in 1 .. Len(request), ~(i <= 2) PROVE t[i - 2] = request[i]
    BY <1>2, <2>2 DEF t
  <2> QED
    BY <2>1, <2>2 DEF s, t
<1>5. buf[1] = ICMP_TYPE_ECHO_REPLY
  BY <1>4
<1> HIDE DEF buf
<1>6. cleared \in Seq(Byte) /\ Len(cleared) = Len(request)
  BY <1>1, <1>4
<1>7. NWords(cleared) <= 741
  BY <1>6 DEF NWords
<1>8. SumOfWords(cleared) \in Nat /\ SumOfWords(cleared) < 4294967296
  <2> DEFINE N == NWords(cleared)
  <2>2. N \in Nat
    BY <1>6 DEF NWords
  <2> HIDE DEF N, cleared
  <2>1. SumOfWords(cleared) \in Nat /\ SumOfWords(cleared) <= 65535 * N
    BY <1>6, SumOfWordsType DEF N
  <2>3. 65535 * N < 4294967296
    BY SMT, <1>7, <2>2 DEF N
  <2> QED
    BY SMT, <2>1, <2>2, <2>3 DEF N
<1>9. n \in Nat /\ n <= 65535 /\ Verifies(SumOfWords(cleared) + n)
  BY SMT, <1>8, FoldedType, FoldedVerifies
<1>10. sum[1] \in Byte /\ sum[2] \in Byte /\ 256 * sum[1] + sum[2] = n
  BY <1>9, Int2mem2Type
<1> HIDE DEF n, sum
<1>11. SumOfWords(reply) = SumOfWords(cleared) + 256 * sum[1] + sum[2]
  <2>1. reply \in Seq(Byte) /\ cleared \in Seq(Byte)
    BY <1>1, <1>4, <1>10
  <2>2. Len(reply) = Len(request) /\ Len(cleared) = Len(request)
    BY <1>4
  <2>3. reply[3] = sum[1] /\ reply[4] = sum[2] /\ cleared[3] = 0 /\ cleared[4] = 0
    BY <1>4
  <2>4. \A i \in 1 .. Len(request) : i \notin {3, 4} => reply[i] = cleared[i]
    BY <1>4
  <2> HIDE DEF reply, cleared
  <2> QED
    BY <2>1, <2>2, <2>3, <2>4, ChecksumBytes
<1>12. SumOfWords(reply) = SumOfWords(cleared) + n
  <2>1. sum[1] \in Nat /\ sum[2] \in Nat
    BY <1>10, ByteType
  <2> HIDE DEF reply, cleared
  <2> QED
    BY SMTT(30), <1>8, <1>9, <1>10, <1>11, <2>1
<1>13. /\ reply \in Seq(Byte) /\ Len(reply) = Len(request) /\ reply[1] = ICMP_TYPE_ECHO_REPLY
       /\ \A i \in 5 .. Len(request) : reply[i] = request[i]
  BY <1>4, <1>5, <1>10
<1>14. EchoReply(request) = reply
  BY DEF EchoReply, icmp_checksum, buf, n, sum
<1> HIDE DEF reply
<1>15. SubSeq(reply, 5, Len(reply)) = SubSeq(request, 5, Len(request))
  BY <1>13
<1> QED
  BY <1>9, <1>12, <1>13, <1>14, <1>15 DEF Repeats

-----------------------------------------------------------------------------
(* Sequence numbers, and the places of the page at which a piece begins.   *)

\* The page fits into half the number space.
LEMMA LengthType ==
  /\ MYDATA_LENGTH \in Nat /\ MYDATA_LENGTH = Len(MYDATA)
  /\ SeqSpace \in Nat /\ SeqSpace > 2006 + 2 * MYDATA_LENGTH
  BY TcpAssumption, LenProperties DEF MYDATA_LENGTH, INIT_SEQ

\* A number of the space is itself.
LEMMA ModSmall ==
  ASSUME NEW n \in 0 .. SeqSpace - 1
  PROVE  Mod(n) = n
  BY LengthType DEF Mod

\* Every number lands in the space.
LEMMA ModType ==
  ASSUME NEW n \in Int
  PROVE  Mod(n) \in 0 .. SeqSpace - 1
  BY LengthType DEF Mod

\* A browser's numbers wrap around behind the first.
LEMMA BrowsersNumbers ==
  /\ ISS \in Nat /\ Mod(ISS) = ISS /\ ISS > 2
  /\ Mod(ISS + 1) = 0 /\ Mod(ISS + 2) = 1 /\ Mod(ISS + 1 + Len(Request)) = 1
  /\ Len(Request) = 1 /\ Request # <<>> /\ Request \in Seq(Byte)
<1>1. Len(Request) = 1 /\ Request # <<>> /\ Request \in Seq(Byte)
  BY DEF Request, Byte
<1>2. ISS \in Nat /\ Mod(ISS) = ISS /\ ISS > 2 /\ Mod(ISS + 1) = 0 /\ Mod(ISS + 2) = 1
  BY LengthType DEF ISS, Mod
<1>3. ISS + 1 + Len(Request) = ISS + 2
  BY <1>1, <1>2
<1> QED
  BY <1>1, <1>2, <1>3

\* The number of the byte behind the first k of the page.
At(k) == INIT_SEQ + 1 + k

\* It stands for itself, and no two places have the same one.
LEMMA AtType ==
  ASSUME NEW k \in Nat, k <= MYDATA_LENGTH + 1
  PROVE  At(k) \in Nat /\ At(k) > INIT_SEQ /\ Mod(At(k)) = At(k) /\ At(k) # 0
  BY LengthType DEF At, Mod, INIT_SEQ

\* PosOf finds the place again; number 0 is no place at all.
LEMMA PosOfAt ==
  ASSUME NEW s
  PROVE  /\ \A k \in Nat : k <= MYDATA_LENGTH + 1 /\ s.ack = At(k) => PosOf(s) = k
         /\ s.ack = 0 => PosOf(s) < 0
<1>1. ASSUME NEW k \in Nat, k <= MYDATA_LENGTH + 1, s.ack = At(k)
      PROVE  PosOf(s) = k
  <2>1. s.ack - (INIT_SEQ + 1) = k
    BY <1>1 DEF At, INIT_SEQ
  <2>2. Mod(k) = k /\ 2 * k < SeqSpace
    BY <1>1, LengthType DEF Mod
  <2> QED
    BY <1>1, <2>1, <2>2, LengthType DEF PosOf, Signed
<1>2. ASSUME s.ack = 0
      PROVE  PosOf(s) < 0
  BY <1>2, LengthType DEF PosOf, Signed, Mod, INIT_SEQ
<1> QED
  BY <1>1, <1>2

\* The acknowledgement in a SYN is before the page.
LEMMA SynPos ==
  ASSUME NEW s, s.ack = 0
  PROVE  PosOf(s) \in Int
  BY LengthType DEF PosOf, Signed, Mod, INIT_SEQ

\* How far behind a browser's first number the server's acknowledgements are.
LEMMA SignedAcks ==
  Signed(ISS - ISS) = 0 /\ Signed(0 - ISS) = 1 /\ Signed(1 - ISS) = 2
  BY LengthType DEF Signed, Mod, ISS

\* Where a piece begins, and the end of the page.
Places == {k \in 0 .. MYDATA_LENGTH : k = MYDATA_LENGTH \/ k % CHUNK_LEN = 0}

\* The multiples of the length of a piece.
LEMMA Multiple ==
  ASSUME NEW k \in Nat, NEW q \in Nat
  PROVE  /\ k % CHUNK_LEN = 0 => k = (k \div CHUNK_LEN) * CHUNK_LEN
         /\ (q * CHUNK_LEN) % CHUNK_LEN = 0
  BY TcpAssumption

\* Behind a piece another piece begins, or the page ends there.
LEMMA NextPlace ==
  ASSUME NEW k \in Places, k < MYDATA_LENGTH
  PROVE  ChunkLen(k) \in Nat \ {0} /\ k + ChunkLen(k) \in Places
<1> DEFINE C == CHUNK_LEN
           q == k \div C
           Q == MYDATA_LENGTH \div C
<1>0. C \in Nat \ {0} /\ MYDATA_LENGTH \in Nat /\ k \in Nat
  BY TcpAssumption, LengthType DEF Places
<1>1. k = q * C /\ q \in Nat
  BY <1>0, Multiple DEF Places
<1>2. Q \in Nat /\ Q * C <= MYDATA_LENGTH /\ MYDATA_LENGTH < (Q + 1) * C
  BY <1>0
<1>3. CASE k = LAST_CHUNK_POS
  BY <1>0, <1>3 DEF ChunkLen, Places
<1>4. CASE k # LAST_CHUNK_POS
  <2> HIDE DEF q, Q
  <2>0. LAST_CHUNK_POS = Q * C
    BY DEF LAST_CHUNK_POS, Q
  <2>1. q # Q
    BY <1>1, <1>4, <2>0
  <2>2. ~(q >= Q + 1)
    <3>1. SUFFICES ASSUME q >= Q + 1 PROVE FALSE
      OBVIOUS
    <3>2. q * C >= (Q + 1) * C
      BY <1>0, <1>1, <1>2, <3>1
    <3> QED
      BY <1>0, <1>1, <1>2, <3>2
  <2>3. (q + 1) * C <= Q * C
    BY <1>0, <1>1, <1>2, <2>1, <2>2
  <2>4. k + C = (q + 1) * C
    BY <1>0, <1>1
  <2>5. (k + C) % C = 0
    BY <1>1, <2>4, Multiple
  <2> QED
    BY <1>0, <1>2, <1>4, <2>3, <2>4, <2>5 DEF ChunkLen, Places
<1> QED
  BY <1>3, <1>4

\* What the server reads at a place inside the page is the page.
LEMMA ChunkIsSubSeq ==
  ASSUME NEW k \in 0 .. MYDATA_LENGTH, NEW n \in 0 .. MYDATA_LENGTH - k
  PROVE  Chunk(k, n) = SubSeq(MYDATA, k + 1, k + n) /\ Len(Chunk(k, n)) = n
<1>1. MYDATA \in Seq(Byte) /\ MYDATA_LENGTH = Len(MYDATA) /\ MYDATA_LENGTH \in Nat
  BY TcpAssumption, LengthType DEF Byte
<1>2. \A i \in 1 .. n : k + i \in 1 .. MYDATA_LENGTH
  BY <1>1
<1>3. Chunk(k, n) = [i \in 1 .. n |-> MYDATA[k + i]]
  BY <1>2 DEF Chunk
<1>4. \A i \in 1 .. n : MYDATA[k + i] \in Byte
  BY <1>1, <1>2, ElementOfSeq
<1>5. Chunk(k, n) \in Seq(Byte) /\ Len(Chunk(k, n)) = n
  BY <1>3, <1>4
<1>6. \A i \in k + 1 .. k + n : MYDATA[i] \in Byte
  <2>1. ASSUME NEW i \in k + 1 .. k + n PROVE i \in 1 .. Len(MYDATA)
    BY <1>1
  <2> QED
    BY <1>1, <2>1, ElementOfSeq
<1>7. /\ SubSeq(MYDATA, k + 1, k + n) \in Seq(Byte)
      /\ Len(SubSeq(MYDATA, k + 1, k + n)) = n
      /\ \A i \in 1 .. n : SubSeq(MYDATA, k + 1, k + n)[i] = MYDATA[k + i]
  BY <1>1, <1>6, SubSeqProperties
<1> QED
  BY <1>3, <1>5, <1>7, SeqEqual

\* Wherever it reads, it reads bytes.
LEMMA ChunkType ==
  ASSUME NEW k \in Int, NEW n \in Nat
  PROVE  Chunk(k, n) \in Seq(Byte)
<1>1. MYDATA \in Seq(Byte) /\ MYDATA_LENGTH = Len(MYDATA) /\ 0 \in Byte
  BY TcpAssumption, LengthType DEF Byte
<1>2. ASSUME NEW i \in 1 .. n
      PROVE  (IF k + i \in 1 .. MYDATA_LENGTH THEN MYDATA[k + i] ELSE 0) \in Byte
  BY <1>1, ElementOfSeq
<1> QED
  BY <1>2 DEF Chunk

\* A piece has a length.
LEMMA ChunkLenType ==
  ASSUME NEW k \in Int, k <= MYDATA_LENGTH + 1
  PROVE  ChunkLen(k) \in Nat
  BY TcpAssumption, LengthType DEF ChunkLen, LAST_CHUNK_POS

-----------------------------------------------------------------------------
(* The inductive invariant, said of one browser, of one frame, and of the  *)
(* server.                                                                 *)

\* A browser that has had the answer to its SYN, and one that has seen a FIN.
Connected(b) == b.st \notin {"idle", "syn_sent"}
SawFin(b) == b.st \in {"done", "closed"}

\* The fields of a browser.
BrowserType ==
  [st : {"idle", "syn_sent", "established", "done", "reset", "closed"},
   port : Nat, nxt : Nat, acked : BOOLEAN, got : Seq(Byte)]

\* A browser has read up to a place, and all of the page when the stream has
\* ended; its request is acknowledged as soon as it has read something.
BrowserOK(b) ==
  /\ b \in BrowserType
  /\ ~Connected(b) => b.got = <<>> /\ ~b.acked
  /\ Connected(b) =>
       /\ Len(b.got) \in Places /\ b.got = SubSeq(MYDATA, 1, Len(b.got))
       /\ b.nxt = At(Len(b.got)) + (IF SawFin(b) THEN 1 ELSE 0)
  /\ b.st = "established" => (b.acked <=> Len(b.got) > 0)
  /\ b.st \in {"done", "reset", "closed"} => b.got = MYDATA

\* The places a browser may have acknowledged.
Positions(b) ==
  {k \in Places : k <= Len(b.got)} \cup (IF SawFin(b) THEN {MYDATA_LENGTH + 1} ELSE {})

\* A segment on its way from a browser: its SYN, an answer to what is not
\* awaited any more, or an acknowledgement with or without the request.
FromBrowser(s, b) ==
  /\ s.sport = b.port /\ s.dport = PORT
  /\ \/ /\ s.flags = {"SYN"} /\ s.seq = ISS /\ s.ack = 0 /\ s.data = <<>>
        /\ b.st # "idle"
     \/ s.flags = {"RST"} /\ b.st \in {"reset", "closed"}
     \/ /\ s.flags \in {{"ACK"}, {"ACK", "PSH"}} /\ Connected(b)
        /\ \E k \in Positions(b) : s.ack = At(k)
        /\ \/ s.seq = 0 /\ s.data \in {<<>>, Request}
           \/ s.seq = 1 /\ s.data = <<>>

\* What the server sends of the page at place k.
Piece(s, k) ==
  IF k = MYDATA_LENGTH
  THEN s.flags = {"FIN", "ACK"} /\ s.data = <<>>
  ELSE s.flags \in {{"ACK"}, {"ACK", "PSH"}} /\ s.data = Chunk(k, ChunkLen(k))

\* A segment on its way to a browser: the answer to its SYN, a reset at the end
\* of the page, the answer to a SYN that comes late, or a piece of the page.
ToBrowser(s, b) ==
  /\ s.dport = b.port /\ b.st # "idle"
  /\ \/ s.flags = {"SYN", "ACK"} /\ s.seq = INIT_SEQ /\ s.ack = 0 /\ s.data = <<>>
     \/ s.flags = {"RST"} /\ Connected(b) /\ b.got = MYDATA
     \/ s.flags = {"ACK", "PSH"} /\ s.seq = 0 /\ s.ack = ISS
     \/ /\ Connected(b)
        /\ \E k \in Positions(b) :
             /\ s.seq = At(k) /\ Piece(s, k)
             /\ s.ack \in {0, 1} /\ (k = 0 => s.ack = 1)

\* A frame that carries a segment.
IsTcp(f) == f.type = "IP" /\ f.data.proto = "TCP"

\* The receiver's test.
Sound(f) ==
  Verifies(  SumOfSegment(f.data.body)
           + Pseudo(f.data.src, f.data.dst, TCP_HDR_LEN + Len(f.data.body.data)))

\* A frame of host c, whose browser is b, on its way to the server.
FrameIn(f, c, b) ==
  /\ f.src = c
  /\ f.type = "IP" => f.data.src = c
  /\ IsTcp(f) => /\ f.dst = Server /\ f.data.dst = Server
                 /\ f.data.version = IP_VERSION_VAL /\ FromBrowser(f.data.body, b)
  /\ f.type = "IP" /\ f.data.proto = "ICMP" /\ f.data.version = IP_VERSION_VAL =>
       f.data.body \in Pings \/ f.data.body[1] = ICMP_TYPE_ECHO_REPLY
  /\ f.type = "ARP" => f.data.senderMac = c /\ f.data.senderIp = c

\* A frame on its way from the server to host c.
FrameOut(f, c, b) ==
  /\ f.dst = c /\ f.type \in {"IP", "ARP"}
  /\ f.type = "IP" => f.data.dst = c /\ f.data.src = Server
  /\ IsTcp(f) => ToBrowser(f.data.body, b) /\ Sound(f)
  /\ f.type = "IP" /\ f.data.proto = "ICMP" =>
       \E message \in Pings : Repeats(f.data.body, message)
  /\ f.type = "ARP" => /\ f.data.senderIp = Server /\ f.data.senderMac = Server
                       /\ f.data.targetIp = c

\* The frames in the receive memory, and those among them that will be read.
Frames == {j \in DOMAIN fifo : fifo[j].part = "frame"}
InMemory == {fifo[i].frame : i \in Frames}
Readable == {fifo[i].frame : i \in {j \in Frames : fifo[j].status = "ok"}}
\* The receive memory is a sequence of what is in it.
FifoOK == fifo \in Seq({fifo[i] : i \in DOMAIN fifo})

\* All browsers have read right, and all frames on their way, with those in the
\* receive memory, fit their host as it is now.
BrowsersOK == browser \in [Hosts -> BrowserType] /\ \A c \in Hosts : BrowserOK(browser[c])
InboundOK == \A f \in toServer \cup InMemory : \E c \in Hosts : FrameIn(f, c, browser[c])
OutboundOK == \A f \in toHosts : \E c \in Hosts : FrameOut(f, c, browser[c])

\* The connection is with host c as it is now.
PeerIs(c) ==
  peer = [srcAddr |-> c, srcPort |-> browser[c].port, dstAddr |-> Server, dstPort |-> PORT]

\* A FIN is sent to who has read the page.
ServerOK ==
  /\ tcp_ack \in Int /\ tcp_seq \in Int /\ peer.srcPort \in Nat
  /\ \A c \in Hosts : peer.srcAddr = c => peer.srcPort <= browser[c].port
  /\ \A c \in Hosts : PeerIs(c) /\ tcp_state = "fin_sent" =>
       Connected(browser[c]) /\ browser[c].got = MYDATA

\* The inductive invariant.
Inv == FifoOK /\ BrowsersOK /\ InboundOK /\ OutboundOK /\ ServerOK

-----------------------------------------------------------------------------
(* A browser only reads on, and what was said of its frames stays true.    *)

\* What of browser b still holds of browser d.
Advances(b, d) ==
  /\ d.port = b.port
  /\ b.st # "idle" => d.st # "idle"
  /\ Connected(b) => Connected(d)
  /\ b.st \in {"reset", "closed"} => d.st \in {"reset", "closed"}
  /\ Positions(b) \subseteq Positions(d)
  /\ Connected(b) /\ b.got = MYDATA => d.got = MYDATA

\* A frame that fits a browser fits it when it has read on.
LEMMA AdvanceFrames ==
  ASSUME NEW b, NEW d, Advances(b, d), NEW f, NEW c
  PROVE  /\ FrameIn(f, c, b) => FrameIn(f, c, d)
         /\ FrameOut(f, c, b) => FrameOut(f, c, d)
<1>1. ASSUME NEW s, FromBrowser(s, b) PROVE FromBrowser(s, d)
  BY <1>1 DEF FromBrowser, Advances
<1>2. ASSUME NEW s, ToBrowser(s, b) PROVE ToBrowser(s, d)
  BY <1>2 DEF ToBrowser, Advances
<1> QED
  BY <1>1, <1>2 DEF FrameIn, FrameOut

\* A frame has one host.
LEMMA FrameHost ==
  ASSUME NEW f, NEW c, NEW b
  PROVE  /\ FrameIn(f, c, b) => f.src = c
         /\ FrameOut(f, c, b) => f.dst = c
  BY DEF FrameIn, FrameOut

-----------------------------------------------------------------------------
(* The receive memory is a queue, and what the card and the driver do to   *)
(* it only adds the frame that comes in and takes the one that is read.    *)

\* A sequence is a sequence of what is in it.
LEMMA SeqOfOwn ==
  ASSUME NEW S, NEW s \in Seq(S)
  PROVE  s \in Seq({s[i] : i \in DOMAIN s})
  BY SeqOfRange DEF Range

\* A frame that arrives is the only new one; it is read unless it is damaged.
LEMMA MemoryArrive ==
  ASSUME FifoOK, NEW f, NEW status, Arrive(f, status)
  PROVE  /\ FifoOK' /\ InMemory' = InMemory \cup {f}
         /\ Readable \subseteq Readable' /\ (status = "ok" => f \in Readable')
<1> DEFINE S == {fifo[i] : i \in DOMAIN fifo}
           e == [part |-> "frame", status |-> status, frame |-> f]
           T == S \cup {e}
<1>1. fifo \in Seq(T) /\ e \in T
  BY SeqMonotonic DEF FifoOK
<1>2. fifo' = Append(fifo, e)
  BY DEF Arrive
<1> HIDE DEF S, T
<1>3. /\ fifo' \in Seq(T) /\ Len(fifo') = Len(fifo) + 1 /\ Len(fifo) \in Nat
      /\ \A i \in 1 .. Len(fifo) : fifo'[i] = fifo[i]
      /\ fifo'[Len(fifo) + 1] = e
  BY <1>1, <1>2, AppendProperties, LenProperties
<1>4. DOMAIN fifo = 1 .. Len(fifo) /\ DOMAIN fifo' = 1 .. Len(fifo) + 1
  BY <1>1, <1>3, LenProperties
<1>5. FifoOK'
  BY <1>3, SeqOfOwn DEF FifoOK
<1>6. e.part = "frame" /\ e.status = status /\ e.frame = f
  OBVIOUS
<1> HIDE DEF e
<1>7. Frames' = Frames \cup {Len(fifo) + 1}
  BY <1>3, <1>4, <1>6 DEF Frames
<1>8. InMemory' = InMemory \cup {f}
  BY <1>3, <1>4, <1>6, <1>7 DEF InMemory, Frames
<1>9. Readable \subseteq Readable' /\ (status = "ok" => f \in Readable')
  BY <1>3, <1>4, <1>6, <1>7 DEF Readable, Frames
<1> QED
  BY <1>5, <1>8, <1>9

\* u is what s holds behind its first element, with at most one other in front.
Behind(first, s, u) ==
  /\ \A i \in DOMAIN u : \/ Len(first) = 1 /\ i = 1 /\ u[i] = first[1]
                         \/ \E j \in DOMAIN s : u[i] = s[j]
  /\ \A j \in DOMAIN s \ {1} : \E i \in DOMAIN u : u[i] = s[j]

\* A sequence without its first element, behind one element or none.
LEMMA BehindFirst ==
  ASSUME NEW T, NEW s \in Seq(T), s # <<>>, NEW first \in Seq(T), Len(first) \in {0, 1}
  PROVE  first \o Tail(s) \in Seq(T) /\ Behind(first, s, first \o Tail(s))
<1> DEFINE t == Tail(s)
           n == Len(s) - 1
           k == Len(first)
           u == first \o t
<1>1. /\ t \in Seq(T) /\ Len(t) = n /\ n \in Nat /\ Len(s) = n + 1
      /\ \A i \in 1 .. n : t[i] = s[i + 1]
  BY HeadTailProperties, EmptySeq, LenProperties
<1>2. DOMAIN s = 1 .. n + 1
  BY <1>1, LenProperties
<1> HIDE DEF t, n
<1>3. /\ u \in Seq(T) /\ Len(u) = k + n
      /\ \A i \in 1 .. k + n : u[i] = IF i <= k THEN first[i] ELSE t[i - k]
  <2> HIDE DEF u, k
  <2>1. t \in Seq(T) /\ first \in Seq(T) /\ u = first \o t /\ k = Len(first)
    BY <1>1 DEF u, k
  <2>2. /\ u \in Seq(T) /\ Len(u) = k + Len(t)
        /\ \A i \in 1 .. k + Len(t) : u[i] = IF i <= k THEN first[i] ELSE t[i - k]
    BY <2>1, ConcatProperties
  <2> QED
    BY <1>1, <2>2
<1> HIDE DEF k
<1>4. DOMAIN u = 1 .. k + n /\ k \in {0, 1}
  BY <1>3, LenProperties DEF k
<1> HIDE DEF u
<1>5. ASSUME NEW i \in 1 .. k + n
      PROVE  \/ k = 1 /\ i = 1 /\ u[i] = first[1]
             \/ \E j \in 1 .. n + 1 : u[i] = s[j]
  <2>1. CASE i <= k
    <3>1. k = 1 /\ i = 1
      BY <1>4, <2>1
    <3> QED
      BY <1>3, <2>1, <3>1
  <2>2. CASE ~(i <= k)
    <3>1. i - k \in 1 .. n /\ (i - k) + 1 \in 1 .. n + 1
      BY <1>1, <1>4, <2>2
    <3>2. u[i] = t[i - k] /\ t[i - k] = s[(i - k) + 1]
      BY <1>1, <1>3, <2>2, <3>1
    <3> QED
      BY <3>1, <3>2
  <2> QED
    BY <2>1, <2>2
<1>6. ASSUME NEW j \in 1 .. n + 1, j # 1
      PROVE  \E i \in 1 .. k + n : u[i] = s[j]
  <2> DEFINE m == j - 1
  <2>1. m \in 1 .. n /\ m + 1 = j /\ m + k \in 1 .. k + n /\ (m + k) - k = m /\ ~(m + k <= k)
    BY <1>1, <1>4, <1>6
  <2> HIDE DEF m
  <2>2. u[m + k] = t[m] /\ t[m] = s[m + 1]
    BY <1>1, <1>3, <2>1
  <2> QED
    BY <2>1, <2>2
<1>7. \A i \in DOMAIN u : (k = 1 /\ i = 1 /\ u[i] = first[1]) \/ \E j \in DOMAIN s : u[i] = s[j]
  BY <1>2, <1>4, <1>5
<1>8. \A j \in DOMAIN s \ {1} : \E i \in DOMAIN u : u[i] = s[j]
  BY <1>2, <1>4, <1>6
<1> QED
  BY <1>3, <1>7, <1>8 DEF Behind, t, u, k

\* What the driver leaves in the memory was there before.
LEMMA MemoryTail ==
  ASSUME FifoOK, fifo # <<>>, NEW first, fifo' = first \o Tail(fifo),
         first \in {<<>>, <<[part |-> "rest"]>>}
  PROVE  /\ FifoOK' /\ InMemory' \subseteq InMemory
         /\ Head(fifo) = fifo[1] /\ 1 \in DOMAIN fifo
         /\ \A j \in DOMAIN fifo \ {1} : \E i \in DOMAIN fifo' : fifo'[i] = fifo[j]
<1> DEFINE S == {fifo[i] : i \in DOMAIN fifo}
           e == [part |-> "rest"]
           T == S \cup {e}
           k == Len(first)
<1>1. fifo \in Seq(T)
  BY SeqMonotonic DEF FifoOK
<1>2. first \in Seq(T) /\ k \in {0, 1} /\ (k = 1 => first[1] = e)
  <2>1. CASE first = <<>>
    BY <2>1
  <2>2. CASE first = <<e>>
    <3>1. e \in T
      OBVIOUS
    <3> HIDE DEF T, e
    <3> QED
      BY <2>2, <3>1
  <2> QED
    BY <2>1, <2>2
<1>3. e.part # "frame"
  OBVIOUS
<1> DEFINE u == fifo'
<1>4. u = first \o Tail(fifo) /\ Len(first) = k
  OBVIOUS
<1> HIDE DEF S, T, e, k, u
<1>5. u \in Seq(T) /\ Behind(first, fifo, u)
  BY <1>1, <1>2, <1>4, BehindFirst
<1>6. FifoOK'
  <2>1. u \in Seq({u[i] : i \in DOMAIN u})
    BY <1>5, SeqOfOwn
  <2> QED
    BY <2>1 DEF u, FifoOK
<1>7. InMemory' \subseteq InMemory
  BY <1>2, <1>3, <1>4, <1>5 DEF u, Behind, InMemory, Frames
<1>8. 1 \in DOMAIN fifo
  BY <1>1, LenProperties, EmptySeq
<1>9. Head(fifo) = fifo[1]
  BY <1>1, HeadTailProperties
<1> QED
  BY <1>5, <1>6, <1>7, <1>8, <1>9 DEF u, Behind

\* The driver reads the frame in front, which stays what it was.
LEMMA MemoryRecv ==
  ASSUME FifoOK, NEW rx, ethernet_recv(rx)
  PROVE  /\ FifoOK' /\ InMemory' \subseteq InMemory /\ rx \in InMemory
         /\ Readable \subseteq Readable' \cup {rx}
<1>1. fifo' = <<>> \o Tail(fifo) /\ fifo # <<>>
  <2>1. fifo \in Seq({fifo[i] : i \in DOMAIN fifo}) /\ fifo # <<>> /\ fifo' = Tail(fifo)
    BY DEF ethernet_recv, Ready, FifoOK
  <2> QED
    BY <2>1, HeadTailProperties, ConcatEmptySeq
<1>2. /\ FifoOK' /\ InMemory' \subseteq InMemory /\ Head(fifo) = fifo[1] /\ 1 \in DOMAIN fifo
      /\ \A i \in DOMAIN fifo \ {1} : \E j \in DOMAIN fifo' : fifo'[j] = fifo[i]
  BY <1>1, MemoryTail
<1>3. fifo[1].part = "frame" /\ fifo[1].frame = rx
  BY <1>2 DEF ethernet_recv, Ready
<1>4. rx \in InMemory
  BY <1>2, <1>3 DEF InMemory, Frames
<1>5. Readable \subseteq Readable' \cup {rx}
  BY <1>2, <1>3 DEF Readable, Frames
<1> QED
  BY <1>2, <1>4, <1>5

\* A frame that is given up was not going to be read.
LEMMA MemoryError ==
  ASSUME FifoOK, recv_Error
  PROVE  FifoOK' /\ InMemory' \subseteq InMemory /\ Readable \subseteq Readable'
<1>1. fifo' = <<[part |-> "rest"]>> \o Tail(fifo) /\ fifo # <<>> /\ Head(fifo).status = "error"
  BY DEF recv_Error, Ready
<1>2. /\ FifoOK' /\ InMemory' \subseteq InMemory /\ Head(fifo) = fifo[1]
      /\ \A i \in DOMAIN fifo \ {1} : \E j \in DOMAIN fifo' : fifo'[j] = fifo[i]
  BY <1>1, MemoryTail
<1>3. \A j \in DOMAIN fifo : fifo[j].part = "frame" /\ fifo[j].status = "ok" => j # 1
  BY <1>1, <1>2
<1>4. Readable \subseteq Readable'
  BY <1>2, <1>3 DEF Readable, Frames
<1> QED
  BY <1>2, <1>4

\* A memory that nobody touches.
LEMMA MemorySame ==
  ASSUME UNCHANGED fifo
  PROVE  (FifoOK => FifoOK') /\ InMemory' = InMemory /\ Readable' = Readable
  BY DEF FifoOK, InMemory, Readable, Frames

-----------------------------------------------------------------------------
(* The steps, sorted by what they do to the frames.                        *)

\* Frames arrive, are read or are lost; nobody does anything else.
LEMMA ShrinkStep ==
  ASSUME Inv, FifoOK', toServer' \cup InMemory' \subseteq toServer \cup InMemory,
         toHosts' \subseteq toHosts, UNCHANGED <<browser, tcpVars>>
  PROVE  Inv'
<1>1. BrowsersOK' /\ ServerOK'
  BY DEF Inv, BrowsersOK, ServerOK, PeerIs, tcpVars
<1>2. InboundOK'
  BY DEF Inv, InboundOK
<1>3. OutboundOK'
  BY DEF Inv, OutboundOK
<1> QED
  BY <1>1, <1>2, <1>3 DEF Inv

\* The browser of host c becomes d and sends some frames.
LEMMA HostStep ==
  ASSUME Inv, NEW c \in Hosts, NEW d, BrowserOK(d), Advances(browser[c], d),
         browser' = [browser EXCEPT ![c] = d],
         NEW new, toServer' = toServer \cup new, \A f \in new : FrameIn(f, c, d),
         toHosts' \subseteq toHosts, UNCHANGED <<fifo, tcpVars>>
  PROVE  Inv'
<1>1. d \in BrowserType /\ browser \in [Hosts -> BrowserType]
  BY DEF BrowserOK, Inv, BrowsersOK
<1>2. browser'[c] = d /\ \A h \in Hosts \ {c} : browser'[h] = browser[h]
  BY <1>1
<1>3. BrowsersOK'
  BY <1>1, <1>2 DEF Inv, BrowsersOK
<1>4. FifoOK' /\ InMemory' = InMemory
  BY MemorySame DEF Inv
<1>5. ASSUME NEW f, NEW h \in Hosts
      PROVE  /\ FrameIn(f, h, browser[h]) => FrameIn(f, h, browser'[h])
             /\ FrameOut(f, h, browser[h]) => FrameOut(f, h, browser'[h])
  <2>1. CASE h = c
    BY <1>2, <2>1, AdvanceFrames
  <2> QED
    BY <1>2, <2>1
<1>6. InboundOK'
  <2>1. ASSUME NEW f \in toServer' \cup InMemory'
        PROVE  \E h \in Hosts : FrameIn(f, h, browser'[h])
    <3>1. CASE f \in new
      BY <1>2, <3>1
    <3>2. CASE f \in toServer \cup InMemory
      <4>1. PICK h \in Hosts : FrameIn(f, h, browser[h])
        BY <3>2 DEF Inv, InboundOK
      <4>2. FrameIn(f, h, browser'[h])
        BY <1>5, <4>1
      <4> QED
        BY <4>2
    <3> QED
      BY <1>4, <3>1, <3>2
  <2> QED
    BY <2>1 DEF InboundOK
<1>7. OutboundOK'
  <2>1. ASSUME NEW f \in toHosts
        PROVE  \E h \in Hosts : FrameOut(f, h, browser'[h])
    <3>1. PICK h \in Hosts : FrameOut(f, h, browser[h])
      BY DEF Inv, OutboundOK
    <3>2. FrameOut(f, h, browser'[h])
      BY <1>5, <3>1
    <3> QED
      BY <3>2
  <2> QED
    BY <2>1 DEF OutboundOK
<1>8. ServerOK'
  <2>1. \A h \in Hosts : browser'[h].port = browser[h].port
    BY <1>2 DEF Advances
  <2>2. \A h \in Hosts : Connected(browser[h]) /\ browser[h].got = MYDATA
                          => Connected(browser'[h]) /\ browser'[h].got = MYDATA
    BY <1>2 DEF Advances
  <2> QED
    BY <2>1, <2>2 DEF Inv, ServerOK, PeerIs, tcpVars
<1> QED
  BY <1>3, <1>4, <1>6, <1>7, <1>8 DEF Inv

\* A host sends some frames and changes nothing else.
LEMMA SendStep ==
  ASSUME Inv, NEW c \in Hosts, NEW new, toServer' = toServer \cup new,
         \A f \in new : FrameIn(f, c, browser[c]),
         UNCHANGED <<fifo, toHosts, browser, tcpVars>>
  PROVE  Inv'
<1>1. FifoOK' /\ InMemory' = InMemory
  BY MemorySame DEF Inv
<1>2. InboundOK'
  BY <1>1 DEF Inv, InboundOK
<1>3. BrowsersOK' /\ OutboundOK' /\ ServerOK'
  BY DEF Inv, BrowsersOK, OutboundOK, ServerOK, PeerIs, tcpVars
<1> QED
  BY <1>1, <1>2, <1>3 DEF Inv

\* A browser opens a connection from a new port when none of its segments is on
\* its way.
LEMMA OpenStep ==
  ASSUME Inv, NEW c \in Hosts, NEW d, BrowserOK(d), d.st = "syn_sent",
         d.port > browser[c].port, browser' = [browser EXCEPT ![c] = d],
         NEW new, toServer' = toServer \cup new, \A f \in new : FrameIn(f, c, d),
         \A f \in toServer \cup InMemory : f.src = c => ~IsTcp(f),
         \A f \in toHosts : f.dst = c => ~IsTcp(f),
         UNCHANGED <<fifo, toHosts, tcpVars>>
  PROVE  Inv'
<1>1. d \in BrowserType /\ browser \in [Hosts -> BrowserType]
  BY DEF BrowserOK, Inv, BrowsersOK
<1>2. browser'[c] = d /\ \A h \in Hosts \ {c} : browser'[h] = browser[h]
  BY <1>1
<1>3. BrowsersOK'
  BY <1>1, <1>2 DEF Inv, BrowsersOK
<1>4. FifoOK' /\ InMemory' = InMemory
  BY MemorySame DEF Inv
<1>5. InboundOK'
  <2>1. ASSUME NEW f \in toServer' \cup InMemory'
        PROVE  \E h \in Hosts : FrameIn(f, h, browser'[h])
    <3>1. CASE f \in new
      BY <1>2, <3>1
    <3>2. CASE f \in toServer \cup InMemory
      <4>1. PICK h \in Hosts : FrameIn(f, h, browser[h])
        BY <3>2 DEF Inv, InboundOK
      <4>2. CASE h = c
        <5>1. ~IsTcp(f)
          BY <3>2, <4>1, <4>2, FrameHost
        <5> QED
          BY <4>1, <5>1 DEF FrameIn
      <4> QED
        BY <1>2, <4>1, <4>2
    <3> QED
      BY <1>4, <3>1, <3>2
  <2> QED
    BY <2>1 DEF InboundOK
<1>6. OutboundOK'
  <2>1. ASSUME NEW f \in toHosts
        PROVE  \E h \in Hosts : FrameOut(f, h, browser'[h])
    <3>1. PICK h \in Hosts : FrameOut(f, h, browser[h])
      BY DEF Inv, OutboundOK
    <3>2. CASE h = c
      <4>1. ~IsTcp(f)
        BY <3>1, <3>2, FrameHost
      <4> QED
        BY <3>1, <4>1 DEF FrameOut
    <3> QED
      BY <1>2, <3>1, <3>2
  <2> QED
    BY <2>1 DEF OutboundOK
<1>7. ServerOK'
  <2>1. d.port \in Nat /\ browser[c].port \in Nat /\ \A h \in Hosts : browser[h].port \in Nat
    BY <1>1 DEF BrowserType
  <2>2. UNCHANGED <<peer, tcp_state, tcp_ack, tcp_seq>>
    BY DEF tcpVars
  <2>3. peer.srcAddr = c => peer.srcPort <= browser[c].port
    BY DEF Inv, ServerOK
  <2>4. ~PeerIs(c)'
    <3>1. SUFFICES ASSUME PeerIs(c)' PROVE FALSE
      OBVIOUS
    <3>2. peer.srcAddr = c /\ peer.srcPort = d.port
      BY <1>2, <2>2, <3>1 DEF PeerIs
    <3>3. peer.srcPort \in Nat
      BY DEF Inv, ServerOK
    <3> QED
      BY <2>1, <2>3, <3>2, <3>3
  <2>5. tcp_ack' \in Int /\ tcp_seq' \in Int /\ peer'.srcPort \in Nat
    BY <2>2 DEF Inv, ServerOK
  <2>6. ASSUME NEW h \in Hosts, peer'.srcAddr = h PROVE peer'.srcPort <= browser'[h].port
    <3>1. CASE h = c
      <4>1. peer'.srcPort = peer.srcPort /\ peer.srcPort \in Nat
        BY <2>2 DEF Inv, ServerOK
      <4>2. peer.srcPort <= browser[c].port
        BY <2>2, <2>3, <2>6, <3>1
      <4> QED
        BY <1>2, <2>1, <3>1, <4>1, <4>2
    <3>2. CASE h # c
      BY <1>2, <2>2, <2>6, <3>2 DEF Inv, ServerOK
    <3> QED
      BY <3>1, <3>2
  <2>7. ASSUME NEW h \in Hosts, PeerIs(h)', tcp_state' = "fin_sent"
        PROVE  Connected(browser'[h]) /\ browser'[h].got = MYDATA
    <3>1. h # c
      BY <2>4, <2>7
    <3> QED
      BY <1>2, <2>2, <2>7, <3>1 DEF Inv, ServerOK, PeerIs
  <2> QED
    BY <2>5, <2>6, <2>7 DEF ServerOK
<1> QED
  BY <1>3, <1>4, <1>5, <1>6, <1>7 DEF Inv

-----------------------------------------------------------------------------
(* What a browser does with a segment.                                     *)

\* The fields of a segment a browser sends.
LEMMA SegmentIn ==
  ASSUME NEW c, NEW d, NEW seq, NEW ack, NEW flags, NEW data,
         \/ flags = {"SYN"} /\ Mod(seq) = ISS /\ Mod(ack) = 0 /\ data = <<>> /\ d.st # "idle"
         \/ flags = {"RST"} /\ d.st \in {"reset", "closed"}
         \/ /\ flags \in {{"ACK"}, {"ACK", "PSH"}} /\ Connected(d)
            /\ \E k \in Positions(d) : Mod(ack) = At(k)
            /\ \/ Mod(seq) = 0 /\ data \in {<<>>, Request}
               \/ Mod(seq) = 1 /\ data = <<>>
  PROVE  FrameIn(Segment(c, d.port, seq, ack, flags, data), c, d)
<1> DEFINE f == Segment(c, d.port, seq, ack, flags, data)
<1>1. /\ f.src = c /\ f.dst = Server /\ f.type = "IP"
      /\ f.data.src = c /\ f.data.dst = Server /\ f.data.proto = "TCP"
      /\ f.data.version = IP_VERSION_VAL
  BY DEF Segment, IpFrame
<1>2. /\ f.data.body.sport = d.port /\ f.data.body.dport = PORT
      /\ f.data.body.seq = Mod(seq) /\ f.data.body.ack = Mod(ack)
      /\ f.data.body.flags = flags /\ f.data.body.data = data
  BY DEF Segment, IpFrame, WithCheck
<1> HIDE DEF f
<1>3. FromBrowser(f.data.body, d)
  BY <1>2 DEF FromBrowser
<1> QED
  BY <1>1, <1>3 DEF FrameIn, IsTcp, f

\* The acknowledgement of what a browser has read.
LEMMA AckIn ==
  ASSUME NEW c, NEW d, NEW acked \in BOOLEAN, NEW nxt,
         Connected(d), \E k \in Positions(d) : nxt = At(k)
  PROVE  FrameIn(Segment(c, d.port, IF acked THEN ISS + 1 + Len(Request) ELSE ISS + 1,
                         nxt, {"ACK"}, <<>>), c, d)
<1>1. PICK k \in Positions(d) : nxt = At(k)
  OBVIOUS
<1>2. k \in Nat /\ k <= MYDATA_LENGTH + 1
  BY LengthType DEF Positions, Places
<1>3. Mod(nxt) = At(k)
  BY <1>1, <1>2, AtType
<1>4. Mod(IF acked THEN ISS + 1 + Len(Request) ELSE ISS + 1) \in {0, 1}
  BY BrowsersNumbers
<1> QED
  BY <1>3, <1>4, SegmentIn

\* The stream of a browser has ended.
HasEnded(b) == b.st \in {"done", "reset", "closed"}

\* What a browser that becomes d has read, as the abstract stream puts it.
ReadsOn(b, d) ==
  \/ d.got = b.got /\ (HasEnded(d) <=> HasEnded(b))
  \/ /\ ~HasEnded(b) /\ ~HasEnded(d)
     /\ \E n \in (Len(b.got) + 1) .. Len(MYDATA) : d.got = SubSeq(MYDATA, 1, n)
  \/ b.got = MYDATA /\ d.got = MYDATA /\ ~HasEnded(b) /\ HasEnded(d)

\* The browser of c becomes d and sends the frames in new.
Goes(c, d, new) ==
  /\ BrowserOK(d) /\ Advances(browser[c], d) /\ ReadsOn(browser[c], d)
  /\ browser' = [browser EXCEPT ![c] = d]
  /\ toServer' = toServer \cup new /\ \A f \in new : FrameIn(f, c, d)

\* A browser stays what it is.
LEMMA StaysOK ==
  ASSUME NEW b, BrowserOK(b)
  PROVE  Advances(b, b) /\ ReadsOn(b, b)
  BY DEF Advances, ReadsOn

\* A browser that has closed answers with a reset and stays closed.
LEMMA RefuseGoes ==
  ASSUME NEW c, BrowserOK(browser[c]), NEW s, ToBrowser(s, browser[c]), Refuse(c, s)
  PROVE  \E new : Goes(c, browser[c], new)
<1> DEFINE b == browser[c]
           new == IF "RST" \in s.flags THEN {} ELSE {Segment(c, s.dport, s.ack, 0, {"RST"}, <<>>)}
<1>1. s.dport = b.port /\ b.st \in {"reset", "closed"}
  BY DEF ToBrowser, Refuse
<1>2. FrameIn(Segment(c, b.port, s.ack, 0, {"RST"}, <<>>), c, b)
  BY <1>1, SegmentIn
<1>3. \A f \in new : FrameIn(f, c, b)
  BY <1>1, <1>2
<1>4. browser' = [browser EXCEPT ![c] = b] /\ toServer' = toServer \cup new
  BY DEF Refuse, Answer
<1> HIDE DEF new
<1>5. Goes(c, b, new)
  BY <1>3, <1>4, StaysOK DEF Goes
<1> QED
  BY <1>5

\* A browser stays where it is or has just been accepted.
Accepted(b, d) ==
  /\ b.st = "syn_sent"
  /\ \/ d.st = "syn_sent"
     \/ d.got = <<>> /\ ~d.acked /\ d.nxt = At(0)

\* The answer to the SYN opens the connection; anything else is passed over.
LEMMA OpenedGoes ==
  ASSUME NEW c, BrowserOK(browser[c]), NEW s, ToBrowser(s, browser[c]), Opened(c, s)
  PROVE  \E d, new : Goes(c, d, new) /\ Accepted(browser[c], d)
<1> DEFINE b == browser[c]
<1>0. b.st = "syn_sent" /\ b \in BrowserType /\ b.got = <<>> /\ ~b.acked
  BY DEF Opened, BrowserOK, Connected
<1>1. CASE {"SYN", "ACK"} \subseteq s.flags /\ s.ack = Mod(ISS + 1)
  <2> DEFINE nxt == Mod(s.seq + 1)
             d == [b EXCEPT !.st = "established", !.nxt = nxt]
             ack == AckOf(c, nxt)
             get == Segment(c, b.port, ISS + 1, nxt, {"ACK", "PSH"}, Request)
  <2>1. s.seq = INIT_SEQ
    BY <1>0, <1>1 DEF ToBrowser, Connected
  <2>2. nxt = At(0) /\ nxt \in Nat
    <3>1. s.seq + 1 = At(0)
      BY <2>1 DEF At, INIT_SEQ
    <3> QED
      BY <3>1, AtType, LengthType
  <2>3. /\ d.st = "established" /\ d.nxt = nxt /\ d.port = b.port /\ d.got = <<>>
        /\ ~d.acked /\ d \in BrowserType
    BY <1>0, <2>2 DEF BrowserType
  <2>4. browser' = [browser EXCEPT ![c] = d] /\ toServer' = toServer \cup {ack, get}
    BY <1>1 DEF Opened, Answer
  <2> HIDE DEF d, nxt
  <2>5. 0 \in Places /\ Len(<<>>) = 0 /\ SubSeq(MYDATA, 1, 0) = <<>>
    BY TcpAssumption, LengthType, SubSeqEmpty DEF Places
  <2>6. BrowserOK(d)
    BY <2>2, <2>3, <2>5, LengthType DEF BrowserOK, Connected, SawFin, At, INIT_SEQ
  <2>7. Advances(b, d)
    BY <1>0, <2>3, LengthType, TcpAssumption DEF Advances, Connected, Positions, SawFin
  <2>8. ReadsOn(b, d)
    BY <1>0, <2>3 DEF ReadsOn, HasEnded
  <2>9. 0 \in Positions(d) /\ Connected(d)
    BY <2>3, <2>5 DEF Positions, Connected
  <2>10. Mod(nxt) = At(0) /\ Mod(ISS + 1) = 0
    BY <2>2, AtType, LengthType, BrowsersNumbers
  <2>11. FrameIn(get, c, d)
    BY <2>3, <2>9, <2>10, SegmentIn
  <2>12. ack = Segment(c, d.port, ISS + 1, nxt, {"ACK"}, <<>>)
    BY <1>0, <2>3 DEF AckOf
  <2>13. FrameIn(ack, c, d)
    BY <2>9, <2>10, <2>12, SegmentIn
  <2> HIDE DEF ack, get
  <2>14. Goes(c, d, {ack, get})
    BY <2>4, <2>6, <2>7, <2>8, <2>11, <2>13 DEF Goes
  <2>15. Accepted(b, d)
    BY <1>0, <2>2, <2>3 DEF Accepted
  <2> QED
    BY <2>14, <2>15
<1>2. CASE ~({"SYN", "ACK"} \subseteq s.flags /\ s.ack = Mod(ISS + 1))
  <2>1. browser' = [browser EXCEPT ![c] = b] /\ toServer' = toServer \cup {}
    BY <1>2 DEF Opened, Answer
  <2>2. Goes(c, b, {})
    BY <2>1, StaysOK DEF Goes
  <2>3. Accepted(b, b)
    BY <1>0 DEF Accepted
  <2> QED
    BY <2>2, <2>3
<1> QED
  BY <1>1, <1>2

\* The next segment in order is the answer to SYN no more: it is the piece that
\* begins where the browser is, or the FIN.
LEMMA NextSegment ==
  ASSUME NEW b, BrowserOK(b), b.st = "established",
         NEW s, ToBrowser(s, b), s.seq = b.nxt, "RST" \notin s.flags
  PROVE  /\ Len(b.got) \in Places /\ Piece(s, Len(b.got))
         /\ s.ack \in {0, 1} /\ (Len(b.got) = 0 => s.ack = 1)
<1> DEFINE K == Len(b.got)
<1>1. K \in Places /\ b.nxt = At(K)
  BY DEF BrowserOK, Connected, SawFin, At, Places, INIT_SEQ
<1>2. At(K) # 0 /\ At(K) # INIT_SEQ
  <2>1. K \in Nat /\ K <= MYDATA_LENGTH
    BY <1>1, LengthType DEF Places
  <2> QED
    BY <2>1, LengthType DEF At, INIT_SEQ
<1>3. PICK k \in Positions(b) :
        s.seq = At(k) /\ Piece(s, k) /\ s.ack \in {0, 1} /\ (k = 0 => s.ack = 1)
  BY <1>1, <1>2 DEF ToBrowser
<1>4. k = K
  BY <1>1, <1>3, LengthType DEF Positions, Places, SawFin, At, INIT_SEQ
<1> QED
  BY <1>1, <1>3, <1>4

\* A piece grows what a browser has read to the next place.
LEMMA ReadPiece ==
  ASSUME NEW b, BrowserOK(b), b.st = "established", NEW s, Piece(s, Len(b.got)),
         Len(b.got) < MYDATA_LENGTH
  PROVE  LET n == Len(b.got) + ChunkLen(Len(b.got))
         IN /\ b.got \o s.data = SubSeq(MYDATA, 1, n) /\ Len(SubSeq(MYDATA, 1, n)) = n
            /\ n \in Places /\ n > Len(b.got) /\ SubSeq(MYDATA, 1, n) \in Seq(Byte)
            /\ b.nxt + Span(s) = At(n) /\ "FIN" \notin s.flags
<1> DEFINE K == Len(b.got)
           m == ChunkLen(K)
<1>1. K \in Places /\ b.nxt = At(K) /\ b.got = SubSeq(MYDATA, 1, K)
  BY DEF BrowserOK, Connected, SawFin, At, Places, INIT_SEQ
<1>2. m \in Nat \ {0} /\ K + m \in Places
  BY <1>1, NextPlace
<1>3. /\ K \in Nat /\ K + m \in Nat /\ K + m <= MYDATA_LENGTH
      /\ MYDATA_LENGTH = Len(MYDATA) /\ Len(MYDATA) \in Nat /\ MYDATA \in Seq(Byte)
  BY <1>1, <1>2, LengthType, TcpAssumption DEF Places, Byte
<1>4. s.data = Chunk(K, m) /\ s.flags \in {{"ACK"}, {"ACK", "PSH"}}
  BY <1>3 DEF Piece
<1> HIDE DEF m
<1>5. K \in 0 .. MYDATA_LENGTH /\ m \in 0 .. MYDATA_LENGTH - K
  BY <1>2, <1>3
<1>6. s.data = SubSeq(MYDATA, K + 1, K + m) /\ Len(s.data) = m
  BY <1>4, <1>5, ChunkIsSubSeq
<1>7. SubSeq(MYDATA, 1, K) \o SubSeq(MYDATA, K + 1, K + m) = SubSeq(MYDATA, 1, K + m)
  <2>1. 1 \in 1 .. Len(MYDATA) + 1 /\ K \in 1 - 1 .. Len(MYDATA) /\ K + m \in K .. Len(MYDATA)
    BY <1>2, <1>3
  <2> QED
    BY <1>3, <2>1, ConcatAdjacentSubSeq
<1>8. SubSeq(MYDATA, 1, K + m) \in Seq(Byte) /\ Len(SubSeq(MYDATA, 1, K + m)) = K + m
  <2>1. ASSUME NEW i \in 1 .. K + m PROVE MYDATA[i] \in Byte
    BY <1>3, ElementOfSeq
  <2> QED
    BY <1>2, <1>3, <2>1, SubSeqProperties
<1>9. Cardinality(s.flags \cap {"SYN", "FIN"}) = 0
  <2>1. s.flags \cap {"SYN", "FIN"} = {}
    BY <1>4
  <2> QED
    BY <2>1, FS_EmptySet
<1>10. b.nxt + Span(s) = At(K + m)
  <2>1. Span(s) = m
    BY <1>2, <1>6, <1>9 DEF Span
  <2> HIDE DEF K
  <2>2. At(K) + m = At(K + m)
    BY <1>2, <1>3 DEF At, INIT_SEQ
  <2> QED
    BY <1>1, <2>1, <2>2
<1> HIDE DEF K
<1>11. b.got \o s.data = SubSeq(MYDATA, 1, K + m)
  BY <1>1, <1>6, <1>7
<1>12. "FIN" \notin s.flags /\ K + m > K
  BY <1>2, <1>3, <1>4
<1> QED
  BY <1>2, <1>8, <1>10, <1>11, <1>12 DEF K, m

\* The whole page.
LEMMA WholePage ==
  /\ SubSeq(MYDATA, 1, MYDATA_LENGTH) = MYDATA /\ Len(MYDATA) = MYDATA_LENGTH
  /\ MYDATA_LENGTH \in Places /\ MYDATA \in Seq(Byte)
<1>1. MYDATA \in Seq(Byte) /\ Len(MYDATA) = MYDATA_LENGTH /\ MYDATA_LENGTH \in Nat
  BY TcpAssumption, LengthType DEF Byte
<1> QED
  BY <1>1, SubSeqFull DEF Places

\* The FIN ends the stream.
LEMMA FinGoes ==
  ASSUME NEW c, BrowserOK(browser[c]), NEW s, ToBrowser(s, browser[c]), InOrder(c, s),
         Len(browser[c].got) = MYDATA_LENGTH
  PROVE  \E d, new : Goes(c, d, new) /\ d.st = "done"
<1> DEFINE b == browser[c]
           L == MYDATA_LENGTH
           d == [b EXCEPT !.nxt = Mod(@ + Span(s)), !.got = @ \o s.data,
                          !.acked = @ \/ Covers(s),
                          !.st = IF "FIN" \in s.flags THEN "done" ELSE @]
           ack == Segment(c, d.port, IF d.acked THEN ISS + 1 + Len(Request) ELSE ISS + 1,
                          d.nxt, {"ACK"}, <<>>)
<1>1. b.st = "established" /\ s.seq = b.nxt /\ "RST" \notin s.flags /\ b \in BrowserType
  BY DEF InOrder, BrowserOK
<1>2. s.flags = {"FIN", "ACK"} /\ s.data = <<>>
  BY <1>1, NextSegment DEF Piece
<1>3. Span(s) = 1
  <2>1. s.flags \cap {"SYN", "FIN"} = {"FIN"} /\ Len(s.data) = 0
    BY <1>2
  <2>2. Cardinality({"FIN"}) = 1
    BY FS_Singleton
  <2>3. Cardinality(s.flags \cap {"SYN", "FIN"}) = 1
    BY <2>1, <2>2
  <2> QED
    BY <2>1, <2>3 DEF Span
<1>4. b.got = MYDATA /\ b.nxt = At(L) /\ L \in Nat /\ b.got \in Seq(Byte)
  BY <1>1, WholePage, LengthType DEF BrowserOK, Connected, SawFin, At, INIT_SEQ
<1>5. b.got \o s.data = MYDATA
  BY <1>2, <1>4, ConcatEmptySeq
<1>6. b.nxt + Span(s) = At(L + 1) /\ Mod(At(L + 1)) = At(L + 1) /\ At(L + 1) \in Nat
  <2>1. b.nxt + Span(s) = At(L + 1)
    BY <1>3, <1>4 DEF At, INIT_SEQ
  <2> QED
    BY <1>4, <2>1, AtType
<1>7. /\ d.st = "done" /\ d.nxt = At(L + 1) /\ d.got = MYDATA /\ d.port = b.port
      /\ d.acked \in BOOLEAN /\ d \in BrowserType
  <2>1. d.st = "done" /\ d.nxt = At(L + 1) /\ d.got = MYDATA /\ d.port = b.port
    BY <1>1, <1>2, <1>5, <1>6 DEF BrowserType
  <2>2. d.acked \in BOOLEAN
    BY <1>1 DEF BrowserType, Covers
  <2> QED
    BY <1>1, <1>2, <1>5, <1>6, <2>2, WholePage DEF BrowserType
<1>8. browser' = [browser EXCEPT ![c] = d] /\ toServer' = toServer \cup {ack}
  BY <1>3 DEF InOrder, Answer
<1> HIDE DEF d
<1>9. BrowserOK(d)
  <2>1. At(L + 1) = At(L) + 1
    BY <1>4 DEF At, INIT_SEQ
  <2> QED
    BY <1>7, <2>1, WholePage DEF BrowserOK, Connected, SawFin
<1>10. Positions(b) \subseteq Positions(d) /\ L + 1 \in Positions(d) /\ Connected(d)
  BY <1>1, <1>4, <1>7 DEF Positions, SawFin, Connected
<1>11. Advances(b, d) /\ ReadsOn(b, d)
  BY <1>1, <1>4, <1>7, <1>10 DEF Advances, Connected, ReadsOn, HasEnded
<1>12. FrameIn(ack, c, d)
  BY <1>7, <1>10, AckIn
<1> HIDE DEF ack
<1>13. Goes(c, d, {ack})
  BY <1>8, <1>9, <1>11, <1>12 DEF Goes
<1> QED
  BY <1>7, <1>13

\* A piece is read, and what has been read is acknowledged.
LEMMA PieceGoes ==
  ASSUME NEW c, BrowserOK(browser[c]), NEW s, ToBrowser(s, browser[c]), InOrder(c, s),
         Len(browser[c].got) < MYDATA_LENGTH
  PROVE  \E d, ack : /\ Goes(c, d, {ack}) /\ d.st = "established" /\ d.acked
                     /\ IsTcp(ack) /\ "ACK" \in ack.data.body.flags
                     /\ ack.data.body.ack = d.nxt
<1> DEFINE b == browser[c]
           K == Len(b.got)
           n == K + ChunkLen(K)
           d == [b EXCEPT !.nxt = Mod(@ + Span(s)), !.got = @ \o s.data,
                          !.acked = @ \/ Covers(s),
                          !.st = IF "FIN" \in s.flags THEN "done" ELSE @]
           ack == Segment(c, d.port, IF d.acked THEN ISS + 1 + Len(Request) ELSE ISS + 1,
                          d.nxt, {"ACK"}, <<>>)
<1>1. b.st = "established" /\ s.seq = b.nxt /\ "RST" \notin s.flags /\ b \in BrowserType
  BY DEF InOrder, BrowserOK
<1>2. K \in Places /\ Piece(s, K) /\ (K = 0 => s.ack = 1)
  BY <1>1, NextSegment
<1>3. /\ b.got \o s.data = SubSeq(MYDATA, 1, n) /\ Len(SubSeq(MYDATA, 1, n)) = n
      /\ n \in Places /\ n > K /\ SubSeq(MYDATA, 1, n) \in Seq(Byte)
      /\ b.nxt + Span(s) = At(n) /\ "FIN" \notin s.flags
  BY <1>1, <1>2, ReadPiece
<1>4. K \in Nat /\ n \in Nat /\ n <= MYDATA_LENGTH /\ MYDATA_LENGTH = Len(MYDATA)
  BY <1>2, <1>3, LengthType DEF Places
<1> HIDE DEF n, K
<1>5. Mod(At(n)) = At(n) /\ At(n) \in Nat
  BY <1>4, LengthType, AtType
<1>6. b.acked \/ Covers(s)
  <2>1. CASE K = 0
    <3>1. "ACK" \in s.flags
      BY <1>2, <1>4, <2>1 DEF Piece, K
    <3> QED
      BY <1>2, <2>1, <3>1, BrowsersNumbers DEF Covers
  <2>2. CASE K # 0
    BY <1>1, <1>4, <2>2 DEF BrowserOK, K
  <2> QED
    BY <2>1, <2>2
<1>7. /\ d.st = "established" /\ d.nxt = At(n) /\ d.got = SubSeq(MYDATA, 1, n)
      /\ d.port = b.port /\ d.acked /\ d \in BrowserType
  BY <1>1, <1>3, <1>5, <1>6 DEF BrowserType
<1>8. browser' = [browser EXCEPT ![c] = d] /\ toServer' = toServer \cup {ack}
  <2>1. Span(s) # 0
    <3>1. Len(s.data) = n - K
      <4>1. Len(b.got \o s.data) = n
        BY <1>3
      <4>2. s.data \in Seq(Byte)
        <5>1. K \in Int /\ K <= MYDATA_LENGTH + 1
          BY <1>3, <1>4, LengthType
        <5>2. CASE s.data = <<>>
          BY <5>2, EmptySeq
        <5>3. CASE s.data = Chunk(K, ChunkLen(K))
          <6>1. ChunkLen(K) \in Nat
            BY <5>1, ChunkLenType
          <6> QED
            BY <5>1, <5>3, <6>1, ChunkType
        <5> QED
          BY <1>2, <5>2, <5>3 DEF Piece
      <4>3. b.got \in Seq(Byte)
        BY <1>1 DEF BrowserType
      <4>4. Len(b.got \o s.data) = Len(b.got) + Len(s.data) /\ Len(s.data) \in Nat
        BY <4>2, <4>3, ConcatProperties, LenProperties
      <4> QED
        BY <1>4, <4>1, <4>4 DEF K
    <3>2. Cardinality(s.flags \cap {"SYN", "FIN"}) = 0 \/ "FIN" \in s.flags
      <4>1. "FIN" \in s.flags \/ s.flags \cap {"SYN", "FIN"} = {}
        BY <1>2 DEF Piece
      <4> QED
        BY <4>1, FS_EmptySet
    <3> QED
      BY <1>3, <1>4, <3>1, <3>2 DEF Span
  <2> QED
    BY <2>1 DEF InOrder, Answer
<1> HIDE DEF d
<1>9. BrowserOK(d)
  BY <1>3, <1>4, <1>7 DEF BrowserOK, Connected, SawFin, At, INIT_SEQ
<1>10. Positions(b) \subseteq Positions(d) /\ n \in Positions(d) /\ Connected(d)
  <2>1. Len(b.got) = K /\ Len(d.got) = n /\ ~SawFin(b)
    BY <1>1, <1>3, <1>7 DEF K, SawFin
  <2>2. \A k \in Places : k <= K => k <= n
    BY <1>3, <1>4, LengthType DEF Places
  <2> QED
    BY <1>3, <1>4, <1>7, <2>1, <2>2 DEF Positions, Connected
<1>11. Advances(b, d)
  <2>1. b.got # MYDATA
    BY <1>4 DEF K
  <2> QED
    BY <1>1, <1>7, <1>10, <2>1 DEF Advances, Connected
<1>12. ReadsOn(b, d)
  <2>1. n \in (Len(b.got) + 1) .. Len(MYDATA)
    BY <1>3, <1>4 DEF K
  <2> QED
    BY <1>1, <1>7, <2>1 DEF ReadsOn, HasEnded
<1>13. FrameIn(ack, c, d)
  BY <1>7, <1>10, AckIn
<1>14. IsTcp(ack) /\ ack.data.body.flags = {"ACK"} /\ ack.data.body.ack = d.nxt
  BY <1>5, <1>7 DEF Segment, IpFrame, WithCheck, IsTcp
<1> HIDE DEF ack
<1>15. Goes(c, d, {ack})
  BY <1>8, <1>9, <1>11, <1>12, <1>13 DEF Goes
<1> QED
  BY <1>7, <1>14, <1>15

\* A segment that is not awaited is answered with what has been read.
LEMMA OutOfOrderGoes ==
  ASSUME NEW c, BrowserOK(browser[c]), NEW s, ToBrowser(s, browser[c]), OutOfOrder(c, s)
  PROVE  \E d, new : /\ Goes(c, d, new) /\ d.st = browser[c].st /\ d.nxt = browser[c].nxt
                     /\ d.got = browser[c].got
                     /\ (d.st = "established" => d.acked = browser[c].acked)
                     /\ (d.st = "established" => s.seq # browser[c].nxt)
<1> DEFINE b == browser[c]
           d == [b EXCEPT !.acked = @ \/ Covers(s)]
           ack == Segment(c, d.port, IF d.acked THEN ISS + 1 + Len(Request) ELSE ISS + 1,
                          d.nxt, {"ACK"}, <<>>)
           new == IF Span(s) = 0 THEN {} ELSE {ack}
<1>1. /\ b.st \in {"established", "done"} /\ "RST" \notin s.flags /\ b \in BrowserType
      /\ s.seq # b.nxt \/ b.st = "done"
  BY DEF OutOfOrder, BrowserOK
<1>2. Len(b.got) \in Places /\ b.nxt = At(Len(b.got)) + (IF SawFin(b) THEN 1 ELSE 0)
  BY <1>1 DEF BrowserOK, Connected
<1>3. b.st = "established" => (b.acked <=> (b.acked \/ Covers(s)))
  <2>1. SUFFICES ASSUME b.st = "established", Covers(s) PROVE Len(b.got) > 0
    BY DEF BrowserOK
  <2>2. s.ack = 1
    BY <2>1, BrowsersNumbers DEF Covers
  <2>3. PICK k \in Positions(b) : s.seq = At(k)
    BY <1>1, <2>2, BrowsersNumbers DEF ToBrowser
  <2>4. k \in Places /\ k <= Len(b.got) /\ k # Len(b.got)
    BY <1>1, <1>2, <2>1, <2>3 DEF Positions, SawFin, At, Places, INIT_SEQ
  <2> QED
    BY <1>2, <2>4, LengthType DEF Places
<1>4. /\ d.st = b.st /\ d.nxt = b.nxt /\ d.got = b.got /\ d.port = b.port
      /\ d \in BrowserType /\ (d.acked <=> (b.acked \/ Covers(s)))
  BY <1>1 DEF BrowserType, Covers
<1>5. browser' = [browser EXCEPT ![c] = d] /\ toServer' = toServer \cup new
  BY DEF OutOfOrder, Answer
<1> HIDE DEF d
<1>6. BrowserOK(d)
  BY <1>1, <1>3, <1>4 DEF BrowserOK, Connected, SawFin
<1>7. Advances(b, d) /\ ReadsOn(b, d)
  BY <1>4 DEF Advances, Connected, Positions, SawFin, ReadsOn, HasEnded
<1>8. Connected(d) /\ \E k \in Positions(d) : d.nxt = At(k)
  <2>1. CASE b.st = "established"
    BY <1>2, <1>4, <2>1, LengthType DEF Positions, SawFin, Connected, Places, At, INIT_SEQ
  <2>2. CASE b.st = "done"
    <3>1. Len(b.got) = MYDATA_LENGTH
      BY <2>2, WholePage DEF BrowserOK
    <3>2. b.nxt = At(MYDATA_LENGTH + 1)
      BY <1>2, <2>2, <3>1, LengthType DEF SawFin, At, INIT_SEQ
    <3> QED
      BY <1>4, <2>2, <3>2 DEF Positions, SawFin, Connected
  <2> QED
    BY <1>1, <2>1, <2>2
<1>9. d.acked \in BOOLEAN
  BY <1>4 DEF BrowserType
<1>10. FrameIn(ack, c, d)
  BY <1>8, <1>9, AckIn
<1> HIDE DEF ack
<1>11. \A f \in new : FrameIn(f, c, d)
  BY <1>10
<1> HIDE DEF new
<1>12. Goes(c, d, new)
  BY <1>5, <1>6, <1>7, <1>11 DEF Goes
<1>13. d.st = "established" => d.acked = b.acked
  BY <1>1, <1>3, <1>4 DEF BrowserType
<1> QED
  BY <1>1, <1>4, <1>12, <1>13

\* A reset comes when the page has been read.
LEMMA ResetsGoes ==
  ASSUME NEW c, BrowserOK(browser[c]), NEW s, ToBrowser(s, browser[c]), Resets(c, s)
  PROVE  \E d : Goes(c, d, {}) /\ (d = browser[c] \/ d.st \in {"reset", "closed"})
<1> DEFINE b == browser[c]
<1>1. b.st \in {"established", "done"} /\ "RST" \in s.flags /\ b \in BrowserType
  BY DEF Resets, BrowserOK
<1>2. CASE s.seq = b.nxt
  <2> DEFINE d == [b EXCEPT !.st = IF @ = "done" THEN "closed" ELSE "reset"]
  <2>1. browser' = [browser EXCEPT ![c] = d] /\ toServer' = toServer \cup {}
    BY <1>2 DEF Resets, Answer
  <2>2. b.got = MYDATA
    <3>1. ~Piece(s, 0) /\ \A k \in Positions(b) : ~Piece(s, k)
      BY <1>1 DEF Piece
    <3> QED
      BY <1>1, <3>1 DEF ToBrowser
  <2>3. /\ d \in BrowserType /\ d.got = b.got /\ d.nxt = b.nxt /\ d.port = b.port
        /\ d.st = IF b.st = "done" THEN "closed" ELSE "reset"
    BY <1>1 DEF BrowserType
  <2> HIDE DEF d
  <2>4. BrowserOK(d)
    BY <1>1, <2>2, <2>3 DEF BrowserOK, Connected, SawFin
  <2>5. Advances(b, d) /\ ReadsOn(b, d)
    BY <1>1, <2>2, <2>3 DEF Advances, Connected, Positions, SawFin, ReadsOn, HasEnded
  <2>6. Goes(c, d, {})
    BY <2>1, <2>4, <2>5 DEF Goes
  <2> QED
    BY <1>1, <2>3, <2>6
<1>3. CASE s.seq # b.nxt
  <2>1. browser' = [browser EXCEPT ![c] = b] /\ toServer' = toServer \cup {}
    BY <1>3 DEF Resets, Answer
  <2>2. Goes(c, b, {})
    BY <2>1, StaysOK DEF Goes
  <2> QED
    BY <2>2
<1> QED
  BY <1>2, <1>3


\* What a browser in state b that takes the segment s becomes: it is not in the
\* middle of a page, has just been accepted, did not await s, or has read the
\* next piece and acknowledges it.
Outcome(c, b, s, d, new) ==
  \/ d.st # "established"
  \/ b.st = "syn_sent" /\ d.got = <<>> /\ ~d.acked /\ d.nxt = At(0)
  \/ /\ b.st = "established" /\ d.nxt = b.nxt /\ d.got = b.got /\ d.acked = b.acked
     /\ s.seq # b.nxt \/ "RST" \in s.flags
  \/ /\ b.st = "established" /\ s.seq = b.nxt /\ "RST" \notin s.flags
     /\ Len(b.got) < MYDATA_LENGTH /\ d.acked
     /\ \E f \in new : /\ IsTcp(f) /\ "ACK" \in f.data.body.flags
                       /\ f.data.body.ack = d.nxt

\* Whatever segment on its way to it a browser takes, it goes on as it should.
LEMMA TakesGoes ==
  ASSUME NEW c, BrowserOK(browser[c]), NEW f, FrameOut(f, c, browser[c]), TakesSegment(f)
  PROVE  \E d, new : Goes(c, d, new) /\ Outcome(c, browser[c], f.data.body, d, new)
<1> DEFINE b == browser[c]
           s == f.data.body
<1>1. f.dst = c /\ ToBrowser(s, b)
  BY DEF FrameOut, TakesSegment, IsTcp
<1>2. Verifies(SumOfSegment(s) + Pseudo(f.data.src, f.data.dst, TCP_HDR_LEN + Len(s.data)))
  BY DEF FrameOut, TakesSegment, IsTcp, Sound
<1>3. Refuse(c, s) \/ Opened(c, s) \/ InOrder(c, s) \/ OutOfOrder(c, s) \/ Resets(c, s)
  BY <1>1, <1>2 DEF TakesSegment
<1>4. b \in BrowserType /\ (Connected(b) => Len(b.got) \in Places)
  BY DEF BrowserOK
<1> HIDE DEF s, b
<1>5. CASE Refuse(c, s)
  <2>1. b.st # "established"
    BY <1>1, <1>5 DEF Refuse, ToBrowser, b
  <2>2. PICK new : Goes(c, b, new)
    BY <1>1, <1>5, RefuseGoes DEF b
  <2> QED
    BY <2>1, <2>2 DEF Outcome, s, b
<1>6. CASE Opened(c, s)
  <2>1. PICK d, new : Goes(c, d, new) /\ Accepted(b, d)
    BY <1>1, <1>6, OpenedGoes DEF b
  <2> QED
    BY <2>1 DEF Outcome, Accepted, s, b
<1>7. CASE InOrder(c, s)
  <2>1. b.st = "established" /\ s.seq = b.nxt /\ "RST" \notin s.flags
    BY <1>7 DEF InOrder, b
  <2>2. Len(b.got) \in Nat /\ Len(b.got) <= MYDATA_LENGTH
    BY <1>4, <2>1, LengthType DEF Places, Connected
  <2>3. CASE Len(b.got) = MYDATA_LENGTH
    <3>1. PICK d, new : Goes(c, d, new) /\ d.st = "done"
      BY <1>1, <1>7, <2>3, FinGoes DEF b
    <3> QED
      BY <3>1 DEF Outcome, s, b
  <2>4. CASE Len(b.got) < MYDATA_LENGTH
    <3>1. PICK d, ack : /\ Goes(c, d, {ack}) /\ d.st = "established" /\ d.acked
                        /\ IsTcp(ack) /\ "ACK" \in ack.data.body.flags
                        /\ ack.data.body.ack = d.nxt
      BY <1>1, <1>7, <2>4, PieceGoes DEF b
    <3>2. Outcome(c, b, s, d, {ack})
      BY <2>1, <2>4, <3>1 DEF Outcome
    <3> QED
      BY <3>1, <3>2 DEF s, b
  <2> QED
    BY <2>2, <2>3, <2>4, LengthType
<1>8. CASE OutOfOrder(c, s)
  <2>1. PICK d, new : /\ Goes(c, d, new) /\ d.st = b.st /\ d.nxt = b.nxt /\ d.got = b.got
                      /\ (d.st = "established" => d.acked = b.acked)
                      /\ (d.st = "established" => s.seq # b.nxt)
    BY <1>1, <1>8, OutOfOrderGoes DEF b
  <2> QED
    BY <2>1 DEF Outcome, s, b
<1>9. CASE Resets(c, s)
  <2>1. PICK d : Goes(c, d, {}) /\ (d = b \/ d.st \in {"reset", "closed"})
    BY <1>1, <1>9, ResetsGoes DEF b
  <2>2. "RST" \in s.flags
    BY <1>9 DEF Resets
  <2> QED
    BY <2>1, <2>2 DEF Outcome, s, b
<1> QED
  BY <1>3, <1>5, <1>6, <1>7, <1>8, <1>9

\* A step of the network that brings a host a frame.
LEMMA TakeStep ==
  ASSUME Inv, NEW f \in toHosts, Takes(f), toHosts' \in {toHosts, toHosts \ {f}},
         UNCHANGED tcpVars
  PROVE  /\ Inv'
         /\ \/ UNCHANGED <<browser, toServer, fifo>> /\ ~IsTcp(f)
            \/ \E c \in Hosts : \E d, new :
                 /\ f.dst = c /\ IsTcp(f) /\ UNCHANGED fifo
                 /\ Goes(c, d, new) /\ Outcome(c, browser[c], f.data.body, d, new)
<1>1. PICK c \in Hosts : FrameOut(f, c, browser[c])
  BY DEF Inv, OutboundOK
<1>2. CASE TakesSegment(f)
  <2>1. BrowserOK(browser[c])
    BY DEF Inv, BrowsersOK
  <2>2. PICK d, new : Goes(c, d, new) /\ Outcome(c, browser[c], f.data.body, d, new)
    BY <1>1, <1>2, <2>1, TakesGoes
  <2>3. f.dst = c /\ IsTcp(f) /\ UNCHANGED fifo
    BY <1>1, <1>2 DEF TakesSegment, FrameOut, IsTcp
  <2>4. Inv'
    BY <2>2, <2>3, HostStep DEF Goes
  <2> QED
    BY <2>2, <2>3, <2>4
<1>3. CASE TakesReply(f)
  <2>1. UNCHANGED <<browser, toServer, fifo>> /\ ~IsTcp(f)
    BY <1>3 DEF TakesReply, IsTcp
  <2>2. FifoOK' /\ InMemory' = InMemory
    BY <2>1, MemorySame DEF Inv
  <2>3. Inv'
    BY <2>1, <2>2, ShrinkStep
  <2> QED
    BY <2>1, <2>3
<1> QED
  BY <1>2, <1>3 DEF Takes

-----------------------------------------------------------------------------
(* What the server sends verifies.                                         *)

\* An address adds a number to a sum.
LEMMA AddressSumType ==
  ASSUME NEW h \in Byte
  PROVE  AddressSum(h) \in Int
<1>1. IP_ADDR(h) \in Seq(Byte)
  <2>1. 192 \in Byte /\ 168 \in Byte /\ 1 \in Byte
    BY DEF Byte
  <2> QED
    BY <2>1 DEF IP_ADDR
<1> QED
  BY <1>1, SumOfWordsType DEF AddressSum

\* The checksum completes the sum of the segment and its pseudo header, which a
\* receiver takes over the addresses in the other order.
LEMMA CheckVerifies ==
  ASSUME NEW from \in Byte, NEW to \in Byte, NEW sport \in Int, NEW dport \in Int,
         NEW seq \in Int, NEW ack \in Int, NEW flags, NEW data \in Seq(Byte)
  PROVE  LET s == WithCheck([sport |-> sport, dport |-> dport, seq |-> seq, ack |-> ack,
                             flags |-> flags, data |-> data, check |-> 0], from, to)
         IN Verifies(SumOfSegment(s) + Pseudo(to, from, TCP_HDR_LEN + Len(s.data)))
<1> DEFINE r == [sport |-> sport, dport |-> dport, seq |-> seq, ack |-> ack,
                 flags |-> flags, data |-> data, check |-> 0]
           s == WithCheck(r, from, to)
           rest == sport + dport + Halves(seq) + Halves(ack) + 256 * 80 + FlagsByte(flags)
                   + 1000
           P == Pseudo(from, to, TCP_HDR_LEN + Len(data))
           W == SumOfWords(data)
<1>1. rest \in Int
  <2>1. Halves(seq) \in Int /\ Halves(ack) \in Int
    BY DEF Halves
  <2>2. FlagsByte(flags) \in Int
    BY DEF FlagsByte
  <2> QED
    BY <2>1, <2>2
<1>2. W \in Int /\ Len(data) \in Int
  BY SumOfWordsType, LenProperties
<1>3. P \in Int /\ Pseudo(to, from, TCP_HDR_LEN + Len(data)) = P
  BY <1>2, AddressSumType DEF Pseudo, TCP_HDR_LEN
<1>4. SumOfSegment([r EXCEPT !.check = 0]) = rest + 0 + W
  BY DEF SumOfSegment
<1> HIDE DEF P
<1>5. s = [r EXCEPT !.check = Folded(rest + 0 + W + P)]
  BY <1>4 DEF WithCheck, P
<1>6. SumOfSegment(s) = rest + Folded(rest + 0 + W + P) + W /\ s.data = data
  BY <1>5 DEF SumOfSegment
<1> HIDE DEF rest, W, s, r
<1> DEFINE n == rest + 0 + W + P
<1>7. n \in Int /\ n = rest + W + P
  BY <1>1, <1>2, <1>3
<1> HIDE DEF n
<1>8. Folded(n) \in Int /\ Verifies(n + Folded(n))
  BY <1>7, FoldedVerifies
<1>9. SumOfSegment(s) + P = n + Folded(n)
  BY <1>1, <1>2, <1>3, <1>6, <1>7, <1>8 DEF n
<1> QED
  BY <1>3, <1>6, <1>8, <1>9 DEF s, r

\* A segment the server sends to host c.
Answers(f, c, port, seq, ack, flags, data) ==
  /\ f.dst = c /\ IsTcp(f) /\ f.data.dst = c /\ f.data.src = Server
  /\ f.data.body.dport = port /\ f.data.body.seq = seq /\ f.data.body.ack = ack
  /\ f.data.body.flags = flags /\ f.data.body.data = data
  /\ Sound(f)

\* The segment the server replies with carries the checksum of its fields.
LEMMA ReplySent ==
  ASSUME NEW rx, NEW c \in Byte, rx.src = c, rx.data.src = c,
         NEW to, to.srcAddr = c, to.dstAddr = Server, to.srcPort \in Int, to.dstPort = PORT,
         NEW seq \in Int, NEW ack \in Int, NEW flags, NEW data \in Seq(Byte),
         tcp_send_packet(rx, to, seq, ack, flags, data)
  PROVE  \E f : Answers(f, c, to.srcPort, seq, ack, flags, data) /\ toHosts' = toHosts \cup {f}
<1> DEFINE r == [sport |-> PORT, dport |-> to.srcPort, seq |-> seq, ack |-> ack,
                 flags |-> flags, data |-> data, check |-> 0]
           s == WithCheck(r, c, Server)
           f == ip_make_reply(rx, "TCP", s)
<1>1. toHosts' = toHosts \cup {f}
  BY DEF tcp_send_packet, ethernet_send
<1>2. Server \in Byte /\ PORT \in Int
  BY DEF Server, Byte, PORT
<1>3. Verifies(SumOfSegment(s) + Pseudo(Server, c, TCP_HDR_LEN + Len(s.data)))
  BY <1>2, CheckVerifies
<1>4. /\ s.dport = to.srcPort /\ s.seq = seq /\ s.ack = ack /\ s.flags = flags
      /\ s.data = data
  BY DEF WithCheck
<1> HIDE DEF s
<1>5. /\ f.dst = c /\ IsTcp(f) /\ f.data.dst = c /\ f.data.src = Server
      /\ f.data.body = s
  BY DEF ip_make_reply, ethernet_set_tx, IsTcp
<1> HIDE DEF f
<1> QED
  BY <1>1, <1>3, <1>4, <1>5 DEF Answers, Sound

-----------------------------------------------------------------------------
(* What the server does with a segment.                                    *)

\* A segment of host c, as the server looks at it.
LEMMA SegmentOfHost ==
  ASSUME Inv, NEW c \in Hosts, NEW rx, FrameIn(rx, c, browser[c]), IsTcp(rx)
  PROVE  LET s == rx.data.body
             b == browser[c]
         IN /\ rx.src = c /\ rx.data.src = c /\ c \in Byte /\ rx.data.version = IP_VERSION_VAL
            /\ From(rx) = [srcAddr |-> c, srcPort |-> b.port, dstAddr |-> Server, dstPort |-> PORT]
            /\ b \in BrowserType /\ b.st # "idle"
            /\ "SYN" \in s.flags => s.seq = ISS /\ s.ack = 0 /\ s.data = <<>> /\ "RST" \notin s.flags
            /\ "RST" \in s.flags => b.st \in {"reset", "closed"} /\ "SYN" \notin s.flags
            /\ "SYN" \in s.flags => "ACK" \notin s.flags
            /\ "SYN" \notin s.flags /\ "RST" \notin s.flags =>
                 /\ Connected(b) /\ \E k \in Positions(b) : s.ack = At(k)
                 /\ \/ s.seq = 0 /\ s.data \in {<<>>, Request}
                    \/ s.seq = 1 /\ s.data = <<>>
<1>1. browser[c] \in BrowserType
  BY DEF Inv, BrowsersOK, BrowserOK
<1>2. c \in Byte
  BY ClientAssumption DEF Byte
<1>3. rx.data.body.sport = browser[c].port /\ rx.data.body.dport = PORT
  BY DEF FrameIn, FromBrowser
<1>4. From(rx) = [srcAddr |-> c, srcPort |-> browser[c].port, dstAddr |-> Server, dstPort |-> PORT]
  BY <1>3 DEF From, FrameIn, IsTcp
<1>5. FromBrowser(rx.data.body, browser[c]) /\ rx.src = c /\ rx.data.src = c
      /\ rx.data.version = IP_VERSION_VAL
  BY DEF FrameIn, IsTcp
<1> QED
  BY <1>1, <1>2, <1>4, <1>5 DEF FromBrowser, Connected

\* The server serves c and reads on, or it is busy with another connection, or
\* neither: then it sends at most the answer to a SYN, or a reset.
Handled(c, s) ==
  \/ /\ PeerIs(c) /\ state = "established" /\ "RST" \notin s.flags /\ peer' = peer
     /\ \/ toHosts' = toHosts /\ PosOf(s) = 0 /\ s.data = <<>> /\ tcp_state' = "established"
        \/ \E f : /\ toHosts' = toHosts \cup {f} /\ IsTcp(f) /\ f.dst = c
                  /\ f.data.body.seq = s.ack /\ "RST" \notin f.data.body.flags
                  /\ tcp_state' = "established" \/ PosOf(s) = MYDATA_LENGTH
  \/ /\ ~PeerIs(c) /\ state # "closed"
     /\ tcp_state' = state /\ peer' = peer /\ toHosts' = toHosts
  \/ /\ (PeerIs(c) /\ "RST" \in s.flags) \/ state # "established"
     /\ \/ toHosts' = toHosts
        \/ \E f : /\ toHosts' = toHosts \cup {f} /\ IsTcp(f) /\ f.dst = c
                  /\ f.data.body.seq = INIT_SEQ \/ "RST" \in f.data.body.flags

\* What a step of the server has to show.
ServedRight(c, s) ==
  ServerOK' /\ Handled(c, s) /\ \A f \in toHosts' : f \in toHosts \/ FrameOut(f, c, browser[c])

\* A reply fits its browser.
LEMMA ReplyFits ==
  ASSUME NEW f, NEW c, NEW b, NEW seq, NEW ack, NEW flags, NEW data,
         Answers(f, c, b.port, seq, ack, flags, data), b.st # "idle",
         \/ flags = {"SYN", "ACK"} /\ seq = INIT_SEQ /\ ack = 0 /\ data = <<>>
         \/ flags = {"RST"} /\ Connected(b) /\ b.got = MYDATA
         \/ flags = {"ACK", "PSH"} /\ seq = 0 /\ ack = ISS
         \/ /\ Connected(b) /\ seq = At(0) /\ ack = 1 /\ 0 \in Positions(b)
            /\ \A s : s.flags = flags /\ s.data = data => Piece(s, 0)
         \/ /\ Connected(b) /\ ack \in {0, 1}
            /\ \E k \in Positions(b) : /\ k # 0 /\ seq = At(k)
                                       /\ \A s : s.flags = flags /\ s.data = data => Piece(s, k)
  PROVE  FrameOut(f, c, b)
<1>1. ToBrowser(f.data.body, b)
  BY DEF Answers, ToBrowser
<1> QED
  BY <1>1 DEF Answers, FrameOut, IsTcp

\* The count closes the connection or leaves it as it is.
LEMMA StateIs == state = "closed" \/ state = tcp_state
  BY DEF state

\* The connection stays the one it was.
LEMMA SamePeerOK ==
  ASSUME Inv, UNCHANGED <<browser, peer>>, tcp_ack' \in Int, tcp_seq' \in Int,
         \/ tcp_state' = "fin_sent" => tcp_state = "fin_sent"
         \/ \A h \in Hosts : PeerIs(h) => Connected(browser[h]) /\ browser[h].got = MYDATA
  PROVE  ServerOK'
  BY DEF Inv, ServerOK, PeerIs

\* One of the ways to go on each: a SYN opens the connection ...
LEMMA OpenOK ==
  ASSUME Inv, NEW c \in Hosts, NEW rx, FrameIn(rx, c, browser[c]), IsTcp(rx),
         UNCHANGED browser, Open(rx, rx.data.body)
  PROVE  ServedRight(c, rx.data.body)
<1> DEFINE s == rx.data.body
           b == browser[c]
<1>1. /\ rx.src = c /\ rx.data.src = c /\ c \in Byte /\ b \in BrowserType /\ b.st # "idle"
      /\ From(rx) = [srcAddr |-> c, srcPort |-> b.port, dstAddr |-> Server, dstPort |-> PORT]
      /\ "SYN" \in s.flags => s.seq = ISS
  BY SegmentOfHost
<1>2. /\ "SYN" \in s.flags /\ state = "closed" /\ peer' = From(rx)
      /\ tcp_ack' = Mod(s.seq + 1) /\ tcp_seq' = INIT_SEQ /\ tcp_state' = "sync_recved"
      /\ tcp_send_packet(rx, peer', tcp_seq', tcp_ack', {"SYN", "ACK"}, <<>>)
  BY DEF Open, Accepts
<1>3. tcp_ack' = 0 /\ tcp_seq' \in Int /\ tcp_ack' \in Int
  BY <1>1, <1>2, BrowsersNumbers DEF INIT_SEQ
<1>4. /\ peer'.srcAddr = c /\ peer'.srcPort = b.port /\ peer'.dstAddr = Server
      /\ peer'.dstPort = PORT /\ b.port \in Nat
  BY <1>1, <1>2 DEF BrowserType
<1>5. ServerOK'
  BY <1>2, <1>3, <1>4 DEF ServerOK
<1>6. \E f : Answers(f, c, peer'.srcPort, tcp_seq', tcp_ack', {"SYN", "ACK"}, <<>>)
             /\ toHosts' = toHosts \cup {f}
  <2> DEFINE to == peer'
             seq == tcp_seq'
             ack == tcp_ack'
  <2>1. <<>> \in Seq(Byte)
    BY EmptySeq
  <2>2. rx.src = c /\ rx.data.src = c /\ c \in Byte
    BY <1>1
  <2>3. to.srcAddr = c /\ to.dstAddr = Server /\ to.srcPort \in Int /\ to.dstPort = PORT
    BY <1>4
  <2>4. seq \in Int /\ ack \in Int /\ tcp_send_packet(rx, to, seq, ack, {"SYN", "ACK"}, <<>>)
    BY <1>2, <1>3
  <2> HIDE DEF to, seq, ack
  <2>5. \E f : Answers(f, c, to.srcPort, seq, ack, {"SYN", "ACK"}, <<>>)
                /\ toHosts' = toHosts \cup {f}
    BY <2>1, <2>2, <2>3, <2>4, ReplySent, ZenonT(60)
  <2> QED
    BY <2>5 DEF to, seq, ack
<1>7. PICK f : Answers(f, c, b.port, INIT_SEQ, 0, {"SYN", "ACK"}, <<>>)
               /\ toHosts' = toHosts \cup {f}
  BY <1>2, <1>3, <1>4, <1>6
<1>8. FrameOut(f, c, b)
  BY <1>1, <1>7, ReplyFits
<1>9. Handled(c, s)
  BY <1>2, <1>7 DEF Handled, Answers
<1> QED
  BY <1>5, <1>7, <1>8, <1>9 DEF ServedRight

\* ... a packet of somebody else only counts ...
LEMMA NotOfPeerOK ==
  ASSUME Inv, NEW c \in Hosts, NEW rx, FrameIn(rx, c, browser[c]), IsTcp(rx),
         UNCHANGED browser, NotOfPeer(rx, rx.data.body)
  PROVE  ServedRight(c, rx.data.body)
<1>1. UNCHANGED <<peer, tcp_ack, tcp_seq, toHosts>> /\ tcp_state' = state /\ From(rx) # peer
  BY DEF NotOfPeer
<1>2. tcp_ack' \in Int /\ tcp_seq' \in Int
  BY <1>1 DEF Inv, ServerOK
<1>3. ServerOK'
  BY <1>1, <1>2, StateIs, SamePeerOK
<1>4. ~PeerIs(c)
  BY <1>1, SegmentOfHost DEF PeerIs
<1>5. Handled(c, rx.data.body)
  BY <1>1, <1>4 DEF Handled
<1> QED
  BY <1>1, <1>3, <1>5 DEF ServedRight

\* ... a packet of the peer is one of its host ...
LEMMA OfPeerIs ==
  ASSUME Inv, NEW c \in Hosts, NEW rx, FrameIn(rx, c, browser[c]), IsTcp(rx),
         OfPeer(rx, rx.data.body)
  PROVE  PeerIs(c)
  BY SegmentOfHost DEF OfPeer, PeerIs

\* ... a reset closes the connection ...
LEMMA ResetOK ==
  ASSUME Inv, NEW c \in Hosts, NEW rx, FrameIn(rx, c, browser[c]), IsTcp(rx),
         UNCHANGED browser, Reset(rx, rx.data.body)
  PROVE  ServedRight(c, rx.data.body)
<1>1. /\ UNCHANGED <<peer, tcp_ack, tcp_seq, toHosts>> /\ tcp_state' = "closed"
      /\ "RST" \in rx.data.body.flags /\ PeerIs(c)
  BY OfPeerIs DEF Reset
<1>2. tcp_ack' \in Int /\ tcp_seq' \in Int
  BY <1>1 DEF Inv, ServerOK
<1>3. ServerOK'
  BY <1>1, <1>2, SamePeerOK
<1>4. Handled(c, rx.data.body)
  BY <1>1 DEF Handled
<1> QED
  BY <1>1, <1>3, <1>4 DEF ServedRight

\* ... what follows a FIN is answered with a reset ...
LEMMA FinSentOK ==
  ASSUME Inv, NEW c \in Hosts, NEW rx, FrameIn(rx, c, browser[c]), IsTcp(rx),
         UNCHANGED browser, FinSent(rx, rx.data.body)
  PROVE  ServedRight(c, rx.data.body)
<1> DEFINE s == rx.data.body
           b == browser[c]
<1>1. /\ rx.src = c /\ rx.data.src = c /\ c \in Byte /\ b \in BrowserType /\ b.st # "idle"
      /\ "SYN" \in s.flags => s.ack = 0
      /\ "SYN" \notin s.flags /\ "RST" \notin s.flags => \E k \in Positions(b) : s.ack = At(k)
  BY SegmentOfHost
<1>2. /\ PeerIs(c) /\ "RST" \notin s.flags /\ state = "fin_sent" /\ tcp_seq' = s.ack
      /\ tcp_send_packet(rx, peer, tcp_seq', tcp_ack, {"RST"}, <<>>)
      /\ tcp_state' = "closed" /\ UNCHANGED <<peer, tcp_ack>>
  BY OfPeerIs DEF FinSent
<1>3. Connected(b) /\ b.got = MYDATA
  BY <1>2, StateIs DEF Inv, ServerOK
<1>4. tcp_seq' \in Int /\ tcp_ack \in Int /\ tcp_ack' \in Int
  <2>1. tcp_ack \in Int /\ tcp_ack' \in Int
    BY <1>2 DEF Inv, ServerOK
  <2>2. \A k \in Positions(b) : At(k) \in Int
    BY LengthType DEF Positions, Places, At, INIT_SEQ
  <2> QED
    BY <1>1, <1>2, <2>1, <2>2
<1>5. ServerOK'
  BY <1>2, <1>4, SamePeerOK
<1>6. \E f : Answers(f, c, b.port, tcp_seq', tcp_ack, {"RST"}, <<>>)
             /\ toHosts' = toHosts \cup {f}
  <2> DEFINE seq == tcp_seq'
  <2>1. <<>> \in Seq(Byte)
    BY EmptySeq
  <2>2. /\ peer.srcAddr = c /\ peer.dstAddr = Server /\ peer.srcPort = b.port
        /\ peer.srcPort \in Int /\ peer.dstPort = PORT
    BY <1>1, <1>2 DEF PeerIs, BrowserType
  <2>3. seq \in Int /\ tcp_send_packet(rx, peer, seq, tcp_ack, {"RST"}, <<>>)
    BY <1>2, <1>4
  <2> HIDE DEF seq
  <2>4. \E f : Answers(f, c, peer.srcPort, seq, tcp_ack, {"RST"}, <<>>)
               /\ toHosts' = toHosts \cup {f}
    BY <1>1, <1>4, <2>1, <2>2, <2>3, ReplySent, ZenonT(60)
  <2> QED
    BY <2>2, <2>4 DEF seq
<1>7. PICK f : Answers(f, c, b.port, tcp_seq', tcp_ack, {"RST"}, <<>>)
               /\ toHosts' = toHosts \cup {f}
  BY <1>6
<1>8. FrameOut(f, c, b)
  <2> DEFINE seq == tcp_seq'
  <2>1. Answers(f, c, b.port, seq, tcp_ack, {"RST"}, <<>>)
    BY <1>7
  <2> HIDE DEF seq
  <2> QED
    BY <1>1, <1>3, <2>1, ReplyFits
<1>9. Handled(c, s)
  BY <1>2, <1>7 DEF Handled, Answers
<1> QED
  BY <1>5, <1>7, <1>8, <1>9 DEF ServedRight

\* ... the acknowledgement of the SYN establishes the connection ...
LEMMA SyncRecvedOK ==
  ASSUME Inv, NEW c \in Hosts, NEW rx, FrameIn(rx, c, browser[c]), IsTcp(rx),
         UNCHANGED browser, SyncRecved(rx, rx.data.body)
  PROVE  ServedRight(c, rx.data.body)
<1> DEFINE s == rx.data.body
           b == browser[c]
<1>1. /\ "SYN" \in s.flags => "ACK" \notin s.flags
      /\ "SYN" \notin s.flags /\ "RST" \notin s.flags =>
           (\E k \in Positions(b) : s.ack = At(k)) /\ s.seq \in {0, 1}
  BY SegmentOfHost
<1>2. /\ "RST" \notin s.flags /\ "ACK" \in s.flags /\ state = "sync_recved"
      /\ tcp_seq' = s.ack /\ tcp_ack' = Mod(s.seq + 1)
      /\ tcp_state' = "established" /\ UNCHANGED <<peer, toHosts>>
  BY DEF SyncRecved
<1>3. tcp_seq' \in Int /\ tcp_ack' \in Int
  <2>1. \A k \in Positions(b) : At(k) \in Int
    BY LengthType DEF Positions, Places, At, INIT_SEQ
  <2> DEFINE n == s.seq + 1
  <2>2. n \in Int
    BY <1>1, <1>2
  <2> HIDE DEF n
  <2>3. Mod(n) \in Int
    BY <2>2, ModType
  <2> QED
    BY <1>1, <1>2, <2>1, <2>3 DEF n
<1>4. ServerOK'
  BY <1>2, <1>3, SamePeerOK
<1>5. Handled(c, s)
  BY <1>2 DEF Handled
<1> QED
  BY <1>2, <1>4, <1>5 DEF ServedRight

\* ... and in other cases nothing happens.
LEMMA IgnoredOK ==
  ASSUME Inv, NEW c \in Hosts, NEW rx, FrameIn(rx, c, browser[c]), IsTcp(rx),
         UNCHANGED browser, Ignored(rx, rx.data.body)
  PROVE  ServedRight(c, rx.data.body)
<1>1. /\ UNCHANGED <<peer, tcp_ack, tcp_seq, toHosts>> /\ tcp_state' = state
      /\ state \in {"closed", "sync_recved"}
  BY DEF Ignored
<1>2. tcp_ack' \in Int /\ tcp_seq' \in Int
  BY <1>1 DEF Inv, ServerOK
<1>3. ServerOK'
  BY <1>1, <1>2, SamePeerOK
<1>4. Handled(c, rx.data.body)
  BY <1>1 DEF Handled
<1> QED
  BY <1>1, <1>3, <1>4 DEF ServedRight

\* A segment of the connection that is read on with: what is sent depends on
\* the place it acknowledges.
LEMMA EstablishedOK ==
  ASSUME Inv, NEW c \in Hosts, NEW rx, FrameIn(rx, c, browser[c]), IsTcp(rx),
         UNCHANGED browser, Established(rx, rx.data.body)
  PROVE  ServedRight(c, rx.data.body)
<1> DEFINE s == rx.data.body
           b == browser[c]
           pos == PosOf(s)
<1>1. /\ rx.src = c /\ rx.data.src = c /\ c \in Byte /\ b \in BrowserType /\ b.st # "idle"
      /\ "SYN" \in s.flags => s.seq = ISS /\ s.ack = 0 /\ s.data = <<>>
      /\ "SYN" \notin s.flags /\ "RST" \notin s.flags =>
           /\ Connected(b) /\ \E k \in Positions(b) : s.ack = At(k)
           /\ \/ s.seq = 0 /\ s.data \in {<<>>, Request}
              \/ s.seq = 1 /\ s.data = <<>>
  BY SegmentOfHost
<1>2. /\ PeerIs(c) /\ "RST" \notin s.flags /\ state = "established" /\ peer' = peer
      /\ tcp_ack' = Taken(s) /\ tcp_seq' = s.ack
  BY OfPeerIs DEF Established
<1>3. \/ /\ pos = 0 /\ s.data = <<>>
         /\ tcp_state' = state /\ UNCHANGED toHosts
      \/ /\ pos = MYDATA_LENGTH /\ ~(pos = 0 /\ s.data = <<>>)
         /\ tcp_send_packet(rx, peer, tcp_seq', tcp_ack', {"FIN", "ACK"}, <<>>)
         /\ tcp_state' = "fin_sent"
      \/ /\ pos # MYDATA_LENGTH /\ ~(pos = 0 /\ s.data = <<>>)
         /\ tcp_send_packet(rx, peer, tcp_seq', tcp_ack',
              {"ACK"} \cup (IF pos # 0 THEN {"PSH"} ELSE {}), Chunk(pos, ChunkLen(pos)))
         /\ tcp_state' = state
  BY DEF Established
<1>4. /\ peer.srcAddr = c /\ peer.dstAddr = Server /\ peer.srcPort = b.port
      /\ peer.srcPort \in Int /\ peer.dstPort = PORT
  BY <1>1, <1>2 DEF PeerIs, BrowserType
\* What is acknowledged, and where that is.
<1>5. CASE "SYN" \in s.flags
  <2>1. tcp_seq' = 0 /\ tcp_ack' = ISS /\ ISS \in Int /\ pos \in Int /\ pos < 0
    <3>1. Taken(s) = Mod(ISS + Len(<<>>)) /\ Len(<<>>) = 0
      BY <1>1, <1>5, EmptySeq DEF Taken
    <3>2. Mod(ISS + 0) = ISS /\ ISS \in Int
      BY BrowsersNumbers
    <3>3. pos \in Int /\ pos < 0
      BY <1>1, <1>5, PosOfAt, SynPos
    <3> QED
      BY <1>1, <1>2, <1>5, <3>1, <3>2, <3>3
  <2> DEFINE seq == tcp_seq'
             ack == tcp_ack'
             data == Chunk(pos, ChunkLen(pos))
  <2> HIDE DEF pos
  <2>2. /\ tcp_send_packet(rx, peer, seq, ack, {"ACK", "PSH"}, data)
        /\ tcp_state' = "established"
    <3>1. pos # 0 /\ pos # MYDATA_LENGTH
      BY <2>1, LengthType
    <3>2. {"ACK"} \cup (IF pos # 0 THEN {"PSH"} ELSE {}) = {"ACK", "PSH"}
      BY <3>1
    <3> QED
      BY <1>2, <1>3, <3>1, <3>2
  <2>3. data \in Seq(Byte)
    <3>1. ChunkLen(pos) \in Nat
      BY <2>1, ChunkLenType, LengthType
    <3> QED
      BY <2>1, <3>1, ChunkType
  <2>4. seq = 0 /\ ack = ISS /\ seq \in Int /\ ack \in Int
    BY <2>1
  <2> HIDE DEF seq, ack, data
  <2>5. PICK f : Answers(f, c, peer.srcPort, seq, ack, {"ACK", "PSH"}, data)
                 /\ toHosts' = toHosts \cup {f}
    BY <1>1, <1>4, <2>2, <2>3, <2>4, ReplySent
  <2>6. FrameOut(f, c, b)
    BY <1>1, <1>4, <2>4, <2>5, ReplyFits
  <2>7. ServerOK'
    BY <1>2, <2>2, <2>4, SamePeerOK DEF seq, ack
  <2>8. Handled(c, s)
    <3>1. f.data.body.seq = s.ack
      BY <1>2, <2>5 DEF Answers, seq
    <3> QED
      BY <1>2, <2>2, <2>5, <3>1 DEF Handled, Answers
  <2> QED
    BY <2>5, <2>6, <2>7, <2>8 DEF ServedRight
<1>6. CASE "SYN" \notin s.flags
  <2>1. PICK k \in Positions(b) : s.ack = At(k)
    BY <1>1, <1>2, <1>6
  <2>2. k \in Nat /\ k <= MYDATA_LENGTH + 1 /\ Connected(b)
    BY <1>1, <1>2, <1>6, LengthType DEF Positions, Places
  <2>3. pos = k
    BY <2>1, <2>2, PosOfAt
  <2>4. tcp_seq' = At(k) /\ At(k) \in Int
    BY <1>2, <2>1, <2>2, AtType
  <2>5. tcp_ack' \in {0, 1} /\ (s.data # <<>> => tcp_ack' = 1)
    <3>1. \/ Taken(s) = Mod(0 + 0) /\ s.data = <<>>
          \/ Taken(s) = Mod(0 + 1)
          \/ Taken(s) = Mod(1 + 0)
      <4>1. Len(<<>>) = 0 /\ Len(Request) = 1
        BY BrowsersNumbers
      <4> QED
        BY <1>1, <1>2, <1>6, <4>1 DEF Taken
    <3>2. Mod(0) = 0 /\ Mod(1) = 1
      BY ModSmall, LengthType
    <3>3. Taken(s) \in {0, 1} /\ (s.data # <<>> => Taken(s) = 1)
      <4>1. 0 + 0 = 0 /\ 0 + 1 = 1 /\ 1 + 0 = 1
        OBVIOUS
      <4> QED
        BY <1>1, <1>2, <1>6, <3>1, <3>2, <4>1
    <3> QED
      BY <1>2, <3>3
  <2> DEFINE seq == tcp_seq'
             ack == tcp_ack'
  <2>6. /\ seq = At(k) /\ seq \in Int /\ ack \in Int /\ ack \in {0, 1}
        /\ s.data # <<>> => ack = 1
    BY <2>4, <2>5
  <2>7. b.got = MYDATA \/ k # MYDATA_LENGTH
    <3>1. BrowserOK(b)
      BY DEF Inv, BrowsersOK
    <3>2. Len(b.got) \in Places /\ b.got = SubSeq(MYDATA, 1, Len(b.got))
      BY <2>2, <3>1 DEF BrowserOK
    <3>3. k = MYDATA_LENGTH => Len(b.got) = MYDATA_LENGTH
      BY <3>2, LengthType DEF Positions, Places
    <3> QED
      BY <3>2, <3>3, WholePage
  <2> HIDE DEF pos
  \* The answer, if there is one.
  <2>8. ASSUME NEW flags, NEW data \in Seq(Byte),
               tcp_send_packet(rx, peer, seq, ack, flags, data),
               \A t : t.flags = flags /\ t.data = data => Piece(t, k),
               "RST" \notin flags, k = 0 => s.data # <<>>,
               tcp_state' = "established" \/ pos = MYDATA_LENGTH
        PROVE  Handled(c, s) /\ \A f \in toHosts' : f \in toHosts \/ FrameOut(f, c, b)
    <3>0. tcp_seq' = seq
      OBVIOUS
    <3> HIDE DEF seq, ack
    <3>1. PICK f : Answers(f, c, peer.srcPort, seq, ack, flags, data)
                   /\ toHosts' = toHosts \cup {f}
      BY <1>1, <1>4, <2>6, <2>8, ReplySent
    <3>2. FrameOut(f, c, b)
      <4>1. Answers(f, c, b.port, seq, ack, flags, data)
        BY <1>4, <3>1
      <4>2. CASE k = 0
        BY <1>1, <2>1, <2>2, <2>6, <2>8, <4>1, <4>2, ReplyFits
      <4>3. CASE k # 0
        BY <1>1, <2>1, <2>2, <2>6, <2>8, <4>1, <4>3, ReplyFits
      <4> QED
        BY <4>2, <4>3
    <3>3. f.data.body.seq = s.ack /\ f.data.body.flags = flags /\ IsTcp(f) /\ f.dst = c
      BY <1>2, <3>0, <3>1 DEF Answers
    <3>4. Handled(c, s)
      BY <1>2, <2>8, <3>1, <3>3 DEF Handled, pos
    <3> QED
      BY <3>1, <3>2, <3>4
  <2>9. CASE pos = 0 /\ s.data = <<>>
    <3>1. tcp_state' = "established" /\ toHosts' = toHosts
      BY <1>2, <1>3, <2>9
    <3>2. ServerOK'
      BY <1>2, <2>6, <3>1, SamePeerOK
    <3> QED
      BY <1>2, <2>9, <3>1, <3>2 DEF ServedRight, Handled, pos
  <2>10. CASE pos = MYDATA_LENGTH /\ ~(pos = 0 /\ s.data = <<>>)
    <3>1. tcp_send_packet(rx, peer, seq, ack, {"FIN", "ACK"}, <<>>)
      BY <1>3, <2>10
    <3>2. \A t : t.flags = {"FIN", "ACK"} /\ t.data = <<>> => Piece(t, k)
      BY <2>3, <2>10 DEF Piece
    <3>3. <<>> \in Seq(Byte) /\ "RST" \notin {"FIN", "ACK"}
      BY EmptySeq
    <3>4. Handled(c, s) /\ \A f \in toHosts' : f \in toHosts \/ FrameOut(f, c, b)
      BY <2>3, <2>8, <2>10, <3>1, <3>2, <3>3
    <3>5. \A h \in Hosts : PeerIs(h) => Connected(browser[h]) /\ browser[h].got = MYDATA
      BY <1>4, <2>2, <2>3, <2>7, <2>10 DEF PeerIs
    <3>6. ServerOK'
      BY <1>2, <2>6, <3>5, SamePeerOK
    <3> QED
      BY <3>4, <3>6 DEF ServedRight
  <2>11. CASE pos # MYDATA_LENGTH /\ ~(pos = 0 /\ s.data = <<>>)
    <3> DEFINE flags == {"ACK"} \cup (IF pos # 0 THEN {"PSH"} ELSE {})
               data == Chunk(pos, ChunkLen(pos))
    <3>1. tcp_send_packet(rx, peer, seq, ack, flags, data) /\ tcp_state' = "established"
      BY <1>2, <1>3, <2>11
    <3>2. flags \in {{"ACK"}, {"ACK", "PSH"}}
      OBVIOUS
    <3>3. data \in Seq(Byte)
      <4>1. ChunkLen(k) \in Nat
        BY <2>2, ChunkLenType
      <4> QED
        BY <2>2, <2>3, <4>1, ChunkType
    <3>4. \A t : t.flags = flags /\ t.data = data => Piece(t, k)
      <4>1. data = Chunk(k, ChunkLen(k)) /\ k # MYDATA_LENGTH
        BY <2>3, <2>11
      <4> HIDE DEF flags, data
      <4> QED
        BY <3>2, <4>1 DEF Piece
    <3>5. "RST" \notin flags
      OBVIOUS
    <3> HIDE DEF flags, data
    <3>6. Handled(c, s) /\ \A f \in toHosts' : f \in toHosts \/ FrameOut(f, c, b)
      BY <2>3, <2>8, <2>11, <3>1, <3>3, <3>4, <3>5
    <3>7. ServerOK'
      BY <1>2, <2>6, <3>1, SamePeerOK
    <3> QED
      BY <3>6, <3>7 DEF ServedRight
  <2> QED
    BY <2>9, <2>10, <2>11
<1> QED
  BY <1>5, <1>6

\* Every way to handle a segment.
LEMMA TcpHandleOK ==
  ASSUME Inv, NEW c \in Hosts, NEW rx, FrameIn(rx, c, browser[c]), IsTcp(rx),
         UNCHANGED browser, tcp_handle(rx)
  PROVE  ServedRight(c, rx.data.body)
<1> DEFINE s == rx.data.body
<1>1. \/ Open(rx, s) \/ NotOfPeer(rx, s) \/ Reset(rx, s) \/ FinSent(rx, s)
      \/ SyncRecved(rx, s) \/ Established(rx, s) \/ Ignored(rx, s)
  BY DEF tcp_handle
<1> QED
  BY <1>1, OpenOK, NotOfPeerOK, ResetOK, FinSentOK, SyncRecvedOK, EstablishedOK, IgnoredOK

\* An echo reply and an answer to an ARP request fit their host, and are no
\* segments.
LEMMA OthersOK ==
  ASSUME NEW c \in Hosts, NEW b, NEW rx, FrameIn(rx, c, b),
         \/ rx.type = "ARP" /\ arp_handle(rx)
         \/ /\ rx.type = "IP" /\ rx.data.version = IP_VERSION_VAL /\ rx.data.proto = "ICMP"
            /\ icmp_handle(rx)
         \/ UNCHANGED toHosts
  PROVE  /\ toHosts \subseteq toHosts'
         /\ \A f \in toHosts' : f \in toHosts \/ (FrameOut(f, c, b) /\ ~IsTcp(f))
<1>1. CASE rx.type = "ARP" /\ arp_handle(rx) /\ ~UNCHANGED toHosts
  <2> DEFINE f == ethernet_set_tx(rx, "ARP",
                    [op |-> "reply", senderMac |-> Server, senderIp |-> Server,
                     targetMac |-> rx.data.senderMac, targetIp |-> rx.data.senderIp])
  <2>1. toHosts' = toHosts \cup {f}
    BY <1>1 DEF arp_handle, ethernet_send
  <2>2. rx.src = c /\ rx.data.senderIp = c
    BY <1>1 DEF FrameIn
  <2>3. f.dst = c /\ f.type = "ARP" /\ f.data.senderIp = Server /\ f.data.senderMac = Server
        /\ f.data.targetIp = c
    BY <2>2 DEF ethernet_set_tx
  <2> HIDE DEF f
  <2>4. FrameOut(f, c, b) /\ ~IsTcp(f)
    BY <2>3 DEF FrameOut, IsTcp
  <2> QED
    BY <2>1, <2>4
<1>2. CASE /\ rx.type = "IP" /\ rx.data.version = IP_VERSION_VAL /\ rx.data.proto = "ICMP"
           /\ icmp_handle(rx) /\ ~UNCHANGED toHosts
  <2> DEFINE message == rx.data.body
             f == ip_make_reply(rx, "ICMP", EchoReply(message))
  <2>1. toHosts' = toHosts \cup {f} /\ message[1] = ICMP_TYPE_ECHO_REQUEST
    BY <1>2 DEF icmp_handle, ethernet_send
  <2>2. message \in Pings
    BY <1>2, <2>1 DEF FrameIn, ICMP_TYPE_ECHO_REQUEST, ICMP_TYPE_ECHO_REPLY
  <2>3. message \in Seq(Byte) /\ Len(message) \in Nat /\ Len(message) >= 8 /\ Len(message) <= 1480
    BY <2>2, ClientAssumption, LenProperties DEF Byte
  <2> HIDE DEF message
  <2>4. Repeats(EchoReply(message), message)
    BY <2>3, EchoReplyRepeats
  <2>5. rx.src = c /\ rx.data.src = c
    BY <1>2 DEF FrameIn
  <2>6. /\ f.dst = c /\ f.type = "IP" /\ f.data.dst = c /\ f.data.src = Server
        /\ f.data.proto = "ICMP" /\ f.data.body = EchoReply(message)
    BY <2>5 DEF ip_make_reply, ethernet_set_tx
  <2> HIDE DEF f
  <2>7. FrameOut(f, c, b) /\ ~IsTcp(f)
    BY <2>2, <2>4, <2>6 DEF FrameOut, IsTcp
  <2> QED
    BY <2>1, <2>7
<1> QED
  BY <1>1, <1>2

\* Whoever sent what the server reads, the server goes on as it should: nothing
\* but a segment touches the connection.
LEMMA ServeOK ==
  ASSUME Inv, NEW rx, ethernet_recv(rx),
         \/ rx.type = "ARP" /\ arp_handle(rx) /\ UNCHANGED <<tcpVars, gaveUp>>
         \/ rx.type = "IP" /\ ip_handle(rx)
         \/ rx.type \notin {"ARP", "IP"} /\ UNCHANGED <<toHosts, tcpVars, gaveUp>>,
         UNCHANGED <<toServer, browser>>
  PROVE  /\ Inv'
         /\ \E c \in Hosts :
              /\ FrameIn(rx, c, browser[c])
              /\ \/ /\ ~IsTcp(rx) /\ UNCHANGED <<tcpVars, gaveUp>> /\ toHosts \subseteq toHosts'
                    /\ \A f \in toHosts' : f \in toHosts \/ ~IsTcp(f)
                 \/ /\ IsTcp(rx) /\ gaveUp' = ClosedByCount(rx)
                    /\ Handled(c, rx.data.body)
<1>1. /\ FifoOK' /\ InMemory' \subseteq InMemory /\ rx \in InMemory
  BY MemoryRecv DEF Inv
<1>2. PICK c \in Hosts : FrameIn(rx, c, browser[c])
  BY <1>1 DEF Inv, InboundOK
<1>3. ASSUME ServerOK', \A f \in toHosts' : f \in toHosts \/ FrameOut(f, c, browser[c])
      PROVE  Inv'
  <2>1. BrowsersOK'
    BY DEF Inv, BrowsersOK
  <2>2. InboundOK'
    BY <1>1 DEF Inv, InboundOK
  <2>3. OutboundOK'
    BY <1>3 DEF Inv, OutboundOK
  <2> QED
    BY <1>1, <1>3, <2>1, <2>2, <2>3 DEF Inv
<1>4. CASE IsTcp(rx)
  <2>1. rx.data.version = IP_VERSION_VAL
    BY <1>2, <1>4 DEF FrameIn
  <2>2. tcp_handle(rx) /\ gaveUp' = ClosedByCount(rx)
    BY <1>4, <2>1 DEF IsTcp, ip_handle
  <2>3. ServedRight(c, rx.data.body)
    BY <1>2, <1>4, <2>2, TcpHandleOK
  <2> QED
    BY <1>2, <1>3, <1>4, <2>2, <2>3 DEF ServedRight
<1>5. CASE ~IsTcp(rx)
  <2>1. UNCHANGED <<tcpVars, gaveUp>>
    BY <1>5 DEF IsTcp, ip_handle
  <2>2. \/ rx.type = "ARP" /\ arp_handle(rx)
        \/ /\ rx.type = "IP" /\ rx.data.version = IP_VERSION_VAL /\ rx.data.proto = "ICMP"
           /\ icmp_handle(rx)
        \/ UNCHANGED toHosts
    BY <1>5 DEF IsTcp, ip_handle
  <2>3. /\ toHosts \subseteq toHosts'
        /\ \A f \in toHosts' : f \in toHosts \/ (FrameOut(f, c, browser[c]) /\ ~IsTcp(f))
    BY <1>2, <2>2, OthersOK
  <2>4. ServerOK'
    BY <2>1 DEF Inv, ServerOK, PeerIs, tcpVars
  <2>5. Inv'
    BY <1>3, <2>3, <2>4
  <2> QED
    BY <1>2, <1>5, <2>1, <2>3, <2>5
<1> QED
  BY <1>4, <1>5

-----------------------------------------------------------------------------
(* The steps of the hosts.                                                 *)

\* The SYN of a browser that waits for its connection.
LEMMA SynIn ==
  ASSUME NEW c, NEW d, d.st # "idle"
  PROVE  FrameIn(Syn(c, d.port), c, d)
<1>1. Mod(ISS) = ISS /\ Mod(0) = 0
  BY BrowsersNumbers, ModSmall, LengthType
<1> QED
  BY <1>1, SegmentIn DEF Syn

\* A browser begins when none of its segments is on its way: before its first
\* connection there was none, and before it loads the page again it waits.
LEMMA BeginOK ==
  ASSUME Inv, NEW c \in Hosts, Connect(c) \/ Reload(c), UNCHANGED tcpVars
  PROVE  /\ Inv'
         /\ \E d : browser' = [browser EXCEPT ![c] = d] /\ d.st = "syn_sent" /\ d.got = <<>>
         /\ ~HasEnded(browser[c]) /\ toServer \subseteq toServer' /\ UNCHANGED <<fifo, toHosts>>
<1> DEFINE b == browser[c]
           Waits(e) == /\ e.st = "syn_sent" /\ e.port = b.port + 1 /\ e.got = <<>> /\ ~e.acked
                       /\ e \in BrowserType
<1>1. browser \in [Hosts -> BrowserType] /\ b \in BrowserType /\ BrowserOK(b)
  BY DEF Inv, BrowsersOK
<1>2. PICK d : browser' = [browser EXCEPT ![c] = d] /\ Waits(d)
  <2>0. b.port \in Nat /\ <<>> \in Seq(Byte)
    BY <1>1, EmptySeq DEF BrowserType
  <2>1. CASE Connect(c)
    <3> DEFINE e == [b EXCEPT !.st = "syn_sent", !.port = @ + 1]
    <3>1. browser' = [browser EXCEPT ![c] = e]
      BY <1>1, <2>1 DEF Connect
    <3>2. b.got = <<>> /\ ~b.acked
      BY <1>1, <2>1 DEF Connect, BrowserOK, Connected
    <3>3. e \in BrowserType
      <4>1. \A x \in BrowserType, p \in Nat :
              [x EXCEPT !.st = "syn_sent", !.port = p] \in BrowserType
        BY DEF BrowserType
      <4>2. b.port + 1 \in Nat
        BY <2>0
      <4> QED
        BY <1>1, <4>1, <4>2
    <3>4. /\ e.st = "syn_sent" /\ e.port = b.port + 1
          /\ e.got = b.got /\ e.acked = b.acked
      BY <1>1 DEF BrowserType
    <3>5. Waits(e)
      BY <3>2, <3>3, <3>4
    <3> QED
      BY <3>1, <3>5
  <2>2. CASE Reload(c)
    <3> DEFINE e == [st |-> "syn_sent", port |-> b.port + 1, nxt |-> 0, acked |-> FALSE,
                     got |-> <<>>]
    <3>1. browser' = [browser EXCEPT ![c] = e]
      BY <2>2 DEF Reload
    <3>2. Waits(e)
      BY <2>0 DEF BrowserType
    <3> QED
      BY <3>1, <3>2
  <2> QED
    BY <2>1, <2>2
<1>3. b.port \in Nat
  BY <1>1 DEF BrowserType
<1>4. /\ d.st = "syn_sent" /\ d.port = b.port + 1 /\ d.got = <<>> /\ ~d.acked
      /\ d \in BrowserType
  BY <1>2
<1> DEFINE new == {Syn(c, d.port)}
<1>5. toServer' = toServer \cup new /\ UNCHANGED <<fifo, toHosts>>
  <2>1. browser'[c].port = d.port
    BY <1>1, <1>2
  <2> QED
    BY <2>1 DEF Connect, Reload
<1>6. BrowserOK(d)
  BY <1>4 DEF BrowserOK, Connected
<1>7. \A f \in new : FrameIn(f, c, d)
  BY <1>4, SynIn
<1>8. /\ \A f \in toServer \cup InMemory : f.src = c => ~IsTcp(f)
      /\ \A f \in toHosts : f.dst = c => ~IsTcp(f)
  <2>1. \A f \in toServer \cup InMemory : f.src = c => FrameIn(f, c, b)
    BY FrameHost DEF Inv, InboundOK
  <2>2. \A f \in toHosts : f.dst = c => FrameOut(f, c, b)
    BY FrameHost DEF Inv, OutboundOK
  <2>3. CASE Connect(c)
    <3>1. b.st = "idle"
      BY <2>3 DEF Connect
    <3>2. \A f : FrameIn(f, c, b) => ~IsTcp(f)
      BY <3>1 DEF FrameIn, FromBrowser, Connected
    <3>3. \A f : FrameOut(f, c, b) => ~IsTcp(f)
      BY <3>1 DEF FrameOut, ToBrowser
    <3> QED
      BY <2>1, <2>2, <3>2, <3>3
  <2>4. CASE Reload(c)
    <3>1. \A f \in toServer \cup InMemory \cup toHosts : ~OfConnection(c, f)
      BY <2>4 DEF Reload, Silent, InMemory, Frames
    <3>2. \A f : FrameIn(f, c, b) /\ IsTcp(f) => OfConnection(c, f)
      BY DEF FrameIn, FromBrowser, IsTcp, OfConnection
    <3>3. \A f : FrameOut(f, c, b) /\ IsTcp(f) => OfConnection(c, f)
      BY DEF FrameOut, ToBrowser, IsTcp, OfConnection
    <3> QED
      BY <2>1, <2>2, <3>1, <3>2, <3>3
  <2> QED
    BY <2>3, <2>4
<1> HIDE DEF new
<1>9. Inv'
  <2>1. d.port > b.port
    BY <1>3, <1>4
  <2> QED
    BY <1>2, <1>4, <1>5, <1>6, <1>7, <1>8, <2>1, OpenStep
<1>10. ~HasEnded(b)
  BY DEF Connect, Reload, HasEnded
<1>11. toServer \subseteq toServer'
  BY <1>5
<1> QED
  BY <1>2, <1>4, <1>5, <1>9, <1>10, <1>11

\* The timer repeats the SYN or the request.
LEMMA RetransmitOK ==
  ASSUME Inv, NEW c \in Hosts, Retransmit(c), UNCHANGED tcpVars
  PROVE  Inv' /\ toServer \subseteq toServer'
<1> DEFINE b == browser[c]
<1>1. b \in BrowserType /\ BrowserOK(b)
  BY DEF Inv, BrowsersOK
<1>2. UNCHANGED <<fifo, toHosts, browser>>
  BY DEF Retransmit
<1>3. CASE b.st = "syn_sent" /\ toServer' = toServer \cup {Syn(c, b.port)}
  <2>1. FrameIn(Syn(c, b.port), c, b)
    BY <1>3, SynIn
  <2> DEFINE new == {Syn(c, b.port)}
  <2>2. toServer' = toServer \cup new /\ \A f \in new : FrameIn(f, c, b)
    BY <1>3, <2>1
  <2> HIDE DEF new
  <2>3. Inv'
    BY <1>2, <2>2, SendStep
  <2> QED
    BY <1>3, <2>3
<1>4. CASE /\ b.st = "established" /\ ~b.acked
           /\ toServer' = toServer \cup {Get(c)}
  <2>1. Connected(b) /\ Len(b.got) = 0 /\ b.nxt = At(0) /\ 0 \in Positions(b)
    BY <1>1, <1>4, LengthType DEF BrowserOK, Connected, SawFin, Positions, Places, At, INIT_SEQ
  <2>2. Mod(b.nxt) = At(0) /\ Mod(ISS + 1) = 0
    BY <2>1, AtType, LengthType, BrowsersNumbers
  <2>3. FrameIn(Get(c), c, b)
    BY <2>1, <2>2, SegmentIn DEF Get
  <2> DEFINE new == {Get(c)}
  <2>4. toServer' = toServer \cup new /\ \A f \in new : FrameIn(f, c, b)
    BY <1>4, <2>3
  <2> HIDE DEF new
  <2>5. Inv'
    BY <1>2, <2>4, SendStep
  <2> QED
    BY <1>4, <2>5
<1> QED
  BY <1>3, <1>4 DEF Retransmit

\* Pings, questions and chatter are no segments.
LEMMA ProbeOK ==
  ASSUME Inv, NEW c \in Hosts, UNCHANGED tcpVars,
         \/ \E message \in Pings, dst \in {Server, Broadcast} : Ping(c, message, dst)
         \/ Ask(c)
         \/ Chat(c)
  PROVE  Inv' /\ toServer \subseteq toServer' /\ UNCHANGED <<fifo, toHosts, browser>>
<1> DEFINE b == browser[c]
<1>1. UNCHANGED <<fifo, toHosts, browser>>
  BY DEF Ping, Ask, Chat
<1>2. ASSUME NEW message \in Pings, NEW dst
      PROVE  FrameIn(IpFrame(c, dst, "ICMP", message), c, b)
  BY DEF FrameIn, IpFrame, IsTcp
<1>3. \A op, address : FrameIn(ArpFrame(c, op, address), c, b)
  BY DEF FrameIn, ArpFrame, IsTcp
<1>4. ASSUME NEW f \in Noise(c) PROVE FrameIn(f, c, b)
  <2> DEFINE ping == CHOOSE message \in Pings : TRUE
             frame == IpFrame(c, Broadcast, "ICMP", ping)
  <2>1. ping \in Pings
    BY ClientAssumption
  <2>2. ping \in Seq(Byte) /\ Len(ping) >= 8
    BY <2>1, ClientAssumption DEF Byte
  <2>3. 1 \in DOMAIN ping
    BY <2>2, LenProperties
  <2> HIDE DEF ping
  <2>4. /\ frame.src = c /\ frame.type = "IP" /\ frame.data.src = c /\ frame.data.proto = "ICMP"
        /\ frame.data.body = ping /\ frame.data.version = IP_VERSION_VAL
    BY DEF IpFrame
  <2>5. FrameIn([frame EXCEPT !.type = "IPv6"], c, b)
    BY DEF FrameIn, IpFrame, IsTcp
  <2>6. FrameIn([frame EXCEPT !.data.version = IP_VERSION_VAL + 1], c, b)
    BY DEF FrameIn, IpFrame, IsTcp, IP_VERSION_VAL
  <2>7. FrameIn([frame EXCEPT !.data.proto = "UDP"], c, b)
    BY DEF FrameIn, IpFrame, IsTcp
  <2>8. FrameIn([frame EXCEPT !.data.body[1] = ICMP_TYPE_ECHO_REPLY], c, b)
    BY <2>3 DEF FrameIn, IpFrame, IsTcp
  <2>9. \/ f = [frame EXCEPT !.type = "IPv6"]
        \/ f = [frame EXCEPT !.data.version = IP_VERSION_VAL + 1]
        \/ f = [frame EXCEPT !.data.proto = "UDP"]
        \/ f = [frame EXCEPT !.data.body[1] = ICMP_TYPE_ECHO_REPLY]
        \/ f = ArpFrame(c, "request", c) \/ f = ArpFrame(c, "reply", c)
    BY DEF Noise, ping
  <2> HIDE DEF frame
  <2> QED
    BY <1>3, <2>5, <2>6, <2>7, <2>8, <2>9
<1>5. PICK f : toServer' = toServer \cup {f} /\ FrameIn(f, c, b)
  BY <1>2, <1>3, <1>4 DEF Ping, Ask, Chat
<1> DEFINE new == {f}
<1>6. Inv'
  <2>1. toServer' = toServer \cup new /\ \A g \in new : FrameIn(g, c, b)
    BY <1>5
  <2> HIDE DEF new
  <2> QED
    BY <1>1, <2>1, SendStep
<1> QED
  BY <1>1, <1>5, <1>6

-----------------------------------------------------------------------------
(* The invariant.                                                          *)

\* What a step may do to the browsers: nothing; one reads on; one that has not
\* come to its end begins again.
BrowserStep ==
  \/ UNCHANGED browser
  \/ \E c \in Hosts : \E d : browser' = [browser EXCEPT ![c] = d] /\ ReadsOn(browser[c], d)
  \/ \E c \in Hosts : \E d : /\ browser' = [browser EXCEPT ![c] = d]
                             /\ d.st = "syn_sent" /\ d.got = <<>> /\ ~HasEnded(browser[c])

\* The invariant holds of the machine after reset.
LEMMA InvInit == Init => Inv
<1> SUFFICES ASSUME Init PROVE Inv
  OBVIOUS
<1> DEFINE b == [st |-> "idle", port |-> 1023, nxt |-> 0, acked |-> FALSE, got |-> <<>>]
<1>1. /\ browser = [c \in Hosts |-> b] /\ fifo = <<>> /\ toServer = {} /\ toHosts = {}
      /\ tcp_state = "closed" /\ peer = NoPeer /\ tcp_ack = 0 /\ tcp_seq = INIT_SEQ
  BY DEF Init, EthernetInit, TcpInit, ClientInit
<1>2. /\ b \in BrowserType /\ b.st = "idle" /\ b.port = 1023 /\ b.got = <<>> /\ ~b.acked
  <2>1. <<>> \in Seq(Byte)
    BY EmptySeq
  <2> QED
    BY <2>1 DEF BrowserType
<1> HIDE DEF b
<1>3. FifoOK /\ InMemory = {}
  <2>1. fifo \in Seq({fifo[i] : i \in DOMAIN fifo})
    BY <1>1, EmptySeq
  <2>2. DOMAIN fifo = {}
    BY <1>1
  <2> QED
    BY <2>1, <2>2 DEF FifoOK, InMemory, Frames
<1>4. \A c \in Hosts : browser[c] = b
  BY <1>1
<1>5. BrowsersOK
  <2>1. BrowserOK(b)
    BY <1>2 DEF BrowserOK, Connected
  <2> QED
    BY <1>1, <1>2, <1>4, <2>1 DEF BrowsersOK
<1>6. InboundOK /\ OutboundOK
  BY <1>1, <1>3 DEF InboundOK, OutboundOK
<1>7. ServerOK
  <2>1. peer.srcPort = 0 /\ peer.srcAddr = 0
    BY <1>1 DEF NoPeer
  <2> QED
    BY <1>1, <1>2, <1>4, <2>1 DEF ServerOK, INIT_SEQ
<1> QED
  BY <1>3, <1>5, <1>6, <1>7 DEF Inv

\* Every step keeps the invariant, and changes browsers as the stream allows.
LEMMA InvNext == Inv /\ [Next]_vars => Inv' /\ BrowserStep
<1> SUFFICES ASSUME Inv, [Next]_vars PROVE Inv' /\ BrowserStep
  OBVIOUS
<1>0. FifoOK
  BY DEF Inv
<1>1. CASE Serve
  <2>1. PICK rx :
          /\ ethernet_recv(rx)
          /\ \/ rx.type = "ARP" /\ arp_handle(rx) /\ UNCHANGED <<tcpVars, gaveUp>>
             \/ rx.type = "IP" /\ ip_handle(rx)
             \/ rx.type \notin {"ARP", "IP"} /\ UNCHANGED <<toHosts, tcpVars, gaveUp>>
          /\ UNCHANGED <<toServer, browser>>
    BY <1>1 DEF Serve, clientVars
  <2>2. Inv'
    BY <2>1, ServeOK
  <2> QED
    BY <2>1, <2>2 DEF BrowserStep
<1>2. CASE GiveUpOnFrame
  <2>1. FifoOK' /\ InMemory' \subseteq InMemory
    BY <1>0, <1>2, MemoryError DEF GiveUpOnFrame
  <2>2. UNCHANGED <<toServer, toHosts, browser, tcpVars>>
    BY <1>2 DEF GiveUpOnFrame, clientVars
  <2>3. Inv'
    BY <2>1, <2>2, ShrinkStep
  <2> QED
    BY <2>2, <2>3 DEF BrowserStep
<1>3. ASSUME \E f \in toServer, status \in {"ok", "error"} :
               Arrive(f, status) /\ toServer' \subseteq toServer,
             UNCHANGED <<toHosts, tcpVars, browser>>
      PROVE  Inv' /\ BrowserStep
  <2>1. PICK f \in toServer, status \in {"ok", "error"} : Arrive(f, status) /\ toServer' \subseteq toServer
    BY <1>3
  <2>2. FifoOK' /\ InMemory' = InMemory \cup {f}
    BY <1>0, <2>1, MemoryArrive
  <2>3. Inv'
    BY <1>3, <2>1, <2>2, ShrinkStep
  <2> QED
    BY <1>3, <2>3 DEF BrowserStep
<1>4. CASE \E c \in Hosts : Arrives(c)
  BY <1>3, <1>4 DEF Arrives, clientVars
<1>5. CASE ArrivesAgain
  BY <1>3, <1>5 DEF ArrivesAgain, clientVars
<1>6. CASE ArrivesDamaged
  BY <1>3, <1>6 DEF ArrivesDamaged, clientVars
<1>7. CASE Lose
  <2>1. /\ toServer' \subseteq toServer /\ toHosts' \subseteq toHosts
        /\ UNCHANGED <<fifo, tcpVars, browser>>
    BY <1>7 DEF Lose, clientVars
  <2>2. FifoOK' /\ InMemory' = InMemory
    BY <1>0, <2>1, MemorySame
  <2>3. Inv'
    BY <2>1, <2>2, ShrinkStep
  <2> QED
    BY <2>1, <2>3 DEF BrowserStep
<1>8. ASSUME NEW f \in toHosts, Takes(f), toHosts' \in {toHosts, toHosts \ {f}}, UNCHANGED tcpVars
      PROVE  Inv' /\ BrowserStep
  BY <1>8, TakeStep DEF BrowserStep, Goes
<1>9. CASE \E c \in Hosts : Reaches(c)
  BY <1>8, <1>9 DEF Reaches
<1>10. CASE ReachesAgain
  BY <1>8, <1>10 DEF ReachesAgain
<1>11. CASE Browse \/ TryAgain
  <2>1. PICK c \in Hosts : (Connect(c) \/ Reload(c)) /\ UNCHANGED tcpVars
    BY <1>11 DEF Browse, TryAgain
  <2> QED
    BY <2>1, BeginOK DEF BrowserStep
<1>12. CASE Probe
  <2>1. PICK c \in Hosts :
          /\ \/ \E message \in Pings, dst \in {Server, Broadcast} : Ping(c, message, dst)
             \/ Ask(c)
             \/ Chat(c)
          /\ UNCHANGED tcpVars
    BY <1>12 DEF Probe
  <2> QED
    BY <2>1, ProbeOK DEF BrowserStep
<1>13. CASE \E c \in Hosts : SendAgain(c)
  <2>1. PICK c \in Hosts : Retransmit(c) /\ UNCHANGED tcpVars
    BY <1>13 DEF SendAgain
  <2> QED
    BY <2>1, RetransmitOK DEF BrowserStep, Retransmit
<1>14. CASE UNCHANGED vars
  <2>1. UNCHANGED <<fifo, toServer, toHosts, browser, tcpVars>>
    BY <1>14 DEF vars, ethernetVars, clientVars
  <2>2. FifoOK' /\ InMemory' = InMemory
    BY <1>0, <2>1, MemorySame
  <2>3. Inv'
    BY <2>1, <2>2, ShrinkStep
  <2> QED
    BY <2>1, <2>3 DEF BrowserStep
<1> QED
  BY <1>1, <1>2, <1>4, <1>5, <1>6, <1>7, <1>9, <1>10, <1>11, <1>12, <1>13, <1>14 DEF Next

\* In every reachable state the browsers have read what they should, and every
\* frame on its way is one the program or a correct host can have sent then.
THEOREM Invariant == Spec => []Inv
  BY InvInit, InvNext, PTL DEF Spec

-----------------------------------------------------------------------------
(* What follows from it.                                                   *)

\* Whatever the network does, a browser reads the page from its first byte, and
\* its stream ends when all of the page is there: the server and the browsers
\* implement the stream of bytes (tcp.c:97, the offset in the page is the
\* difference of the acknowledgement and the first number).
THEOREM PageIsDelivered == Spec => PageAsPromised
<1> DEFINE gots == [c \in Hosts |-> browser[c].got]
           ends == [c \in Hosts |-> browser[c].st \in {"done", "reset", "closed"}]
<1>1. Init => Stream!Init
  <2> SUFFICES ASSUME Init PROVE Stream!Init
    OBVIOUS
  <2>1. \A c \in Hosts : browser[c].got = <<>> /\ browser[c].st = "idle"
    BY DEF Init, ClientInit
  <2>2. gots = [c \in Hosts |-> <<>>]
    BY <2>1
  <2>3. ASSUME NEW c \in Hosts PROVE (browser[c].st \in {"done", "reset", "closed"}) = FALSE
    BY <2>1
  <2>4. ends = [c \in Hosts |-> FALSE]
    BY <2>3, Zenon
  <2> QED
    BY <2>2, <2>4 DEF Stream!Init
<1>2. Inv /\ [Next]_vars => [Stream!Next]_<<gots, ends>>
  <2> SUFFICES ASSUME Inv, BrowserStep PROVE [Stream!Next]_<<gots, ends>>
    BY InvNext
  <2>0. browser \in [Hosts -> BrowserType]
    BY DEF Inv, BrowsersOK
  <2>1. CASE UNCHANGED browser
    BY <2>1
  <2>2. ASSUME NEW c \in Hosts, NEW d, browser' = [browser EXCEPT ![c] = d]
        PROVE  /\ gots' = [gots EXCEPT ![c] = d.got] /\ gots[c] = browser[c].got
               /\ d.got = browser[c].got => gots' = gots
               /\ ends[c] <=> HasEnded(browser[c])
               /\ (HasEnded(d) <=> HasEnded(browser[c])) => ends' = ends
               /\ HasEnded(d) => ends' = [ends EXCEPT ![c] = TRUE]
    <3>1. browser'[c] = d /\ \A h \in Hosts \ {c} : browser'[h] = browser[h]
      BY <2>0, <2>2
    <3>2. gots' = [gots EXCEPT ![c] = d.got] /\ gots[c] = browser[c].got
      BY <3>1
    <3>3. d.got = browser[c].got => gots' = gots
      BY <3>1
    <3>4. ends[c] <=> HasEnded(browser[c])
      BY DEF HasEnded
    <3>5. ASSUME HasEnded(d) <=> HasEnded(browser[c]) PROVE ends' = ends
      <4>1. ASSUME NEW h \in Hosts
            PROVE  (browser'[h].st \in {"done", "reset", "closed"})
                     = (browser[h].st \in {"done", "reset", "closed"})
        BY <3>1, <3>5 DEF HasEnded
      <4> QED
        BY <4>1, Zenon
    <3>6. ASSUME HasEnded(d) PROVE ends' = [ends EXCEPT ![c] = TRUE]
      <4>1. ASSUME NEW h \in Hosts
            PROVE  (browser'[h].st \in {"done", "reset", "closed"})
                     = IF h = c THEN TRUE ELSE (browser[h].st \in {"done", "reset", "closed"})
        BY <3>1, <3>6 DEF HasEnded
      <4>2. ASSUME NEW h \in Hosts
            PROVE  ends'[h] = IF h = c THEN TRUE ELSE ends[h]
        BY <4>1, Zenon
      <4> QED
        BY <4>2, Zenon
    <3> QED
      BY <3>2, <3>3, <3>4, <3>5, <3>6
  <2>3. ASSUME NEW c \in Hosts, NEW d, browser' = [browser EXCEPT ![c] = d],
               ReadsOn(browser[c], d)
        PROVE  [Stream!Next]_<<gots, ends>>
    <3>1. CASE d.got = browser[c].got /\ (HasEnded(d) <=> HasEnded(browser[c]))
      BY <2>2, <2>3, <3>1
    <3>2. CASE /\ ~HasEnded(browser[c]) /\ ~HasEnded(d)
               /\ \E n \in (Len(browser[c].got) + 1) .. Len(MYDATA) : d.got = SubSeq(MYDATA, 1, n)
      <4>1. ~ends[c] /\ ends' = ends /\ gots' = [gots EXCEPT ![c] = d.got]
            /\ gots[c] = browser[c].got
        BY <2>2, <2>3, <3>2
      <4>2. \E n \in (Len(gots[c]) + 1) .. Len(MYDATA) :
              gots' = [gots EXCEPT ![c] = SubSeq(MYDATA, 1, n)]
        BY <3>2, <4>1
      <4>3. Stream!Deliver(c)
        BY <4>1, <4>2 DEF Stream!Deliver
      <4> QED
        BY <4>3 DEF Stream!Next
    <3>3. CASE /\ browser[c].got = MYDATA /\ d.got = MYDATA
               /\ ~HasEnded(browser[c]) /\ HasEnded(d)
      <4>1. /\ gots[c] = MYDATA /\ ~ends[c] /\ gots' = gots
            /\ ends' = [ends EXCEPT ![c] = TRUE]
        BY <2>2, <2>3, <3>3
      <4>2. Stream!End(c)
        BY <4>1 DEF Stream!End
      <4> QED
        BY <4>2 DEF Stream!Next
    <3> QED
      BY <2>3, <3>1, <3>2, <3>3 DEF ReadsOn
  <2>4. ASSUME NEW c \in Hosts, NEW d, browser' = [browser EXCEPT ![c] = d],
               d.st = "syn_sent", d.got = <<>>, ~HasEnded(browser[c])
        PROVE  [Stream!Next]_<<gots, ends>>
    <3>1. ~HasEnded(d)
      BY <2>4 DEF HasEnded
    <3>2. ~ends[c] /\ ends' = ends /\ gots' = [gots EXCEPT ![c] = <<>>]
      <4>1. ~ends[c] /\ ends' = ends /\ gots' = [gots EXCEPT ![c] = d.got]
        BY <2>2, <2>4, <3>1
      <4> QED
        BY <2>4, <4>1
    <3>3. Stream!Restart(c)
      BY <3>2 DEF Stream!Restart
    <3> QED
      BY <3>3 DEF Stream!Next
  <2> QED
    BY <2>1, <2>3, <2>4 DEF BrowserStep
<1> QED
  BY <1>1, <1>2, Invariant, PTL DEF Spec, PageAsPromised, Stream!Spec

\* An acknowledgement the server sends is one of three numbers: of the SYN alone,
\* of the SYN, of the SYN and the request; the second and the third only when
\* the browser has had the answer to its SYN (tcp.c:131 adds what the packet
\* says it holds).
THEOREM AcksAreTrue == Spec => []AcksOnlyWhatWasSent
<1>1. Inv => AcksOnlyWhatWasSent
  <2> SUFFICES ASSUME Inv, NEW f \in Segments, "ACK" \in f.data.body.flags
               PROVE  LET s == f.data.body
                          b == browser[f.dst]
                      IN Signed(s.ack - ISS) \in
                           0 .. (IF s.dport = b.port /\ b.st = "syn_sent" THEN 1
                                 ELSE 1 + Len(Request))
    BY DEF AcksOnlyWhatWasSent
  <2> DEFINE s == f.data.body
             b == browser[f.dst]
  <2>1. ToBrowser(s, b)
    <3>1. PICK c \in Hosts : FrameOut(f, c, browser[c])
      BY DEF Inv, OutboundOK, Segments
    <3> QED
      BY <3>1 DEF FrameOut, IsTcp, Segments
  <2>2. s.ack \in {0, ISS, 1} /\ (b.st = "syn_sent" => s.ack # 1)
    <3>1. "ACK" \notin {"RST"}
      OBVIOUS
    <3> QED
      BY <2>1, <3>1, BrowsersNumbers DEF ToBrowser, Connected
  <2> HIDE DEF s, b
  <2>3. Signed(s.ack - ISS) \in {0, 1, 2} /\ (s.ack # 1 => Signed(s.ack - ISS) # 2)
    BY <2>2, SignedAcks
  <2>4. 1 + Len(Request) = 2
    BY BrowsersNumbers
  <2> QED
    BY <2>2, <2>3, <2>4 DEF s, b
<1> QED
  BY <1>1, Invariant, PTL

\* What the server answers to a ping repeats the ping under a checksum that
\* verifies (icmp.c:30), and what it answers to ARP is its own address.
THEOREM EchoesAreTrue == Spec => []EchoIsTrue
<1>1. Inv => EchoIsTrue
  <2> SUFFICES ASSUME Inv, NEW f \in toHosts
               PROVE  /\ f.type = "IP" /\ f.data.proto = "ICMP" =>
                           /\ f.dst = f.data.dst /\ f.data.src = Server
                           /\ \E message \in Pings : Repeats(f.data.body, message)
                      /\ f.type = "ARP" =>
                           f.data.senderIp = Server /\ f.data.senderMac = Server /\ f.data.targetIp = f.dst
    BY DEF EchoIsTrue
  <2>1. PICK c \in Hosts : FrameOut(f, c, browser[c])
    BY DEF Inv, OutboundOK
  <2> QED
    BY <2>1 DEF FrameOut
<1> QED
  BY <1>1, Invariant, PTL

-----------------------------------------------------------------------------
(* No standstill without a cause: a browser in the middle of a page that   *)
(* has missed nothing has its next piece on the way to it, or an           *)
(* acknowledgement on the way to a server that still serves it.            *)

\* The server is in the middle of the connection with c.
Serves(c) == tcp_state = "established" /\ PeerIs(c)

\* A segment that c awaits, and one that makes the server send it.
NextPiece(f, c) ==
  /\ IsTcp(f) /\ f.dst = c /\ f.data.body.seq = browser[c].nxt
  /\ "RST" \notin f.data.body.flags
NextAck(f, c) ==
  /\ IsTcp(f) /\ f.src = c /\ "ACK" \in f.data.body.flags
  /\ f.data.body.ack = browser[c].nxt
\* One of these is on its way.
PieceOut(c) == \E f \in toHosts : NextPiece(f, c)
AckOut(c) == \E f \in toServer \cup Readable : NextAck(f, c)

\* A browser in the middle of the page that was not given up is still served,
\* once its request is acknowledged or the acknowledgement is on its way; if it
\* has missed nothing, the next piece is on its way, or what asks for it.
NotStuck(c) ==
  browser[c].st = "established" /\ c \notin gaveUp =>
    /\ (browser[c].acked \/ PieceOut(c)) /\ Len(browser[c].got) < MYDATA_LENGTH => Serves(c)
    /\ browser[c].acked /\ c \notin late => PieceOut(c) \/ (AckOut(c) /\ Serves(c))

\* The strengthening of StandstillHasACause that the steps keep.
NobodyStuck == \A c \in Hosts : NotStuck(c)

\* What a step may take from nobody.
LEMMA KeepsNotStuck ==
  ASSUME NEW c, NotStuck(c), UNCHANGED <<browser[c], tcp_state, peer>>,
         c \in gaveUp => c \in gaveUp', c \in late => c \in late',
         PieceOut(c)' => PieceOut(c),
         PieceOut(c) => PieceOut(c)' \/ c \in late' \/ ~(browser[c].st = "established" /\ browser[c].acked),
         AckOut(c) => AckOut(c)' \/ c \in late' \/ ~(browser[c].st = "established" /\ browser[c].acked)
  PROVE  NotStuck(c)'
<1>1. Serves(c)' <=> Serves(c)
  BY DEF Serves, PeerIs
<1> QED
  BY <1>1 DEF NotStuck

\* Both are frames of the connection of c.
LEMMA TokenOfConnection ==
  ASSUME Inv, NEW c \in Hosts, NEW f
  PROVE  /\ f \in toServer \cup Readable /\ NextAck(f, c) => OfConnection(c, f)
         /\ f \in toHosts /\ NextPiece(f, c) => OfConnection(c, f)
<1>1. ASSUME f \in toServer \cup Readable, NextAck(f, c) PROVE OfConnection(c, f)
  <2>1. f \in toServer \cup InMemory
    BY <1>1 DEF InMemory, Readable
  <2>2. PICK h \in Hosts : FrameIn(f, h, browser[h])
    BY <2>1 DEF Inv, InboundOK
  <2> QED
    BY <1>1, <2>2 DEF FrameIn, FromBrowser, NextAck, IsTcp, OfConnection
<1>2. ASSUME f \in toHosts, NextPiece(f, c) PROVE OfConnection(c, f)
  <2>1. PICK h \in Hosts : FrameOut(f, h, browser[h])
    BY <1>2 DEF Inv, OutboundOK
  <2> QED
    BY <1>2, <2>1 DEF FrameOut, ToBrowser, NextPiece, IsTcp, OfConnection
<1> QED
  BY <1>1, <1>2

\* The host of a segment does not count its own connection away while the server
\* serves it, and another one's neither.
LEMMA NotExpired ==
  ASSUME Inv, NEW c \in Hosts, browser[c].st = "established", Serves(c), NEW rx,
         gaveUp' = ClosedByCount(rx), c \notin gaveUp'
  PROVE  state = "established"
<1>1. tcp_state # "closed" /\ peer.srcAddr = c /\ peer.srcPort = browser[c].port
  BY DEF Serves, PeerIs
<1>2. ~expired
  BY <1>1 DEF ClosedByCount
<1> QED
  BY <1>2 DEF Serves, state

\* An acknowledgement that the server reads is answered with the piece it asks for.
LEMMA ServeNotStuck ==
  ASSUME Inv, NobodyStuck, NEW rx, ethernet_recv(rx), NEW c \in Hosts,
         FrameIn(rx, c, browser[c]), IsTcp(rx), gaveUp' = ClosedByCount(rx),
         Handled(c, rx.data.body), UNCHANGED <<toServer, browser, late>>
  PROVE  NobodyStuck'
<1> DEFINE s == rx.data.body
<1> SUFFICES ASSUME NEW h \in Hosts, browser[h].st = "established", h \notin gaveUp'
             PROVE  /\ (browser[h].acked \/ PieceOut(h)') /\ Len(browser[h].got) < MYDATA_LENGTH
                         => Serves(h)'
                    /\ browser[h].acked /\ h \notin late
                         => PieceOut(h)' \/ (AckOut(h)' /\ Serves(h)')
  BY DEF NobodyStuck, NotStuck
<1> DEFINE b == browser[h]
<1>1. h \notin gaveUp
  BY DEF ClosedByCount
<1>2. /\ (b.acked \/ PieceOut(h)) /\ Len(b.got) < MYDATA_LENGTH => Serves(h)
      /\ b.acked /\ h \notin late => PieceOut(h) \/ (AckOut(h) /\ Serves(h))
  BY <1>1 DEF NobodyStuck, NotStuck
<1>3. Readable \subseteq Readable' \cup {rx}
  BY MemoryRecv DEF Inv
<1>4. toHosts \subseteq toHosts'
  BY DEF Handled
<1>5. PieceOut(h) => PieceOut(h)'
  BY <1>4 DEF PieceOut, NextPiece
<1>6. AckOut(h) => AckOut(h)' \/ NextAck(rx, h)
  BY <1>3 DEF AckOut, NextAck
<1>7. rx.src = c
  BY DEF FrameIn
<1>8. BrowserOK(b) /\ b.nxt = At(Len(b.got)) /\ Len(b.got) \in Places
      /\ (b.acked <=> Len(b.got) > 0)
  <2>1. BrowserOK(b)
    BY DEF Inv, BrowsersOK
  <2>2. Connected(b) /\ ~SawFin(b)
    BY DEF Connected, SawFin
  <2>3. Len(b.got) \in Places /\ b.nxt = At(Len(b.got)) + 0
    BY <2>1, <2>2 DEF BrowserOK
  <2>4. b.acked <=> Len(b.got) > 0
    BY <2>1 DEF BrowserOK
  <2>5. At(Len(b.got)) + 0 = At(Len(b.got))
    BY <2>3, LengthType DEF At, Places, INIT_SEQ
  <2> QED
    BY <2>1, <2>3, <2>4, <2>5
<1>9. Len(b.got) \in Nat /\ Len(b.got) <= MYDATA_LENGTH /\ MYDATA_LENGTH \in Nat
  BY <1>8, LengthType DEF Places
<1> HIDE DEF b
<1>10. CASE Serves(h) /\ h # c
  <2>1. state = "established" /\ ~PeerIs(c)
    BY <1>10, NotExpired DEF Serves, PeerIs
  <2>2. tcp_state' = "established" /\ peer' = peer
    BY <2>1 DEF Handled
  <2>3. Serves(h)'
    BY <1>10, <2>2 DEF Serves, PeerIs
  <2>4. ~NextAck(rx, h)
    BY <1>7, <1>10 DEF NextAck
  <2> QED
    BY <1>2, <1>5, <1>6, <2>3, <2>4 DEF b
<1>11. CASE Serves(h) /\ h = c
  <2>1. state = "established" /\ PeerIs(c)
    BY <1>11, NotExpired DEF Serves
  <2>2. "RST" \notin s.flags /\ "SYN" \in s.flags => s.ack = 0 /\ "ACK" \notin s.flags
    BY SegmentOfHost
  <2>3. "RST" \notin s.flags
    BY <1>11, SegmentOfHost
  <2>4. /\ peer' = peer
        /\ \/ toHosts' = toHosts /\ PosOf(s) = 0 /\ tcp_state' = "established"
           \/ \E f : /\ toHosts' = toHosts \cup {f} /\ IsTcp(f) /\ f.dst = c
                     /\ f.data.body.seq = s.ack /\ "RST" \notin f.data.body.flags
                     /\ tcp_state' = "established" \/ PosOf(s) = MYDATA_LENGTH
    BY <2>1, <2>3 DEF Handled
  <2>5. tcp_state' = "established" => Serves(h)'
    BY <1>11, <2>1, <2>4 DEF Serves, PeerIs
  \* An acknowledgement of what h has read is answered with what follows.
  <2>6. NextAck(rx, h) /\ b.acked => PieceOut(h)'
    <3> SUFFICES ASSUME NextAck(rx, h), b.acked PROVE PieceOut(h)'
      OBVIOUS
    <3>1. s.ack = b.nxt
      BY DEF NextAck, b
    <3>2. PosOf(s) = Len(b.got) /\ PosOf(s) # 0
      BY <1>8, <1>9, <3>1, PosOfAt
    <3>3. PICK f : /\ toHosts' = toHosts \cup {f} /\ IsTcp(f) /\ f.dst = c
                   /\ f.data.body.seq = s.ack /\ "RST" \notin f.data.body.flags
      BY <2>4, <3>2
    <3> QED
      BY <1>11, <3>1, <3>3 DEF PieceOut, NextPiece, b
  <2>7. CASE tcp_state' = "established"
    BY <1>2, <1>5, <1>6, <2>5, <2>6, <2>7 DEF b
  \* The FIN goes to a browser that has read everything.
  <2>8. CASE tcp_state' # "established"
    <3>1. PosOf(s) = MYDATA_LENGTH
      BY <2>4, <2>8
    <3>2. s.ack = At(MYDATA_LENGTH) /\ Len(b.got) = MYDATA_LENGTH
      <4>1. CASE "SYN" \in s.flags
        <5>1. PosOf(s) < 0
          BY <2>2, <2>3, <4>1, PosOfAt
        <5> QED
          BY <1>9, <3>1, <5>1
      <4>2. CASE "SYN" \notin s.flags
        <5>1. PICK k \in Positions(b) : s.ack = At(k)
          BY <1>11, <2>3, <4>2, SegmentOfHost DEF b
        <5>2. k \in Nat /\ k <= Len(b.got)
          BY <1>9, <5>1, LengthType DEF Positions, Places, SawFin, b
        <5>3. PosOf(s) = k
          BY <1>9, <5>1, <5>2, PosOfAt
        <5> QED
          BY <1>9, <3>1, <5>1, <5>2, <5>3
      <4> QED
        BY <4>1, <4>2
    <3>3. PieceOut(h)'
      <4>1. PICK f : /\ toHosts' = toHosts \cup {f} /\ IsTcp(f) /\ f.dst = c
                     /\ f.data.body.seq = s.ack /\ "RST" \notin f.data.body.flags
        BY <2>4, <2>8
      <4>2. browser'[h].nxt = s.ack
        BY <1>8, <3>2 DEF b
      <4> QED
        BY <1>11, <4>1, <4>2 DEF PieceOut, NextPiece
    <3> QED
      BY <1>9, <3>2, <3>3 DEF b
  <2> QED
    BY <2>7, <2>8
<1>12. CASE ~Serves(h)
  \* Nobody sends h a piece of the page but a server that serves it.
  <2>1. PieceOut(h)' => PieceOut(h) \/ b.acked \/ Len(b.got) >= MYDATA_LENGTH
    <3> SUFFICES ASSUME PieceOut(h)', ~PieceOut(h), ~b.acked, ~(Len(b.got) >= MYDATA_LENGTH)
                 PROVE  FALSE
      OBVIOUS
    <3>1. Len(b.got) = 0 /\ b.nxt = At(0)
      BY <1>8, <1>9
    <3>2. PICK f \in toHosts' : IsTcp(f) /\ f.dst = h /\ f.data.body.seq = At(0)
                                /\ "RST" \notin f.data.body.flags /\ f \notin toHosts
      BY <3>1 DEF PieceOut, NextPiece, b
    <3>3. At(0) # INIT_SEQ
      BY DEF At, INIT_SEQ
    <3>4. PeerIs(c) /\ state = "established" /\ f.dst = c
      BY <3>2, <3>3 DEF Handled
    <3>5. tcp_state = "established"
      BY <3>4, StateIs
    <3> QED
      BY <1>12, <3>2, <3>4, <3>5 DEF Serves
  <2>2. b.acked => ~(Len(b.got) < MYDATA_LENGTH)
    BY <1>2, <1>12
  <2>3. PieceOut(h) => ~(Len(b.got) < MYDATA_LENGTH)
    BY <1>2, <1>12
  <2> QED
    BY <1>2, <1>5, <1>9, <1>12, <2>1, <2>2, <2>3 DEF b
<1> QED
  BY <1>10, <1>11, <1>12

\* A browser that takes a piece acknowledges it to the server that sent it; one
\* that passes a segment over has not awaited it.
LEMMA TakeNotStuck ==
  ASSUME Inv, NobodyStuck, NEW f \in toHosts, NEW c \in Hosts, NEW d, NEW new,
         f.dst = c, IsTcp(f), Goes(c, d, new), Outcome(c, browser[c], f.data.body, d, new),
         toHosts' \in {toHosts, toHosts \ {f}}, UNCHANGED <<fifo, tcpVars, late, gaveUp>>
  PROVE  NobodyStuck'
<1> SUFFICES ASSUME NEW h \in Hosts PROVE NotStuck(h)'
  BY DEF NobodyStuck
<1>0. browser' = [browser EXCEPT ![c] = d] /\ browser \in [Hosts -> BrowserType]
  BY DEF Goes, Inv, BrowsersOK
<1>1. browser'[c] = d /\ (h # c => browser'[h] = browser[h])
  BY <1>0
<1>2. toServer' = toServer \cup new /\ Readable' = Readable /\ d.port = browser[c].port
  BY MemorySame DEF Goes, Advances
<1>3. NotStuck(h) /\ UNCHANGED <<tcp_state, peer>>
  BY DEF NobodyStuck, tcpVars
<1>4. ASSUME browser'[h] = browser[h], ~NextPiece(f, h) PROVE NotStuck(h)'
  <2>1. PieceOut(h)' <=> PieceOut(h)
    BY <1>4 DEF PieceOut, NextPiece
  <2>2. AckOut(h) => AckOut(h)'
    BY <1>2, <1>4 DEF AckOut, NextAck
  <2> QED
    BY <1>3, <1>4, <2>1, <2>2, KeepsNotStuck
<1>5. CASE h # c
  BY <1>1, <1>4, <1>5 DEF NextPiece
<1>6. CASE h = c /\ d.st # "established"
  BY <1>1, <1>6 DEF NotStuck
<1>7. CASE /\ h = c /\ browser[c].st = "syn_sent"
           /\ d.got = <<>> /\ ~d.acked /\ d.nxt = At(0)
  <2>1. ~PieceOut(c)'
    <3> SUFFICES ASSUME NEW g \in toHosts, IsTcp(g), g.dst = c, g.data.body.seq = At(0),
                        "RST" \notin g.data.body.flags
                 PROVE  FALSE
      BY <1>1, <1>7 DEF PieceOut, NextPiece
    <3>1. PICK i \in Hosts : FrameOut(g, i, browser[i])
      BY DEF Inv, OutboundOK
    <3>2. ToBrowser(g.data.body, browser[c])
      BY <3>1 DEF FrameOut
    <3>3. g.data.body.seq \in {INIT_SEQ, 0}
      BY <1>7, <3>2 DEF ToBrowser, Connected
    <3> QED
      BY <3>3 DEF At, INIT_SEQ
  <2> QED
    BY <1>1, <1>7, <2>1 DEF NotStuck
<1>8. CASE /\ h = c /\ browser[c].st = "established"
           /\ d.nxt = browser[c].nxt /\ d.got = browser[c].got /\ d.acked = browser[c].acked
           /\ f.data.body.seq # browser[c].nxt \/ "RST" \in f.data.body.flags
  <2>1. PieceOut(h)' <=> PieceOut(h)
    BY <1>1, <1>8 DEF PieceOut, NextPiece
  <2>2. AckOut(h) => AckOut(h)'
    BY <1>1, <1>2, <1>8 DEF AckOut, NextAck
  <2>3. Serves(h)' <=> Serves(h)
    BY <1>1, <1>2, <1>3, <1>8 DEF Serves, PeerIs
  <2> QED
    BY <1>1, <1>3, <1>8, <2>1, <2>2, <2>3 DEF NotStuck
<1>9. CASE /\ h = c /\ browser[c].st = "established" /\ f.data.body.seq = browser[c].nxt
           /\ "RST" \notin f.data.body.flags /\ Len(browser[c].got) < MYDATA_LENGTH /\ d.acked
           /\ \E ack \in new : /\ IsTcp(ack) /\ "ACK" \in ack.data.body.flags
                               /\ ack.data.body.ack = d.nxt
  <2>1. PieceOut(c)
    BY <1>9 DEF PieceOut, NextPiece
  <2>2. c \notin gaveUp => Serves(c)
    BY <1>3, <1>9, <2>1 DEF NotStuck
  <2>3. Serves(c) => Serves(c)'
    BY <1>1, <1>2, <1>3 DEF Serves, PeerIs
  <2>4. AckOut(c)'
    <3>1. PICK ack \in new : /\ IsTcp(ack) /\ "ACK" \in ack.data.body.flags
                             /\ ack.data.body.ack = d.nxt
      BY <1>9
    <3>2. ack.src = c /\ ack \in toServer'
      BY <1>2, <3>1 DEF Goes, FrameIn
    <3> QED
      BY <1>1, <3>1, <3>2 DEF AckOut, NextAck
  <2> QED
    BY <1>9, <2>2, <2>3, <2>4 DEF NotStuck
<1> QED
  BY <1>5, <1>6, <1>7, <1>8, <1>9 DEF Outcome

\* Nobody is stuck without a cause, whatever step is taken.
LEMMA NotStuckNext == Inv /\ NobodyStuck /\ [Next]_vars => NobodyStuck'
<1> SUFFICES ASSUME Inv, NobodyStuck, [Next]_vars PROVE NobodyStuck'
  OBVIOUS
<1>0. FifoOK
  BY DEF Inv
\* Frames of the network: c misses one that is taken away.
<1>1. ASSUME UNCHANGED <<browser, tcpVars, gaveUp>>, late \subseteq late',
             toHosts' \subseteq toHosts,
             \A f \in toHosts \ toHosts' : Misses(f) \subseteq late' \/ ~IsTcp(f),
             \A f \in (toServer \cup Readable) \ (toServer' \cup Readable') : Misses(f) \subseteq late'
      PROVE  NobodyStuck'
  <2> SUFFICES ASSUME NEW c \in Hosts PROVE NotStuck(c)'
    BY DEF NobodyStuck
  <2>1. ASSUME NEW f, OfConnection(c, f), Misses(f) \subseteq late'
        PROVE  c \in late' \/ ~(browser[c].st = "established" /\ browser[c].acked)
    BY <2>1 DEF Misses
  <2>2. PieceOut(c)' => PieceOut(c)
    BY <1>1 DEF PieceOut, NextPiece
  <2>3. PieceOut(c) => PieceOut(c)' \/ c \in late' \/ ~(browser[c].st = "established" /\ browser[c].acked)
    <3> SUFFICES ASSUME NEW f \in toHosts, NextPiece(f, c), ~PieceOut(c)'
                 PROVE  c \in late' \/ ~(browser[c].st = "established" /\ browser[c].acked)
      BY DEF PieceOut
    <3>1. f \notin toHosts'
      BY <1>1 DEF PieceOut, NextPiece
    <3>2. OfConnection(c, f) /\ IsTcp(f)
      BY TokenOfConnection DEF NextPiece
    <3> QED
      BY <1>1, <2>1, <3>1, <3>2
  <2>4. AckOut(c) => AckOut(c)' \/ c \in late' \/ ~(browser[c].st = "established" /\ browser[c].acked)
    <3> SUFFICES ASSUME NEW f \in toServer \cup Readable, NextAck(f, c), ~AckOut(c)'
                 PROVE  c \in late' \/ ~(browser[c].st = "established" /\ browser[c].acked)
      BY DEF AckOut
    <3>1. f \notin toServer' \cup Readable'
      BY <1>1 DEF AckOut, NextAck
    <3>2. OfConnection(c, f)
      BY TokenOfConnection
    <3> QED
      BY <1>1, <2>1, <3>1, <3>2
  <2>5. NotStuck(c) /\ UNCHANGED <<tcp_state, peer, browser[c]>>
    BY <1>1 DEF NobodyStuck, tcpVars
  <2> QED
    BY <1>1, <2>2, <2>3, <2>4, <2>5, KeepsNotStuck
<1>2. CASE Serve
  <2>1. PICK rx :
          /\ ethernet_recv(rx)
          /\ \/ rx.type = "ARP" /\ arp_handle(rx) /\ UNCHANGED <<tcpVars, gaveUp>>
             \/ rx.type = "IP" /\ ip_handle(rx)
             \/ rx.type \notin {"ARP", "IP"} /\ UNCHANGED <<toHosts, tcpVars, gaveUp>>
          /\ UNCHANGED <<toServer, browser, late>>
    BY <1>2 DEF Serve, clientVars
  <2>2. PICK c \in Hosts :
          /\ FrameIn(rx, c, browser[c])
          /\ \/ /\ ~IsTcp(rx) /\ UNCHANGED <<tcpVars, gaveUp>> /\ toHosts \subseteq toHosts'
                /\ \A f \in toHosts' : f \in toHosts \/ ~IsTcp(f)
             \/ /\ IsTcp(rx) /\ gaveUp' = ClosedByCount(rx)
                /\ Handled(c, rx.data.body)
    BY <2>1, ServeOK
  <2>3. CASE ~IsTcp(rx)
    <3> SUFFICES ASSUME NEW h \in Hosts PROVE NotStuck(h)'
      BY DEF NobodyStuck
    <3>1. PieceOut(h)' <=> PieceOut(h)
      BY <2>1, <2>2, <2>3 DEF PieceOut, NextPiece
    <3>2. Readable \subseteq Readable' \cup {rx}
      BY <1>0, <2>1, MemoryRecv
    <3>3. AckOut(h) => AckOut(h)'
      BY <2>1, <2>3, <3>2 DEF AckOut, NextAck
    <3>4. NotStuck(h) /\ UNCHANGED <<tcp_state, peer, browser[h], gaveUp, late>>
      BY <2>1, <2>2, <2>3 DEF NobodyStuck, tcpVars
    <3> QED
      BY <3>1, <3>3, <3>4, KeepsNotStuck
  <2>4. CASE IsTcp(rx)
    BY <2>1, <2>2, <2>4, ServeNotStuck
  <2> QED
    BY <2>3, <2>4
<1>3. CASE GiveUpOnFrame
  <2>1. Readable \subseteq Readable'
    BY <1>0, <1>3, MemoryError DEF GiveUpOnFrame
  <2> QED
    BY <1>1, <1>3, <2>1 DEF GiveUpOnFrame, clientVars, ghosts
<1>4. ASSUME NEW f, NEW status, Arrive(f, status), UNCHANGED <<toHosts, browser, tcpVars, gaveUp>>,
             toServer \ {f} \subseteq toServer', late \subseteq late',
             status = "ok" \/ Misses(f) \subseteq late'
      PROVE  NobodyStuck'
  <2>1. Readable \subseteq Readable' /\ (status = "ok" => f \in Readable')
    BY <1>0, <1>4, MemoryArrive
  <2>2. \A g \in (toServer \cup Readable) \ (toServer' \cup Readable') : Misses(g) \subseteq late'
    BY <1>4, <2>1
  <2> QED
    BY <1>1, <1>4, <2>2
<1>5. CASE \E c \in Hosts : Arrives(c)
  BY <1>4, <1>5 DEF Arrives, clientVars, ghosts
<1>6. CASE ArrivesAgain
  BY <1>4, <1>6 DEF ArrivesAgain, clientVars, ghosts
<1>7. CASE ArrivesDamaged
  BY <1>4, <1>7 DEF ArrivesDamaged, clientVars
<1>8. CASE Lose
  <2>1. PICK f : /\ toServer' = toServer \ {f} /\ toHosts' = toHosts \ {f}
                 /\ late' = late \cup Misses(f)
                 /\ UNCHANGED <<fifo, tcpVars, browser, gaveUp>>
    BY <1>8 DEF Lose, clientVars
  <2>2. Readable' = Readable
    BY <2>1, MemorySame
  <2> QED
    BY <1>1, <2>1, <2>2
<1>9. ASSUME NEW f \in toHosts, Takes(f), toHosts' \in {toHosts, toHosts \ {f}},
             UNCHANGED <<tcpVars, late, gaveUp>>
      PROVE  NobodyStuck'
  <2>1. CASE UNCHANGED <<browser, toServer, fifo>> /\ ~IsTcp(f)
    <3>1. Readable' = Readable
      BY <2>1, MemorySame
    <3> QED
      BY <1>1, <1>9, <2>1, <3>1
  <2>2. CASE \E c \in Hosts : \E d, new :
               /\ f.dst = c /\ IsTcp(f) /\ UNCHANGED fifo
               /\ Goes(c, d, new) /\ Outcome(c, browser[c], f.data.body, d, new)
    BY <1>9, <2>2, TakeNotStuck
  <2> QED
    BY <1>9, <2>1, <2>2, TakeStep
<1>10. CASE \E c \in Hosts : Reaches(c)
  BY <1>9, <1>10 DEF Reaches, ghosts
<1>11. CASE ReachesAgain
  BY <1>9, <1>11 DEF ReachesAgain, ghosts
<1>12. CASE Browse \/ TryAgain
  <2>1. PICK c \in Hosts : (Connect(c) \/ Reload(c)) /\ UNCHANGED tcpVars /\ Fresh(c)
    BY <1>12 DEF Browse, TryAgain
  <2>2. PICK d : browser' = [browser EXCEPT ![c] = d] /\ d.st = "syn_sent" /\ d.got = <<>>
    BY <2>1, BeginOK
  <2>3. toServer \subseteq toServer' /\ UNCHANGED <<fifo, toHosts>>
    BY <2>1, BeginOK
  <2>4. browser'[c] = d /\ \A h \in Hosts \ {c} : browser'[h] = browser[h]
    BY <2>2 DEF Inv, BrowsersOK
  <2> SUFFICES ASSUME NEW h \in Hosts PROVE NotStuck(h)'
    BY DEF NobodyStuck
  <2>5. CASE h = c
    BY <2>2, <2>4, <2>5 DEF NotStuck
  <2>6. CASE h # c
    <3>1. browser'[h] = browser[h] /\ UNCHANGED <<tcp_state, peer>> /\ NotStuck(h)
      BY <2>1, <2>4, <2>6 DEF tcpVars, NobodyStuck
    <3>2. (h \in gaveUp => h \in gaveUp') /\ (h \in late => h \in late')
      BY <2>1, <2>6 DEF Fresh
    <3>3. Readable' = Readable
      BY <2>3, MemorySame
    <3>4. PieceOut(h)' <=> PieceOut(h)
      BY <2>3, <3>1 DEF PieceOut, NextPiece
    <3>5. AckOut(h) => AckOut(h)'
      BY <2>3, <3>1, <3>3 DEF AckOut, NextAck
    <3> QED
      BY <3>1, <3>2, <3>4, <3>5, KeepsNotStuck
  <2> QED
    BY <2>5, <2>6
<1>13. ASSUME toServer \subseteq toServer',
              UNCHANGED <<fifo, toHosts, browser, tcpVars, ghosts>>
       PROVE  NobodyStuck'
  <2>1. Readable' = Readable
    BY <1>13, MemorySame
  <2> QED
    BY <1>1, <1>13, <2>1 DEF ghosts
<1>14. CASE Probe
  <2>1. PICK c \in Hosts :
          /\ \/ \E message \in Pings, dst \in {Server, Broadcast} : Ping(c, message, dst)
             \/ Ask(c)
             \/ Chat(c)
          /\ UNCHANGED <<tcpVars, ghosts>>
    BY <1>14 DEF Probe
  <2> QED
    BY <1>13, <2>1, ProbeOK
<1>15. CASE \E c \in Hosts : SendAgain(c)
  <2>1. PICK c \in Hosts : Retransmit(c) /\ UNCHANGED <<tcpVars, ghosts>>
    BY <1>15 DEF SendAgain
  <2>2. toServer \subseteq toServer' /\ UNCHANGED <<fifo, toHosts, browser>>
    BY <2>1, RetransmitOK DEF Retransmit
  <2> QED
    BY <1>13, <2>1, <2>2
<1>16. CASE UNCHANGED vars
  BY <1>13, <1>16 DEF vars, ethernetVars, clientVars
<1> QED
  BY <1>2, <1>3, <1>5, <1>6, <1>7, <1>8, <1>10, <1>11, <1>12, <1>14, <1>15, <1>16 DEF Next

\* The server sends nothing twice (tcp.c has no timer and keeps nothing of what
\* it has sent): when nothing of a connection in the middle of the page will be
\* read any more, its browser has missed a segment, the connection was counted
\* away, or what is on its way stays at a server that a damaged frame made deaf.
THEOREM StandstillIsExplained == Spec => []StandstillHasACause
<1>1. Init => NobodyStuck
  <2> SUFFICES ASSUME Init, NEW c \in Hosts PROVE NotStuck(c)
    BY DEF NobodyStuck
  <2>1. browser[c].st = "idle"
    BY DEF Init, ClientInit
  <2> QED
    BY <2>1 DEF NotStuck
<1>2. Inv /\ NobodyStuck => StandstillHasACause
  <2> SUFFICES ASSUME Inv, NobodyStuck, NEW c \in Hosts, browser[c].st = "established",
                      browser[c].acked, Silent(c), c \notin late \cup gaveUp
               PROVE  FALSE
    BY DEF StandstillHasACause, Standstill
  <2>1. \A f \in toServer \cup toHosts \cup InMemory : ~OfConnection(c, f)
    BY DEF Silent, InMemory, Frames
  <2>2. Readable \subseteq InMemory
    BY DEF Readable, InMemory
  <2>3. ~PieceOut(c) /\ ~AckOut(c)
    BY <2>1, <2>2, TokenOfConnection DEF PieceOut, AckOut
  <2> QED
    BY <2>3 DEF NobodyStuck, NotStuck
<1> QED
  BY <1>1, <1>2, Invariant, NotStuckNext, PTL DEF Spec

=============================================================================
