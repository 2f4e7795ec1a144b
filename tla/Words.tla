------------------------------- MODULE Words -------------------------------
(***************************************************************************)
(* 32-bit words as pairs of halfwords, which TLC's integers can hold, and  *)
(* the four bytes they are sent as.                                        *)
(***************************************************************************)
EXTENDS Integers, Sequences, FiniteSetsExt

Halfword == {n \in Nat : n < 65536}
Word == [hi : Halfword, lo : Halfword]

\* A number below 2^31 as a word, and back (for words below 2^31).
WordOf(n) == [hi |-> n \div 65536, lo |-> n % 65536]
NumberOf(w) == 65536 * w.hi + w.lo

\* Least significant byte first: sendWord, recvWord, shows1, reads1.
BytesOf(w) == <<w.lo % 256, w.lo \div 256, w.hi % 256, w.hi \div 256>>
FromBytes(b) == [hi |-> 256 * b[4] + b[3], lo |-> 256 * b[2] + b[1]]
BytesOfAll(words) ==
  [k \in 1 .. 4 * Len(words) |-> BytesOf(words[((k - 1) \div 4) + 1])[((k - 1) % 4) + 1]]

\* Unsigned addition of a small number, and comparison.
Plus(w, n) == [hi |-> (w.hi + ((w.lo + n) \div 65536)) % 65536,
               lo |-> (w.lo + n) % 65536]
Less(v, w) == v.hi < w.hi \/ (v.hi = w.hi /\ v.lo < w.lo)

=============================================================================
