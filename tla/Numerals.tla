------------------------------ MODULE Numerals ------------------------------
(***************************************************************************)
(* How the Windows terminal reads the operands of a line and prints        *)
(* numbers (win-term/tool.cpp). A text is a sequence of characters, each a *)
(* string; the alphabetic name of a register counts as one character.      *)
(* Numerals are short enough for the int of the code (MaxDigits).          *)
(***************************************************************************)
EXTENDS Integers, Sequences, SequencesExt

MaxDigits == 10

Digits == <<"0", "1", "2", "3", "4", "5", "6", "7", "8", "9",
            "a", "b", "c", "d", "e", "f">>
Capitals == <<"A", "B", "C", "D", "E", "F">>

GPRName ==
  <<"zero", "at", "v0", "v1", "a0", "a1", "a2", "a3", "t0", "t1", "t2",
    "t3", "t4", "t5", "t6", "t7", "s0", "s1", "s2", "s3", "s4", "s5", "s6",
    "s7", "t8", "t9", "k0", "k1", "gp", "sp", "s8", "ra">>

\* What a parser returns: its flag, and the result where the flag is set.
Parsed(value) == [ok |-> TRUE, value |-> value]
Failed == [ok |-> FALSE]

Within(result, low, high) ==
  IF result.ok /\ result.value \in low .. high THEN result ELSE Failed

DigitValue == [c \in Range(Digits) |-> CHOOSE i \in 0 .. 15 : Digits[i + 1] = c]
DigitOf(c) == IF c \in DOMAIN DigitValue THEN DigitValue[c] ELSE -1

RegisterNumber ==
  [n \in Range(GPRName) |-> CHOOSE i \in 0 .. 31 : GPRName[i + 1] = n]

\* The loop of the parsers over the values of the characters: multiply, add,
\* give up at a character that is no digit of the base.
Positional(values, base) ==
  IF \A i \in DOMAIN values : values[i] \in 0 .. base - 1
  THEN Parsed(FoldLeft(LAMBDA n, d : base * n + d, 0, values))
  ELSE Failed
Values(s) == [i \in DOMAIN s |-> DigitOf(s[i])]

string2dec(s) ==
  IF s # <<>> /\ s[1] = "-"
  THEN LET tail == Positional(Values(Tail(s)), 10)
       IN IF tail.ok THEN Parsed(-tail.value) ELSE Failed
  ELSE Positional(Values(s), 10)

string2hex(s) == Positional(Values(s), 16)

string2num(s) ==
  IF Len(s) > 2 /\ s[1] = "0" /\ s[2] = "x"
  THEN string2hex(SubSeq(s, 3, Len(s)))
  ELSE string2dec(s)

string2signed16(s) == Within(string2num(s), -32768, 32767)
string2usigned16(s) == Within(string2num(s), 0, 65535)

string2reg(s) ==
  IF Len(s) < 2 \/ s[1] # "$" THEN Failed
  ELSE LET n == string2num(Tail(s))
       IN IF n.ok /\ n.value <= 31 THEN n
          ELSE IF Len(s) = 2 /\ s[2] \in DOMAIN RegisterNumber
          THEN Parsed(RegisterNumber[s[2]]) ELSE Failed

\* An address has no sign, and its hexadecimal digits and its x may be
\* capitals: getInput has made every letter of a command one.
CapitalValue ==
  [c \in Range(Capitals) |-> 9 + CHOOSE i \in 1 .. 6 : Capitals[i] = c]
AddressDigitOf_LowerOnly(c) == DigitOf(c)    \* mutant: string2hex is used for addresses too
AddressDigitOf(c) ==
  IF c \in DOMAIN CapitalValue THEN CapitalValue[c] ELSE DigitOf(c)

string2addr(s) ==
  IF Len(s) > 2 /\ s[1] = "0" /\ s[2] \in {"x", "X"}
  THEN Positional([i \in 1 .. Len(s) - 2 |-> AddressDigitOf(s[i + 2])], 16)
  ELSE Positional(Values(s), 10)

\* A number as the output stream prints it.
Width(n, base) ==
  CHOOSE k \in 1 .. MaxDigits : /\ n \div base ^ (k - 1) < base
                               /\ (k = 1 \/ n >= base ^ (k - 1))
Unsigned(n, base) ==
  LET k == Width(n, base)
  IN [i \in 1 .. k |-> Digits[((n \div base ^ (k - i)) % base) + 1]]
Decimal(n) ==
  IF n < 0 THEN <<"-">> \o Unsigned(-n, 10) ELSE Unsigned(n, 10)

\* 0x and eight digits, written from the right over zeros.
coutHexNum(n) ==
  <<"0", "x">> \o [i \in 1 .. 8 |-> Digits[((n \div 16 ^ (8 - i)) % 16) + 1]]

\* The bits of a number, most significant first.
coutBinNum(bits, n) ==
  [i \in 1 .. bits |-> IF (n \div 2 ^ (bits - i)) % 2 = 1 THEN "1" ELSE "0"]

signalExtend16(s) == IF s >= 32768 THEN s - 65536 ELSE s

=============================================================================
