---------------------------- MODULE Disassembler ----------------------------
(***************************************************************************)
(* antiAssemble of the Windows terminal (win-term/controller.cpp): the     *)
(* line shown for a word. Tabs and commas are left out.                    *)
(***************************************************************************)
EXTENDS Words, Numerals

\* The fields of a word: part1 to part4, offset and target.
Fields(w) ==
  [op |-> w.hi \div 1024, part1 |-> (w.hi \div 32) % 32, part2 |-> w.hi % 32,
   part3 |-> w.lo \div 2048, part4 |-> (w.lo \div 64) % 32,
   minorop |-> w.lo % 64, offset |-> w.lo,
   target |-> 65536 * (w.hi % 1024) + w.lo]

Line(name, args) == [name |-> name, args |-> args]
NamedReg(n) == <<"$", GPRName[n + 1]>>
NumberedReg(n) == <<"$">> \o Decimal(n)

BranchZeroName(f) ==
  CASE f.op = 6 -> "blez" [] f.op = 7 -> "bgtz"
    [] f.part2 = 0 -> "bltz" [] OTHER -> "bgez"

SignedName == <<"addiu", "slti">>
UnsignedName == <<"sltiu", "andi", "ori", "xori">>
AccessName == [op \in {32, 35, 36, 40, 43} |->
  CASE op = 32 -> "lb" [] op = 35 -> "lw" [] op = 36 -> "lbu"
    [] op = 40 -> "sb" [] op = 43 -> "sw"]
\* 6 and 7, srlv and srav to the assembler, are called srav and srl.
TriRegName == (2 :> "srl") @@ (4 :> "sllv") @@ (6 :> "srav") @@ (7 :> "srl")
ArithName == (33 :> "addu") @@ (35 :> "subu") @@ (36 :> "and") @@ (37 :> "or")
             @@ (38 :> "xor") @@ (39 :> "nor") @@ (42 :> "slt") @@ (43 :> "sltu")

AntiAssembleR(f, w) ==
  LET r1 == NamedReg(f.part1)
      r2 == NamedReg(f.part2)
      r3 == NamedReg(f.part3)
      m == f.minorop
  IN CASE m = 0 -> Line("sll", <<r3, r2, Decimal(f.part4)>>)
       [] m = 3 -> Line("sra", <<r3, r2, Decimal(f.part4)>>)
       [] m \in DOMAIN TriRegName -> Line(TriRegName[m], <<r3, r2, r1>>)
       [] m \in DOMAIN ArithName -> Line(ArithName[m], <<r3, r1, r2>>)
       [] m = 8 -> Line("jr", <<r1>>)
       [] m = 9 -> Line("jalr", <<r3, r1>>)
       [] m = 12 -> Line("syscall", <<Decimal(1024 * (w.hi % 1024) + w.lo \div 64)>>)
       [] m = 16 -> Line("mfhi", <<r3>>)
       [] m = 17 -> Line("mthi", <<r1>>)
       [] m = 18 -> Line("mflo", <<r3>>)
       [] m = 19 -> Line("mtlo", <<r1>>)
       [] m = 24 -> Line("mult", <<r1, r2>>)
       [] OTHER -> Line("", <<>>)

AntiAssembleC0(f) ==
  CASE f.part1 = 16 /\ f.minorop = 24 -> Line("eret", <<>>)
    [] f.part1 = 16 /\ f.minorop = 2 -> Line("tlbwi", <<>>)
    [] f.part1 = 16 -> Line("", <<>>)
    [] f.part1 = 0 -> Line("mfc0", <<NamedReg(f.part2), NumberedReg(f.part3)>>)
    [] OTHER -> Line("mtc0", <<NamedReg(f.part2), NumberedReg(f.part3)>>)

antiAssemble(w) ==
  LET f == Fields(w)
      r1 == NamedReg(f.part1)
      r2 == NamedReg(f.part2)
      signed == Decimal(signalExtend16(f.offset))
  IN CASE w = WordOf(0) -> Line("nop", <<>>)
       [] w = [hi |-> 65535, lo |-> 65535] -> Line("null", <<>>)
       [] f.op = 0 -> AntiAssembleR(f, w)
       [] f.op \in {1, 6, 7} -> Line(BranchZeroName(f), <<r1, signed>>)
       [] f.op = 2 -> Line("j", <<Decimal(f.target)>>)
       [] f.op = 3 -> Line("jal", <<Decimal(f.target)>>)
       [] f.op = 4 -> Line("beq", <<r1, r2, signed>>)
       [] f.op = 5 -> Line("bne", <<r1, r2, signed>>)
       [] f.op \in {9, 10} -> Line(SignedName[f.op - 8], <<r2, r1, signed>>)
       [] f.op \in 11 .. 14 ->
            Line(UnsignedName[f.op - 10], <<r2, r1, Decimal(f.offset)>>)
       [] f.op = 15 -> Line("lui", <<r2, Decimal(f.offset)>>)
       [] f.op = 16 -> AntiAssembleC0(f)
       [] f.op \in DOMAIN AccessName ->
            Line(AccessName[f.op], <<r2, signed, r1>>)
       [] f.op = 47 -> Line("cache", <<Tail(r2), signed, r1>>)
       [] OTHER -> Line("", <<>>)

=============================================================================
