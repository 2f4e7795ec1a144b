------------------------------ MODULE Decoder ------------------------------
(***************************************************************************)
(* What the fetch stage makes of a word, encodings included                *)
(* (FetcherAndRegister.vhdl, phase s0): the operation, its operands a and  *)
(* b (a register or a constant), and one more register r: the destination, *)
(* or the second one a store or a branch reads, or 0. Module Fetcher has   *)
(* the same decoding as the signals it sets.                               *)
(***************************************************************************)
EXTENDS Words

Reg(r) == [from |-> "reg", n |-> r]
Imm(n) == [from |-> "imm", n |-> n]
None == [from |-> "none", n |-> 0]

Does(op, a, b, r) == [op |-> op, a |-> a, b |-> b, r |-> r]

rs(w) == (w.hi \div 32) % 32
rt(w) == w.hi % 32
rd(w) == w.lo \div 2048
shamt(w) == (w.lo \div 64) % 32
immediate_zero_extend(w) == w.lo
immediate_sign_extend(w) == IF w.lo >= 32768 THEN w.lo - 65536 ELSE w.lo

\* The ALU operator in the low bits of a function code or an opcode.
Operator3 == [f \in 0 .. 15 |->
  <<"add", "addu", "sub", "subu", "and", "or", "xor", "nor", "?", "?", "slt",
    "sltu", "?", "?", "?", "?">>[f + 1]]
ShiftName == <<"sll", "?", "srl", "sra">>

ExecutesC0(w) ==
  CASE w.lo % 64 = 24 -> Does("eret", None, None, 0)
    [] w.lo % 64 = 0 /\ rs(w) = 0 -> Does("mfc0", Imm(rd(w)), None, rt(w))
    [] w.lo % 64 = 0 -> Does("mtc0", Reg(rt(w)), Imm(rd(w)), 0)
    [] OTHER -> Does("tlbwi", None, None, 0)

ExecutesR(w) ==
  LET funct == w.lo % 64
      shift == ShiftName[(funct % 4) + 1]
  IN CASE w.lo = 24 -> Does("mult", Reg(rs(w)), Reg(rt(w)), 0)
       [] w.lo = 25 -> Does("multu", Reg(rs(w)), Reg(rt(w)), 0)
       [] w.lo % 256 = 17 -> Does("mthi", Reg(rs(w)), None, 0)
       [] w.lo % 256 = 19 -> Does("mtlo", Reg(rs(w)), None, 0)
       [] w.lo % 256 = 16 -> Does("mfhi", None, None, rd(w))
       [] w.lo % 256 = 18 -> Does("mflo", None, None, rd(w))
       [] funct = 12 -> Does("syscall", None, None, 0)
       [] funct >= 32 ->
            Does(Operator3[funct % 16], Reg(rs(w)), Reg(rt(w)), rd(w))
       [] (funct \div 4) % 2 = 1 ->
            Does(shift, Reg(rt(w)), Reg(rs(w)), rd(w))
       [] (funct \div 8) % 2 = 0 ->
            Does(shift, Reg(rt(w)), Imm(shamt(w)), rd(w))
       [] funct % 2 = 1 -> Does("jalr", Reg(rs(w)), None, 31)
       [] OTHER -> Does("jr", Reg(rs(w)), None, 0)

\* What loads and stores do. lb is executed as lbu: bits 31..8 of a byte loaded
\* are zeros (Registers.vhd:66-68).
ExecutesAccess(op, w) ==
  LET address == Imm(immediate_sign_extend(w))
  IN CASE op % 16 = 3 -> Does("lw", Reg(rs(w)), address, rt(w))
       [] op % 16 \in {0, 4} -> Does("lbu", Reg(rs(w)), address, rt(w))
       [] op % 16 = 8 -> Does("sb", Reg(rs(w)), address, rt(w))
       [] OTHER -> Does("sw", Reg(rs(w)), address, rt(w))

\* A branch names the registers it compares; its target is a constant. The
\* adder of the target wants the offset from the slot.
ExecutesBranch(op, w) ==
  LET offset == Imm(immediate_sign_extend(w))
  IN CASE op = 4 -> Does("beq", Reg(rs(w)), offset, rt(w))
       [] op = 7 -> Does("bgtz", Reg(rs(w)), offset, 0)
       [] op = 6 -> Does("blez", Reg(rs(w)), offset, 0)
       [] op = 1 -> Does(IF rt(w) % 2 = 1 THEN "bgez" ELSE "bltz",
                         Reg(rs(w)), offset, IF rt(w) >= 16 THEN 31 ELSE 0)
       [] OTHER -> Does("bne", Reg(rs(w)), offset, rt(w))

ImmediateName ==
  [i \in 8 .. 14 |-> <<"addi", "addiu", "slti", "sltiu", "andi", "ori", "xori">>[i - 7]]
ExecutesImmediate(op, w) ==
  LET i == op % 16
      imm == IF i \in 8 .. 10 THEN immediate_sign_extend(w)
             ELSE immediate_zero_extend(w)
  IN Does(IF i \in DOMAIN ImmediateName THEN ImmediateName[i] ELSE "?",
          Reg(rs(w)), Imm(imm), rt(w))

Executes(w) ==
  LET op == w.hi \div 1024
      target == Imm(65536 * (w.hi % 1024) + w.lo)
  IN CASE op = 16 -> ExecutesC0(w)
       [] op = 0 -> ExecutesR(w)
       [] op = 2 -> Does("j", None, target, 0)
       [] op = 3 -> Does("jal", None, target, 31)
       [] op \in 32 .. 47 -> ExecutesAccess(op, w)
       [] op = 15 -> Does("lui", None, Imm(w.lo), rt(w))
       [] op \in 0 .. 7 -> ExecutesBranch(op, w)
       [] OTHER -> ExecutesImmediate(op, w)

=============================================================================
