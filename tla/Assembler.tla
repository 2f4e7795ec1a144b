----------------------------- MODULE Assembler -----------------------------
(***************************************************************************)
(* The assembler and disassembler of the Windows terminal                  *)
(* (win-term/controller.cpp). A line is the mnemonic and the operands that *)
(* its separators (blank, comma, parentheses) leave, each operand a text.  *)
(***************************************************************************)
EXTENDS Words, Numerals

\* The tables of the constructor: op and minorop of a mnemonic.
RFunct == [addu |-> 33, slt |-> 42, sltu |-> 43, subu |-> 35, and |-> 36,
           nor |-> 39, or |-> 37, xor |-> 38, mult |-> 24, mflo |-> 18,
           mfhi |-> 16, mtlo |-> 19, mthi |-> 17, jalr |-> 9, jr |-> 8,
           sll |-> 0, sllv |-> 4, sra |-> 3, srav |-> 7, srl |-> 2,
           srlv |-> 6, syscall |-> 14, nop |-> 0]
IOp == [addiu |-> 9, slti |-> 10, sltiu |-> 11, beq |-> 4, bgez |-> 1,
        bgtz |-> 7, blez |-> 6, bltz |-> 1, bne |-> 5, j |-> 2, jal |-> 3,
        lw |-> 35, sw |-> 43, lb |-> 32, lbu |-> 36, sb |-> 40, andi |-> 12,
        lui |-> 15, ori |-> 13, xori |-> 14, cache |-> 47]
C0Funct == [eret |-> 24, mfc0 |-> 0, mtc0 |-> 0, tlbwi |-> 2]

Mnemonic == DOMAIN RFunct \cup DOMAIN IOp \cup DOMAIN C0Funct

triRegAsm == {"addu", "slt", "sltu", "subu", "and", "nor", "or", "xor",
              "sllv", "srav", "srl", "srlv"}
\* bltz is not in it.
instantAsm == DOMAIN IOp \ {"j", "jal", "bltz"}

RET_ERROR == [hi |-> 65535, lo |-> 65535]

RWord(rs, rt, rd, sa, funct) ==
  [hi |-> 32 * rs + rt, lo |-> 2048 * rd + 64 * sa + funct]
IWord(op, rs, rt, imm) ==
  [hi |-> 1024 * op + 32 * rs + rt, lo |-> imm % 65536]
JWord(op, target) ==
  [hi |-> 1024 * op + target \div 65536, lo |-> target % 65536]

\* w where the operands were read, and the error otherwise.
Checked(operands, w) == IF \A i \in DOMAIN operands : operands[i].ok
                        THEN w ELSE RET_ERROR

AssembleJump_NoRange(name, args) ==    \* mutant: the range of the target is not checked
  IF Len(args) # 1 THEN RET_ERROR
  ELSE LET target == string2num(args[1])
       IN Checked(<<target>>, JWord(IOp[name], target.value % 67108864))
AssembleJump(name, args) ==
  IF Len(args) # 1 THEN RET_ERROR
  ELSE LET target == Within(string2num(args[1]), 0, 67108863)
       IN Checked(<<target>>, JWord(IOp[name], target.value))

AssembleTriReg_NotSwapped(name, args) ==    \* mutant: shifts take their operands like the others
  IF Len(args) # 3 THEN RET_ERROR
  ELSE LET r == [i \in 1 .. 3 |-> string2reg(args[i])]
       IN Checked(r, RWord(r[2].value, r[3].value, r[1].value, 0, RFunct[name]))
\* Shifts by a register take their operands the other way round; srl, which
\* has an immediate in the machine, is treated as one of them.
AssembleTriReg(name, args) ==
  IF Len(args) # 3 THEN RET_ERROR
  ELSE LET d == string2reg(args[1])
           s == string2reg(args[2])
           t == string2reg(args[3])
       IN Checked(<<d, s, t>>,
            IF RFunct[name] \in {2, 4, 6, 7}
            THEN RWord(t.value, s.value, d.value, 0, RFunct[name])
            ELSE RWord(s.value, t.value, d.value, 0, RFunct[name]))

\* Register, offset, base: loads and stores.
AssembleAccess(op, args) ==
  LET t == string2reg(args[1])
      base == string2reg(args[3])
      offset == string2signed16(args[2])
  IN Checked(<<t, base, offset>>, IWord(op, base.value, t.value, offset.value))

AssembleImmediate(op, args) ==
  LET t == string2reg(args[1])
      s == string2reg(args[2])
      imm == IF op \in {9, 10} THEN string2signed16(args[3])
             ELSE string2usigned16(args[3])
  IN Checked(<<t, s, imm>>, IWord(op, s.value, t.value, imm.value))

AssembleBranch(op, args) ==
  LET s == string2reg(args[1])
      t == string2reg(args[2])
      offset == string2signed16(args[3])
  IN Checked(<<s, t, offset>>, IWord(op, s.value, t.value, offset.value))

AssembleBranchZero(name, args) ==
  LET s == string2reg(args[1])
      offset == string2signed16(args[2])
  IN Checked(<<s, offset>>,
       IWord(IOp[name], s.value, IF name = "bgez" THEN 1 ELSE 0, offset.value))

AssembleLui(args) ==
  LET t == string2reg(args[1])
      imm == string2usigned16(args[2])
  IN Checked(<<t, imm>>, IWord(15, 0, t.value, imm.value))

\* A negative operation is let through, and its sign covers the opcode
\* (operations from -32 on).
AssembleCache(args) ==
  LET base == string2reg(args[3])
      op == string2num(args[1])
      offset == string2signed16(args[2])
      high == IF op.value < 0 THEN 65504 + (op.value % 32)
              ELSE IWord(47, base.value, op.value, 0).hi
  IN IF op.ok /\ op.value > 31 THEN RET_ERROR
     ELSE Checked(<<base, op, offset>>,
                  [hi |-> high, lo |-> offset.value % 65536])

AssembleInstant(name, args) ==
  LET op == IOp[name]
      argc == IF op \in {1, 6, 7, 15} THEN 2 ELSE 3
  IN IF Len(args) # argc THEN RET_ERROR
     ELSE CASE op \in {32, 35, 36, 40, 43} -> AssembleAccess(op, args)
            [] op \in 9 .. 14 -> AssembleImmediate(op, args)
            [] op = 15 -> AssembleLui(args)
            [] op \in {4, 5} -> AssembleBranch(op, args)
            [] op \in {1, 6, 7} -> AssembleBranchZero(name, args)
            [] op = 47 -> AssembleCache(args)

AssembleSyscall(args) ==
  IF args = <<>> THEN RWord(0, 0, 0, 0, 12)
  ELSE IF Len(args) # 1 THEN RET_ERROR
  ELSE LET code == Within(string2num(args[1]), 0, 31)
       IN Checked(<<code>>, RWord(0, 0, 0, code.value, 12))

\* mfc0 and mtc0 are put together without their op, 16.
AssembleC0(name, args) ==
  IF name \in {"eret", "tlbwi"} THEN IWord(16, 16, 0, C0Funct[name])
  ELSE IF Len(args) # 2 THEN RET_ERROR
  ELSE LET t == string2reg(args[1])
           d == string2reg(args[2])
       IN Checked(<<t, d>>,
            RWord(IF name = "mfc0" THEN 0 ELSE 4, t.value, d.value, 0, 0))

\* What is left: multiplication and its registers, jumps by register, shifts
\* by a number. bltz ends here and its word is its table's 64.
AssembleOther(name, args) ==
  LET r == [i \in DOMAIN args |-> string2reg(args[i])]
      funct == RFunct[name]
  IN CASE name = "bltz" -> RWord(0, 0, 0, 0, 64)
       [] name = "mult" /\ Len(args) = 2 ->
            Checked(r, RWord(r[1].value, r[2].value, 0, 0, funct))
       [] name \in {"mflo", "mfhi"} /\ Len(args) = 1 ->
            Checked(r, RWord(0, 0, r[1].value, 0, funct))
       [] name \in {"mtlo", "mthi", "jr"} /\ Len(args) = 1 ->
            Checked(r, RWord(r[1].value, 0, 0, 0, funct))
       [] name \in {"sll", "sra"} /\ Len(args) = 3 ->
            LET sa == Within(string2num(args[3]), 0, 31)
            IN Checked(<<r[1], r[2], sa>>,
                       RWord(0, r[2].value, r[1].value, sa.value, funct))
       [] name = "jalr" /\ Len(args) = 1 ->
            Checked(r, RWord(r[1].value, 0, 31, 0, funct))
       [] name = "jalr" /\ Len(args) = 2 ->
            Checked(r, RWord(r[2].value, 0, r[1].value, 0, funct))
       [] OTHER -> RET_ERROR

assemble(line) ==
  LET name == line.name
      args == line.args
  IN CASE name \notin Mnemonic -> RET_ERROR
       [] name = "nop" -> WordOf(0)
       [] name \in {"j", "jal"} -> AssembleJump(name, args)
       [] name \in triRegAsm -> AssembleTriReg(name, args)
       [] name \in instantAsm -> AssembleInstant(name, args)
       [] name = "syscall" -> AssembleSyscall(args)
       [] name \in DOMAIN C0Funct -> AssembleC0(name, args)
       [] OTHER -> AssembleOther(name, args)

=============================================================================
