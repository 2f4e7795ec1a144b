---------------------------- MODULE ProgramText ----------------------------
(***************************************************************************)
(* The way of an instruction: typed as a line (command A), assembled, kept *)
(* as a word, shown as a line again (command U), and typed in as shown.    *)
(***************************************************************************)
EXTENDS Assembler, Disassembler, Decoder

CONSTANT Typed    \* the lines a user may type

VARIABLES
  line,      \* the line on the screen
  word,      \* the word in memory
  stage      \* "prompt", "typed", "stored", "shown"

vars == <<line, word, stage>>

Nothing == Line("", <<>>)

Init == line = Nothing /\ word = WordOf(0) /\ stage = "prompt"

\* The address is shown and a line is waited for.
Type ==
  /\ stage = "prompt"
  /\ line' \in Typed /\ stage' = "typed"
  /\ UNCHANGED word

\* The rest of runA's loop: a word of its own means a syntax error, and the
\* line is asked for again.
Store ==
  /\ stage = "typed"
  /\ word' = assemble(line)
  /\ stage' = "stored"
  /\ UNCHANGED line

Reenter ==
  /\ stage = "stored" /\ word = RET_ERROR
  /\ line' = Nothing /\ word' = WordOf(0) /\ stage' = "prompt"

\* runU.
Show ==
  /\ stage = "stored" /\ word # RET_ERROR
  /\ line' = antiAssemble(word)
  /\ stage' = "shown"
  /\ UNCHANGED word

\* The user types in again what is shown.
Retype ==
  /\ stage = "shown"
  /\ word' = assemble(line)
  /\ stage' = "stored"
  /\ UNCHANGED line

Next == Type \/ Store \/ Reenter \/ Show \/ Retype

Spec == Init /\ [][Next]_vars

Names == Mnemonic \cup {"", "null"} \cup {l.name : l \in Typed}

TypeOK ==
  /\ word \in Word
  /\ stage \in {"prompt", "typed", "stored", "shown"}
  /\ line.name \in Names /\ Len(line.args) <= 3

-----------------------------------------------------------------------------
(* What a line means, from the instruction set and not from the tables.    *)

\* The grammar of a line: r a register, s and u numbers of 16 bits with and
\* without sign, t a jump target, c a number of five bits.
Grammar(l) ==
  CASE l.name \in triRegAsm \ {"srl"} -> <<"r", "r", "r">>
    [] l.name \in {"sll", "srl", "sra"} -> <<"r", "r", "c">>
    [] l.name \in {"addiu", "slti", "beq", "bne"} -> <<"r", "r", "s">>
    [] l.name \in {"sltiu", "andi", "ori", "xori"} -> <<"r", "r", "u">>
    [] l.name \in {"lw", "sw", "lb", "lbu", "sb"} -> <<"r", "s", "r">>
    [] l.name \in {"bgez", "bgtz", "blez", "bltz"} -> <<"r", "s">>
    [] l.name = "lui" -> <<"r", "u">>
    [] l.name = "cache" -> <<"c", "s", "r">>
    [] l.name \in {"j", "jal"} -> <<"t">>
    [] l.name \in {"mult", "mfc0", "mtc0"} -> <<"r", "r">>
    [] l.name \in {"mflo", "mfhi", "mtlo", "mthi", "jr"} -> <<"r">>
    [] l.name = "jalr" -> IF Len(l.args) = 2 THEN <<"r", "r">> ELSE <<"r">>
    [] l.name = "syscall" -> IF Len(l.args) = 1 THEN <<"c">> ELSE <<>>
    [] OTHER -> <<>>

Value(kind, text) ==
  CASE kind = "r" -> string2reg(text)
    [] kind = "s" -> string2signed16(text)
    [] kind = "u" -> string2usigned16(text)
    [] kind = "t" -> Within(string2num(text), 0, 67108863)
    [] kind = "c" -> Within(string2num(text), 0, 31)

WellFormed(l) ==
  LET g == Grammar(l)
  IN /\ l.name \in Mnemonic
     /\ Len(l.args) = Len(g)
     /\ \A i \in DOMAIN g : Value(g[i], l.args[i]).ok

ByRegister == [sllv |-> "sll", srlv |-> "srl", srav |-> "sra"]

Meant(l) ==
  LET g == Grammar(l)
      v == [i \in DOMAIN g |-> Value(g[i], l.args[i]).value]
      name == l.name
  IN CASE name \in DOMAIN ByRegister ->
            Does(ByRegister[name], Reg(v[2]), Reg(v[3]), v[1])
       [] name = "nop" -> Does("sll", Reg(0), Imm(0), 0)
       [] name = "lui" -> Does(name, None, Imm(v[2]), v[1])
       [] name = "j" -> Does(name, None, Imm(v[1]), 0)
       [] name = "jal" -> Does(name, None, Imm(v[1]), 31)
       [] name \in {"mfhi", "mflo"} -> Does(name, None, None, v[1])
       [] name \in {"mthi", "mtlo", "jr"} -> Does(name, Reg(v[1]), None, 0)
       [] name = "jalr" -> IF Len(v) = 1 THEN Does(name, Reg(v[1]), None, 31)
                           ELSE Does(name, Reg(v[2]), None, v[1])
       [] name = "mult" -> Does(name, Reg(v[1]), Reg(v[2]), 0)
       [] name = "mfc0" -> Does(name, Imm(v[2]), None, v[1])
       [] name = "mtc0" -> Does(name, Reg(v[1]), Imm(v[2]), 0)
       [] g = <<"r", "r", "r">> -> Does(name, Reg(v[2]), Reg(v[3]), v[1])
       [] name \in {"beq", "bne"} -> Does(name, Reg(v[1]), Imm(v[3]), v[2])
       [] g \in {<<"r", "r", k>> : k \in {"c", "u", "s"}} ->
            Does(name, Reg(v[2]), Imm(v[3]), v[1])
       [] g = <<"r", "s", "r">> -> Does(name, Reg(v[3]), Imm(v[2]), v[1])
       [] g = <<"r", "s">> -> Does(name, Reg(v[1]), Imm(v[2]), 0)
       [] OTHER -> Does(name, None, None, 0)

-----------------------------------------------------------------------------
(* Properties *)

\* What the assembler gets wrong: mfc0 and mtc0 lose their opcode
\* (controller.cpp:533), bltz is in no group (controller.cpp:73-92), srl is
\* taken for a shift by a register (controller.cpp:70).
Misassembled == {"mfc0", "mtc0", "bltz", "srl"}

\* What the machine does not have: lb does not extend the sign (Registers.vhd:66-68,
\* where the simulator does, controller.cpp:239), cache stores a word
\* (FetcherAndRegister.vhdl:501-512), jalr links $31 only (443).
Unsupported(l) ==
  \/ l.name \in {"lb", "cache"}
  \/ l.name = "jalr" /\ Len(l.args) = 2 /\ string2reg(l.args[1]) # Parsed(31)

\* What the disassembler calls by another name (controller.cpp:706-711).
Misnamed == {"srlv", "srav"}

\* The machine executes what was typed: the fields the assembler fills are the
\* ones the decoder reads, registers in the right roles, immediates extended
\* as they were checked (controller.cpp:360-589, FetcherAndRegister.vhdl:277-608).
ExecutedAsMeant ==
  stage = "stored" /\ WellFormed(line)
    /\ line.name \notin Misassembled /\ ~Unsupported(line)
  => word # RET_ERROR /\ Executes(word) = Meant(line)

\* A line is refused if and only if it cannot be meant: a wrong number of
\* operands, a register or a number where there may be none, a number out of
\* range. eret, tlbwi and nop are not looked at further, a negative cache
\* operation is let through (controller.cpp:395-549).
ErrorsAreCaught ==
  stage = "stored"
    /\ line.name \notin Misassembled \cup {"nop", "eret", "tlbwi", "cache"}
  => (word = RET_ERROR <=> ~WellFormed(line))


\* A number shown can be typed in again, as an address also after getInput has
\* made its letters capitals, and the bits shown are those of the number
\* (tool.cpp:36-163, console.cpp:227).
NumbersReadBack ==
  stage = "stored" /\ word.hi < 32768 =>
    LET n == NumberOf(word)
        shown == coutHexNum(n)
        typed == [i \in DOMAIN shown |->
                   IF DigitOf(shown[i]) > 9 THEN Capitals[DigitOf(shown[i]) - 9]
                   ELSE IF shown[i] = "x" THEN "X" ELSE shown[i]]
    IN /\ string2addr(shown) = Parsed(n) /\ string2num(shown) = Parsed(n)
       /\ string2addr(typed) = Parsed(n)
       /\ string2dec(Decimal(n)) = Parsed(n)
       /\ Positional(Values(coutBinNum(16, word.hi) \o coutBinNum(16, word.lo)), 2)
            = Parsed(n)

=============================================================================
