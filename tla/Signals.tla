------------------------------- MODULE Signals -------------------------------
(***************************************************************************)
(* The wires between the entities of the CPU, as CPU/TOP.vhdl declares     *)
(* them, and the sets their values are drawn from.  Every entity module    *)
(* EXTENDS this one, reads the wires unprimed (a VHDL process reads the    *)
(* value a signal had before the clock edge) and assigns the wires it      *)
(* drives.                                                                 *)
(*                                                                         *)
(* Data is abstracted.  An instruction address is a word index modulo      *)
(* NAddr (2^30 in the hardware: "+4" is Plus(a, 1) and "-8" is Plus(a,-2)).*)
(* A data address is a word and a byte position in it.  A control packet   *)
(* (a "uop") gathers the REG_* and MEM_* wires that travel together down   *)
(* the pipeline; a register number 0 stands for REG_write = '0'.           *)
(***************************************************************************)
EXTENDS Integers

CONSTANTS
  NAddr,      \* number of instruction words in the address space
  NReg,       \* registers are 0 .. NReg-1, and $0 is never written
  LinkReg,    \* the register jal, jalr and the linking branches write ($31)
  MemWord,    \* the words of the data address space
  Dev,        \* what a data word is: RAM, a UART register or another device
  Pos,        \* byte positions in a word, address bits 1 downto 0
  LowPos,     \* the position of bits 7 downto 0 of a word ("11")
  Byte        \* values of a byte, among them 0

Addr     == 0 .. NAddr - 1
NoAddr   == -1
Reg      == 0 .. NReg - 1
Word     == [Pos -> Byte]
ZeroWord == [p \in Pos |-> 0]
DevKind  == {"ram", "uart_data", "uart_ctrl", "io"}
MemOp    == {"none", "read", "write", "writeb"}
Phase    == {"s0", "s1", "s2", "s3"}

ASSUME SignalsAssumption ==
  /\ NAddr \in Nat \ {0}
  /\ NReg \in Nat /\ NReg > 1
  /\ LinkReg \in Reg \ {0}
  /\ Dev \in [MemWord -> DevKind]
  /\ LowPos \in Pos
  /\ 0 \in Byte
  /\ MemWord # {}

Plus_NoWrap(a, k) == a + k      \* mutant: the carry is kept
Plus(a, k) == (a + k) % NAddr

DataAddr == [word : MemWord, pos : Pos]

\* What the fetch stage hands to the ALU stage.  pc is not a wire: it tags
\* the packet with the address of its instruction (NoAddr for a bubble).
Uop == [pc : Addr \cup {NoAddr}, rd : Reg, byte : BOOLEAN, mem : MemOp]

\* What the ALU stage hands to the memory stage.
MemUop == [pc : Addr \cup {NoAddr}, rd : Reg, byte : BOOLEAN, mem : MemOp,
           addr : DataAddr, data : Word]

\* What the memory stage hands back to the register file.
WriteBack == [rd : Reg, byte : BOOLEAN, pos : Pos, data : Word]

\* Instructions, by what the decoder does with them (lb and lbu are one): the
\* registers read (ra, rb) and written (rd), the coprocessor register of mfc0 and
\* mtc0, and an address: the target of a branch, or the value of the register a
\* jr or a mtc0 reads.
Op == {"alu", "shift", "alui", "lui", "lw", "lb", "sw", "sb", "j", "jal", "jr", "jalr",
       "br", "brlink", "mult", "mtlo", "mthi", "mflohi",
       "mfc0", "mtc0", "tlbwi", "eret", "syscall"}
C0Reg == {"SR", "EPC", "EBASE", "COMPARE", "other"}
Instr == [op : Op, ra : Reg, rb : Reg, rd : Reg, c0 : C0Reg, tgt : Addr]

VARIABLES
  state,               \* every entity steps s0 -> s1 -> s2 -> s3 in lock step
  PC,                  \* PCdecider: address of the instruction being decoded
  A_HOLD,              \* Fetcher: do not take the next instruction
  JUMP_true,           \* Fetcher: the next fetch is at JUMP_addr
  JUMP_addr,
  hold_from_memory,    \* Memory: the second half of a sb needs the stage
  TLB_data_exception,  \* ALUWrapper: a load or store missed the TLB
  TLB_data_write,      \* ... and it was a store
  A,                   \* A_REG_*, A_MEM_*: fetch stage to ALU stage
  B,                   \* B_REG_*, B_MEM_*, ALU_output: ALU to memory stage
  C                    \* C_REG_*, MEM_output: memory stage to registers

wires == <<state, PC, A_HOLD, JUMP_true, JUMP_addr, hold_from_memory,
           TLB_data_exception, TLB_data_write, A, B, C>>

Bubble == [pc |-> NoAddr, rd |-> 0, byte |-> FALSE, mem |-> "none"]

WiresTypeOK ==
  /\ state \in Phase
  /\ PC \in Addr
  /\ A_HOLD \in BOOLEAN
  /\ JUMP_true \in BOOLEAN
  /\ JUMP_addr \in Addr
  /\ hold_from_memory \in BOOLEAN
  /\ TLB_data_exception \in BOOLEAN
  /\ TLB_data_write \in BOOLEAN
  /\ A \in Uop
  /\ B \in MemUop
  /\ C \in WriteBack

=============================================================================
