----------------------------- MODULE ALUWrapper -----------------------------
(***************************************************************************)
(* CPU/ALUWrapper.vhdl: the ALU stage.  It latches a packet in s0,         *)
(* computes, translates the result as an address, and in s3 passes the     *)
(* packet on, turns it into a bubble, or reports a TLB miss and swallows   *)
(* both the packet and the one after it.                                   *)
(*                                                                         *)
(* The operands are abstracted: what the ALU computes is any data address  *)
(* or any word, and whether the address misses the TLB is any answer in    *)
(* DataMiss.  They are chosen when the operands are latched; an address    *)
(* matters for a memory access only, a word (the result or MEM_data) for   *)
(* all but loads.  While an access waits, the TLB's answer does not change. *)
(***************************************************************************)
EXTENDS Signals

CONSTANTS
  DataMiss,   \* answers of the TLB to loads and stores
  ALUWord     \* words that the ALU computes and that are stored

ASSUME ALUAssumption ==
  /\ DataMiss \subseteq BOOLEAN /\ DataMiss # {}
  /\ ALUWord \subseteq Word /\ ZeroWord \in ALUWord

VARIABLES
  alu,                   \* a, b, op and the s_MEM_*, s_REG_* latches
  TLB_bad,               \* the TLB's answer for the latched packet
  s_skip_one,            \* swallow the next packet
  s_do_not_read_input    \* keep the packet latched in the previous cycle

aluVars == <<alu, TLB_bad, s_skip_one, s_do_not_read_input>>

NoMemUop == [pc |-> NoAddr, rd |-> 0, byte |-> FALSE, mem |-> "none",
             addr |-> CHOOSE a \in DataAddr : TRUE, data |-> ZeroWord]

ALUTypeOK ==
  /\ alu \in MemUop
  /\ TLB_bad \in BOOLEAN
  /\ s_skip_one \in BOOLEAN
  /\ s_do_not_read_input \in BOOLEAN

ALUInit ==
  /\ alu = NoMemUop
  /\ TLB_bad = FALSE /\ s_skip_one = FALSE /\ s_do_not_read_input = FALSE
  /\ TLB_data_exception = FALSE /\ TLB_data_write = FALSE
  /\ B = NoMemUop

\* The tag of a packet is dropped once nothing can cancel it any more.
ALU_s0 ==
  /\ IF s_do_not_read_input THEN UNCHANGED <<alu, TLB_bad>>
     ELSE \E miss \in DataMiss \cup {FALSE}, addr \in DataAddr, data \in ALUWord :
            /\ A.mem = "none" => ~miss /\ addr = alu.addr
            /\ A.mem = "read" => data = ZeroWord
            /\ TLB_bad' = miss
            /\ alu' = [pc |-> IF miss \/ s_skip_one THEN A.pc ELSE NoAddr,
                       rd |-> A.rd, byte |-> A.byte, mem |-> A.mem,
                       addr |-> addr, data |-> data]
  /\ UNCHANGED <<TLB_data_exception, TLB_data_write, B,
                 s_skip_one, s_do_not_read_input>>

ALU_idle == UNCHANGED <<aluVars, TLB_data_exception, TLB_data_write, B>>

\* s1 presents the address to the TLB, s2 only waits for the answer.
ALU_s1 == ALU_idle
ALU_s2 == ALU_idle

Misses == TLB_bad /\ alu.mem # "none"

\* A packet without a write and an access.  A miss leaves its tag for the
\* fetch stage's exception, as ALU_output leaves the missing address.
Emptied(tag, output) ==
  [B EXCEPT !.pc = tag, !.rd = 0, !.mem = "none", !.data = output]

Swallows_NotOnHold == s_skip_one      \* mutant: a packet leaves twice
Swallows == s_skip_one \/ hold_from_memory

ALU_s3 ==
  /\ s_do_not_read_input' = hold_from_memory
  /\ alu' = [alu EXCEPT !.pc = IF hold_from_memory THEN alu.pc ELSE NoAddr]
  /\ \/ /\ Swallows
        /\ B' = Emptied(NoAddr, ZeroWord)
        /\ TLB_data_exception' = FALSE
        /\ s_skip_one' = FALSE
        /\ UNCHANGED TLB_data_write
     \/ /\ ~Swallows /\ Misses
        /\ B' = Emptied(alu.pc, alu.data)
        /\ TLB_data_exception' = TRUE
        /\ TLB_data_write' = (alu.mem # "read")
        /\ s_skip_one' = TRUE
     \/ /\ ~Swallows /\ ~Misses
        /\ B' = [alu EXCEPT !.pc = NoAddr]
        /\ TLB_data_exception' = FALSE
        /\ UNCHANGED <<TLB_data_write, s_skip_one>>
  /\ UNCHANGED TLB_bad

=============================================================================
