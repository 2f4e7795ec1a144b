------------------------------ MODULE DataPath ------------------------------
(***************************************************************************)
(* The ALU stage, the memory stage and the register file (with their data) *)
(* under a fetch stage that may issue anything the decoder can produce,    *)
(* and a bubble while the memory stage holds the pipeline, which is what   *)
(* FetcherAndRegister does (CPU!NoIssueLost).                              *)
(***************************************************************************)
EXTENDS ALUWrapper, Memory, Registers

VARIABLE s_REG_write     \* the write-back latched by the fetch stage in s0

vars == <<state, A, B, C, hold_from_memory, TLB_data_exception,
          TLB_data_write, aluVars, memVars, uartSide, GPR, s_REG_write>>

\* PC, A_HOLD, JUMP_true and JUMP_addr are not used here.
fetchWires == <<PC, A_HOLD, JUMP_true, JUMP_addr>>

Issuable ==
  {u \in Uop : /\ u.pc = NoAddr
               /\ u.mem \in {"write", "writeb"} => u.rd = 0
               /\ u.byte => u.mem = "read"
               /\ u.mem = "read" => u.rd # 0}

Init ==
  /\ state = "s0"
  /\ ALUInit /\ MemoryInit /\ RegistersInit
  /\ A = Bubble
  /\ s_REG_write = [rd |-> 0, byte |-> FALSE, pos |-> LowPos, data |-> ZeroWord]
  /\ PC = 0 /\ A_HOLD = FALSE /\ JUMP_true = FALSE /\ JUMP_addr = 0

Edge(from, to) ==
  state = from /\ state' = to /\ UNCHANGED <<uartSide, fetchWires>>

Tick0 ==
  /\ Edge("s0", "s1") /\ ALU_s0 /\ Memory_s0
  /\ s_REG_write' = C /\ UNCHANGED <<A, GPR>>
Tick1 ==
  /\ Edge("s1", "s2") /\ ALU_s1 /\ Memory_s1
  /\ RegWrite(s_REG_write)
  /\ s_REG_write' = [s_REG_write EXCEPT !.rd = 0] /\ UNCHANGED A
Tick2 ==
  Edge("s2", "s3") /\ ALU_s2 /\ Memory_s2 /\ UNCHANGED <<A, GPR, s_REG_write>>
Tick3 ==
  /\ Edge("s3", "s0") /\ ALU_s3 /\ Memory_s3
  /\ IF hold_from_memory THEN A' = Bubble ELSE A' \in Issuable
  /\ UNCHANGED <<GPR, s_REG_write>>

Next == Tick0 \/ Tick1 \/ Tick2 \/ Tick3

Spec == Init /\ [][Next]_<<vars, fetchWires>>

TypeOK ==
  /\ WiresTypeOK /\ ALUTypeOK /\ MemoryTypeOK /\ RegistersTypeOK
  /\ s_REG_write \in WriteBack

-----------------------------------------------------------------------------

\* The registers as the program sees them: a result that the memory stage
\* has produced counts as written.
Produced ==
  CASE state \in {"s2", "s3"} ->
         [rd |-> s_REG.rd, byte |-> s_REG.byte, pos |-> s_MEM_addr.pos,
          data |-> s_output]
    [] state = "s0" -> C
    [] state = "s1" -> s_REG_write

VisibleReg ==
  IF Produced.rd = 0 THEN GPR
  ELSE [GPR EXCEPT ![Produced.rd] = realWriteValue(Produced)]

\* The request being worked on: a sb stays one until its second write.
Requested(rd, byte, mem, addr, data) ==
  [rd |-> rd, byte |-> byte, mem |-> mem, addr |-> addr, data |-> data]
NoRequest == Requested(0, FALSE, "none", NoMemUop.addr, ZeroWord)

\* The byte a sb has still to store: in the data latch during its first
\* cycle, then merged into the word to be written.
SbByte ==
  CASE state \in {"s2", "s3"} -> s_MEM_data[LowPos]
    [] state = "s0" -> sb_target_data[sb_replace_pos]
    [] state = "s1" -> s_MEM_data[sb_replace_pos]

CurrentRequest ==
  IF sb_in_the_middle
  THEN Requested(0, FALSE, "writeb", [s_MEM_addr EXCEPT !.pos = sb_replace_pos],
                 [ZeroWord EXCEPT ![LowPos] = SbByte])
  ELSE IF state \in {"s2", "s3"} \/ (B.mem = "none" /\ B.rd = 0) THEN NoRequest
  ELSE Requested(B.rd, B.byte, B.mem, B.addr,
                 IF B.mem = "writeb"
                 THEN [ZeroWord EXCEPT ![LowPos] = B.data[LowPos]] ELSE B.data)

Requests ==
  [rd : Reg, byte : BOOLEAN, mem : MemOp, addr : DataAddr, data : Word]

Atomic == INSTANCE AtomicMemory WITH
  Request <- Requests, NoRequest <- NoRequest,
  IsRam <- LAMBDA w : Dev[w] = "ram",
  mem <- ram, reg <- VisibleReg, req <- CurrentRequest

\* Loads, stores and results appear one at a time and indivisible, although
\* a sb reads and writes the word in two cycles and a result reaches the
\* register file when the next access is already under way
\* (Memory.vhdl:173-178,208-210,296-306).
MemoryIsAtomic == Atomic!Spec

=============================================================================
