------------------------------ MODULE CPU_proofs ------------------------------
(***************************************************************************)
(* Theorems about the pipeline, for every program, address space, register *)
(* file, data memory and choice of the outside world.                      *)
(***************************************************************************)
EXTENDS CPU, TLAPS

-----------------------------------------------------------------------------
(* Type correctness, entity by entity.                                      *)

\* The wires that the fetch stage drives.
FetcherWiresOK ==
  A_HOLD \in BOOLEAN /\ JUMP_true \in BOOLEAN /\ JUMP_addr \in Addr /\ A \in Uop

\* The wires that the ALU stage drives.
ALUWiresOK ==
  TLB_data_exception \in BOOLEAN /\ TLB_data_write \in BOOLEAN /\ B \in MemUop

\* The wires that the memory stage drives.
MemoryWiresOK == hold_from_memory \in BOOLEAN /\ C \in WriteBack

\* Addresses stay addresses when they are moved modulo the address space.
LEMMA PlusType ==
  ASSUME NEW a \in Addr, NEW k \in Int
  PROVE  Plus(a, k) \in Addr
  BY SignalsAssumption DEF Plus, Addr

\* The word of zeros is a word.
LEMMA ZeroWordType == ZeroWord \in Word
  BY SignalsAssumption DEF ZeroWord, Word

\* A word stays a word when one of its bytes is replaced.
LEMMA ByteUpdateType ==
  ASSUME NEW w \in Word, NEW p \in Pos, NEW b \in Byte
  PROVE  [w EXCEPT ![p] = b] \in Word
  BY DEF Word

\* The program counter stage keeps its types.
LEMMA PCType ==
  ASSUME PCTypeOK, WiresTypeOK, PC_s0 \/ PC_s1 \/ PC_s2 \/ PC_s3
  PROVE  PCTypeOK' /\ PC' \in Addr
<1>1. Plus(s_pc, 1) \in Addr
  BY PlusType DEF PCTypeOK
<1>2. ASSUME NEW a \in Addr PROVE Code[a] \subseteq Instr
  BY PCdeciderAssumption
<1>3. FetchAddress \in Addr
  BY DEF FetchAddress, PCTypeOK
<1>4. CASE PC_s0
  BY <1>1, <1>4 DEF PC_s0, PCTypeOK, WiresTypeOK
<1>5. CASE PC_s1
  BY <1>5 DEF PC_s1, PCTypeOK, WiresTypeOK
<1>6. CASE PC_s2
  BY <1>6 DEF PC_s2, PCTypeOK, WiresTypeOK
<1>7. CASE PC_s3
  BY <1>2, <1>3, <1>7 DEF PC_s3, PCTypeOK, WiresTypeOK
<1> QED
  BY <1>4, <1>5, <1>6, <1>7

\* The ALU stage keeps its types.
LEMMA ALUType ==
  ASSUME ALUTypeOK, WiresTypeOK, ALU_s0 \/ ALU_s1 \/ ALU_s2 \/ ALU_s3
  PROVE  ALUTypeOK' /\ ALUWiresOK'
<1> USE DEF ALUTypeOK, ALUWiresOK, WiresTypeOK
<1>1. CASE ALU_s0
  <2>1. ALUWord \subseteq Word /\ DataMiss \subseteq BOOLEAN
    BY ALUAssumption
  <2>2. CASE s_do_not_read_input
    BY <1>1, <2>2 DEF ALU_s0
  <2>3. CASE ~s_do_not_read_input
    <3>1. PICK miss \in DataMiss \cup {FALSE}, addr \in DataAddr, data \in ALUWord :
            /\ TLB_bad' = miss
            /\ alu' = [pc |-> IF miss \/ s_skip_one THEN A.pc ELSE NoAddr,
                       rd |-> A.rd, byte |-> A.byte, mem |-> A.mem,
                       addr |-> addr, data |-> data]
      BY <1>1, <2>3 DEF ALU_s0
    <3>2. /\ A.pc \in Addr \cup {NoAddr} /\ A.rd \in Reg /\ A.byte \in BOOLEAN
          /\ A.mem \in MemOp
      BY DEF Uop
    <3>3. (IF miss \/ s_skip_one THEN A.pc ELSE NoAddr) \in Addr \cup {NoAddr}
      BY <3>2
    <3>4. alu' \in MemUop
      BY <2>1, <3>1, <3>2, <3>3 DEF MemUop
    <3> QED
      BY <1>1, <2>1, <3>1, <3>4 DEF ALU_s0
  <2> QED
    BY <2>2, <2>3
<1>2. CASE ALU_s1 \/ ALU_s2
  BY <1>2 DEF ALU_s1, ALU_s2, ALU_idle, aluVars
<1>3. CASE ALU_s3
  <2>1. ZeroWord \in Word
    BY ZeroWordType
  <2>0. 0 \in Reg /\ "none" \in MemOp
    BY SignalsAssumption DEF Reg, MemOp
  <2>2. ASSUME NEW u \in MemUop, NEW t \in Addr \cup {NoAddr}, NEW w \in Word
        PROVE  /\ [u EXCEPT !.pc = t] \in MemUop
               /\ [u EXCEPT !.pc = t, !.rd = 0, !.mem = "none", !.data = w] \in MemUop
    BY <2>0 DEF MemUop
  <2>3. alu.pc \in Addr \cup {NoAddr} /\ alu.data \in Word
    BY DEF MemUop
  <2>4. alu' \in MemUop
    BY <1>3, <2>2, <2>3 DEF ALU_s3
  <2>5. B' \in MemUop
    <3>1. Emptied(NoAddr, ZeroWord) \in MemUop
      BY <2>0, <2>1, <2>2 DEF Emptied
    <3>2. Emptied(alu.pc, alu.data) \in MemUop
      BY <2>0, <2>2, <2>3 DEF Emptied
    <3>3. [alu EXCEPT !.pc = NoAddr] \in MemUop
      BY <2>1, <2>2
    <3> QED
      BY <1>3, <3>1, <3>2, <3>3 DEF ALU_s3
  <2> QED
    BY <1>3, <2>4, <2>5 DEF ALU_s3
<1> QED
  BY <1>1, <1>2, <1>3

\* The memory stage keeps its types; the UART's side is left alone.
LEMMA MemoryType ==
  ASSUME MemoryTypeOK, WiresTypeOK, UNCHANGED uartSide,
         Memory_s0 \/ Memory_s1 \/ Memory_s2 \/ Memory_s3
  PROVE  MemoryTypeOK' /\ MemoryWiresOK'
<1> USE DEF MemoryTypeOK, MemoryWiresOK, WiresTypeOK, uartSide
<1>1. ZeroWord \in Word /\ LowPos \in Pos
  BY ZeroWordType, SignalsAssumption
<1>2. /\ B.rd \in Reg /\ B.byte \in BOOLEAN /\ B.mem \in MemOp
      /\ B.addr \in DataAddr /\ B.data \in Word
  BY DEF MemUop
<1>3. s_MEM_addr.word \in MemWord /\ s_MEM_addr.pos \in Pos
  BY DEF DataAddr
<1>4. CASE Memory_s0
  BY <1>4, <1>2 DEF Memory_s0, LowerStrobe, KeepSend, sbVars
<1>5. CASE Memory_s1
  <2>1. CASE StartRead
    <3>1. device = "uart_ctrl" => ControlWord \in Word
      <4>1. device = "uart_ctrl" => 0 .. 3 \subseteq Byte
        BY <1>3, MemoryAssumption DEF device
      <4>2. (IF UART_DATA_RECV_STB THEN 2 ELSE 0) + (IF ~UART_DATA_SEND_STB THEN 1 ELSE 0) \in 0 .. 3
        OBVIOUS
      <4> QED
        BY <1>1, <4>1, <4>2, ByteUpdateType DEF ControlWord
    <3>2. [ZeroWord EXCEPT ![LowPos] = UART_DATA_RECV] \in Word
      BY <1>1, ByteUpdateType
    <3>3. ram[s_MEM_addr.word] \in Word
      BY <1>3
    <3>4. device \in DevKind
      BY <1>3, SignalsAssumption DEF device
    <3>5. s_output' \in Word
      BY <2>1, <3>1, <3>2, <3>3, <3>4 DEF StartRead, DevKind
    <3> QED
      BY <1>5, <1>3, <1>2, <2>1, <3>5 DEF Memory_s1, StartRead, sendVars
  <2>2. CASE StartWrite
    <3>1. s_MEM_data[LowPos] \in Byte
      BY <1>1 DEF Word
    <3>2. [ram EXCEPT ![s_MEM_addr.word] = s_MEM_data] \in [MemWord -> Word]
      BY <1>3
    <3> QED
      BY <1>5, <1>3, <1>2, <2>2, <3>1, <3>2 DEF Memory_s1, StartWrite, sendVars
  <2>3. CASE StartNothing
    BY <1>5, <1>2, <2>3 DEF Memory_s1, StartNothing, sendVars
  <2> QED
    BY <1>5, <2>1, <2>2, <2>3 DEF Memory_s1
<1>6. CASE Memory_s2
  <2>1. C' \in WriteBack
    BY <1>6, <1>3 DEF Memory_s2, WriteBack
  <2> QED
    BY <1>6, <2>1 DEF Memory_s2, LowerStrobe, KeepSend
<1>7. CASE Memory_s3
  <2>1. Merged \in Word
    <3>1. s_MEM_data[LowPos] \in Byte
      BY <1>1 DEF Word
    <3> QED
      BY <3>1, ByteUpdateType DEF Merged
  <2> QED
    BY <1>7, <2>1 DEF Memory_s3, LowerStrobe, KeepSend
<1> QED
  BY <1>4, <1>5, <1>6, <1>7

\* What decoding may assign.
DecodedOK ==
  /\ s_REG_read_number_A \in Reg /\ s_REG_read_number_B \in Reg
  /\ numA_from_reg \in BOOLEAN /\ numB_from_reg \in BOOLEAN
  /\ outbuffer \in [rd : Reg, byte : BOOLEAN, mem : MemOp]
  /\ outbuffer_JUMP_true \in BOOLEAN /\ outbuffer_JUMP_addr \in Addr
  /\ s_jump_if_condition \in BOOLEAN /\ s_link_if_jump_true \in BOOLEAN
  /\ s_jump_addr_from_reg_a \in BOOLEAN
  /\ s_hilo \in {"none", "mul", "lo", "hi"}
  /\ s_numA_to_c0 \in C0Reg \cup {"none"}
  /\ s_exception \in BOOLEAN /\ s_exception_cause \in ExcCause
  /\ s_TLB_set_do \in BOOLEAN
  /\ timer_int \in BOOLEAN
  /\ SR \in Status

\* Decoding keeps the types of what it assigns.
LEMMA DecodeType ==
  ASSUME DecodedOK, ir \in Instr, EPC \in Addr, Decode
  PROVE  DecodedOK'
<1> USE DEF DecodedOK, Reads, KeepsReads, ToALU, Out, NoJump, KeepsSystem
<1>1. /\ ir.op \in Op /\ ir.ra \in Reg /\ ir.rb \in Reg /\ ir.rd \in Reg
      /\ ir.c0 \in C0Reg /\ ir.tgt \in Addr
  BY DEF Instr
<1>2. 0 \in Reg /\ LinkReg \in Reg
  BY SignalsAssumption DEF Reg
<1>3. CASE DecodeEret
  <2>1. [SR EXCEPT !.exl = FALSE] \in Status
    BY DEF Status
  <2> QED
    BY <1>1, <1>2, <1>3, <2>1 DEF DecodeEret, MemOp
<1>4. CASE DecodeMfc0
  BY <1>1, <1>4 DEF DecodeMfc0, MemOp
<1>5. CASE DecodeMtc0
  BY <1>1, <1>2, <1>5 DEF DecodeMtc0, MemOp
<1>6. CASE DecodeTlbwi
  BY <1>1, <1>2, <1>6 DEF DecodeTlbwi, MemOp
<1>7. CASE DecodeR
  <2>1. s_numA_to_c0' = "none"
    BY <1>7 DEF DecodeR
  <2>2. CASE DecodeArith
    BY <1>1, <2>1, <2>2 DEF DecodeArith, MemOp
  <2>3. CASE DecodeToHiLo
    BY <1>1, <1>2, <2>1, <2>3 DEF DecodeToHiLo, MemOp
  <2>4. CASE DecodeFromHiLo
    BY <1>1, <2>1, <2>4 DEF DecodeFromHiLo, MemOp
  <2>5. CASE DecodeSyscall
    BY <2>1, <2>5 DEF DecodeSyscall, ExcCause
  <2>6. CASE DecodeJr
    BY <1>1, <1>2, <2>1, <2>6 DEF DecodeJr, MemOp
  <2> QED
    BY <1>7, <2>2, <2>3, <2>4, <2>5, <2>6 DEF DecodeR
<1>8. CASE DecodeJ
  BY <1>1, <1>2, <1>8 DEF DecodeJ, MemOp
<1>9. CASE DecodeI
  <2>1. s_numA_to_c0' = "none" /\ KeepsSystem /\ UNCHANGED s_hilo
    BY <1>9 DEF DecodeI
  <2>2. CASE DecodeLoad
    BY <1>1, <2>1, <2>2 DEF DecodeLoad, MemOp
  <2>3. CASE DecodeStore
    BY <1>1, <1>2, <2>1, <2>3 DEF DecodeStore, MemOp
  <2>4. CASE DecodeLui
    BY <1>1, <2>1, <2>4 DEF DecodeLui, MemOp
  <2>5. CASE DecodeBranch
    BY <1>1, <1>2, <2>1, <2>5 DEF DecodeBranch, MemOp
  <2>6. CASE DecodeImmediate
    BY <1>1, <2>1, <2>6 DEF DecodeImmediate, MemOp
  <2> QED
    BY <1>9, <2>2, <2>3, <2>4, <2>5, <2>6 DEF DecodeI
<1> QED
  BY <1>3, <1>4, <1>5, <1>6, <1>7, <1>8, <1>9 DEF Decode

\* The fetch stage keeps its types in s0, where it decodes,
LEMMA FetcherS0Type ==
  ASSUME FetcherTypeOK, WiresTypeOK, PCTypeOK, Fetcher_s0
  PROVE  FetcherTypeOK' /\ FetcherWiresOK'
<1>1. FetcherWiresOK' /\ s_REG_write' \in WriteBack
  BY DEF Fetcher_s0, WiresTypeOK, FetcherWiresOK
<1>2. DecodedOK /\ EPC \in Addr /\ ir \in Instr
  BY DEF FetcherTypeOK, DecodedOK, PCTypeOK
<1>3. DecodedOK' /\ s_interrupt_numbers' \subseteq IRQ
      /\ BADVADDR' \in Addr \cup {NoAddr}
  <2>1. PICK u \in UartLine :
          LET lines == {l \in IRQ : (l = "timer" /\ timer_int) \/ (l = "uart" /\ u)}
              int == Interrupt_int(SR, lines)
          IN \/ /\ Raise("int")
                /\ s_interrupt_numbers' = Interrupt_numbers(SR, lines)
                /\ UNCHANGED <<decodeVars, BADVADDR>>
             \/ /\ Raise(IF TLB_data_write THEN "TLBS" ELSE "TLBL")
                /\ BADVADDR' = NoAddr
                /\ UNCHANGED <<decodeVars, s_interrupt_numbers>>
             \/ /\ Raise("TLBL_TMP")
                /\ BADVADDR' = PC
                /\ UNCHANGED <<decodeVars, s_interrupt_numbers>>
             \/ /\ Decode
                /\ UNCHANGED <<s_interrupt_numbers, BADVADDR>>
    BY DEF Fetcher_s0
  <2>2. ASSUME NEW c \in ExcCause, Raise(c), UNCHANGED decodeVars
        PROVE  DecodedOK'
    BY <1>2, <2>2 DEF Raise, decodeVars, operandVars, jumpVars, DecodedOK
  <2>3. {"int", "TLBS", "TLBL", "TLBL_TMP"} \subseteq ExcCause
    BY DEF ExcCause
  <2>4. ASSUME NEW lines \in SUBSET IRQ
        PROVE  Interrupt_numbers(SR, lines) \subseteq IRQ
    BY DEF Interrupt_numbers
  <2>5. PC \in Addr /\ BADVADDR \in Addr \cup {NoAddr} /\ s_interrupt_numbers \subseteq IRQ
    BY DEF WiresTypeOK, FetcherTypeOK
  <2>6. Decode => DecodedOK'
    BY <1>2, DecodeType
  <2> QED
    BY <2>1, <2>2, <2>3, <2>4, <2>5, <2>6
<1> QED
  BY <1>1, <1>3 DEF Fetcher_s0, DecodedOK, FetcherTypeOK, trackVars, skipVars

\* in s1, where it looks for conflicts,
LEMMA FetcherS1Type ==
  ASSUME FetcherTypeOK, WiresTypeOK, Fetcher_s1
  PROVE  FetcherTypeOK' /\ FetcherWiresOK'
<1>1. s_REG_write' \in WriteBack
  <2>1. 0 \in Reg
    BY SignalsAssumption DEF Reg
  <2> QED
    BY <2>1 DEF Fetcher_s1, FetcherTypeOK, WriteBack
<1>2. FetcherWiresOK'
  BY DEF Fetcher_s1, WiresTypeOK, FetcherWiresOK
<1>3. s_TLB_set_do' \in BOOLEAN /\ TLB_set_do' \in BOOLEAN
  BY DEF Fetcher_s1, FetcherTypeOK
<1>4. UNCHANGED <<operandVars, outbuffer, jumpVars, s_hilo, s_numA_to_c0, trackVars,
                  skipVars, excVars, timer_int, c0Vars>>
  BY DEF Fetcher_s1
<1> QED
  BY <1>1, <1>2, <1>3, <1>4
  DEF FetcherTypeOK, operandVars, jumpVars, trackVars, skipVars, excVars, c0Vars

\* in s2, where it enters exceptions,
LEMMA FetcherS2Type ==
  ASSUME FetcherTypeOK, WiresTypeOK, Fetcher_s2
  PROVE  FetcherTypeOK' /\ FetcherWiresOK'
<1>1. s_last_last_write_reg' \in Reg
  BY DEF Fetcher_s2, FetcherTypeOK
<1>2. PC \in Addr /\ Plus(PC, -2) \in Addr
  BY PlusType DEF WiresTypeOK
<1>3. CASE EntersException /\ EnterException
  <2>1. ExceptionPC \in Addr
    BY <1>2 DEF ExceptionPC
  <2>2. SR' \in Status /\ CAUSE' \in [exc : ExcCause, ip : SUBSET IRQ]
    BY <1>3 DEF EnterException, FetcherTypeOK, Status, ExcCause
  <2>3. outbuffer' \in [rd : Reg, byte : BOOLEAN, mem : MemOp]
    BY <1>3, SignalsAssumption DEF EnterException, NoOp, Reg, MemOp
  <2>4. A_HOLD' = FALSE /\ FetcherWiresOK'
    BY <1>3 DEF EnterException, Fetcher_s2, FetcherWiresOK, WiresTypeOK
  <2> QED
    BY <1>1, <1>3, <2>1, <2>2, <2>3, <2>4
    DEF EnterException, Fetcher_s2, FetcherTypeOK, ToALU, tlbVars
<1>4. CASE ~EntersException
  <2>1. FetcherWiresOK'
    BY <1>4 DEF Fetcher_s2, FetcherWiresOK, WiresTypeOK, HoldForMemory
  <2> QED
    BY <1>1, <1>4, <2>1
    DEF Fetcher_s2, FetcherTypeOK, operandVars, jumpVars, tlbVars
<1> QED
  BY <1>3, <1>4 DEF Fetcher_s2

\* and in s3, where it issues.
LEMMA FetcherS3Type ==
  ASSUME FetcherTypeOK, WiresTypeOK, PCTypeOK, Fetcher_s3
  PROVE  FetcherTypeOK' /\ FetcherWiresOK'
<1>1. PICK taken \in BOOLEAN :
        TrackLastWrite(taken) /\ (Issue(taken) \/ IssueBubble)
  BY DEF Fetcher_s3
<1>2. 0 \in Reg /\ LinkReg \in Reg
  BY SignalsAssumption DEF Reg
<1>3. outbuffer.rd \in Reg /\ outbuffer.byte \in BOOLEAN /\ outbuffer.mem \in MemOp
  BY DEF FetcherTypeOK
<1>4. s_last_write_reg' \in Reg
  BY <1>1, <1>2, <1>3 DEF TrackLastWrite, FetcherTypeOK
<1>5. ir.tgt \in Addr /\ ValueA \subseteq Addr
  BY DEF PCTypeOK, Instr, ValueA
<1>6. timer_int' \in BOOLEAN
  BY FetcherAssumption DEF Fetcher_s3, FetcherTypeOK
<1>7. /\ FetcherWiresOK' /\ s_skip_this' \in BOOLEAN
      /\ s_REG_read_number_A' \in Reg /\ s_REG_read_number_B' \in Reg
      /\ s_jump_addr_from_reg_a' \in BOOLEAN
      /\ s_numA_to_c0' \in C0Reg \cup {"none"}
      /\ SR' \in Status /\ EPC' \in Addr /\ EBASE' \in Addr
  <2>1. CASE Issue(taken)
    <3>1. SR' \in Status /\ EPC' \in Addr /\ EBASE' \in Addr /\ s_numA_to_c0' = "none"
      BY <1>5, <2>1, FetcherAssumption DEF Issue, CommitC0, FetcherTypeOK
    <3>2. A' \in Uop
      BY <1>2, <1>3, <2>1 DEF Issue, Uop, WiresTypeOK
    <3>3. JUMP_addr' \in Addr /\ JUMP_true' \in BOOLEAN
      BY <1>5, <2>1 DEF Issue, FetcherTypeOK
    <3> QED
      BY <1>2, <2>1, <3>1, <3>2, <3>3
      DEF Issue, Reads, FetcherWiresOK, FetcherTypeOK, WiresTypeOK, Fetcher_s3
  <2>2. CASE IssueBubble
    <3>1. A' \in Uop
      BY <1>2, <2>2 DEF IssueBubble, Bubble, Uop, MemOp
    <3> QED
      BY <2>2, <3>1
      DEF IssueBubble, KeepsReads, FetcherWiresOK, FetcherTypeOK, WiresTypeOK, Fetcher_s3
  <2> QED
    BY <1>1, <2>1, <2>2
<1> QED
  BY <1>4, <1>6, <1>7 DEF Fetcher_s3, FetcherTypeOK, excVars

\* Every wire, latch and register of the pipeline stays in its range, whatever
\* the program, the data and the outside world.
THEOREM TypeCorrect == Spec => []TypeOK
<1>1. Init => TypeOK
  <2> SUFFICES ASSUME Init PROVE TypeOK
    OBVIOUS
  <2>1. 0 \in Addr /\ 0 \in Reg /\ LowPos \in Pos /\ 0 \in Byte /\ ZeroWord \in Word
    BY SignalsAssumption, ZeroWordType DEF Addr, Reg
  <2>2. NoMemUop \in MemUop /\ [word |-> CHOOSE w \in MemWord : TRUE, pos |-> LowPos] \in DataAddr
    <3>1. (CHOOSE w \in MemWord : TRUE) \in MemWord
      BY SignalsAssumption
    <3>2. [word |-> CHOOSE w \in MemWord : TRUE, pos |-> LowPos] \in DataAddr
      BY <2>1, <3>1 DEF DataAddr
    <3>3. (CHOOSE a \in DataAddr : TRUE) \in DataAddr
      BY <3>2
    <3> QED
      BY <2>1, <3>2, <3>3 DEF NoMemUop, MemUop, MemOp
  <2>3. PCTypeOK /\ PC \in Addr
    BY PCdeciderAssumption DEF Init, PCInit, PCTypeOK
  <2>4. Bubble \in Uop /\ NoOp \in [rd : Reg, byte : BOOLEAN, mem : MemOp]
    BY <2>1 DEF Bubble, NoOp, Uop, MemOp
  <2>5. /\ [ie |-> FALSE, exl |-> FALSE, im |-> {}] \in Status
        /\ [exc |-> "int", ip |-> {}] \in [exc : ExcCause, ip : SUBSET IRQ]
        /\ [rd |-> 0, byte |-> FALSE, pos |-> LowPos, data |-> ZeroWord] \in WriteBack
    BY <2>1 DEF Status, ExcCause, WriteBack
  <2>6. FetcherTypeOK /\ FetcherWiresOK
    BY <2>1, <2>4, <2>5 DEF Init, FetcherInit, FetcherTypeOK, FetcherWiresOK, ExcCause
  <2>7. ALUTypeOK /\ ALUWiresOK
    BY <2>2 DEF Init, ALUInit, ALUTypeOK, ALUWiresOK
  <2>8. MemoryTypeOK /\ MemoryWiresOK
    BY <2>1, <2>2, <2>5 DEF Init, MemoryInit, MemoryTypeOK, MemoryWiresOK
  <2> QED
    BY <2>3, <2>6, <2>7, <2>8
    DEF Init, TypeOK, WiresTypeOK, FetcherWiresOK, ALUWiresOK, MemoryWiresOK, Phase
<1>2. TypeOK /\ [Next]_vars => TypeOK'
  <2> SUFFICES ASSUME TypeOK, [Next]_vars PROVE TypeOK'
    OBVIOUS
  <2> USE DEF TypeOK
  <2>1. CASE Tick0
    <3>1. PCTypeOK' /\ PC' \in Addr
      BY <2>1, PCType DEF Tick0
    <3>2. FetcherTypeOK' /\ FetcherWiresOK'
      BY <2>1, FetcherS0Type DEF Tick0
    <3>3. ALUTypeOK' /\ ALUWiresOK'
      BY <2>1, ALUType DEF Tick0
    <3>4. MemoryTypeOK' /\ MemoryWiresOK'
      BY <2>1, MemoryType DEF Tick0, Edge
    <3> QED
      BY <2>1, <3>1, <3>2, <3>3, <3>4
      DEF Tick0, Edge, WiresTypeOK, FetcherWiresOK, ALUWiresOK, MemoryWiresOK, Phase
  <2>2. CASE Tick1
    <3>1. PCTypeOK' /\ PC' \in Addr
      BY <2>2, PCType DEF Tick1
    <3>2. FetcherTypeOK' /\ FetcherWiresOK'
      BY <2>2, FetcherS1Type DEF Tick1
    <3>3. ALUTypeOK' /\ ALUWiresOK'
      BY <2>2, ALUType DEF Tick1
    <3>4. MemoryTypeOK' /\ MemoryWiresOK'
      BY <2>2, MemoryType DEF Tick1, Edge
    <3> QED
      BY <2>2, <3>1, <3>2, <3>3, <3>4
      DEF Tick1, Edge, WiresTypeOK, FetcherWiresOK, ALUWiresOK, MemoryWiresOK, Phase
  <2>3. CASE Tick2
    <3>1. PCTypeOK' /\ PC' \in Addr
      BY <2>3, PCType DEF Tick2
    <3>2. FetcherTypeOK' /\ FetcherWiresOK'
      BY <2>3, FetcherS2Type DEF Tick2
    <3>3. ALUTypeOK' /\ ALUWiresOK'
      BY <2>3, ALUType DEF Tick2
    <3>4. MemoryTypeOK' /\ MemoryWiresOK'
      BY <2>3, MemoryType DEF Tick2, Edge
    <3> QED
      BY <2>3, <3>1, <3>2, <3>3, <3>4
      DEF Tick2, Edge, WiresTypeOK, FetcherWiresOK, ALUWiresOK, MemoryWiresOK, Phase
  <2>4. CASE Tick3
    <3>1. PCTypeOK' /\ PC' \in Addr
      BY <2>4, PCType DEF Tick3
    <3>2. FetcherTypeOK' /\ FetcherWiresOK'
      BY <2>4, FetcherS3Type DEF Tick3
    <3>3. ALUTypeOK' /\ ALUWiresOK'
      BY <2>4, ALUType DEF Tick3
    <3>4. MemoryTypeOK' /\ MemoryWiresOK'
      BY <2>4, MemoryType DEF Tick3, Edge
    <3> QED
      BY <2>4, <3>1, <3>2, <3>3, <3>4
      DEF Tick3, Edge, WiresTypeOK, FetcherWiresOK, ALUWiresOK, MemoryWiresOK, Phase
  <2>5. CASE UNCHANGED vars
    <3>1. UNCHANGED wires /\ UNCHANGED pcVars
      BY <2>5 DEF vars
    <3>2. UNCHANGED fetcherVars
      BY <2>5 DEF vars
    <3>3. UNCHANGED aluVars /\ UNCHANGED memVars /\ UNCHANGED uartSide
      BY <2>5 DEF vars
    <3>4. WiresTypeOK' /\ PCTypeOK'
      BY <3>1 DEF wires, pcVars, WiresTypeOK, PCTypeOK
    <3>5. FetcherTypeOK'
      BY <3>1, <3>2 DEF wires, fetcherVars, operandVars, jumpVars, trackVars, skipVars,
         excVars, tlbVars, c0Vars, FetcherTypeOK
    <3>6. ALUTypeOK' /\ MemoryTypeOK'
      BY <3>3 DEF aluVars, memVars, sbVars, sendVars, uartSide, ALUTypeOK, MemoryTypeOK
    <3> QED
      BY <3>4, <3>5, <3>6
  <2> QED
    BY <2>1, <2>2, <2>3, <2>4, <2>5 DEF Next
<1> QED
  BY <1>1, <1>2, PTL DEF Spec

-----------------------------------------------------------------------------
(* No operand is read before it has been written, no packet is lost, and a  *)
(* sb keeps the memory stage: HazardInv is inductive.                       *)

\* The phase is one of four and advances by one.
LEMMA PhasesDiffer ==
  /\ Tick0 => state = "s0" /\ state' = "s1"
  /\ Tick1 => state = "s1" /\ state' = "s2"
  /\ Tick2 => state = "s2" /\ state' = "s3"
  /\ Tick3 => state = "s3" /\ state' = "s0"
  BY DEF Tick0, Tick1, Tick2, Tick3, Edge

\* Initially nothing is on its way.
LEMMA HazardInit == Init => HazardInv
<1> SUFFICES ASSUME Init PROVE HazardInv
  OBVIOUS
<1>1. HoldHandshake
  BY DEF Init, FetcherInit, ALUInit, MemoryInit, HoldHandshake
<1>2. Trackers
  BY DEF Init, FetcherInit, ALUInit, MemoryInit, Trackers, NoMemUop, Bubble
<1>3. NoConflict
  BY DEF Init, FetcherInit, NoConflict
<1> QED
  BY <1>1, <1>2, <1>3 DEF HazardInv

\* s0: the ALU stage latches the packet issued, unless it keeps its own.
LEMMA HazardTick0 ==
  ASSUME TypeOK, HazardInv, Tick0
  PROVE  HazardInv'
<1> USE DEF HazardInv, Tick0
<1>1. state = "s0" /\ state' = "s1"
  BY PhasesDiffer
<1>2. HoldHandshake'
  BY <1>1 DEF HoldHandshake, ALU_s0, Memory_s0, sbVars
<1>3. alu'.rd = IF s_do_not_read_input THEN alu.rd ELSE A.rd
  <2>1. CASE s_do_not_read_input
    BY <2>1 DEF ALU_s0
  <2>2. CASE ~s_do_not_read_input
    <3>1. PICK miss \in DataMiss \cup {FALSE}, addr \in DataAddr, data \in ALUWord :
            alu' = [pc |-> IF miss \/ s_skip_one THEN A.pc ELSE NoAddr,
                    rd |-> A.rd, byte |-> A.byte, mem |-> A.mem,
                    addr |-> addr, data |-> data]
      BY <2>2 DEF ALU_s0
    <3> QED
      BY <2>2, <3>1
  <2> QED
    BY <2>1, <2>2
<1>4. Trackers'
  BY <1>1, <1>3 DEF Trackers, ALU_s0, Fetcher_s0, trackVars
<1>5. NoConflict'
  BY <1>1 DEF NoConflict, Fetcher_s0, skipVars
<1> QED
  BY <1>2, <1>4, <1>5

\* s1: the memory stage starts an access, the fetch stage compares.
LEMMA HazardTick1 ==
  ASSUME TypeOK, HazardInv, Tick1
  PROVE  HazardInv'
<1> USE DEF HazardInv, Tick1
<1>1. state = "s1" /\ state' = "s2"
  BY PhasesDiffer
<1>2. hold_from_memory' = sb_in_the_middle'
  <2>1. hold_from_memory = FALSE /\ sb_in_the_middle \in BOOLEAN
    BY <1>1 DEF HoldHandshake, TypeOK, MemoryTypeOK
  <2>2. sb_in_the_middle => B.mem = "none"
    BY <1>1 DEF HoldHandshake
  <2>3. CASE StartRead
    <3>1. ~sb_in_the_middle
      BY <2>2, <2>3 DEF StartRead, FirstHalfOfSb
    <3>2. CASE FirstHalfOfSb
      BY <2>3, <3>2 DEF StartRead
    <3>3. CASE ~FirstHalfOfSb
      BY <2>1, <2>3, <3>1, <3>3 DEF StartRead
    <3> QED
      BY <3>2, <3>3
  <2>4. CASE StartWrite
    BY <2>1, <2>4 DEF StartWrite
  <2>5. CASE StartNothing
    BY <2>1, <2>5 DEF StartNothing
  <2> QED
    BY <2>3, <2>4, <2>5 DEF Memory_s1
<1>3. HoldHandshake'
  <2>1. hold_from_memory' \in BOOLEAN /\ sb_in_the_middle' \in BOOLEAN
    BY MemoryType DEF TypeOK, MemoryTypeOK, MemoryWiresOK, Edge
  <2> QED
    BY <1>1, <1>2, <2>1 DEF HoldHandshake
<1>4. Trackers'
  BY <1>1 DEF Trackers, ALU_s1, ALU_idle, aluVars, Memory_s1, Fetcher_s1, trackVars, TypeOK,
     FetcherTypeOK, WriteBack
<1>5. NoConflict'
  BY <1>1 DEF NoConflict, Trackers, Fetcher_s1, Conflict, skipVars, operandVars, ALU_s1,
     ALU_idle, aluVars
<1> QED
  BY <1>3, <1>4, <1>5

\* s2: the trackers advance unless the memory stage holds.
LEMMA HazardTick2 ==
  ASSUME TypeOK, HazardInv, Tick2
  PROVE  HazardInv'
<1> USE DEF HazardInv, Tick2
<1>1. state = "s2" /\ state' = "s3"
  BY PhasesDiffer
<1>2. HoldHandshake'
  BY <1>1 DEF HoldHandshake, ALU_s2, ALU_idle, aluVars, Memory_s2, Fetcher_s2,
     EntersException, EnterException, HoldForMemory, TypeOK, WiresTypeOK, FetcherTypeOK
<1>3. Trackers'
  BY <1>1 DEF Trackers, ALU_s2, ALU_idle, aluVars, Memory_s2, Fetcher_s2
<1>4. NoConflict'
  BY <1>1 DEF NoConflict, Fetcher_s2, EnterException, Conflict, operandVars, ALU_s2,
     ALU_idle, aluVars
<1> QED
  BY <1>2, <1>3, <1>4

\* s3: the fetch stage issues, the ALU stage passes its packet on.
LEMMA HazardTick3 ==
  ASSUME TypeOK, HazardInv, Tick3
  PROVE  HazardInv'
<1> USE DEF HazardInv, Tick3
<1>1. state = "s3" /\ state' = "s0"
  BY PhasesDiffer
<1>2. PICK taken \in BOOLEAN :
        /\ ~s_jump_if_condition => ~taken
        /\ TrackLastWrite(taken)
        /\ (Issues /\ Issue(taken)) \/ (~Issues /\ IssueBubble)
  BY DEF Fetcher_s3
<1>3. hold_from_memory => A' = Bubble
  BY <1>1, <1>2 DEF HoldHandshake, Issues, Issue, IssueBubble, Bubble, NoOp, LinksIfTaken
<1>4. A'.rd \in {0, s_last_write_reg'} \/ hold_from_memory
  BY <1>2 DEF Issue, IssueBubble, Bubble, TrackLastWrite, Issues, LinksIfTaken
<1>5. B'.rd \in {0, alu.rd} /\ (hold_from_memory => B'.rd = 0 /\ B'.mem = "none")
  BY DEF ALU_s3, Swallows, Emptied, TypeOK, ALUTypeOK, WiresTypeOK, MemUop
<1>6. alu'.rd = alu.rd
  BY DEF ALU_s3, TypeOK, ALUTypeOK, MemUop
<1>7. HoldHandshake'
  <2>1. hold_from_memory = sb_in_the_middle
    BY <1>1 DEF HoldHandshake, TypeOK, MemoryTypeOK
  <2>2. UNCHANGED <<hold_from_memory, sb_in_the_middle>> /\ s_do_not_read_input' = hold_from_memory
    BY DEF ALU_s3, Memory_s3
  <2> QED
    BY <1>1, <1>3, <1>5, <2>1, <2>2 DEF HoldHandshake, TypeOK, MemoryTypeOK
<1>8. Trackers'
  BY <1>1, <1>2, <1>4, <1>5, <1>6
  DEF Trackers, ALU_s3, Memory_s3, TrackLastWrite, Fetcher_s3
<1>9. NoConflict'
  BY <1>1 DEF NoConflict, Fetcher_s3
<1> QED
  BY <1>7, <1>8, <1>9

\* The pipeline's bookkeeping is an invariant.
THEOREM HazardInvariant == Spec => []HazardInv
<1>1. TypeOK /\ HazardInv /\ [Next]_vars => HazardInv'
  <2> SUFFICES ASSUME TypeOK, HazardInv, [Next]_vars PROVE HazardInv'
    OBVIOUS
  <2>1. CASE Next
    BY <2>1, HazardTick0, HazardTick1, HazardTick2, HazardTick3 DEF Next
  <2>2. CASE UNCHANGED vars
    <3>1. UNCHANGED <<wires, fetcherVars, aluVars, memVars>>
      BY <2>2 DEF vars
    <3>2. UNCHANGED <<state, A_HOLD, hold_from_memory, A, B, C>>
      BY <3>1 DEF wires
    <3>3. UNCHANGED <<alu, s_do_not_read_input, sb_in_the_middle, s_REG>>
      BY <3>1 DEF aluVars, memVars, sbVars
    <3>4. UNCHANGED <<operandVars, outbuffer, jumpVars, trackVars, skipVars, s_REG_write>>
      BY <3>1 DEF fetcherVars
    <3>5. HoldHandshake'
      BY <3>2, <3>3, <3>4 DEF HazardInv, HoldHandshake, jumpVars, skipVars
    <3>6. Trackers'
      BY <3>2, <3>3, <3>4 DEF HazardInv, Trackers, trackVars
    <3>7. NoConflict'
      BY <3>2, <3>3, <3>4 DEF HazardInv, NoConflict, Conflict, operandVars, skipVars
    <3> QED
      BY <3>5, <3>6, <3>7 DEF HazardInv
  <2> QED
    BY <2>1, <2>2
<1> QED
  BY <1>1, HazardInit, TypeCorrect, PTL DEF Spec

\* An instruction is issued only with operands that no older instruction has
\* still to write, for every program.
THEOREM OperandsAreFresh == Spec => []NoStaleOperand
<1>1. HazardInv => NoStaleOperand
  <2> SUFFICES ASSUME HazardInv, state = "s3", ~A_HOLD, ~s_skip_next
               PROVE  /\ s_REG_read_number_A \notin InFlight
                      /\ s_REG_read_number_B \notin InFlight
    BY DEF NoStaleOperand, Issues
  <2>1. ~Conflict(alu.rd) /\ ~Conflict(B.rd)
    BY DEF HazardInv, NoConflict
  <2>2. C.rd = B.rd /\ s_REG_write.rd = 0
    BY DEF HazardInv, Trackers
  <2> QED
    BY <2>1, <2>2 DEF InFlight, Conflict
<1> QED
  BY <1>1, HazardInvariant, PTL

\* No instruction is lost: when the ALU stage re-uses its latch, what it is
\* offered is a bubble (ALUWrapper.vhdl:91, FetcherAndRegister.vhdl:648).
THEOREM NothingIsLost == Spec => []NoIssueLost
<1>1. HazardInv => NoIssueLost
  BY DEF HazardInv, HoldHandshake, NoIssueLost
<1> QED
  BY <1>1, HazardInvariant, PTL

\* The second half of a sb finds the memory stage empty, so that no access
\* of another instruction takes the place of its write (Memory.vhdl:173,208).
THEOREM SbIsUndisturbed == Spec => []SbHasTheStage
<1>1. HazardInv => SbHasTheStage
  BY DEF HazardInv, HoldHandshake, SbHasTheStage
<1> QED
  BY <1>1, HazardInvariant, PTL

\* The word that is decoded is the word at the PC, however long the fetch
\* stage holds.
THEOREM DecodedWord == Spec => []DecodesThePC
<1>1. Init => DecodesThePC
  BY DEF Init, PCInit, DecodesThePC
<1>2. DecodesThePC /\ [Next]_vars => DecodesThePC'
  <2> SUFFICES ASSUME DecodesThePC, [Next]_vars PROVE DecodesThePC'
    OBVIOUS
  <2>1. CASE Tick3
    BY <2>1 DEF Tick3, PC_s3, FetchAddress, DecodesThePC
  <2>2. CASE Tick0 \/ Tick1 \/ Tick2
    BY <2>2 DEF Tick0, Tick1, Tick2, PC_s0, PC_s1, PC_s2, DecodesThePC
  <2>3. CASE UNCHANGED vars
    BY <2>3 DEF vars, wires, pcVars, DecodesThePC
  <2> QED
    BY <2>1, <2>2, <2>3 DEF Next
<1> QED
  BY <1>1, <1>2, PTL DEF Spec

-----------------------------------------------------------------------------
(* The order of instructions.  Under the conventions (Orderly) nothing but  *)
(* jumps, traps and interrupts changes what comes next, and a trap names    *)
(* the instruction that has to be resumed.                                  *)

\* What the TLB and the interrupt lines may ask for, and the tags of the
\* instructions that a miss may still cancel.
Requests ==
  /\ (\A v \in SRValue : ~v.ie) => ~SR.ie
  /\ TimerMatch = {FALSE} => ~timer_int
  /\ NeverMisses => ~TLB_bad /\ ~TLB_data_exception
  /\ s_skip_one <=> TLB_data_exception
  /\ TLB_bad => alu.mem # "none"
  /\ alu.pc # NoAddr => \/ s_skip_one /\ state # "s0"
                        \/ TLB_bad /\ (state = "s0" => s_do_not_read_input)
  /\ B.pc # NoAddr => TLB_data_exception
  /\ TLB_data_exception => B.mem = "none"
  /\ state \in {"s2", "s3"} /\ hold_from_memory => B.mem # "none"

Register == {"jr", "jalr"}
Always == {"j", "jal", "jr", "jalr", "eret"}
Branches == {"br", "brlink"}

\* What has been decoded is what the word at PC asks for, and what a word
\* asks for is not carried over to the next; an annulled jr may leave its mark
\* for a word that does not jump.
Decoded ==
  /\ s_jump_addr_from_reg_a =>
       /\ ~s_skip_next /\ ir.op # "eret"
       /\ s_skip_this => ir.op \in Register
       /\ state # "s0" /\ ~s_exception => ir.op \in Register \/ ir.op \notin Jump
  /\ s_numA_to_c0 \in {"EPC", "EBASE"} =>
       /\ ir.op = "mtc0" /\ ir.c0 = s_numA_to_c0 /\ ~s_skip_next /\ ~s_skip_this
       /\ PC \notin Unmapped /\ ~TLB_data_exception
       /\ state = "s0" => A_HOLD
  /\ state # "s0" /\ ~s_exception /\ ~s_skip_next /\ ~s_skip_this =>
       /\ outbuffer_JUMP_true <=> (ir.op \in Always)
       /\ s_jump_if_condition <=> (ir.op \in Branches)
       /\ ir.op \in Register => s_jump_addr_from_reg_a
       /\ ir.op \in Jump \ Register =>
            outbuffer_JUMP_addr = IF ir.op = "eret" THEN EPC ELSE ir.tgt
       /\ outbuffer.mem = "read" => ir.op \in Load
       /\ outbuffer.mem \in {"write", "writeb"} => ir.op \in Store

\* Why an exception is entered: for an interrupt, or for what the word being
\* decoded, its address or an access two words before it ask for.
AsksFor(cause) ==
  \/ cause = "syscall" /\ ir.op = "syscall" /\ PC \notin Unmapped /\ ~TLB_data_exception
  \/ cause = "TLBL_TMP" /\ PC \in Unmapped /\ ~TLB_data_exception
  \/ cause = "TLBL" /\ TLB_data_exception /\ ~TLB_data_write
  \/ cause = "TLBS" /\ TLB_data_exception /\ TLB_data_write

\* An exception goes to a mapped word.
Entry(a) == a \in Handlers /\ a \notin Unmapped

\* An exception is entered in the cycle in which it is noticed, and the word
\* behind it is annulled.
Trapping ==
  /\ s_exception =>
       \/ s_exception_cause = "int" /\ ~NeverInterrupted
       \/ state \in {"s1", "s2"} /\ ~s_skip_this /\ AsksFor(s_exception_cause)
  /\ state \in {"s1", "s2"} /\ ~s_skip_this /\ ~s_exception =>
       ir.op # "syscall" /\ PC \notin Unmapped /\ ~TLB_data_exception
  /\ state = "s3" /\ ~s_skip_next /\ ~s_skip_this =>
       ir.op # "syscall" /\ PC \notin Unmapped /\ ~TLB_data_exception /\ ~s_exception
  /\ s_skip_next => /\ state = "s3" /\ ~A_HOLD /\ ~s_skip_this
                    /\ outbuffer_JUMP_true /\ ~s_jump_if_condition
                    /\ outbuffer = NoOp /\ Entry(outbuffer_JUMP_addr)
                    /\ ~NeverInterrupted \/ MayBeAnnulled(s_pc)
  /\ s_skip_this => /\ PC \notin Unmapped
                    /\ ~NeverInterrupted \/ Quiet(ir)
                    /\ state = "s0" => A.pc = NoAddr /\ Entry(NextFetch)
                    /\ state # "s0" => Entry(s_pc)
  /\ Entry(EBASE)

\* The address that is translated is the next to be decoded; a word is fetched
\* again only if it and the next are mapped.
Translated ==
  /\ state \in {"s2", "s3"} => TLB_virt = s_pc
  /\ state = "s0" => IF A_HOLD THEN TLB_virt = s_pc ELSE TLB_virt = PC
  /\ state = "s0" /\ s_skip_this => TLB_virt \notin Unmapped
  /\ state = "s0" /\ A_HOLD => TLB_virt \notin Unmapped /\ PC \notin Unmapped

\* next comes after pc unless pc is a delay slot.
InLine(pc, next) ==
  (Interruptible \/ HasTraps \/ ~NeverMisses) =>
    \/ next = Plus(pc, 1)
    \/ \E b \in Addr : MayHold(b, Jump) /\ pc = Plus(b, 1)

\* Where the next instructions come from.
Jumped(i) == IF i.op = "eret" THEN EPC ELSE i.tgt
InSequence ==
  /\ state # "s0" /\ ~s_skip_this /\ ~s_skip_next => InLine(PC, s_pc)
  /\ state = "s0" /\ ~s_skip_this =>
       \/ A_HOLD /\ A.pc = NoAddr /\ InLine(PC, s_pc)
       \/ /\ ~A_HOLD /\ s_pc = PC
          /\ \/ A.pc = NoAddr /\ ~JUMP_true
             \/ /\ A.pc \in Addr /\ A.pc \notin Unmapped /\ InLine(A.pc, PC)
                /\ \E i \in Code[A.pc] :
                     \/ JUMP_true /\ i.op \in Jump /\ JUMP_addr = Jumped(i)
                     \/ ~JUMP_true /\ i.op \notin Always \cup {"syscall"}

\* No register that is read is one that is on its way.
NothingWaits ==
  /\ {s_REG_read_number_A, s_REG_read_number_B} \subseteq Sources
  /\ {s_last_write_reg, s_last_last_write_reg, outbuffer.rd} \subseteq Destinations
  /\ state = "s2" => ~A_HOLD
  /\ state = "s3" /\ A_HOLD => hold_from_memory

\* The word at a is mapped and may be a load or a store, as mem says.
Access(a, mem) ==
  a \in Addr \ Unmapped /\ MayHold(a, IF mem = "read" THEN Load ELSE Store)

\* An access in the ALU stage is that of the word before PC, one in the memory
\* stage or one that has just missed that of the word before that.
InFlightAccess ==
  /\ state = "s0" /\ A.mem # "none" => Access(A.pc, A.mem) /\ ~JUMP_true
  /\ (state = "s0" => s_do_not_read_input) /\ alu.mem # "none" /\ ~s_skip_one =>
       /\ ~s_skip_this /\ ~s_skip_next /\ (state = "s0" => A_HOLD)
       /\ \E a \in Addr : /\ Access(a, alu.mem) /\ PC = Plus(a, 1) /\ s_pc = Plus(a, 2)
                          /\ TLB_bad => alu.pc = a
  /\ B.mem # "none" /\ state = "s0" =>
       /\ ~A_HOLD /\ ~s_skip_this
       /\ \E a \in Addr : MayHold(a, Load \cup Store) /\ A.pc = Plus(a, 1) /\ PC = Plus(a, 2)
  /\ B.mem # "none" /\ state # "s0" => s_pc \notin Unmapped
  /\ TLB_data_exception =>
       /\ ~s_skip_this /\ ~s_do_not_read_input
       /\ state = "s0" => ~A_HOLD
       /\ state # "s0" => MayBeAnnulled(s_pc)
       /\ \E a \in Addr : 
            /\ Access(a, IF TLB_data_write THEN "write" ELSE "read")
            /\ B.pc = a /\ PC = Plus(a, 2)
            /\ state = "s0" => A.pc = Plus(a, 1)
            /\ state # "s0" => alu.pc = Plus(a, 1)

Sequential ==
  /\ Requests /\ Decoded /\ Trapping /\ Translated /\ InSequence
  /\ ~NeverMisses => NothingWaits /\ InFlightAccess

-----------------------------------------------------------------------------

\* s0: what the fetch stage notices, or decodes.
LEMMA NoticedOrDecoded ==
  ASSUME TypeOK, Orderly, Requests, Fetcher_s0
  PROVE  \/ ~NeverInterrupted /\ Raise("int") /\ UNCHANGED decodeVars
         \/ /\ TLB_data_exception /\ UNCHANGED decodeVars
            /\ Raise(IF TLB_data_write THEN "TLBS" ELSE "TLBL")
         \/ /\ ~TLB_data_exception /\ TLB_virt \in Unmapped /\ UNCHANGED decodeVars
            /\ Raise("TLBL_TMP")
         \/ ~TLB_data_exception /\ TLB_virt \notin Unmapped /\ Decode
<1>1. PICK u \in UartLine :
        LET lines == {l \in IRQ : (l = "timer" /\ timer_int) \/ (l = "uart" /\ u)}
            int == Interrupt_int(SR, lines)
        IN \/ int /\ Raise("int") /\ UNCHANGED decodeVars
           \/ /\ ~int /\ TLB_data_exception /\ UNCHANGED decodeVars
              /\ Raise(IF TLB_data_write THEN "TLBS" ELSE "TLBL")
           \/ /\ ~int /\ ~TLB_data_exception /\ TLB_instruction_bad
              /\ Raise("TLBL_TMP") /\ UNCHANGED decodeVars
           \/ ~TLB_data_exception /\ ~TLB_instruction_bad /\ Decode
  BY DEF Fetcher_s0
<1> DEFINE lines == {l \in IRQ : (l = "timer" /\ timer_int) \/ (l = "uart" /\ u)}
<1>2. NeverInterrupted => ~Interrupt_int(SR, lines)
  <2>1. CASE \A v \in SRValue : ~v.ie
    BY <2>1 DEF Requests, Interrupt_int, Interrupt_globalmask
  <2>2. CASE TimerMatch = {FALSE} /\ UartLine = {FALSE}
    <3>1. ~timer_int /\ u = FALSE
      BY <2>2, <1>1 DEF Requests
    <3>2. lines = {}
      BY <3>1
    <3> QED
      BY <3>2 DEF Interrupt_int, Interrupt_numbers
  <2> QED
    BY <2>1, <2>2 DEF NeverInterrupted
<1> QED
  BY <1>1, <1>2 DEF TLB_instruction_bad

\* The packet that the ALU stage latches, with its tag if it may be cancelled.
LEMMA Latched ==
  ASSUME TypeOK, Tick0
  PROVE  IF s_do_not_read_input THEN UNCHANGED <<alu, TLB_bad>>
         ELSE /\ TLB_bad' \in DataMiss \cup {FALSE}
              /\ alu'.mem = A.mem /\ (TLB_bad' => A.mem # "none")
              /\ alu'.pc = IF TLB_bad' \/ s_skip_one THEN A.pc ELSE NoAddr
<1>1. CASE s_do_not_read_input
  BY <1>1 DEF Tick0, ALU_s0
<1>2. CASE ~s_do_not_read_input
  <2>1. PICK miss \in DataMiss \cup {FALSE}, addr \in DataAddr, data \in ALUWord :
          /\ A.mem = "none" => ~miss
          /\ TLB_bad' = miss
          /\ alu' = [pc |-> IF miss \/ s_skip_one THEN A.pc ELSE NoAddr,
                     rd |-> A.rd, byte |-> A.byte, mem |-> A.mem,
                     addr |-> addr, data |-> data]
    BY <1>2 DEF Tick0, ALU_s0
  <2> QED
    BY <1>2, <2>1
<1> QED
  BY <1>1, <1>2

\* What the ALU stage hands on, swallows or reports.
LEMMA HandedOn ==
  ASSUME TypeOK, Tick3
  PROVE  /\ s_do_not_read_input' = hold_from_memory /\ UNCHANGED TLB_bad
         /\ alu'.mem = alu.mem /\ alu'.pc = IF hold_from_memory THEN alu.pc ELSE NoAddr
         /\ Swallows => /\ ~s_skip_one' /\ ~TLB_data_exception'
                        /\ B'.pc = NoAddr /\ B'.mem = "none"
         /\ ~Swallows /\ Misses => /\ s_skip_one' /\ TLB_data_exception'
                                   /\ TLB_data_write' = (alu.mem # "read")
                                   /\ B'.pc = alu.pc /\ B'.mem = "none"
         /\ ~Swallows /\ ~Misses => /\ ~s_skip_one' /\ ~TLB_data_exception'
                                    /\ B'.pc = NoAddr /\ B'.mem = alu.mem
<1>1. ALU_s3
  BY DEF Tick3
<1>2. /\ [alu EXCEPT !.pc = NoAddr].pc = NoAddr /\ [alu EXCEPT !.pc = NoAddr].mem = alu.mem
      /\ \A p : [alu EXCEPT !.pc = p].pc = p /\ [alu EXCEPT !.pc = p].mem = alu.mem
  BY DEF TypeOK, ALUTypeOK, MemUop
<1>3. \A p, o : Emptied(p, o).pc = p /\ Emptied(p, o).mem = "none"
  BY DEF Emptied, TypeOK, WiresTypeOK, MemUop
<1>4. s_do_not_read_input' = hold_from_memory /\ UNCHANGED TLB_bad
      /\ alu'.mem = alu.mem /\ alu'.pc = IF hold_from_memory THEN alu.pc ELSE NoAddr
  BY <1>1, <1>2 DEF ALU_s3
<1>5. CASE Swallows
  BY <1>1, <1>3, <1>4, <1>5 DEF ALU_s3
<1>6. CASE ~Swallows /\ Misses
  BY <1>1, <1>3, <1>4, <1>6 DEF ALU_s3
<1>7. CASE ~Swallows /\ ~Misses
  <2>1. B' = [alu EXCEPT !.pc = NoAddr] /\ ~TLB_data_exception' /\ UNCHANGED s_skip_one
    BY <1>1, <1>7 DEF ALU_s3
  <2>2. ~s_skip_one'
    BY <1>7, <2>1 DEF Swallows
  <2> QED
    BY <1>2, <1>4, <1>7, <2>1, <2>2
<1> QED
  BY <1>5, <1>6, <1>7

\* s1: the memory stage asks for a hold only if it has an access.
LEMMA HoldIsForAccess ==
  ASSUME TypeOK, HazardInv, Tick1, hold_from_memory'
  PROVE  B.mem # "none"
<1>1. Memory_s1 /\ state = "s1"
  BY PhasesDiffer DEF Tick1
<1>2. ~hold_from_memory
  BY <1>1 DEF HazardInv, HoldHandshake
<1>3. FirstHalfOfSb
  BY <1>1, <1>2 DEF Memory_s1, StartRead, StartWrite, StartNothing
<1> QED
  BY <1>3 DEF FirstHalfOfSb

\* Nothing misses or interrupts unless it may, and a tag stays with the packet
\* that has missed and the one behind it.
LEMMA RequestsStep ==
  ASSUME TypeOK, HazardInv, Orderly, Requests, Next
  PROVE  Requests'
<1>1. CASE Tick0
  <2>1. state = "s0" /\ state' = "s1"
    BY <1>1, PhasesDiffer
  <2>2. UNCHANGED <<TLB_data_exception, B, s_skip_one>>
    BY <1>1 DEF Tick0, ALU_s0
  <2>3. NeverMisses => ~TLB_bad'
    BY <1>1, Latched DEF NeverMisses, Requests
  <2>4. /\ TLB_bad' => alu'.mem # "none"
        /\ alu'.pc # NoAddr => s_skip_one \/ TLB_bad'
    BY <1>1, <2>1, Latched DEF Requests
  <2>5. SR'.ie = SR.ie /\ (timer_int' => timer_int)
    <3>1. SR' = SR \/ SR' = [SR EXCEPT !.exl = FALSE]
      BY <1>1, NoticedOrDecoded DEF Tick0, decodeVars, Decode, DecodeEret, DecodeMfc0, DecodeMtc0,
         DecodeTlbwi, DecodeR, DecodeArith, DecodeToHiLo, DecodeFromHiLo, DecodeSyscall, DecodeJr,
         DecodeJ, DecodeI, KeepsSystem
    <3>2. timer_int' => timer_int
      BY <1>1, NoticedOrDecoded DEF Tick0, decodeVars, Decode, DecodeEret, DecodeMfc0, DecodeMtc0,
         DecodeTlbwi, DecodeR, DecodeArith, DecodeToHiLo, DecodeFromHiLo, DecodeSyscall, DecodeJr,
         DecodeJ, DecodeI, KeepsSystem
    <3>3. [SR EXCEPT !.exl = FALSE].ie = SR.ie
      BY DEF TypeOK, FetcherTypeOK, Status
    <3> QED
      BY <3>1, <3>2, <3>3
  <2> QED
    BY <2>1, <2>2, <2>3, <2>4, <2>5 DEF Requests
<1>2. CASE Tick1
  <2>1. state = "s1" /\ state' = "s2"
    BY <1>2, PhasesDiffer
  <2>2. UNCHANGED <<aluVars, TLB_data_exception, B, SR, timer_int>>
    BY <1>2 DEF Tick1, ALU_s1, ALU_idle, Fetcher_s1, c0Vars
  <2>3. hold_from_memory' => B.mem # "none"
    BY <1>2, HoldIsForAccess
  <2> QED
    BY <2>1, <2>2, <2>3 DEF Requests, aluVars
<1>3. CASE Tick2
  <2>1. state = "s2" /\ state' = "s3"
    BY <1>3, PhasesDiffer
  <2>2. UNCHANGED <<aluVars, TLB_data_exception, B, timer_int, hold_from_memory>>
    BY <1>3 DEF Tick2, ALU_s2, ALU_idle, Fetcher_s2, Memory_s2
  <2>3. [SR EXCEPT !.exl = TRUE].ie = SR.ie
    BY DEF TypeOK, FetcherTypeOK, Status
  <2>4. SR'.ie = SR.ie
    BY <1>3, <2>3 DEF Tick2, Fetcher_s2, EnterException
  <2> QED
    BY <2>1, <2>2, <2>4 DEF Requests, aluVars
<1>4. CASE Tick3
  <2>1. state = "s3" /\ state' = "s0"
    BY <1>4, PhasesDiffer
  <2>2. SR' = SR \/ SR' \in SRValue
    BY <1>4 DEF Tick3, Fetcher_s3, Issue, IssueBubble, CommitC0
  <2>3. (\A v \in SRValue : ~v.ie) => ~SR'.ie
    BY <2>2 DEF Requests
  <2>4. TimerMatch = {FALSE} => ~timer_int'
    BY <1>4 DEF Tick3, Fetcher_s3, Requests
  <2>5. NeverMisses => ~TLB_data_exception'
    BY <1>4, HandedOn DEF Misses, Requests, Swallows
  <2>6. hold_from_memory => ~s_skip_one
    BY <2>1 DEF Requests
  <2>7. /\ s_skip_one' <=> TLB_data_exception'
        /\ TLB_data_exception' => B'.mem = "none"
        /\ B'.pc # NoAddr => TLB_data_exception'
    BY <1>4, HandedOn
  <2>8. UNCHANGED TLB_bad /\ alu'.mem = alu.mem
    BY <1>4, HandedOn
  <2>9. alu'.pc # NoAddr => TLB_bad' /\ s_do_not_read_input'
    BY <1>4, <2>6, HandedOn DEF Requests
  <2> QED
    BY <2>1, <2>3, <2>4, <2>5, <2>7, <2>8, <2>9 DEF Requests
<1> QED
  BY <1>1, <1>2, <1>3, <1>4 DEF Next

\* What the decoder makes of the word at PC, as far as control goes.
DecodesTo ==
  /\ s_jump_addr_from_reg_a' => ir.op \in Register \/ s_jump_addr_from_reg_a
  /\ ir.op \in Jump \ (Register \cup {"eret"}) => ~s_jump_addr_from_reg_a'
  /\ \/ s_numA_to_c0' \in {"none", s_numA_to_c0}
     \/ ir.op = "mtc0" /\ s_numA_to_c0' = ir.c0
  /\ IF ir.op = "syscall" THEN s_exception' /\ s_exception_cause' = "syscall"
     ELSE UNCHANGED <<s_exception, s_exception_cause>>
  /\ ir.op = "syscall" => s_numA_to_c0' = "none" /\ s_hilo' = s_hilo
  /\ ir.op \notin {"eret", "mtc0", "tlbwi"} => UNCHANGED <<SR, timer_int, s_TLB_set_do>>
  /\ ir.op = "mtc0" => /\ UNCHANGED <<SR, s_TLB_set_do>>
                       /\ timer_int' = (timer_int /\ ir.c0 # "COMPARE")
  /\ ir.op # "syscall" =>
       /\ outbuffer_JUMP_true' <=> (ir.op \in Always)
       /\ s_jump_if_condition' <=> (ir.op \in Branches)
       /\ ir.op \in Register => s_jump_addr_from_reg_a'
       /\ ir.op \in Jump \ Register =>
            outbuffer_JUMP_addr' = IF ir.op = "eret" THEN EPC ELSE ir.tgt
       /\ outbuffer'.mem = "read" => ir.op \in Load
       /\ outbuffer'.mem \in {"write", "writeb"} => ir.op \in Store
  /\ outbuffer'.rd \in {0, LinkReg, ir.rd, outbuffer.rd}
  /\ s_REG_read_number_A' \in {ir.ra, s_REG_read_number_A}
  /\ s_REG_read_number_B' \in {ir.rb, s_REG_read_number_B}

\* Decoding an instruction does what DecodesTo says.
LEMMA DecodeControls == Decode => DecodesTo
<1> SUFFICES ASSUME Decode PROVE DecodesTo
  OBVIOUS
<1> USE DEF DecodesTo, Register, Always, Branches, Jump, Load, Store, NoJump, KeepsSystem,
           Reads, KeepsReads, Out
<1>1. CASE DecodeEret
  BY <1>1 DEF DecodeEret
<1>2. CASE DecodeMfc0
  BY <1>2 DEF DecodeMfc0
<1>3. CASE DecodeMtc0
  BY <1>3 DEF DecodeMtc0
<1>4. CASE DecodeTlbwi
  BY <1>4 DEF DecodeTlbwi
<1>5. CASE DecodeJ
  BY <1>5 DEF DecodeJ
<1>6. CASE DecodeR
  <2> USE <1>6 DEF DecodeR
  <2>1. CASE DecodeArith
    BY <2>1 DEF DecodeArith
  <2>2. CASE DecodeToHiLo
    BY <2>2 DEF DecodeToHiLo
  <2>3. CASE DecodeFromHiLo
    BY <2>3 DEF DecodeFromHiLo
  <2>4. CASE DecodeSyscall
    BY <2>4 DEF DecodeSyscall
  <2>5. CASE DecodeJr
    BY <2>5 DEF DecodeJr
  <2> QED
    BY <2>1, <2>2, <2>3, <2>4, <2>5
<1>7. CASE DecodeI
  <2> USE <1>7 DEF DecodeI
  <2>1. CASE DecodeLoad
    BY <2>1 DEF DecodeLoad
  <2>2. CASE DecodeStore
    BY <2>2 DEF DecodeStore
  <2>3. CASE DecodeLui
    BY <2>3 DEF DecodeLui
  <2>4. CASE DecodeBranch
    BY <2>4 DEF DecodeBranch
  <2>5. CASE DecodeImmediate
    BY <2>5 DEF DecodeImmediate
  <2> QED
    BY <2>1, <2>2, <2>3, <2>4, <2>5
<1> QED
  BY <1>1, <1>2, <1>3, <1>4, <1>5, <1>6, <1>7 DEF Decode

\* The word at PC is one of the program's.
LEMMA WordAtPC ==
  ASSUME TypeOK, DecodesThePC
  PROVE  /\ PC \in Addr /\ ir \in Code[PC] /\ ir \in Words
         /\ Interruptible => ir.op \notin Jump \cup {"syscall"} /\ ~MayMoveEPC(ir)
<1>1. PC \in Addr /\ ir \in Code[PC]
  BY DEF TypeOK, WiresTypeOK, DecodesThePC
<1>2. ir \in Words
  BY <1>1 DEF Words
<1> QED
  BY <1>1, <1>2 DEF Interruptible

\* s0: an exception is noticed, or the word is decoded.
LEMMA ControlTick0 ==
  ASSUME TypeOK, DecodesThePC, Orderly, Sequential, Tick0
  PROVE  Decoded' /\ Trapping' /\ Translated'
<1>1. state = "s0" /\ state' = "s1"
  BY PhasesDiffer
<1>2. UNCHANGED <<PC, ir>> /\ s_pc' = NextFetch
  BY DEF Tick0, PC_s0, NextFetch
<1>3. UNCHANGED <<s_skip_next, s_skip_this, A_HOLD, A, EPC, EBASE>>
  BY DEF Tick0, Fetcher_s0, skipVars
<1>4. UNCHANGED <<TLB_data_exception, TLB_data_write>>
  BY DEF Tick0, ALU_s0
<1>5. ~s_skip_next
  BY <1>1 DEF Sequential, Trapping
<1>6. TLB_data_exception => ~A_HOLD /\ ~s_skip_this
  BY <1>1 DEF Sequential, Requests, InFlightAccess
<1>7. TLB_virt \in Unmapped => ~A_HOLD /\ ~s_skip_this /\ TLB_virt = PC
  BY <1>1 DEF Sequential, Translated
<1>8. TLB_virt \notin Unmapped => PC \notin Unmapped
  BY <1>1 DEF Sequential, Translated
<1>9. s_skip_this => ir.op \notin {"syscall", "eret"} /\ ~MayMoveEPC(ir)
  BY WordAtPC DEF Sequential, Trapping, Quiet, Orderly, Jump, MayMoveEPC
<1>10. Translated'
  BY <1>1 DEF Translated
<1>11. s_skip_this => PC \notin Unmapped /\ (~NeverInterrupted \/ Quiet(ir)) /\ Entry(NextFetch)
  BY <1>1 DEF Sequential, Trapping
<1>12. Entry(EBASE)
  BY DEF Sequential, Trapping
<1>13. s_numA_to_c0 \in {"EPC", "EBASE"} =>
         /\ ir.op = "mtc0" /\ ir.c0 = s_numA_to_c0 /\ ~s_skip_this
         /\ PC \notin Unmapped /\ ~TLB_data_exception
  BY DEF Sequential, Decoded
<1>14. s_jump_addr_from_reg_a => ir.op # "eret" /\ (s_skip_this => ir.op \in Register)
  BY DEF Sequential, Decoded
<1>15. ASSUME UNCHANGED decodeVars, s_exception',
              \/ s_exception_cause' = "int" /\ ~NeverInterrupted
              \/ ~s_skip_this /\ AsksFor(s_exception_cause)'
       PROVE  Decoded' /\ Trapping'
  <2>1. UNCHANGED <<s_jump_addr_from_reg_a, s_numA_to_c0>>
    BY <1>15 DEF decodeVars, jumpVars
  <2>2. Decoded'
    BY <1>1, <1>2, <1>3, <1>4, <1>5, <1>13, <1>14, <1>15, <2>1 DEF Decoded
  <2>3. Trapping'
    BY <1>1, <1>2, <1>3, <1>5, <1>11, <1>12, <1>15 DEF Trapping, Quiet
  <2> QED
    BY <2>2, <2>3
<1>16. CASE ~NeverInterrupted /\ Raise("int") /\ UNCHANGED decodeVars
  BY <1>10, <1>15, <1>16 DEF Raise
<1>17. CASE /\ TLB_data_exception /\ UNCHANGED decodeVars
            /\ Raise(IF TLB_data_write THEN "TLBS" ELSE "TLBL")
  BY <1>4, <1>6, <1>10, <1>15, <1>17 DEF Raise, AsksFor
<1>18. CASE /\ ~TLB_data_exception /\ TLB_virt \in Unmapped /\ UNCHANGED decodeVars
            /\ Raise("TLBL_TMP")
  BY <1>2, <1>4, <1>7, <1>10, <1>15, <1>18 DEF Raise, AsksFor
<1>19. CASE ~TLB_data_exception /\ TLB_virt \notin Unmapped /\ Decode
  <2>1. DecodesTo
    BY <1>19, DecodeControls
  <2>2. Decoded'
    BY <1>1, <1>2, <1>3, <1>4, <1>5, <1>8, <1>9, <1>13, <1>14, <1>19, <2>1
       DEF Decoded, DecodesTo, Register, Jump, MayMoveEPC
  <2>3. ir.op # "syscall" => UNCHANGED <<s_exception, s_exception_cause>>
    BY <2>1 DEF DecodesTo
  <2>4. s_exception => s_exception_cause = "int" /\ ~NeverInterrupted
    BY <1>1 DEF Sequential, Trapping
  <2>5. ir.op = "syscall" => s_exception' /\ AsksFor(s_exception_cause)'
    BY <1>2, <1>4, <1>8, <1>19, <2>1 DEF DecodesTo, AsksFor
  <2>6. Trapping'
    BY <1>1, <1>2, <1>3, <1>4, <1>5, <1>8, <1>9, <1>11, <1>12, <1>19, <2>3, <2>4, <2>5
       DEF Trapping, Quiet
  <2> QED
    BY <1>10, <2>2, <2>6
<1> QED
  BY <1>16, <1>17, <1>18, <1>19, NoticedOrDecoded DEF Tick0, Sequential

\* s1: only the hold is settled.
LEMMA ControlTick1 ==
  ASSUME Sequential, Tick1
  PROVE  Decoded' /\ Trapping' /\ Translated'
<1>1. state = "s1" /\ state' = "s2"
  BY PhasesDiffer
<1>2. UNCHANGED <<PC, ir, s_pc>> /\ TLB_virt' = s_pc
  BY DEF Tick1, PC_s1
<1>3. UNCHANGED <<s_skip_next, s_skip_this, s_exception, s_exception_cause, s_numA_to_c0, EPC,
                  EBASE, outbuffer, outbuffer_JUMP_true, outbuffer_JUMP_addr,
                  s_jump_if_condition, s_jump_addr_from_reg_a>>
  BY DEF Tick1, Fetcher_s1, jumpVars, skipVars, excVars, c0Vars
<1>4. UNCHANGED <<TLB_data_exception, TLB_data_write>>
  BY DEF Tick1, ALU_s1, ALU_idle
<1>5. Decoded /\ Trapping /\ ~s_skip_next
  BY <1>1 DEF Sequential, Trapping
<1> QED
  BY <1>1, <1>2, <1>3, <1>4, <1>5 DEF Decoded, Trapping, Translated, AsksFor, Quiet

\* Behind a word that traps, the next fetch is of the word after it, which may
\* be annulled.
LEMMA BehindTrap ==
  ASSUME PC \in Addr, Orderly, InLine(PC, s_pc), MayTrap(PC)
  PROVE  s_pc = Plus(PC, 1) /\ MayBeAnnulled(s_pc)
<1>1. HasTraps /\ TrapsInOrder
  BY DEF HasTraps, Orderly
<1>2. \A b \in Addr : MayHold(b, Jump) => PC # Plus(b, 1)
  BY <1>1 DEF TrapsInOrder
<1>3. s_pc = Plus(PC, 1)
  BY <1>1, <1>2 DEF InLine
<1> QED
  BY <1>1, <1>3 DEF TrapsInOrder

\* s2: an exception is entered.
LEMMA ControlTick2 ==
  ASSUME TypeOK, DecodesThePC, Orderly, Sequential, Tick2
  PROVE  Decoded' /\ Trapping' /\ Translated'
<1>1. state = "s2" /\ state' = "s3"
  BY PhasesDiffer
<1>2. UNCHANGED <<PC, ir, s_pc, TLB_virt>>
  BY DEF Tick2, PC_s2
<1>3. UNCHANGED <<s_skip_this, s_numA_to_c0, EBASE>>
  BY DEF Tick2, Fetcher_s2
<1>4. UNCHANGED <<TLB_data_exception, TLB_data_write>>
  BY DEF Tick2, ALU_s2, ALU_idle
<1>5. ~s_skip_next
  BY <1>1 DEF Sequential, Trapping
<1>6. Translated'
  BY <1>1, <1>2 DEF Sequential, Translated
<1>7. Decoded /\ Trapping
  BY DEF Sequential
<1>8. CASE EntersException /\ EnterException
  <2>1. /\ s_exception /\ ~s_skip_this /\ ~s_exception' /\ s_skip_next' /\ ~A_HOLD'
        /\ ~s_jump_addr_from_reg_a' /\ outbuffer_JUMP_true' /\ ~s_jump_if_condition'
        /\ outbuffer' = NoOp /\ outbuffer_JUMP_addr' = EBASE
    BY <1>8 DEF EntersException, EnterException
  <2>2. \/ ~NeverInterrupted
        \/ AsksFor(s_exception_cause)
    BY <2>1 DEF Sequential, Trapping
  <2>3. ~NeverInterrupted \/ MayBeAnnulled(s_pc)
    <3>1. CASE TLB_data_exception
      BY <1>1, <3>1 DEF Sequential, Requests, InFlightAccess
    <3>2. CASE ~TLB_data_exception /\ AsksFor(s_exception_cause)
      <4>1. MayTrap(PC)
        BY <3>2, WordAtPC DEF AsksFor, MayTrap, MayHold
      <4>2. InLine(PC, s_pc)
        BY <1>1, <1>5, <2>1 DEF Sequential, InSequence
      <4> QED
        BY <4>1, <4>2, WordAtPC, BehindTrap
    <3> QED
      BY <2>2, <3>1, <3>2
  <2>4. s_numA_to_c0 \notin {"EPC", "EBASE"}
    <3>1. CASE ~NeverInterrupted
      BY <3>1, WordAtPC DEF Sequential, Decoded, Orderly, MayMoveEPC
    <3>2. CASE AsksFor(s_exception_cause)
      BY <3>2 DEF Sequential, Decoded, AsksFor
    <3> QED
      BY <2>2, <3>1, <3>2
  <2>5. Decoded'
    BY <1>1, <1>3, <2>1, <2>4 DEF Decoded
  <2>6. Entry(EBASE)
    BY <1>7 DEF Trapping
  <2>7. Trapping'
    BY <1>1, <1>2, <1>3, <2>1, <2>3, <2>6 DEF Trapping, MayBeAnnulled
  <2> QED
    BY <1>6, <2>5, <2>7
<1>9. CASE ~EntersException
  <2>1. UNCHANGED <<s_skip_next, s_exception, s_exception_cause, EPC, outbuffer,
                    outbuffer_JUMP_true, outbuffer_JUMP_addr, s_jump_if_condition,
                    s_jump_addr_from_reg_a>>
    BY <1>9 DEF Tick2, Fetcher_s2, jumpVars
  <2>2. s_exception => s_skip_this
    BY <1>9 DEF EntersException
  <2>3. Decoded'
    BY <1>1, <1>2, <1>3, <1>4, <1>7, <2>1 DEF Decoded
  <2>4. Trapping'
    BY <1>1, <1>2, <1>3, <1>4, <1>5, <1>7, <2>1, <2>2 DEF Trapping, Quiet
  <2> QED
    BY <1>6, <2>3, <2>4
<1> QED
  BY <1>8, <1>9 DEF Tick2, Fetcher_s2

\* The value that a jr, a jalr or a mtc0 is issued with is that of its register.
LEMMA ValueOfWord ==
  ASSUME ir.op \in {"jr", "jalr", "mtc0"}, ~s_skip_next
  PROVE  ValueA = {ir.tgt}
  BY DEF ValueA

\* A word that is held while something may miss is held for the memory stage;
\* then it and the next are mapped, and nothing is reported.
LEMMA HeldIsMapped ==
  ASSUME TypeOK, Sequential, Requests', Tick3, A_HOLD
  PROVE  PC \notin Unmapped /\ s_pc \notin Unmapped /\ ~TLB_data_exception'
<1>1. state = "s3" /\ ~s_skip_next
  BY PhasesDiffer DEF Sequential, Trapping
<1>2. PC \notin Unmapped
  BY <1>1 DEF Sequential, Trapping
<1>3. CASE NeverMisses
  BY <1>2, <1>3 DEF NeverMisses, Requests
<1>4. CASE ~NeverMisses
  <2>1. hold_from_memory /\ B.mem # "none"
    BY <1>1, <1>4 DEF Sequential, NothingWaits, Requests
  <2>2. s_pc \notin Unmapped
    BY <1>1, <1>4, <2>1 DEF Sequential, InFlightAccess
  <2> QED
    BY <1>2, <2>1, <2>2, HandedOn DEF Swallows
<1> QED
  BY <1>3, <1>4

\* s3: the instruction is issued, or a bubble.
LEMMA ControlTick3 ==
  ASSUME TypeOK, DecodesThePC, DecodesThePC', Orderly, Sequential, Requests', Tick3
  PROVE  Decoded' /\ Trapping' /\ Translated'
<1>1. state = "s3" /\ state' = "s0"
  BY PhasesDiffer
<1>2. UNCHANGED <<A_HOLD, s_exception, s_exception_cause, s_pc, TLB_virt>> /\ ~s_skip_next'
  BY DEF Tick3, Fetcher_s3, PC_s3, excVars
<1>3. A_HOLD => UNCHANGED <<PC, ir>>
  BY DEF Tick3, PC_s3, FetchAddress
<1>4. ~A_HOLD => PC' = s_pc
  BY DEF Tick3, PC_s3
<1>5. PICK taken \in BOOLEAN : (Issues /\ Issue(taken)) \/ (~Issues /\ IssueBubble)
  BY DEF Tick3, Fetcher_s3
<1>6. Decoded /\ Trapping /\ TLB_virt = s_pc
  BY <1>1 DEF Sequential, Translated
<1>7. A_HOLD => PC \notin Unmapped /\ s_pc \notin Unmapped /\ ~TLB_data_exception'
  BY HeldIsMapped
<1>8. s_exception => s_exception_cause = "int" /\ ~NeverInterrupted
  BY <1>1, <1>6 DEF Trapping
<1>9. s_skip_this => Entry(s_pc)
  BY <1>1, <1>6 DEF Trapping
<1>10. ~NeverInterrupted => Unmapped = {}
  BY DEF Orderly, NeverMisses
<1>11. CASE Issues /\ Issue(taken)
  <2>1. /\ ~A_HOLD /\ ~s_skip_this /\ s_skip_this' = s_skip_next
        /\ ~s_jump_addr_from_reg_a' /\ s_numA_to_c0' = "none"
        /\ s_skip_next => A'.pc = NoAddr
    BY <1>11 DEF Issues, Issue, CommitC0
  <2>2. s_skip_next => /\ ~NeverInterrupted \/ Quiet(ir')
                       /\ s_pc \notin Unmapped
    BY <1>4, <1>6, <1>10, <2>1 DEF Trapping, DecodesThePC, MayBeAnnulled
  <2>3. s_skip_next => Entry(NextFetch')
    <3>1. s_skip_next => JUMP_true' /\ JUMP_addr' = outbuffer_JUMP_addr
      BY <1>6, <1>11 DEF Issue, Trapping, Decoded
    <3> QED
      BY <1>2, <1>6, <2>1, <3>1 DEF NextFetch, Trapping
  <2>4. Entry(EBASE')
    <3>1. CASE s_numA_to_c0 = "EBASE"
      <4>1. ValueA = {ir.tgt}
        BY <1>6, <3>1, ValueOfWord DEF Decoded
      <4>2. Entry(ir.tgt)
        BY <1>6, <3>1, WordAtPC DEF Decoded, Entry, Handlers, Orderly, MissesInOrder, NeverMisses
      <4> QED
        BY <1>11, <3>1, <4>1, <4>2 DEF Issue, CommitC0
    <3>2. CASE s_numA_to_c0 # "EBASE"
      BY <1>6, <1>11, <3>2 DEF Issue, CommitC0, Trapping
    <3> QED
      BY <3>1, <3>2
  <2>5. Decoded'
    BY <1>1, <2>1 DEF Decoded
  <2>6. Trapping'
    BY <1>1, <1>2, <1>4, <1>8, <2>1, <2>2, <2>3, <2>4 DEF Trapping, Quiet
  <2>7. Translated'
    BY <1>1, <1>2, <1>4, <1>6, <2>1, <2>2 DEF Translated
  <2> QED
    BY <2>5, <2>6, <2>7
<1>12. CASE ~Issues /\ IssueBubble
  <2>1. /\ A_HOLD \/ s_skip_this
        /\ s_skip_this' <=> A_HOLD /\ s_skip_this
        /\ UNCHANGED <<s_jump_addr_from_reg_a, s_numA_to_c0, EBASE>>
        /\ A'.pc = NoAddr
    BY <1>12 DEF Issues, IssueBubble, Bubble
  <2>2. ~A_HOLD /\ s_jump_addr_from_reg_a => ir'.op # "eret"
    <3>1. ~A_HOLD /\ s_jump_addr_from_reg_a => ir.op \in Register /\ Entry(s_pc)
      BY <1>6, <1>9, <2>1 DEF Decoded
    <3>2. ir.op \in Register => NeverInterrupted
      BY WordAtPC DEF Orderly, Register, Jump
    <3>3. ~A_HOLD /\ s_jump_addr_from_reg_a => ~MayHold(s_pc, {"eret"})
      BY <1>6, <2>1, <3>1, <3>2 DEF Trapping, Quiet, Register, Entry
    <3>4. ~A_HOLD => ir' \in Code[s_pc]
      BY <1>4 DEF DecodesThePC
    <3> QED
      BY <3>3, <3>4 DEF MayHold
  <2>3. Decoded'
    BY <1>1, <1>2, <1>3, <1>6, <1>7, <2>1, <2>2 DEF Decoded
  <2>4. A_HOLD => NextFetch' = s_pc
    BY <1>2 DEF NextFetch
  <2>5. Trapping'
    BY <1>1, <1>2, <1>3, <1>6, <1>7, <1>8, <2>1, <2>4 DEF Trapping, Quiet
  <2>6. Translated'
    BY <1>1, <1>2, <1>3, <1>4, <1>6, <1>7, <1>9, <2>1 DEF Translated
  <2> QED
    BY <2>3, <2>5, <2>6
<1> QED
  BY <1>5, <1>11, <1>12

\* s0: where the fetch after next comes from is settled.
LEMMA SequenceTick0 ==
  ASSUME TypeOK, Orderly, Sequential, Tick0
  PROVE  InSequence'
<1>1. state = "s0" /\ state' = "s1"
  BY PhasesDiffer
<1>2. UNCHANGED <<PC, s_skip_this>>
  BY DEF Tick0, PC_s0, Fetcher_s0, skipVars
<1> SUFFICES ASSUME ~s_skip_this PROVE InLine(PC, s_pc')
  BY <1>1, <1>2 DEF InSequence, InLine
<1>3. s_pc' = NextFetch
  BY DEF Tick0, PC_s0, NextFetch
<1>4. CASE A_HOLD /\ A.pc = NoAddr /\ InLine(PC, s_pc)
  BY <1>3, <1>4 DEF NextFetch
<1>5. CASE ~A_HOLD /\ s_pc = PC /\ ~JUMP_true
  BY <1>3, <1>5 DEF NextFetch, InLine
<1>6. ASSUME A.pc \in Addr, InLine(A.pc, PC),
             NEW i \in Code[A.pc], i.op \in Jump
      PROVE  InLine(PC, s_pc')
  <2>1. MayHold(A.pc, Jump)
    BY <1>6 DEF MayHold
  <2>2. ~Interruptible
    BY <1>6 DEF Interruptible, Words
  <2>3. ASSUME HasTraps \/ ~NeverMisses, NEW b \in Addr, MayHold(b, Jump), A.pc = Plus(b, 1)
        PROVE  FALSE
    BY <2>1, <2>3 DEF Orderly, TrapsInOrder
  <2> QED
    BY <1>6, <2>1, <2>2, <2>3 DEF InLine
<1> QED
  BY <1>1, <1>4, <1>5, <1>6 DEF Sequential, InSequence

\* s1 and s2 do not change what is fetched.
LEMMA SequenceTick12 ==
  ASSUME Sequential, Tick1 \/ Tick2
  PROVE  InSequence'
<1>1. state \in {"s1", "s2"} /\ state' \in {"s2", "s3"}
  BY PhasesDiffer
<1>2. UNCHANGED <<PC, s_pc, s_skip_this>> /\ ~s_skip_next
  BY <1>1 DEF Tick1, Tick2, PC_s1, PC_s2, Fetcher_s1, Fetcher_s2, skipVars, Sequential, Trapping
<1> QED
  BY <1>1, <1>2 DEF Sequential, InSequence, InLine

\* s3: the jump that is issued goes where the word at PC says.
LEMMA JumpIssued ==
  ASSUME TypeOK, Sequential, Tick3, Issues, ~s_skip_next,
         NEW taken \in BOOLEAN, ~s_jump_if_condition => ~taken, Issue(taken)
  PROVE  \/ JUMP_true' /\ ir.op \in Jump /\ JUMP_addr' = IF ir.op = "eret" THEN EPC' ELSE ir.tgt
         \/ ~JUMP_true' /\ ir.op \notin Always \cup {"syscall"}
<1>1. state = "s3" /\ ~A_HOLD /\ ~s_skip_this
  BY PhasesDiffer DEF Issues
<1>2. ir.op # "syscall" /\ ~s_exception
  BY <1>1 DEF Sequential, Trapping
<1>3. /\ outbuffer_JUMP_true <=> ir.op \in Always
      /\ s_jump_if_condition <=> ir.op \in Branches
      /\ ir.op \in Register => s_jump_addr_from_reg_a
      /\ s_jump_addr_from_reg_a => ir.op \in Register \/ ir.op \notin Jump
      /\ ir.op \in Jump \ Register =>
           outbuffer_JUMP_addr = IF ir.op = "eret" THEN EPC ELSE ir.tgt
  BY <1>1, <1>2 DEF Sequential, Decoded
<1>4. JUMP_true' <=> outbuffer_JUMP_true \/ taken
  BY DEF Issue
<1>5. ir.op = "eret" => EPC' = EPC
  BY DEF Issue, CommitC0, Sequential, Decoded
<1>6. CASE ~JUMP_true'
  BY <1>2, <1>3, <1>4, <1>6
<1>7. CASE JUMP_true'
  <2>1. ir.op \in Jump
    BY <1>3, <1>4, <1>7 DEF Always, Branches, Jump
  <2>2. CASE ir.op \in Register
    <3>1. JUMP_addr' \in ValueA
      BY <1>3, <2>2 DEF Issue
    <3>2. ValueA = {ir.tgt}
      BY <2>2, ValueOfWord DEF Register
    <3> QED
      BY <1>7, <2>1, <2>2, <3>1, <3>2 DEF Register
  <2>3. CASE ir.op \notin Register
    <3>1. JUMP_addr' = outbuffer_JUMP_addr
      BY <1>3, <2>1, <2>3 DEF Issue
    <3> QED
      BY <1>3, <1>5, <1>7, <2>1, <2>3, <3>1
  <2> QED
    BY <2>2, <2>3
<1> QED
  BY <1>6, <1>7

\* s3: what is issued is followed by the word fetched before.
LEMMA SequenceTick3 ==
  ASSUME TypeOK, DecodesThePC, Sequential, Tick3
  PROVE  InSequence'
<1>1. state = "s3" /\ state' = "s0"
  BY PhasesDiffer
<1>2. UNCHANGED <<A_HOLD, s_pc>> /\ PC' = IF A_HOLD THEN PC ELSE s_pc
  BY DEF Tick3, Fetcher_s3, PC_s3
<1>3. PICK taken \in BOOLEAN :
        /\ ~s_jump_if_condition => ~taken
        /\ (Issues /\ Issue(taken)) \/ (~Issues /\ IssueBubble)
  BY DEF Tick3, Fetcher_s3
<1> SUFFICES ASSUME ~s_skip_this'
             PROVE  (\/ A_HOLD /\ A.pc = NoAddr /\ InLine(PC, s_pc)
                     \/ /\ ~A_HOLD /\ s_pc = PC
                        /\ \/ A.pc = NoAddr /\ ~JUMP_true
                           \/ /\ A.pc \in Addr /\ A.pc \notin Unmapped /\ InLine(A.pc, PC)
                              /\ \E i \in Code[A.pc] :
                                   \/ JUMP_true /\ i.op \in Jump /\ JUMP_addr = Jumped(i)
                                   \/ ~JUMP_true /\ i.op \notin Always \cup {"syscall"})'
  BY <1>1 DEF InSequence
<1>4. CASE Issues /\ Issue(taken)
  <2>1. ~A_HOLD /\ ~s_skip_this /\ ~s_skip_next /\ A'.pc = PC
    BY <1>4 DEF Issues, Issue
  <2>2. PC \in Addr /\ ir \in Code[PC] /\ PC \notin Unmapped
    BY <1>1, <2>1, WordAtPC DEF Sequential, Trapping
  <2>3. InLine(PC, s_pc)
    BY <1>1, <2>1 DEF Sequential, InSequence
  <2>4. \/ JUMP_true' /\ ir.op \in Jump /\ JUMP_addr' = IF ir.op = "eret" THEN EPC' ELSE ir.tgt
        \/ ~JUMP_true' /\ ir.op \notin Always \cup {"syscall"}
    BY <1>3, <1>4, <2>1, JumpIssued
  <2> QED
    BY <1>2, <2>1, <2>2, <2>3, <2>4 DEF Jumped, InLine
<1>5. CASE ~Issues /\ IssueBubble
  <2>1. A'.pc = NoAddr /\ ~JUMP_true'
    BY <1>5 DEF IssueBubble, Bubble
  <2>2. CASE A_HOLD
    <3>1. ~s_skip_this /\ ~s_skip_next
      BY <1>5, <2>2 DEF IssueBubble, Sequential, Trapping
    <3>2. InLine(PC, s_pc)
      BY <1>1, <3>1 DEF Sequential, InSequence
    <3> QED
      BY <1>2, <2>1, <2>2, <3>2 DEF InLine
  <2>3. CASE ~A_HOLD
    BY <1>2, <2>1, <2>3
  <2> QED
    BY <2>2, <2>3
<1> QED
  BY <1>3, <1>4, <1>5

-----------------------------------------------------------------------------
(* Programs that may miss.                                                  *)

\* Nothing waits for a register: what is read is never what is written.
LEMMA NothingWaitsStep ==
  ASSUME TypeOK, DecodesThePC, Orderly, ~NeverMisses, Sequential, Next
  PROVE  NothingWaits'
<1> USE DEF NothingWaits
<1>1. NothingWaits
  BY DEF Sequential
<1>2. Sources \cap Destinations = {0}
  BY DEF Orderly, MissesInOrder
<1>3. /\ 0 \in Sources /\ ir.ra \in Sources /\ ir.rb \in Sources
      /\ 0 \in Destinations /\ LinkReg \in Destinations /\ ir.rd \in Destinations
  BY WordAtPC DEF Sources, Destinations
<1>4. CASE Tick0
  <2>1. state' = "s1"
    BY <1>4, PhasesDiffer
  <2>2. UNCHANGED trackVars
    BY <1>4 DEF Tick0, Fetcher_s0
  <2>3. CASE UNCHANGED decodeVars
    BY <1>1, <2>1, <2>2, <2>3 DEF decodeVars, operandVars, trackVars
  <2>4. CASE Decode
    BY <1>1, <1>3, <2>1, <2>2, <2>4, DecodeControls DEF DecodesTo, trackVars
  <2> QED
    BY <1>4, <2>3, <2>4, NoticedOrDecoded DEF Tick0, Sequential
<1>5. CASE Tick1
  <2>1. state' = "s2"
    BY <1>5, PhasesDiffer
  <2>2. UNCHANGED <<operandVars, trackVars, outbuffer>>
    BY <1>5 DEF Tick1, Fetcher_s1
  <2>3. ~Conflict(s_last_last_write_reg) /\ ~Conflict(s_last_write_reg)
    BY <1>1, <1>2 DEF Conflict
  <2>4. ~A_HOLD'
    BY <1>5, <2>3 DEF Tick1, Fetcher_s1
  <2> QED
    BY <1>1, <2>1, <2>2, <2>4 DEF operandVars, trackVars
<1>6. CASE Tick2
  <2>1. state = "s2" /\ state' = "s3"
    BY <1>6, PhasesDiffer
  <2>2. A_HOLD' => hold_from_memory'
    BY <1>1, <1>6, <2>1 DEF Tick2, Fetcher_s2, EnterException, HoldForMemory, Memory_s2
  <2>3. UNCHANGED <<s_REG_read_number_A, s_REG_read_number_B, s_last_write_reg>>
    BY <1>6 DEF Tick2, Fetcher_s2, EnterException, operandVars
  <2>4. outbuffer' = NoOp \/ UNCHANGED outbuffer
    BY <1>6 DEF Tick2, Fetcher_s2, EnterException
  <2>5. s_last_last_write_reg' \in {s_last_last_write_reg, s_last_write_reg}
    BY <1>6 DEF Tick2, Fetcher_s2
  <2> QED
    BY <1>1, <1>3, <2>1, <2>2, <2>3, <2>4, <2>5 DEF NoOp
<1>7. CASE Tick3
  <2>1. state' = "s0"
    BY <1>7, PhasesDiffer
  <2>2. PICK taken \in BOOLEAN : TrackLastWrite(taken) /\ (Issue(taken) \/ IssueBubble)
    BY <1>7 DEF Tick3, Fetcher_s3
  <2>3. s_last_write_reg' \in {s_last_write_reg, LinkReg, 0, outbuffer.rd}
    BY <2>2 DEF TrackLastWrite
  <2>4. /\ s_REG_read_number_A' \in {0, s_REG_read_number_A}
        /\ s_REG_read_number_B' \in {0, s_REG_read_number_B}
    BY <2>2 DEF Issue, IssueBubble, Reads, KeepsReads
  <2>5. UNCHANGED <<outbuffer, s_last_last_write_reg>>
    BY <1>7 DEF Tick3, Fetcher_s3
  <2> QED
    BY <1>1, <1>3, <2>1, <2>3, <2>4, <2>5
<1> QED
  BY <1>4, <1>5, <1>6, <1>7 DEF Next

\* The quotient and the remainder of a number are unique.
LEMMA Remainder ==
  ASSUME NEW x \in Int, NEW n \in Nat \ {0}, NEW q \in Int, NEW r \in 0 .. n - 1, x = q * n + r
  PROVE  x % n = r
  OBVIOUS

\* Moving an address twice moves it by the sum.
LEMMA PlusPlus ==
  ASSUME NEW a \in Addr, NEW j \in Int, NEW k \in Int
  PROVE  Plus(Plus(a, j), k) = Plus(a, j + k)
<1>1. NAddr \in Nat \ {0} /\ a \in Int
  BY SignalsAssumption DEF Addr
<1> DEFINE q == (a + j) \div NAddr
           r == (a + j) % NAddr
           p == (r + k) \div NAddr
           s == (r + k) % NAddr
<1>2. q \in Int /\ r \in 0 .. NAddr - 1 /\ a + j = q * NAddr + r
  BY <1>1
<1>3. p \in Int /\ s \in 0 .. NAddr - 1 /\ r + k = p * NAddr + s
  BY <1>1
<1> HIDE DEF q, p
<1>4. a + j + k = (q + p) * NAddr + s
  <2>1. (q + p) * NAddr = q * NAddr + p * NAddr
    BY <1>1, <1>2, <1>3
  <2> HIDE DEF r, s
  <2> QED
    BY <1>1, <1>2, <1>3, <2>1
<1>5. (a + j + k) % NAddr = s
  <2> DEFINE x == a + j + k
             d == q + p
  <2>1. x \in Int /\ d \in Int /\ s \in 0 .. NAddr - 1 /\ x = d * NAddr + s
    BY <1>1, <1>2, <1>3, <1>4
  <2> HIDE DEF x, d, s
  <2>2. x % NAddr = s
    BY <1>1, <2>1, Remainder
  <2> QED
    BY <2>2 DEF x
<1> QED
  BY <1>1, <1>5 DEF Plus

\* A load or store, in a program that may miss, is followed by the word behind
\* it, and that by words that neither trap by themselves nor leave a trace.
LEMMA BehindAccess ==
  ASSUME Orderly, ~NeverMisses, NEW a \in Addr, MayHold(a, Load \cup Store)
  PROVE  /\ \A next : InLine(a, next) => next = Plus(a, 1)
         /\ ~MayTrap(Plus(a, 1)) /\ ~MayTrap(Plus(a, 2))
         /\ MayBeAnnulled(Plus(a, 3))
         /\ \A i \in Code[Plus(a, 1)] :
              /\ i.op # "eret" /\ ~MayMoveEPC(i)
              /\ i.op \in Jump => MayBeAnnulled(i.tgt)
<1>1. MissesInOrder
  BY DEF Orderly
<1> QED
  BY <1>1 DEF MissesInOrder, InLine

\* An access is a load or a store.
LEMMA AccessIs ==
  ASSUME NEW a, NEW mem, Access(a, mem)
  PROVE  a \in Addr /\ a \notin Unmapped /\ MayHold(a, Load \cup Store)
  BY DEF Access, MayHold

\* What stands at the input of the ALU stage is executed, or held back with
\* the one before it.
LEMMA AtTheALU ==
  ASSUME TypeOK, Sequential, state = "s0", A.pc # NoAddr
  PROVE  /\ ~A_HOLD /\ ~s_skip_this /\ s_pc = PC
         /\ A.pc \in Addr /\ A.pc \notin Unmapped /\ InLine(A.pc, PC)
         /\ NextFetch = IF JUMP_true THEN JUMP_addr ELSE Plus(PC, 1)
         /\ \E i \in Code[A.pc] :
              \/ JUMP_true /\ i.op \in Jump /\ JUMP_addr = Jumped(i)
              \/ ~JUMP_true /\ i.op \notin Always \cup {"syscall"}
<1>1. ~s_skip_this
  BY DEF Sequential, Trapping
<1> QED
  BY <1>1 DEF Sequential, InSequence, NextFetch

\* s0: an access enters the ALU stage, with the word behind it at PC.
LEMMA AccessTick0 ==
  ASSUME TypeOK, Orderly, ~NeverMisses, Sequential, Tick0
  PROVE  InFlightAccess'
<1>1. state = "s0" /\ state' = "s1"
  BY PhasesDiffer
<1>2. UNCHANGED PC /\ s_pc' = NextFetch
  BY DEF Tick0, PC_s0, NextFetch
<1>3. UNCHANGED <<s_skip_next, s_skip_this>> /\ ~s_skip_next
  BY <1>1 DEF Tick0, Fetcher_s0, skipVars, Sequential, Trapping
<1>4. UNCHANGED <<TLB_data_exception, TLB_data_write, B, s_skip_one, s_do_not_read_input>>
  BY DEF Tick0, ALU_s0
<1>5. InFlightAccess
  BY DEF Sequential
<1>6. ASSUME alu'.mem # "none", ~s_skip_one
      PROVE  /\ ~s_skip_this
             /\ \E a \in Addr :
                  /\ Access(a, alu'.mem) /\ PC = Plus(a, 1) /\ s_pc' = Plus(a, 2)
                  /\ TLB_bad' => alu'.pc = a
  <2>1. CASE s_do_not_read_input
    <3>1. UNCHANGED <<alu, TLB_bad>>
      BY <2>1, Latched
    <3>2. A_HOLD /\ ~s_skip_this
          /\ \E a \in Addr : /\ Access(a, alu.mem) /\ PC = Plus(a, 1) /\ s_pc = Plus(a, 2)
                             /\ TLB_bad => alu.pc = a
      BY <1>1, <1>5, <1>6, <2>1, <3>1 DEF InFlightAccess
    <3>3. s_pc' = s_pc
      BY <1>2, <3>2 DEF NextFetch
    <3> QED
      BY <3>1, <3>2, <3>3
  <2>2. CASE ~s_do_not_read_input
    <3>1. alu'.mem = A.mem /\ (TLB_bad' => alu'.pc = A.pc)
      BY <2>2, Latched
    <3>2. Access(A.pc, A.mem) /\ ~JUMP_true
      BY <1>1, <1>5, <1>6, <3>1 DEF InFlightAccess
    <3>3. A.pc \in Addr /\ MayHold(A.pc, Load \cup Store)
      BY <3>2, AccessIs
    <3>4. A.pc # NoAddr
      BY <3>3 DEF Addr, NoAddr
    <3>5. ~s_skip_this /\ InLine(A.pc, PC) /\ NextFetch = Plus(PC, 1)
      BY <1>1, <3>2, <3>4, AtTheALU
    <3>6. PC = Plus(A.pc, 1)
      BY <3>3, <3>5, BehindAccess
    <3>7. s_pc' = Plus(A.pc, 2)
      BY <1>2, <3>3, <3>5, <3>6, PlusPlus
    <3> QED
      BY <3>1, <3>2, <3>3, <3>5, <3>6, <3>7
  <2> QED
    BY <2>1, <2>2
<1>7. ASSUME NEW a \in Addr, MayHold(a, Load \cup Store), A.pc = Plus(a, 1), PC = Plus(a, 2)
      PROVE  MayBeAnnulled(s_pc')
  <2>1. A.pc \in Addr /\ A.pc # NoAddr
    BY <1>7, PlusType DEF Addr, NoAddr
  <2>2. PICK i \in Code[A.pc] : JUMP_true => i.op \in Jump /\ JUMP_addr = Jumped(i)
    BY <1>1, <2>1, AtTheALU
  <2>3. NextFetch = IF JUMP_true THEN JUMP_addr ELSE Plus(PC, 1)
    BY <1>1, <2>1, AtTheALU
  <2>4. i.op # "eret" /\ (i.op \in Jump => MayBeAnnulled(i.tgt))
    BY <1>7, <2>2, BehindAccess
  <2>5. Plus(PC, 1) = Plus(a, 3)
    BY <1>7, PlusPlus
  <2> QED
    BY <1>2, <1>7, <2>2, <2>3, <2>4, <2>5, BehindAccess DEF Jumped
<1>8. B.mem # "none" => s_pc' \notin Unmapped
  BY <1>1, <1>5, <1>7 DEF InFlightAccess, MayBeAnnulled
<1>9. ASSUME TLB_data_exception
      PROVE  /\ ~s_skip_this /\ ~s_do_not_read_input /\ MayBeAnnulled(s_pc')
             /\ \E a \in Addr :
                  /\ Access(a, IF TLB_data_write THEN "write" ELSE "read")
                  /\ B.pc = a /\ PC = Plus(a, 2) /\ alu'.pc = Plus(a, 1)
  <2>1. PICK a \in Addr : /\ Access(a, IF TLB_data_write THEN "write" ELSE "read")
                          /\ B.pc = a /\ PC = Plus(a, 2) /\ A.pc = Plus(a, 1)
    BY <1>1, <1>5, <1>9 DEF InFlightAccess
  <2>2. ~s_skip_this /\ ~s_do_not_read_input
    BY <1>5, <1>9 DEF InFlightAccess
  <2>3. alu'.pc = A.pc
    BY <1>9, <2>2, Latched DEF Sequential, Requests
  <2>4. MayBeAnnulled(s_pc')
    BY <1>7, <2>1, AccessIs
  <2> QED
    BY <2>1, <2>2, <2>3, <2>4
<1> QED
  BY <1>1, <1>2, <1>3, <1>4, <1>6, <1>8, <1>9 DEF InFlightAccess, Access

\* s1 and s2: an access waits, and nothing traps before it.
LEMMA AccessTick12 ==
  ASSUME TypeOK, DecodesThePC, Orderly, ~NeverMisses, Sequential, Tick1 \/ Tick2
  PROVE  InFlightAccess'
<1>1. state \in {"s1", "s2"} /\ state' \in {"s2", "s3"}
  BY PhasesDiffer
<1>2. UNCHANGED <<PC, s_pc, s_skip_this>>
  BY <1>1 DEF Tick1, Tick2, PC_s1, PC_s2, Fetcher_s1, Fetcher_s2, skipVars
<1>3. UNCHANGED <<aluVars, TLB_data_exception, TLB_data_write, B>>
  BY DEF Tick1, Tick2, ALU_s1, ALU_s2, ALU_idle
<1>4. InFlightAccess /\ ~s_skip_next
  BY <1>1 DEF Sequential, Trapping
<1>5. ASSUME alu.mem # "none", ~s_skip_one
      PROVE  ~s_skip_next'
  <2>1. PICK a \in Addr : Access(a, alu.mem) /\ PC = Plus(a, 1)
    BY <1>1, <1>4, <1>5 DEF InFlightAccess
  <2>2. ~MayTrap(PC)
    BY <2>1, AccessIs, BehindAccess
  <2>3. ir.op # "syscall" /\ PC \notin Unmapped /\ ~TLB_data_exception
    BY <1>5, <2>2, WordAtPC DEF MayTrap, MayHold, Sequential, Requests
  <2>4. NeverInterrupted
    BY DEF Orderly
  <2>5. ~EntersException
    BY <2>3, <2>4 DEF EntersException, Sequential, Trapping, AsksFor
  <2> QED
    BY <1>4, <2>5 DEF Tick1, Tick2, Fetcher_s1, Fetcher_s2, skipVars
<1> QED
  BY <1>1, <1>2, <1>3, <1>4, <1>5 DEF InFlightAccess, Access, aluVars

\* s3: the access reaches the memory stage, waits for it, or is reported.
LEMMA AccessTick3 ==
  ASSUME TypeOK, DecodesThePC, HazardInv, Orderly, ~NeverMisses, Sequential, Tick3
  PROVE  InFlightAccess'
<1>1. state = "s3" /\ state' = "s0"
  BY PhasesDiffer
<1>2. UNCHANGED <<A_HOLD, s_pc>> /\ ~s_skip_next' /\ PC' = IF A_HOLD THEN PC ELSE s_pc
  BY DEF Tick3, Fetcher_s3, PC_s3
<1>3. PICK taken \in BOOLEAN :
        /\ ~s_jump_if_condition => ~taken
        /\ (Issues /\ Issue(taken)) \/ (~Issues /\ IssueBubble)
  BY DEF Tick3, Fetcher_s3
<1>4. InFlightAccess /\ Trapping /\ Decoded
  BY DEF Sequential
<1>5. A_HOLD => hold_from_memory
  BY <1>1 DEF Sequential, NothingWaits
<1>6. hold_from_memory => ~s_skip_one
  BY <1>1 DEF Sequential, Requests
<1>7. ASSUME A'.mem # "none"
      PROVE  Access(A'.pc, A'.mem) /\ ~JUMP_true'
  <2>1. Issues /\ Issue(taken)
    BY <1>3, <1>7 DEF IssueBubble, Bubble
  <2>2. A'.mem = outbuffer.mem
    BY <2>1 DEF Issue
  <2>3. ~s_skip_next
    BY <1>4, <1>7, <2>2 DEF Trapping, NoOp
  <2>4. A'.pc = PC /\ ~s_skip_this /\ ~s_exception
    BY <1>1, <1>4, <2>1, <2>3 DEF Issues, Issue, Trapping
  <2>5. outbuffer.mem \in {"read", "write", "writeb"}
    BY <1>7, <2>2 DEF TypeOK, FetcherTypeOK, MemOp
  <2>6. /\ outbuffer.mem = "read" => ir.op \in Load
        /\ outbuffer.mem # "read" => ir.op \in Store
        /\ outbuffer_JUMP_true <=> (ir.op \in Always)
        /\ s_jump_if_condition <=> (ir.op \in Branches)
    BY <1>1, <1>4, <2>3, <2>4, <2>5 DEF Decoded
  <2>7. ~outbuffer_JUMP_true /\ ~s_jump_if_condition
    BY <2>5, <2>6 DEF Load, Store, Always, Branches
  <2>8. PC \notin Unmapped
    BY <1>1, <1>4, <2>3, <2>4 DEF Trapping
  <2>9. Access(PC, outbuffer.mem)
    BY <2>6, <2>8, WordAtPC DEF Access, MayHold
  <2>10. ~JUMP_true'
    BY <1>3, <2>1, <2>7 DEF Issue
  <2> QED
    BY <2>2, <2>4, <2>9, <2>10
<1>8. ASSUME alu.mem # "none", ~s_skip_one
      PROVE  /\ ~s_skip_this /\ ~s_skip_next
             /\ \E a \in Addr : /\ Access(a, alu.mem) /\ PC = Plus(a, 1) /\ s_pc = Plus(a, 2)
                                /\ TLB_bad => alu.pc = a
  BY <1>1, <1>4, <1>8 DEF InFlightAccess
<1>9. ASSUME hold_from_memory, alu.mem # "none"
      PROVE  A_HOLD /\ ~s_skip_this'
  <2>1. A_HOLD
    BY <1>1, <1>6, <1>8, <1>9 DEF HazardInv, HoldHandshake
  <2> QED
    BY <1>3, <1>6, <1>8, <1>9, <2>1 DEF Issues, IssueBubble
<1>10. ASSUME ~Swallows, alu.mem # "none"
       PROVE  /\ ~A_HOLD /\ ~s_skip_this'
              /\ \E a \in Addr : /\ Access(a, alu.mem) /\ A'.pc = Plus(a, 1) /\ PC' = Plus(a, 2)
                                 /\ TLB_bad => alu.pc = a
  <2>1. ~A_HOLD /\ ~s_skip_this /\ ~s_skip_next
    BY <1>5, <1>8, <1>10 DEF Swallows
  <2>2. Issues /\ Issue(taken)
    BY <1>3, <2>1 DEF Issues
  <2>3. A'.pc = PC /\ ~s_skip_this'
    BY <2>1, <2>2 DEF Issue
  <2> QED
    BY <1>2, <1>8, <1>10, <2>1, <2>3 DEF Swallows
<1>11. ASSUME s_do_not_read_input', alu'.mem # "none"
       PROVE  /\ ~s_skip_this' /\ A_HOLD'
              /\ \E a \in Addr : /\ Access(a, alu'.mem) /\ PC' = Plus(a, 1) /\ s_pc' = Plus(a, 2)
                                 /\ TLB_bad' => alu'.pc = a
  <2>1. hold_from_memory /\ alu'.mem = alu.mem /\ UNCHANGED TLB_bad /\ alu'.pc = alu.pc
    BY <1>11, HandedOn
  <2> QED
    BY <1>2, <1>6, <1>8, <1>9, <1>11, <2>1
<1>12. ASSUME B'.mem # "none"
       PROVE  /\ ~A_HOLD' /\ ~s_skip_this'
              /\ \E a \in Addr : MayHold(a, Load \cup Store) /\ A'.pc = Plus(a, 1) /\ PC' = Plus(a, 2)
  <2>1. ~Swallows /\ alu.mem # "none"
    BY <1>12, HandedOn
  <2> QED
    BY <1>2, <1>10, <2>1, AccessIs
<1>13. ASSUME TLB_data_exception'
       PROVE  /\ ~A_HOLD' /\ ~s_skip_this' /\ ~s_do_not_read_input'
              /\ \E a \in Addr :
                   /\ Access(a, IF TLB_data_write' THEN "write" ELSE "read")
                   /\ B'.pc = a /\ PC' = Plus(a, 2) /\ A'.pc = Plus(a, 1)
  <2>1. ~Swallows /\ Misses
    BY <1>13, HandedOn
  <2>2. TLB_bad /\ alu.mem # "none" /\ ~hold_from_memory
    BY <2>1 DEF Misses, Swallows
  <2>3. TLB_data_write' = (alu.mem # "read") /\ B'.pc = alu.pc /\ ~s_do_not_read_input'
    BY <2>1, <2>2, HandedOn
  <2>4. PICK a \in Addr : Access(a, alu.mem) /\ A'.pc = Plus(a, 1) /\ PC' = Plus(a, 2) /\ alu.pc = a
    BY <1>10, <2>1, <2>2
  <2>5. Access(a, IF TLB_data_write' THEN "write" ELSE "read")
    BY <2>3, <2>4 DEF Access
  <2> QED
    BY <1>2, <1>10, <2>1, <2>2, <2>3, <2>4, <2>5
<1> QED
  BY <1>1, <1>2, <1>7, <1>11, <1>12, <1>13 DEF InFlightAccess, Access

\* The invariant: the addresses in the pipeline follow one another as in the
\* program.
THEOREM InOrder == Orderly => (Spec => []Sequential)
<1> SUFFICES ASSUME Orderly PROVE Spec => []Sequential
  OBVIOUS
<1>1. Init => Sequential
  <2> SUFFICES ASSUME Init PROVE Sequential
    OBVIOUS
  <2>1. alu.pc = NoAddr /\ alu.mem = "none" /\ B.pc = NoAddr /\ B.mem = "none"
    BY DEF Init, ALUInit, NoMemUop
  <2>2. 0 \notin Unmapped
    BY DEF Orderly, MissesInOrder, NeverMisses
  <2>3. Requests
    BY <2>1 DEF Init, ALUInit, FetcherInit, MemoryInit, Requests
  <2>4. Decoded /\ Trapping /\ Translated /\ InSequence
    BY <2>2 DEF Init, FetcherInit, PCInit, Bubble, Decoded, Trapping, Entry, Handlers, Translated,
           InSequence
  <2>5. NothingWaits
    BY DEF Init, FetcherInit, NoOp, NothingWaits, Sources, Destinations
  <2>6. InFlightAccess
    BY <2>1 DEF Init, ALUInit, FetcherInit, Bubble, InFlightAccess
  <2> QED
    BY <2>3, <2>4, <2>5, <2>6 DEF Sequential
<1>2. /\ TypeOK /\ HazardInv /\ DecodesThePC /\ DecodesThePC' /\ Sequential /\ [Next]_vars
      => Sequential'
  <2> SUFFICES ASSUME TypeOK, HazardInv, DecodesThePC, DecodesThePC', Sequential, [Next]_vars
               PROVE  Sequential'
    OBVIOUS
  <2>1. CASE Next
    <3>1. Requests'
      BY <2>1, RequestsStep DEF Sequential
    <3>2. Decoded' /\ Trapping' /\ Translated'
      BY <2>1, <3>1, ControlTick0, ControlTick1, ControlTick2, ControlTick3 DEF Next
    <3>3. InSequence'
      BY <2>1, SequenceTick0, SequenceTick12, SequenceTick3 DEF Next
    <3>4. ~NeverMisses => NothingWaits' /\ InFlightAccess'
      BY <2>1, NothingWaitsStep, AccessTick0, AccessTick12, AccessTick3 DEF Next
    <3> QED
      BY <3>1, <3>2, <3>3, <3>4 DEF Sequential, NeverMisses
  <2>2. CASE UNCHANGED vars
    <3>1. UNCHANGED <<wires, pcVars, fetcherVars, aluVars>>
      BY <2>2 DEF vars
    <3>2. UNCHANGED <<state, PC, A_HOLD, JUMP_true, JUMP_addr, hold_from_memory,
                      TLB_data_exception, TLB_data_write, A, B>>
      BY <3>1 DEF wires
    <3>3. UNCHANGED <<s_pc, TLB_virt, ir, TLB_bad, s_skip_one, s_do_not_read_input, alu>>
      BY <3>1 DEF pcVars, aluVars
    <3>4. UNCHANGED <<operandVars, outbuffer, jumpVars, s_numA_to_c0, trackVars, skipVars,
                      excVars, timer_int, c0Vars>>
      BY <3>1 DEF fetcherVars
    <3>5. UNCHANGED <<outbuffer_JUMP_true, outbuffer_JUMP_addr, s_jump_if_condition,
                      s_jump_addr_from_reg_a, s_skip_next, s_skip_this, s_exception,
                      s_exception_cause, SR, EPC, EBASE, s_REG_read_number_A,
                      s_REG_read_number_B, s_last_write_reg, s_last_last_write_reg>>
      BY <3>4 DEF operandVars, jumpVars, trackVars, skipVars, excVars, c0Vars
    <3>6. Requests'
      BY <3>2, <3>3, <3>4, <3>5 DEF Sequential, Requests
    <3>7. Decoded' /\ Translated'
      BY <3>2, <3>3, <3>4, <3>5 DEF Sequential, Decoded, Translated
    <3>8. Trapping'
      BY <3>2, <3>3, <3>4, <3>5 DEF Sequential, Trapping, AsksFor, NextFetch
    <3>9. InSequence'
      BY <3>2, <3>3, <3>5 DEF Sequential, InSequence, InLine, Jumped
    <3>10. ~NeverMisses => NothingWaits' /\ InFlightAccess'
      BY <3>2, <3>3, <3>4, <3>5 DEF Sequential, NothingWaits, InFlightAccess, Access
    <3> QED
      BY <3>6, <3>7, <3>8, <3>9, <3>10 DEF Sequential, NeverMisses
  <2> QED
    BY <2>1, <2>2
<1> QED
  BY <1>1, <1>2, TypeCorrect, DecodedWord, HazardInvariant, PTL DEF Spec

-----------------------------------------------------------------------------
(* The pipeline implements the sequential machine.                          *)

\* The next two instructions, of those that may still be cancelled and the next
\* fetches.
Before(tag, next) == IF tag = NoAddr THEN next ELSE <<tag, next[1]>>
NextPair ==
  IF s_skip_next THEN Fetches
  ELSE Before(B.pc, Before(alu.pc, IF state = "s0" THEN Before(A.pc, Fetches) ELSE Fetches))
First == NextPair[1]
Second == NextPair[2]

\* The program starts with them.
LEMMA NextTwo == Program[1] = First /\ Program[2] = Second
<1>1. PICK p, q : Fetches = <<p, q>>
  BY DEF Fetches
<1>2. ASSUME NEW a, NEW b, NEW c
      PROVE  /\ <<>> \o <<>> \o <<>> \o <<p, q>> = <<p, q>>
             /\ (<<>> \o <<>> \o <<c>> \o <<p, q>>)[1] = c
             /\ (<<>> \o <<>> \o <<c>> \o <<p, q>>)[2] = p
             /\ (<<>> \o <<b>> \o <<>> \o <<p, q>>)[1] = b
             /\ (<<>> \o <<b>> \o <<>> \o <<p, q>>)[2] = p
             /\ (<<>> \o <<b>> \o <<c>> \o <<p, q>>)[1] = b
             /\ (<<>> \o <<b>> \o <<c>> \o <<p, q>>)[2] = c
             /\ (<<a>> \o <<>> \o <<>> \o <<p, q>>)[1] = a
             /\ (<<a>> \o <<>> \o <<>> \o <<p, q>>)[2] = p
             /\ (<<a>> \o <<>> \o <<c>> \o <<p, q>>)[1] = a
             /\ (<<a>> \o <<>> \o <<c>> \o <<p, q>>)[2] = c
             /\ (<<a>> \o <<b>> \o <<>> \o <<p, q>>)[1] = a
             /\ (<<a>> \o <<b>> \o <<>> \o <<p, q>>)[2] = b
             /\ (<<a>> \o <<b>> \o <<c>> \o <<p, q>>)[1] = a
             /\ (<<a>> \o <<b>> \o <<c>> \o <<p, q>>)[2] = b
  OBVIOUS
<1> DEFINE Tag(t) == IF t = NoAddr THEN <<>> ELSE <<t>>
           Last == IF state = "s0" THEN A.pc ELSE NoAddr
<1>3. Program = IF s_skip_next THEN <<>> \o <<p, q>>
                ELSE (Tag(B.pc) \o Tag(alu.pc) \o Tag(Last)) \o <<p, q>>
  <2>1. Older = IF s_skip_next THEN <<>>
                ELSE Tag(B.pc) \o Tag(alu.pc) \o Tag(Last)
    BY DEF Older
  <2> QED
    BY <1>1, <2>1 DEF Program
<1>4. NextPair = IF s_skip_next THEN <<p, q>>
                 ELSE Before(B.pc, Before(alu.pc, Before(Last, <<p, q>>)))
  BY <1>1 DEF NextPair, Before
<1> HIDE DEF Last
<1>5. CASE s_skip_next
  BY <1>3, <1>4, <1>5 DEF First, Second
<1>6. CASE ~s_skip_next
  <2> DEFINE a == B.pc
             b == alu.pc
             c == Last
  <2>1. CASE a = NoAddr /\ b = NoAddr
    BY <1>2, <1>3, <1>4, <1>6, <2>1 DEF First, Second, Before
  <2>2. CASE a = NoAddr /\ b # NoAddr
    BY <1>2, <1>3, <1>4, <1>6, <2>2 DEF First, Second, Before
  <2>3. CASE a # NoAddr /\ b = NoAddr
    BY <1>2, <1>3, <1>4, <1>6, <2>3 DEF First, Second, Before
  <2>4. CASE a # NoAddr /\ b # NoAddr
    BY <1>2, <1>3, <1>4, <1>6, <2>4 DEF First, Second, Before
  <2> QED
    BY <2>1, <2>2, <2>3, <2>4
<1> QED
  BY <1>5, <1>6

\* s0: the instruction in the ALU stage is executed, unless it is tagged.
LEMMA RefinesTick0 ==
  ASSUME TypeOK, HazardInv, Orderly, Sequential, Tick0
  PROVE  /\ UNCHANGED <<EPC, EBASE, CAUSE>>
         /\ \/ First' = First /\ Second' = Second
            \/ /\ First' = Second /\ First \notin Unmapped
               /\ \E i \in Code[First] : Second' \in Machine!Successors(i)
<1>1. state = "s0" /\ state' = "s1"
  BY PhasesDiffer
<1>2. UNCHANGED <<PC, s_skip_this, s_skip_next, EPC, EBASE, CAUSE>> /\ s_pc' = NextFetch
  BY DEF Tick0, PC_s0, Fetcher_s0, skipVars, NextFetch
<1>3. ~s_skip_next
  BY <1>1 DEF Sequential, Trapping
<1>4. UNCHANGED <<B, s_do_not_read_input>>
  BY DEF Tick0, ALU_s0
<1>5. Fetches' = Fetches
  <2>1. CASE s_skip_this
    BY <1>1, <1>2, <2>1 DEF Fetches
  <2>2. CASE ~s_skip_this
    BY <1>1, <1>2, <1>3, <2>2 DEF Fetches
  <2> QED
    BY <2>1, <2>2
<1>6. NextPair = Before(B.pc, Before(alu.pc, Before(A.pc, Fetches)))
  BY <1>1, <1>3 DEF NextPair
<1>7. NextPair' = Before(B.pc, Before(alu'.pc, Fetches))
  BY <1>1, <1>2, <1>3, <1>4, <1>5 DEF NextPair, Before
<1>8. CASE s_do_not_read_input
  <2>1. A.pc = NoAddr
    <3>1. A = Bubble
      BY <1>1, <1>8 DEF HazardInv, HoldHandshake, TypeOK, ALUTypeOK, MemoryTypeOK
    <3> QED
      BY <3>1 DEF Bubble
  <2>2. alu' = alu
    BY <1>8, Latched
  <2>3. NextPair' = NextPair
    BY <1>6, <1>7, <2>1, <2>2 DEF Before
  <2> QED
    BY <1>2, <2>3 DEF First, Second
<1>9. CASE ~s_do_not_read_input
  <2>1. alu.pc = NoAddr
    BY <1>1, <1>9 DEF Sequential, Requests
  <2>2. alu'.pc = IF TLB_bad' \/ s_skip_one THEN A.pc ELSE NoAddr
    BY <1>9, Latched
  <2>3. CASE alu'.pc = A.pc
    <3>1. NextPair' = NextPair
      BY <1>6, <1>7, <2>1, <2>3 DEF Before
    <3> QED
      BY <1>2, <3>1 DEF First, Second
  <2>4. CASE alu'.pc # A.pc
    <3>1. alu'.pc = NoAddr /\ A.pc # NoAddr /\ ~s_skip_one
      BY <2>2, <2>4
    <3>2. B.pc = NoAddr
      BY <3>1 DEF Sequential, Requests
    <3>3. ~s_skip_this /\ s_pc = PC /\ A.pc \in Addr /\ A.pc \notin Unmapped
      BY <1>1, <3>1, AtTheALU
    <3>4. Fetches = <<PC, NextFetch>>
      BY <1>1, <1>3, <3>3 DEF Fetches
    <3>5. First = A.pc /\ Second = PC
      BY <1>6, <2>1, <3>1, <3>2, <3>4 DEF First, Second, Before
    <3>6. First' = PC /\ Second' = NextFetch
      BY <1>7, <3>1, <3>2, <3>4 DEF First, Second, Before
    <3>7. PICK i \in Code[A.pc] : \/ JUMP_true /\ i.op \in Jump /\ JUMP_addr = Jumped(i)
                                  \/ ~JUMP_true /\ i.op \notin Always \cup {"syscall"}
      BY <1>1, <3>1, AtTheALU
    <3>8. NextFetch = IF JUMP_true THEN JUMP_addr ELSE Plus(PC, 1)
      BY <1>1, <3>1, AtTheALU
    <3>9. Machine!After(Program[2]) = Plus(PC, 1)
      BY <3>5, NextTwo DEF Machine!After, Plus
    <3>10. NextFetch \in Machine!Successors(i)
      BY <3>7, <3>8, <3>9 DEF Machine!Successors, Jumped, Jump, Always
    <3> QED
      BY <1>2, <3>3, <3>5, <3>6, <3>10
  <2> QED
    BY <2>3, <2>4
<1> QED
  BY <1>8, <1>9

\* s1: nothing happens that a program sees.
LEMMA RefinesTick1 ==
  ASSUME Sequential, Tick1
  PROVE  /\ UNCHANGED <<EPC, EBASE, CAUSE>>
         /\ First' = First /\ Second' = Second
<1>1. state = "s1" /\ state' = "s2"
  BY PhasesDiffer
<1>2. UNCHANGED <<PC, s_pc, s_skip_this, s_skip_next, EPC, EBASE, CAUSE, alu, B>>
  BY DEF Tick1, PC_s1, Fetcher_s1, skipVars, c0Vars, ALU_s1, ALU_idle, aluVars
<1>3. ~s_skip_next
  BY <1>1 DEF Sequential, Trapping
<1>4. Fetches' = Fetches
  BY <1>1, <1>2, <1>3 DEF Fetches
<1>5. NextPair' = NextPair
  BY <1>1, <1>2, <1>4 DEF NextPair, Before
<1> QED
  BY <1>2, <1>5 DEF First, Second

\* Without a miss in the ALU stage there are no tags.
LEMMA NoTags ==
  ASSUME Requests, ~TLB_bad, ~TLB_data_exception
  PROVE  alu.pc = NoAddr /\ B.pc = NoAddr
  BY DEF Requests

\* An access that is reported comes two words before the one at PC.
LEMMA ReportedAccess ==
  ASSUME TypeOK, Sequential, TLB_data_exception
  PROVE  /\ ~NeverMisses /\ B.pc \in Addr /\ B.pc = Plus(PC, -2)
         /\ Access(B.pc, IF TLB_data_write THEN "write" ELSE "read")
         /\ state # "s0" => alu.pc = Plus(B.pc, 1)
<1>1. ~NeverMisses
  BY DEF Sequential, Requests
<1>2. PICK a \in Addr : /\ Access(a, IF TLB_data_write THEN "write" ELSE "read")
                        /\ B.pc = a /\ PC = Plus(a, 2)
                        /\ state # "s0" => alu.pc = Plus(a, 1)
  BY <1>1 DEF Sequential, InFlightAccess
<1>3. Plus(PC, -2) = Plus(a, 0)
  BY <1>2, PlusPlus
<1>4. Plus(a, 0) = a
  BY SignalsAssumption DEF Plus, Addr
<1> QED
  BY <1>1, <1>2, <1>3, <1>4

\* s2: an exception that is entered is a trap at the next instruction.
LEMMA RefinesTick2 ==
  ASSUME TypeOK, DecodesThePC, Orderly, Sequential, Tick2
  PROVE  \/ UNCHANGED <<EPC, EBASE, CAUSE>> /\ First' = First /\ Second' = Second
         \/ /\ Second = Machine!After(First) /\ EPC' = First
            /\ First' = EBASE /\ Second' = Machine!After(EBASE) /\ UNCHANGED EBASE
            /\ CAUSE'.exc \in {"int", "syscall", "TLBL", "TLBS"} /\ Machine!Reason(CAUSE'.exc)
<1>1. state = "s2" /\ state' = "s3"
  BY PhasesDiffer
<1>2. UNCHANGED <<PC, s_pc, s_skip_this, EBASE, alu, B>>
  BY DEF Tick2, PC_s2, Fetcher_s2, ALU_s2, ALU_idle, aluVars
<1>3. ~s_skip_next
  BY <1>1 DEF Sequential, Trapping
<1>4. CASE ~EntersException
  <2>1. UNCHANGED <<s_skip_next, EPC, CAUSE>>
    BY <1>4 DEF Tick2, Fetcher_s2
  <2>2. Fetches' = Fetches
    BY <1>1, <1>2, <1>3, <2>1 DEF Fetches
  <2>3. NextPair' = NextPair
    BY <1>1, <1>2, <2>1, <2>2 DEF NextPair, Before
  <2> QED
    BY <1>2, <2>1, <2>3 DEF First, Second
<1>5. CASE EntersException /\ EnterException
  <2>1. s_exception /\ ~s_skip_this
    BY <1>5 DEF EntersException
  <2>2. \/ s_exception_cause = "int" /\ ~NeverInterrupted
        \/ AsksFor(s_exception_cause)
    BY <1>1, <2>1 DEF Sequential, Trapping
  <2>3. /\ EPC' = ExceptionPC
        /\ CAUSE'.exc = IF s_exception_cause = "TLBL_TMP" THEN "TLBL" ELSE s_exception_cause
        /\ s_skip_next' /\ outbuffer_JUMP_addr' = EBASE
    BY <1>5 DEF EnterException
  <2>4. First' = EBASE /\ Second' = Plus(EBASE, 1)
    <3>1. NextPair' = <<EBASE, Plus(EBASE, 1)>>
      BY <1>1, <1>2, <2>1, <2>3 DEF NextPair, Fetches
    <3> QED
      BY <3>1 DEF First, Second
  <2>5. Fetches = <<PC, s_pc>> /\ InLine(PC, s_pc)
    BY <1>1, <1>3, <2>1 DEF Fetches, Sequential, InSequence
  <2>6. NextPair = Before(B.pc, Before(alu.pc, Fetches))
    BY <1>1, <1>3 DEF NextPair
  <2>7. CASE s_exception_cause = "int" /\ ~NeverInterrupted
    <3>1. NeverMisses /\ Interruptible
      BY <2>7 DEF Orderly
    <3>2. alu.pc = NoAddr /\ B.pc = NoAddr
      BY <3>1, NoTags DEF Sequential, Requests
    <3>3. First = PC /\ Second = s_pc
      BY <2>5, <2>6, <3>2 DEF First, Second, Before
    <3>4. s_pc = Plus(PC, 1)
      BY <2>5, <3>1 DEF InLine, MayHold, Interruptible, Words
    <3>5. EPC' = PC /\ CAUSE'.exc = "int"
      BY <2>3, <2>7 DEF ExceptionPC
    <3> QED
      BY <1>2, <2>4, <3>3, <3>4, <3>5 DEF Machine!After, Plus, Machine!Reason
  <2>8. CASE s_exception_cause \in {"syscall", "TLBL_TMP"} /\ AsksFor(s_exception_cause)
    <3>1. /\ ~TLB_data_exception
          /\ \/ s_exception_cause = "syscall" /\ ir.op = "syscall"
             \/ s_exception_cause = "TLBL_TMP" /\ PC \in Unmapped
      BY <2>8 DEF AsksFor
    <3>2. PC \in Addr /\ ir \in Code[PC]
      BY WordAtPC
    <3>3. MayTrap(PC)
      BY <3>1, <3>2 DEF MayTrap, MayHold
    <3>4. ~TLB_bad
      <4> SUFFICES ASSUME TLB_bad PROVE FALSE
        OBVIOUS
      <4>1. ~NeverMisses /\ alu.mem # "none" /\ ~s_skip_one
        BY <3>1 DEF Sequential, Requests
      <4>2. PICK a \in Addr : Access(a, alu.mem) /\ PC = Plus(a, 1)
        BY <1>1, <4>1 DEF Sequential, InFlightAccess
      <4> QED
        BY <3>3, <4>1, <4>2, AccessIs, BehindAccess
    <3>5. alu.pc = NoAddr /\ B.pc = NoAddr
      BY <3>1, <3>4, NoTags DEF Sequential
    <3>6. First = PC /\ Second = s_pc
      BY <2>5, <2>6, <3>5 DEF First, Second, Before
    <3>7. s_pc = Plus(PC, 1)
      BY <2>5, <3>2, <3>3, BehindTrap
    <3>8. EPC' = PC
      BY <2>3, <3>1 DEF ExceptionPC
    <3>9. Program[1] = PC
      BY <3>6, NextTwo
    <3>10. CASE s_exception_cause = "TLBL_TMP" /\ PC \in Unmapped
      <4>1. CAUSE'.exc = "TLBL"
        BY <2>3, <3>10
      <4>2. Machine!Reason("TLBL")
        BY <3>9, <3>10 DEF Machine!Reason
      <4> QED
        BY <1>2, <2>4, <3>6, <3>7, <3>8, <4>1, <4>2 DEF Machine!After, Plus
    <3>11. CASE s_exception_cause = "syscall" /\ ir.op = "syscall"
      <4>1. CAUSE'.exc = "syscall"
        BY <2>3, <3>11
      <4>2. PC \notin Unmapped
        BY <2>8, <3>11 DEF AsksFor
      <4>3. Machine!Has({"syscall"})
        BY <3>2, <3>9, <3>11, <4>2 DEF Machine!Has
      <4>4. Machine!Reason("syscall")
        BY <4>3 DEF Machine!Reason
      <4> QED
        BY <1>2, <2>4, <3>6, <3>7, <3>8, <4>1, <4>4 DEF Machine!After, Plus
    <3> QED
      BY <3>1, <3>10, <3>11
  <2>9. CASE s_exception_cause \in {"TLBL", "TLBS"} /\ AsksFor(s_exception_cause)
    <3>1. TLB_data_exception /\ (TLB_data_write <=> s_exception_cause = "TLBS")
      BY <2>9 DEF AsksFor
    <3>2. /\ B.pc \in Addr /\ B.pc = Plus(PC, -2) /\ alu.pc = Plus(B.pc, 1)
          /\ Access(B.pc, IF TLB_data_write THEN "write" ELSE "read")
      BY <1>1, <3>1, ReportedAccess
    <3>3. B.pc # NoAddr /\ alu.pc # NoAddr
      BY <3>2, PlusType DEF Addr, NoAddr
    <3>4. First = B.pc /\ Second = alu.pc
      BY <2>6, <3>3 DEF First, Second, Before
    <3>5. EPC' = B.pc /\ CAUSE'.exc = s_exception_cause
      BY <2>3, <2>9, <3>2 DEF ExceptionPC
    <3>6. Program[1] = B.pc
      BY <3>4, NextTwo
    <3>7. Machine!Reason(s_exception_cause)
      <4>1. CASE s_exception_cause = "TLBS"
        <5>1. Machine!Has({"sw", "sb"})
          BY <3>1, <3>2, <3>6, <4>1 DEF Access, MayHold, Store, Machine!Has
        <5> QED
          BY <4>1, <5>1 DEF Machine!Reason
      <4>2. CASE s_exception_cause = "TLBL"
        <5>1. Machine!Has({"lw", "lb"})
          BY <3>1, <3>2, <3>6, <4>2 DEF Access, MayHold, Load, Machine!Has
        <5> QED
          BY <4>2, <5>1 DEF Machine!Reason
      <4> QED
        BY <2>9, <4>1, <4>2
    <3> QED
      BY <1>2, <2>4, <2>9, <3>2, <3>4, <3>5, <3>7 DEF Machine!After, Plus
  <2> QED
    BY <2>2, <2>7, <2>8, <2>9 DEF AsksFor
<1> QED
  BY <1>4, <1>5 DEF Tick2, Fetcher_s2

\* s3: an access that misses is reported or waits, with the word behind it.
LEMMA MissHandedOn ==
  ASSUME TypeOK, DecodesThePC, HazardInv, Orderly, Sequential, Requests', Tick3,
         ~s_skip_next, alu.pc # NoAddr
  PROVE  /\ UNCHANGED <<EPC, EBASE>>
         /\ First' = First /\ Second' = Second
<1>1. state = "s3" /\ state' = "s0"
  BY PhasesDiffer
<1>2. UNCHANGED <<A_HOLD, s_pc>> /\ ~s_skip_next' /\ PC' = IF A_HOLD THEN PC ELSE s_pc
  BY DEF Tick3, Fetcher_s3, PC_s3
<1>3. PICK taken \in BOOLEAN : (Issues /\ Issue(taken)) \/ (~Issues /\ IssueBubble)
  BY DEF Tick3, Fetcher_s3
<1>4. ~TLB_data_exception /\ ~s_skip_one /\ TLB_bad /\ alu.mem # "none"
  BY <1>1 DEF Sequential, Requests, Trapping, InFlightAccess
<1>5. ~NeverMisses
  BY <1>4 DEF Sequential, Requests
<1>6. ~s_skip_this
  BY <1>1, <1>4, <1>5 DEF Sequential, InFlightAccess
<1>7. PICK a \in Addr : Access(a, alu.mem) /\ PC = Plus(a, 1) /\ alu.pc = a
  BY <1>1, <1>4, <1>5 DEF Sequential, InFlightAccess
<1>8. B.pc = NoAddr
  BY <1>4 DEF Sequential, Requests
<1>9. PC # NoAddr
  BY DEF TypeOK, WiresTypeOK, Addr, NoAddr
<1>10. First = alu.pc /\ Second = PC
  <2>1. Fetches = <<PC, s_pc>>
    BY <1>1, <1>6 DEF Fetches
  <2>2. NextPair = <<alu.pc, PC>>
    BY <1>1, <1>8, <2>1 DEF NextPair, Before
  <2> QED
    BY <2>2 DEF First, Second
<1>11. CASE hold_from_memory
  <2>1. A_HOLD
    BY <1>1, <1>6, <1>11 DEF HazardInv, HoldHandshake
  <2>2. IssueBubble
    BY <1>3, <2>1 DEF Issues
  <2>3. A'.pc = NoAddr /\ ~s_skip_this' /\ PC' = PC /\ UNCHANGED <<EPC, EBASE>>
    BY <1>2, <1>6, <2>1, <2>2 DEF IssueBubble, Bubble
  <2>4. alu'.pc = alu.pc /\ B'.pc = NoAddr
    BY <1>11, HandedOn DEF Swallows
  <2>5. Fetches' = <<PC, NextFetch'>>
    BY <1>1, <1>2, <2>3 DEF Fetches
  <2>6. NextPair' = <<alu.pc, PC>>
    BY <1>1, <1>2, <2>3, <2>4, <2>5 DEF NextPair, Before
  <2> QED
    BY <1>10, <2>3, <2>6 DEF First, Second
<1>12. CASE ~hold_from_memory
  <2>1. ~A_HOLD
    BY <1>1, <1>5, <1>12 DEF Sequential, NothingWaits
  <2>2. Issue(taken)
    BY <1>3, <1>6, <2>1 DEF Issues
  <2>3. A'.pc = PC
    BY <2>2 DEF Issue
  <2>4. alu'.pc = NoAddr /\ B'.pc = alu.pc
    BY <1>4, <1>12, HandedOn DEF Swallows, Misses
  <2>5. PICK p, q : Fetches' = <<p, q>>
    BY DEF Fetches
  <2>6. NextPair' = <<alu.pc, PC>>
    BY <1>1, <1>2, <1>9, <2>3, <2>4, <2>5 DEF NextPair, Before
  <2>7. s_numA_to_c0 \notin {"EPC", "EBASE"}
    <3> SUFFICES ASSUME s_numA_to_c0 \in {"EPC", "EBASE"} PROVE FALSE
      OBVIOUS
    <3>1. MayMoveEPC(ir)
      BY DEF Sequential, Decoded, MayMoveEPC
    <3>2. ir \in Code[Plus(a, 1)]
      BY <1>7, WordAtPC
    <3> QED
      BY <1>5, <1>7, <3>1, <3>2, AccessIs, BehindAccess
  <2>8. UNCHANGED <<EPC, EBASE>>
    BY <2>2, <2>7 DEF Issue, CommitC0
  <2> QED
    BY <1>10, <2>6, <2>8 DEF First, Second
<1> QED
  BY <1>11, <1>12

\* s3: otherwise nothing in the ALU stage or behind it can be cancelled.
LEMMA NothingHandedOn ==
  ASSUME TypeOK, Sequential, Tick3, s_skip_next \/ alu.pc = NoAddr
  PROVE  alu'.pc = NoAddr /\ B'.pc = NoAddr
<1>1. state = "s3" /\ (hold_from_memory => ~s_skip_one)
  BY PhasesDiffer DEF Sequential, Requests
<1>2. CASE alu.pc = NoAddr
  BY <1>2, HandedOn
<1>3. CASE s_skip_next
  <2>1. ~(TLB_bad /\ alu.mem # "none" /\ ~s_skip_one)
    <3> SUFFICES ASSUME TLB_bad, alu.mem # "none", ~s_skip_one PROVE FALSE
      OBVIOUS
    <3>1. ~NeverMisses
      BY DEF Sequential, Requests
    <3> QED
      BY <1>1, <1>3, <3>1 DEF Sequential, InFlightAccess
  <2>2. hold_from_memory => alu.pc = NoAddr
    BY <1>1, <2>1 DEF Sequential, Requests
  <2>3. Swallows \/ ~Misses
    BY <2>1 DEF Swallows, Misses
  <2> QED
    BY <2>2, <2>3, HandedOn
<1> QED
  BY <1>2, <1>3

\* s3: a mtc0 writes its register; otherwise nothing happens that a program sees.
LEMMA RefinesTick3 ==
  ASSUME TypeOK, DecodesThePC, HazardInv, Orderly, Sequential, Requests', Tick3
  PROVE  /\ First' = First /\ Second' = Second /\ UNCHANGED CAUSE
         /\ \/ UNCHANGED <<EPC, EBASE>>
            \/ \E i \in Code[First] :
                 /\ i.op = "mtc0"
                 /\ \/ i.c0 = "EPC" /\ EPC' = i.tgt /\ UNCHANGED EBASE
                    \/ i.c0 = "EBASE" /\ EBASE' = i.tgt /\ UNCHANGED EPC
<1>1. state = "s3" /\ state' = "s0"
  BY PhasesDiffer
<1>2. /\ UNCHANGED <<A_HOLD, s_pc, CAUSE>> /\ ~s_skip_next'
      /\ PC' = IF A_HOLD THEN PC ELSE s_pc
  BY DEF Tick3, Fetcher_s3, PC_s3
<1>3. PICK taken \in BOOLEAN : (Issues /\ Issue(taken)) \/ (~Issues /\ IssueBubble)
  BY DEF Tick3, Fetcher_s3
<1>4. CASE ~s_skip_next /\ alu.pc # NoAddr
  BY <1>2, <1>4, MissHandedOn
<1>5. CASE s_skip_next \/ alu.pc = NoAddr
  <2>1. NextPair = Fetches
    <3>1. CASE s_skip_next
      BY <3>1 DEF NextPair
    <3>2. CASE ~s_skip_next
      <4>1. ~TLB_data_exception
        BY <1>1, <3>2 DEF Sequential, Trapping, Requests, InFlightAccess
      <4>2. B.pc = NoAddr
        BY <4>1 DEF Sequential, Requests
      <4> QED
        BY <1>1, <1>5, <3>2, <4>2 DEF NextPair, Before
    <3> QED
      BY <3>1, <3>2
  <2>2. NextPair' = Before(A'.pc, Fetches')
    BY <1>1, <1>2, <1>5, NothingHandedOn DEF NextPair, Before
  <2>3. CASE Issues /\ Issue(taken) /\ ~s_skip_next
    <3>1. /\ ~A_HOLD /\ ~s_skip_this /\ ~s_skip_this' /\ A'.pc = PC
      BY <2>3 DEF Issues, Issue
    <3>2. Fetches = <<PC, s_pc>>
      BY <1>1, <2>3, <3>1 DEF Fetches
    <3>3. First = PC /\ Second = s_pc
      BY <2>1, <3>2 DEF First, Second
    <3>4. PC # NoAddr
      BY DEF TypeOK, WiresTypeOK, Addr, NoAddr
    <3>5. Fetches' = <<s_pc, NextFetch'>>
      BY <1>1, <1>2, <3>1 DEF Fetches
    <3>6. First' = PC /\ Second' = s_pc
      BY <2>2, <3>1, <3>4, <3>5 DEF First, Second, Before
    <3>7. CASE s_numA_to_c0 \notin {"EPC", "EBASE"}
      BY <1>2, <2>3, <3>3, <3>6, <3>7 DEF Issue, CommitC0
    <3>8. CASE s_numA_to_c0 \in {"EPC", "EBASE"}
      <4>1. ir.op = "mtc0" /\ ir.c0 = s_numA_to_c0 /\ ir \in Code[PC]
        BY <3>8, WordAtPC DEF Sequential, Decoded
      <4>2. ValueA = {ir.tgt}
        BY <2>3, <4>1, ValueOfWord
      <4>3. \/ ir.c0 = "EPC" /\ EPC' = ir.tgt /\ UNCHANGED EBASE
            \/ ir.c0 = "EBASE" /\ EBASE' = ir.tgt /\ UNCHANGED EPC
        BY <2>3, <3>8, <4>1, <4>2 DEF Issue, CommitC0
      <4> QED
        BY <1>2, <3>3, <3>6, <4>1, <4>3
    <3> QED
      BY <3>7, <3>8
  <2>4. CASE Issues /\ Issue(taken) /\ s_skip_next
    <3>1. /\ ~A_HOLD /\ ~s_skip_this /\ s_skip_this' /\ A'.pc = NoAddr
      BY <2>4 DEF Issues, Issue
    <3>2. outbuffer_JUMP_true /\ ~s_jump_addr_from_reg_a /\ s_numA_to_c0 \notin {"EPC", "EBASE"}
      BY <2>4 DEF Sequential, Trapping, Decoded
    <3>3. JUMP_true' /\ JUMP_addr' = outbuffer_JUMP_addr /\ UNCHANGED <<EPC, EBASE>>
      BY <2>4, <3>2 DEF Issue, CommitC0
    <3>4. Fetches = <<outbuffer_JUMP_addr, Plus(outbuffer_JUMP_addr, 1)>>
      BY <2>4, <3>1 DEF Fetches
    <3>5. NextFetch' = outbuffer_JUMP_addr
      BY <1>2, <3>1, <3>3 DEF NextFetch
    <3>6. Fetches' = <<outbuffer_JUMP_addr, Plus(outbuffer_JUMP_addr, 1)>>
      BY <1>1, <3>1, <3>5 DEF Fetches
    <3>7. NextPair' = NextPair
      BY <2>1, <2>2, <3>1, <3>4, <3>6 DEF Before
    <3> QED
      BY <1>2, <3>3, <3>7 DEF First, Second
  <2>5. CASE ~Issues /\ IssueBubble
    <3>1. /\ A'.pc = NoAddr /\ ~JUMP_true' /\ UNCHANGED <<EPC, EBASE>>
          /\ s_skip_this' <=> A_HOLD /\ s_skip_this
          /\ A_HOLD \/ s_skip_this
      BY <2>5 DEF Issues, IssueBubble, Bubble
    <3>2. ~s_skip_next
      BY <3>1 DEF Sequential, Trapping
    <3>3. NextFetch' = IF A_HOLD THEN s_pc ELSE Plus(s_pc, 1)
      BY <1>2, <3>1 DEF NextFetch
    <3>4. Fetches' = Fetches
      <4>1. CASE ~s_skip_this
        BY <1>1, <1>2, <3>1, <3>2, <3>3, <4>1 DEF Fetches
      <4>2. CASE s_skip_this /\ A_HOLD
        BY <1>1, <1>2, <3>1, <3>3, <4>2 DEF Fetches
      <4>3. CASE s_skip_this /\ ~A_HOLD
        BY <1>1, <1>2, <3>1, <3>3, <4>3 DEF Fetches
      <4> QED
        BY <4>1, <4>2, <4>3
    <3>5. NextPair' = NextPair
      BY <2>1, <2>2, <3>1, <3>4 DEF Before
    <3> QED
      BY <1>2, <3>1, <3>5 DEF First, Second
  <2> QED
    BY <1>3, <2>3, <2>4, <2>5
<1> QED
  BY <1>4, <1>5

\* Whatever stalls, squashes and exceptions do, an orderly program sees one
\* instruction after the other, each jump followed by its delay slot, and traps
\* that it can be resumed from.
THEOREM ProgramIsSequential == Orderly => (Spec => ImplementsISA)
<1> SUFFICES ASSUME Orderly PROVE Spec => ImplementsISA
  OBVIOUS
<1> DEFINE Seen == Program[1] = First /\ Program[2] = Second
<1>1. Init /\ Seen => Machine!Init
  <2> SUFFICES ASSUME Init, Seen PROVE Machine!Init
    OBVIOUS
  <2>1. state = "s0" /\ A.pc = NoAddr /\ ~s_skip_this /\ ~s_skip_next /\ ~A_HOLD /\ ~JUMP_true
    BY DEF Init, FetcherInit, Bubble
  <2>2. PC = BeginPC /\ s_pc = BeginPC
    BY DEF Init, PCInit
  <2>3. alu.pc = NoAddr /\ B.pc = NoAddr
    BY DEF Init, ALUInit, NoMemUop
  <2>4. Fetches = <<BeginPC, Plus(BeginPC, 1)>>
    BY <2>1, <2>2 DEF Fetches, NextFetch
  <2>5. First = BeginPC /\ Second = Plus(BeginPC, 1)
    BY <2>1, <2>3, <2>4 DEF First, Second, NextPair, Before
  <2> QED
    BY <2>5 DEF Machine!Init, Machine!After, Plus, Init, FetcherInit
<1>2. /\ TypeOK /\ HazardInv /\ DecodesThePC /\ Sequential /\ Sequential'
      /\ Seen /\ Seen' /\ [Next]_vars
      => [Machine!Next]_(Machine!vars)
  <2> SUFFICES ASSUME TypeOK, HazardInv, DecodesThePC, Sequential, Sequential',
                      Seen, Seen', [Next]_vars
               PROVE  Machine!Next \/ UNCHANGED Machine!vars
    OBVIOUS
  <2>1. CASE Tick0
    <3>1. CASE First' = First /\ Second' = Second
      BY <2>1, <3>1, RefinesTick0 DEF Machine!vars
    <3>2. CASE ~(First' = First /\ Second' = Second)
      <4>1. PICK i \in Code[First] : Second' \in Machine!Successors(i)
        BY <2>1, <3>2, RefinesTick0
      <4>2. Machine!Execute
        BY <2>1, <3>2, <4>1, RefinesTick0 DEF Machine!Execute
      <4> QED
        BY <4>2 DEF Machine!Next
    <3> QED
      BY <3>1, <3>2
  <2>2. CASE Tick1
    BY <2>2, RefinesTick1 DEF Machine!vars
  <2>3. CASE Tick2
    <3>1. CASE UNCHANGED <<EPC, EBASE, CAUSE>> /\ First' = First /\ Second' = Second
      BY <3>1 DEF Machine!vars
    <3>2. CASE /\ Second = Machine!After(First) /\ EPC' = First
               /\ First' = EBASE /\ Second' = Machine!After(EBASE) /\ UNCHANGED EBASE
               /\ CAUSE'.exc \in {"int", "syscall", "TLBL", "TLBS"}
               /\ Machine!Reason(CAUSE'.exc)
      <4>1. Machine!Trap
        BY <3>2 DEF Machine!Trap
      <4> QED
        BY <4>1 DEF Machine!Next
    <3> QED
      BY <2>3, <3>1, <3>2, RefinesTick2
  <2>4. CASE Tick3
    <3> USE DEF Sequential
    <3>1. CASE UNCHANGED <<EPC, EBASE>>
      BY <2>4, <3>1, RefinesTick3 DEF Machine!vars
    <3>2. CASE ~UNCHANGED <<EPC, EBASE>>
      <4>1. Machine!WriteC0
        BY <2>4, <3>2, RefinesTick3 DEF Machine!WriteC0
      <4> QED
        BY <4>1 DEF Machine!Next
    <3> QED
      BY <3>1, <3>2
  <2>5. CASE UNCHANGED vars
    <3>1. UNCHANGED <<wires, pcVars, fetcherVars, aluVars>>
      BY <2>5 DEF vars
    <3>2. UNCHANGED <<state, PC, A_HOLD, JUMP_true, JUMP_addr, A, B, s_pc, alu>>
      BY <3>1 DEF wires, pcVars, aluVars
    <3>3. UNCHANGED <<jumpVars, skipVars, c0Vars>>
      BY <3>1 DEF fetcherVars
    <3>4. UNCHANGED <<outbuffer_JUMP_addr, s_skip_next, s_skip_this, EPC, EBASE, CAUSE>>
      BY <3>3 DEF jumpVars, skipVars, c0Vars
    <3>5. Fetches' = Fetches
      BY <3>2, <3>4 DEF Fetches, NextFetch
    <3>6. First' = First /\ Second' = Second
      BY <3>2, <3>4, <3>5 DEF First, Second, NextPair, Before
    <3> QED
      BY <3>4, <3>6 DEF Machine!vars
  <2> QED
    BY <2>1, <2>2, <2>3, <2>4, <2>5 DEF Next
<1>3. Seen
  BY NextTwo
<1> HIDE DEF Seen
<1> QED
  BY <1>1, <1>2, <1>3, TypeCorrect, HazardInvariant, DecodedWord, InOrder, PTL
     DEF Spec, ImplementsISA, Machine!Spec

-----------------------------------------------------------------------------
(* Where an exception goes and what it names, whatever the program.         *)

\* An exception that is entered is issued next, as a bubble that jumps; the word
\* fetched meanwhile is annulled, and behind it comes the jump's target.
OnTheWay ==
  /\ s_skip_next => /\ state = "s3" /\ ~A_HOLD /\ ~s_skip_this
                    /\ outbuffer = NoOp /\ ~s_jump_if_condition /\ ~s_jump_addr_from_reg_a
                    /\ outbuffer_JUMP_true /\ outbuffer_JUMP_addr = EBASE
  /\ s_skip_this => /\ A = Bubble
                    /\ (IF state = "s0" THEN NextFetch ELSE s_pc) = JUMP_addr

\* Before s3 the fetch stage hands on nothing new.
LEMMA NothingIssued ==
  Tick0 \/ Tick1 \/ Tick2 => UNCHANGED <<A, JUMP_true, JUMP_addr, s_skip_this, EBASE>>
  BY DEF Tick0, Tick1, Tick2, Fetcher_s0, Fetcher_s1, Fetcher_s2, skipVars, c0Vars,
         EnterException

\* Entering an exception prepares its packet, and issuing that annuls one word.
LEMMA OnTheWayStep ==
  ASSUME TypeOK, OnTheWay, Next
  PROVE  OnTheWay'
<1>1. CASE Tick0
  <2>1. state = "s0" /\ state' = "s1" /\ s_pc' = NextFetch /\ UNCHANGED s_skip_next
    BY <1>1, PhasesDiffer DEF Tick0, PC_s0, NextFetch, Fetcher_s0, skipVars
  <2> QED
    BY <1>1, <2>1, NothingIssued DEF OnTheWay
<1>2. CASE Tick1
  <2>1. state = "s1" /\ state' = "s2" /\ UNCHANGED <<s_pc, s_skip_next>>
    BY <1>2, PhasesDiffer DEF Tick1, PC_s1, Fetcher_s1, skipVars
  <2> QED
    BY <1>2, <2>1, NothingIssued DEF OnTheWay
<1>3. CASE Tick2
  <2>1. state = "s2" /\ state' = "s3" /\ UNCHANGED s_pc
    BY <1>3, PhasesDiffer DEF Tick2, PC_s2
  <2>2. CASE EntersException /\ EnterException
    BY <1>3, <2>1, <2>2, NothingIssued DEF OnTheWay, EntersException, EnterException
  <2>3. CASE UNCHANGED s_skip_next
    BY <1>3, <2>1, <2>3, NothingIssued DEF OnTheWay
  <2> QED
    BY <1>3, <2>2, <2>3 DEF Tick2, Fetcher_s2
<1>4. CASE Tick3
  <2>1. state = "s3" /\ state' = "s0" /\ ~s_skip_next' /\ UNCHANGED <<s_pc, A_HOLD>>
    BY <1>4, PhasesDiffer DEF Tick3, PC_s3, Fetcher_s3
  <2>2. CASE Issues /\ \E taken \in BOOLEAN : Issue(taken)
    <3>1. s_skip_this' = s_skip_next /\ ~A_HOLD
      BY <2>2 DEF Issues, Issue
    <3>2. CASE s_skip_next
      <4>1. A' = Bubble
        <5>1. outbuffer = NoOp /\ ~s_jump_if_condition
          BY <3>2 DEF OnTheWay
        <5>2. A' = [pc |-> NoAddr, rd |-> outbuffer.rd, byte |-> outbuffer.byte,
                    mem |-> outbuffer.mem]
          BY <2>2, <3>2, <5>1 DEF Issue, LinksIfTaken
        <5> QED
          BY <5>1, <5>2 DEF NoOp, Bubble
      <4>2. JUMP_true' /\ JUMP_addr' = EBASE
        BY <2>2, <3>2 DEF OnTheWay, Issue
      <4> QED
        BY <2>1, <3>1, <4>1, <4>2 DEF OnTheWay, NextFetch
    <3>3. CASE ~s_skip_next
      BY <2>1, <3>1, <3>3 DEF OnTheWay
    <3> QED
      BY <3>2, <3>3
  <2>3. CASE IssueBubble
    BY <2>1, <2>3 DEF OnTheWay, IssueBubble, NextFetch
  <2> QED
    BY <1>4, <2>2, <2>3 DEF Tick3, Fetcher_s3
<1> QED
  BY <1>1, <1>2, <1>3, <1>4 DEF Next

\* So it stays from the start on.
LEMMA AlwaysOnTheWay == Spec => []OnTheWay
<1>1. Init => OnTheWay
  BY DEF Init, FetcherInit, OnTheWay
<1>2. OnTheWay /\ UNCHANGED vars => OnTheWay'
  <2> SUFFICES ASSUME OnTheWay, UNCHANGED vars PROVE OnTheWay'
    OBVIOUS
  <2>1. UNCHANGED <<wires, pcVars, fetcherVars>>
    BY DEF vars
  <2>2. UNCHANGED <<state, A_HOLD, A, JUMP_true, JUMP_addr, s_pc>>
    BY <2>1 DEF wires, pcVars
  <2>3. UNCHANGED <<outbuffer, jumpVars, skipVars, c0Vars>>
    BY <2>1 DEF fetcherVars
  <2>4. UNCHANGED <<outbuffer_JUMP_true, outbuffer_JUMP_addr, s_jump_if_condition,
                    s_jump_addr_from_reg_a, s_skip_next, s_skip_this, EBASE>>
    BY <2>3 DEF jumpVars, skipVars, c0Vars
  <2> QED
    BY <2>2, <2>3, <2>4 DEF OnTheWay, NextFetch
<1>3. TypeOK /\ OnTheWay /\ [Next]_vars => OnTheWay'
  BY <1>2, OnTheWayStep
<1> QED
  BY <1>1, <1>3, TypeCorrect, PTL DEF Spec

\* Whatever the program and whenever an exception comes, one word is annulled
\* behind it, however long its slot is held, and the handler comes next.
THEOREM HandlerIsReached == Spec => TrapsReachTheHandler
<1> DEFINE Reached ==
      /\ s_skip_next /\ ~s_skip_next' => s_skip_this' /\ JUMP_true' /\ JUMP_addr' = EBASE
      /\ s_skip_this => /\ (IF state = "s0" THEN NextFetch ELSE s_pc) = JUMP_addr
                        /\ A' = Bubble
                        /\ ~s_skip_this' => PC' = JUMP_addr
<1>1. TypeOK /\ OnTheWay /\ Next => Reached
  <2> SUFFICES ASSUME TypeOK, OnTheWay, Next PROVE Reached
    OBVIOUS
  <2>1. CASE Tick0 \/ Tick1 \/ Tick2
    <3>1. state # "s3" /\ A' = A /\ s_skip_this' = s_skip_this
      BY <2>1, PhasesDiffer, NothingIssued
    <3> QED
      BY <3>1 DEF OnTheWay
  <2>2. CASE Tick3
    <3>1. state = "s3" /\ PC' = IF A_HOLD THEN PC ELSE s_pc
      BY <2>2, PhasesDiffer DEF Tick3, PC_s3
    <3>2. \/ Issues /\ \E taken \in BOOLEAN : Issue(taken)
          \/ ~Issues /\ IssueBubble
      BY <2>2 DEF Tick3, Fetcher_s3
    <3>3. s_skip_next => s_skip_this' /\ JUMP_true' /\ JUMP_addr' = EBASE
      BY <3>2 DEF OnTheWay, Issues, Issue
    <3>4. s_skip_this => A' = Bubble /\ (~s_skip_this' => ~A_HOLD)
      BY <3>2 DEF Issues, IssueBubble, TypeOK, WiresTypeOK, FetcherTypeOK
    <3> QED
      BY <3>1, <3>3, <3>4 DEF OnTheWay
  <2> QED
    BY <2>1, <2>2 DEF Next
<1>2. TypeOK /\ OnTheWay /\ [Next]_vars => [Reached]_vars
  BY <1>1
<1> QED
  BY <1>2, TypeCorrect, AlwaysOnTheWay, PTL DEF Spec, TrapsReachTheHandler

\* The access that may miss, and the word that has followed it: while the access
\* is in the ALU stage the next fetch is of the word behind PC, unless that is
\* annulled; once it has missed, PC is behind the word that has followed.
Followed ==
  /\ outbuffer.mem # "none" => ~outbuffer_JUMP_true /\ ~s_jump_if_condition
  /\ state \in {"s2", "s3"} /\ s_do_not_read_input => ~hold_from_memory
  /\ state = "s0" =>
       /\ A.pc # NoAddr => PC = s_pc /\ ~A_HOLD /\ (A.mem # "none" => ~JUMP_true)
       /\ s_do_not_read_input /\ alu.pc # NoAddr /\ alu.mem # "none" =>
            s_skip_this \/ (A_HOLD /\ s_pc = Plus(PC, 1))
       /\ B.pc # NoAddr => /\ ~s_do_not_read_input
                           /\ A.pc # NoAddr => PC = Plus(A.pc, 1)
  /\ state # "s0" =>
       /\ alu.pc # NoAddr /\ alu.mem # "none" =>
            IF s_skip_this THEN s_do_not_read_input ELSE s_pc = Plus(PC, 1)
       /\ B.pc # NoAddr /\ alu.pc # NoAddr => PC = Plus(alu.pc, 1)

\* An access jumps nowhere.
LEMMA AccessGoesOn ==
  ASSUME Decode
  PROVE  outbuffer'.mem # "none" => \/ ~outbuffer_JUMP_true' /\ ~s_jump_if_condition'
                                    \/ /\ UNCHANGED <<outbuffer, outbuffer_JUMP_true>>
                                       /\ ~s_jump_if_condition'
<1> USE DEF NoJump, Out
<1>1. CASE DecodeEret
  BY <1>1 DEF DecodeEret
<1>2. CASE DecodeMfc0
  BY <1>2 DEF DecodeMfc0
<1>3. CASE DecodeMtc0
  BY <1>3 DEF DecodeMtc0
<1>4. CASE DecodeTlbwi
  BY <1>4 DEF DecodeTlbwi
<1>5. CASE DecodeJ
  BY <1>5 DEF DecodeJ
<1>6. CASE DecodeR
  <2>1. CASE DecodeArith
    BY <2>1 DEF DecodeArith
  <2>2. CASE DecodeToHiLo
    BY <2>2 DEF DecodeToHiLo
  <2>3. CASE DecodeFromHiLo
    BY <2>3 DEF DecodeFromHiLo
  <2>4. CASE DecodeSyscall
    BY <2>4 DEF DecodeSyscall
  <2>5. CASE DecodeJr
    BY <2>5 DEF DecodeJr
  <2> QED
    BY <1>6, <2>1, <2>2, <2>3, <2>4, <2>5 DEF DecodeR
<1>7. CASE DecodeI
  <2>1. CASE DecodeLoad
    BY <2>1 DEF DecodeLoad
  <2>2. CASE DecodeStore
    BY <2>2 DEF DecodeStore
  <2>3. CASE DecodeLui
    BY <2>3 DEF DecodeLui
  <2>4. CASE DecodeBranch
    BY <2>4 DEF DecodeBranch
  <2>5. CASE DecodeImmediate
    BY <2>5 DEF DecodeImmediate
  <2> QED
    BY <1>7, <2>1, <2>2, <2>3, <2>4, <2>5 DEF DecodeI
<1> QED
  BY <1>1, <1>2, <1>3, <1>4, <1>5, <1>6, <1>7 DEF Decode

\* s0: the ALU stage latches the access, and the next fetch is settled.
LEMMA FollowedTick0 ==
  ASSUME TypeOK, OnTheWay, Followed, Tick0
  PROVE  Followed'
<1>1. state = "s0" /\ state' = "s1"
  BY PhasesDiffer
<1>2. /\ UNCHANGED <<PC, A, B, A_HOLD, s_skip_this, s_do_not_read_input>>
      /\ s_pc' = NextFetch
  BY DEF Tick0, PC_s0, NextFetch, Fetcher_s0, skipVars, ALU_s0
<1>3. outbuffer'.mem # "none" => ~outbuffer_JUMP_true' /\ ~s_jump_if_condition'
  <2>1. Decode \/ UNCHANGED decodeVars
    BY DEF Tick0, Fetcher_s0
  <2>2. CASE UNCHANGED decodeVars
    BY <2>2 DEF Followed, decodeVars, jumpVars
  <2> QED
    BY <2>1, <2>2, AccessGoesOn DEF Followed
<1>4. CASE s_do_not_read_input
  <2>1. UNCHANGED alu
    BY <1>4, Latched
  <2> QED
    BY <1>1, <1>2, <1>3, <1>4, <2>1 DEF Followed, NextFetch
<1>5. CASE ~s_do_not_read_input
  <2>1. alu'.mem = A.mem /\ alu'.pc \in {A.pc, NoAddr}
    BY <1>5, Latched
  <2>2. A.pc # NoAddr => ~s_skip_this
    BY DEF OnTheWay, Bubble
  <2> QED
    BY <1>1, <1>2, <1>3, <1>5, <2>1, <2>2 DEF Followed, NextFetch
<1> QED
  BY <1>4, <1>5

\* s1, s2: no packet moves; the memory stage never holds two cycles running.
LEMMA FollowedTick12 ==
  ASSUME TypeOK, HazardInv, Followed, Tick1 \/ Tick2
  PROVE  Followed'
<1>1. UNCHANGED <<PC, B, s_pc, alu, s_skip_this, s_do_not_read_input>> /\ state # "s0"
      /\ state' \in {"s2", "s3"}
  BY PhasesDiffer DEF Tick1, Tick2, PC_s1, PC_s2, Fetcher_s1, Fetcher_s2, skipVars, ALU_s1,
                      ALU_s2, ALU_idle, aluVars
<1>2. outbuffer'.mem # "none" => ~outbuffer_JUMP_true' /\ ~s_jump_if_condition'
  <2>1. \/ UNCHANGED <<outbuffer, jumpVars>>
        \/ outbuffer' = NoOp
    BY DEF Tick1, Tick2, Fetcher_s1, Fetcher_s2, EnterException
  <2>2. NoOp.mem = "none"
    BY DEF NoOp
  <2> QED
    BY <2>1, <2>2 DEF Followed, jumpVars
<1>3. s_do_not_read_input => ~hold_from_memory'
  <2>1. CASE Tick1
    <3>1. state = "s1" /\ Memory_s1
      BY <2>1, PhasesDiffer DEF Tick1
    <3>2. s_do_not_read_input => sb_in_the_middle /\ ~hold_from_memory
      BY <3>1 DEF HazardInv, HoldHandshake
    <3>3. s_do_not_read_input => UNCHANGED hold_from_memory
      BY <3>1, <3>2 DEF Memory_s1, StartRead, StartWrite, StartNothing, FirstHalfOfSb
    <3> QED
      BY <3>2, <3>3
  <2>2. CASE Tick2
    BY <2>2, PhasesDiffer DEF Tick2, Memory_s2, Followed
  <2> QED
    BY <2>1, <2>2
<1> QED
  BY <1>1, <1>2, <1>3 DEF Followed

\* s3: the access waits, or is reported as the next word is issued behind it.
LEMMA FollowedTick3 ==
  ASSUME TypeOK, HazardInv, OnTheWay, Followed, Tick3
  PROVE  Followed'
<1>1. state = "s3" /\ state' = "s0"
  BY PhasesDiffer
<1>2. /\ UNCHANGED <<s_pc, A_HOLD, outbuffer, outbuffer_JUMP_true, s_jump_if_condition>>
      /\ PC' = IF A_HOLD THEN PC ELSE s_pc
  BY DEF Tick3, PC_s3, Fetcher_s3
<1>3. \/ IssueBubble /\ ~Issues /\ A'.pc = NoAddr
      \/ /\ Issues /\ A'.mem = outbuffer.mem /\ s_skip_this' = s_skip_next
         /\ A'.pc = IF s_skip_next THEN NoAddr ELSE PC
         /\ ~outbuffer_JUMP_true /\ ~s_jump_if_condition => ~JUMP_true'
  <2>1. PICK taken \in BOOLEAN :
          /\ ~s_jump_if_condition => ~taken
          /\ (Issues /\ Issue(taken)) \/ (~Issues /\ IssueBubble)
    BY DEF Tick3, Fetcher_s3
  <2> QED
    BY <2>1 DEF Issue, IssueBubble, Bubble
<1>4. A'.pc # NoAddr =>
        /\ PC' = s_pc' /\ ~A_HOLD' /\ (A'.mem # "none" => ~JUMP_true')
        /\ A'.pc = PC /\ ~s_skip_this
  BY <1>2, <1>3 DEF Issues, Followed
<1>5. s_do_not_read_input' /\ alu'.pc # NoAddr /\ alu'.mem # "none" =>
        s_skip_this' \/ (A_HOLD' /\ s_pc' = Plus(PC', 1))
  <2> SUFFICES ASSUME s_do_not_read_input', alu'.pc # NoAddr, alu'.mem # "none"
               PROVE  s_skip_this' \/ (A_HOLD' /\ s_pc' = Plus(PC', 1))
    OBVIOUS
  <2>1. hold_from_memory /\ alu.pc # NoAddr /\ alu.mem # "none"
    BY HandedOn
  <2>2. ~s_skip_this /\ s_pc = Plus(PC, 1)
    BY <1>1, <2>1 DEF Followed
  <2>3. A_HOLD \/ s_skip_next
    BY <1>1, <2>1, <2>2 DEF HazardInv, HoldHandshake
  <2>4. CASE A_HOLD
    BY <1>2, <2>2, <2>4
  <2>5. CASE ~A_HOLD /\ s_skip_next
    BY <1>3, <2>5 DEF OnTheWay, Issues
  <2> QED
    BY <2>3, <2>4, <2>5
<1>6. B'.pc # NoAddr => ~s_do_not_read_input' /\ (A'.pc # NoAddr => PC' = Plus(A'.pc, 1))
  <2> SUFFICES ASSUME B'.pc # NoAddr
               PROVE  ~s_do_not_read_input' /\ (A'.pc # NoAddr => PC' = Plus(A'.pc, 1))
    OBVIOUS
  <2>1. ~Swallows /\ Misses /\ B'.pc = alu.pc
    BY HandedOn
  <2>2. ~s_do_not_read_input' /\ alu.mem # "none" /\ alu.pc # NoAddr
    BY <2>1, HandedOn DEF Swallows, Misses
  <2>3. ~s_skip_this => s_pc = Plus(PC, 1)
    BY <1>1, <2>2 DEF Followed
  <2> QED
    BY <1>2, <1>4, <2>2, <2>3
<1> QED
  BY <1>1, <1>2, <1>4, <1>5, <1>6 DEF Followed

\* Whatever the program: a load or store that misses is reported at its own
\* address, unless the word behind it came late or from elsewhere.
THEOREM DataMissIsAtItself == Spec => DataMissInStep
<1>1. Init => Followed
  BY DEF Init, PCInit, FetcherInit, ALUInit, NoMemUop, NoOp, Bubble, Followed
<1>2. Followed /\ UNCHANGED vars => Followed'
  <2> SUFFICES ASSUME Followed, UNCHANGED vars PROVE Followed'
    OBVIOUS
  <2>1. UNCHANGED <<wires, pcVars, fetcherVars, aluVars>>
    BY DEF vars
  <2>2. UNCHANGED <<state, PC, A_HOLD, A, B, JUMP_true, hold_from_memory, s_pc, alu,
                    s_do_not_read_input>>
    BY <2>1 DEF wires, pcVars, aluVars
  <2>3. UNCHANGED <<outbuffer, jumpVars, skipVars>>
    BY <2>1 DEF fetcherVars
  <2>4. UNCHANGED <<outbuffer_JUMP_true, s_jump_if_condition, s_skip_this>>
    BY <2>3 DEF jumpVars, skipVars
  <2> QED
    BY <2>2, <2>3, <2>4 DEF Followed
<1>3. TypeOK /\ HazardInv /\ OnTheWay /\ Followed /\ [Next]_vars => Followed'
  BY <1>2, FollowedTick0, FollowedTick12, FollowedTick3 DEF Next
<1>4. TypeOK /\ Followed /\ [Next]_vars =>
        [state = "s2" /\ EntersException /\ s_exception_cause \in {"TLBL", "TLBS"}
           /\ B.pc # NoAddr /\ alu.pc = Plus(B.pc, 1) => EPC' = B.pc]_vars
  <2> SUFFICES ASSUME TypeOK, Followed, Next, state = "s2", EntersException,
                      s_exception_cause \in {"TLBL", "TLBS"},
                      B.pc # NoAddr, alu.pc = Plus(B.pc, 1)
               PROVE  EPC' = B.pc
    OBVIOUS
  <2>1. B.pc \in Addr
    BY DEF TypeOK, WiresTypeOK, MemUop
  <2>2. alu.pc \in Addr /\ alu.pc # NoAddr
    BY <2>1, PlusType DEF Addr, NoAddr
  <2>3. PC = Plus(B.pc, 2)
    <3>1. PC = Plus(Plus(B.pc, 1), 1)
      BY <2>2 DEF Followed
    <3> QED
      BY <2>1, <3>1, PlusPlus
  <2>4. EPC' = Plus(PC, -2)
    BY PhasesDiffer DEF Next, Tick2, Fetcher_s2, EnterException, ExceptionPC
  <2>5. Plus(B.pc, 0) = B.pc
    BY <2>1, SignalsAssumption DEF Plus, Addr
  <2> QED
    BY <2>1, <2>3, <2>4, <2>5, PlusPlus
<1> QED
  BY <1>1, <1>3, <1>4, TypeCorrect, HazardInvariant, AlwaysOnTheWay, PTL
     DEF Spec, DataMissInStep

=============================================================================
