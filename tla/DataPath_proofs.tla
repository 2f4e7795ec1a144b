--------------------------- MODULE DataPath_proofs ---------------------------
(***************************************************************************)
(* The data path implements the atomic memory, for every number of         *)
(* registers, every memory and every word and byte: loads, stores and      *)
(* results take effect one at a time, a sb of two cycles among them.       *)
(***************************************************************************)
EXTENDS DataPath, TLAPS

-----------------------------------------------------------------------------
(* The inductive invariant. *)

\* What the decoder makes of an instruction: a store writes no register, and
\* only a load takes a single byte.
Shape(u) ==
  /\ u.mem \in {"write", "writeb"} => u.rd = 0
  /\ u.byte => u.mem = "read"

\* A packet that asks for nothing.
Empty(u) == u.mem = "none" /\ u.rd = 0

\* The packets of the three stages.
PacketsOK == A \in Issuable /\ Shape(alu) /\ (Empty(B) \/ Shape(B))

\* Of the word that a sb replaces, what is not the byte is what the RAM holds.
Kept(word) ==
  device = "ram" => \A p \in Pos \ {sb_replace_pos} : word[p] = ram[s_MEM_addr.word][p]

\* What the latches hold in each phase, between the two cycles of a sb and in
\* any other cycle.
LatchesOK ==
  /\ sb_in_the_middle => sb_replace_pos = s_MEM_addr.pos
  /\ state = "s0" /\ sb_in_the_middle => Empty(B) /\ Kept(sb_target_data)
  /\ state = "s1" /\ sb_in_the_middle => Empty(B) /\ Kept(s_MEM_data)
  /\ state = "s1" /\ ~sb_in_the_middle => s_MEM_addr = B.addr /\ s_MEM_data = B.data
  /\ state = "s2" /\ sb_in_the_middle => hold_from_memory /\ Kept(s_output)
  /\ state = "s3" /\ sb_in_the_middle => hold_from_memory /\ Kept(sb_target_data)
  /\ state = "s3" => C = [rd |-> s_REG.rd, byte |-> s_REG.byte, pos |-> s_MEM_addr.pos,
                          data |-> s_output]

\* The inductive invariant.
Inv == TypeOK /\ PacketsOK /\ LatchesOK

-----------------------------------------------------------------------------
(* The data a packet carries. *)

\* A word of zeros, a byte alone in a word, and an address.
LEMMA DataType ==
  /\ ZeroWord \in Word
  /\ \A b \in Byte : [ZeroWord EXCEPT ![LowPos] = b] \in Word
  /\ \A w \in Word, p \in Pos : w[p] \in Byte
  /\ NoMemUop.addr \in DataAddr /\ NoMemUop \in MemUop
  /\ Bubble \in Issuable /\ 0 \in Reg
<1>1. ZeroWord \in Word /\ \A b \in Byte : [ZeroWord EXCEPT ![LowPos] = b] \in Word
  BY SignalsAssumption DEF ZeroWord, Word
<1>2. \A w \in Word, p \in Pos : w[p] \in Byte
  BY DEF Word
<1>3. 0 \in Reg
  BY SignalsAssumption DEF Reg
<1>4. (CHOOSE a \in DataAddr : TRUE) \in DataAddr
  <2>1. PICK w \in MemWord : TRUE
    BY SignalsAssumption
  <2>2. [word |-> w, pos |-> LowPos] \in DataAddr
    BY SignalsAssumption DEF DataAddr
  <2> QED
    BY <2>2
<1>5. NoMemUop.addr \in DataAddr
  BY <1>4 DEF NoMemUop
<1>6. NoMemUop \in MemUop
  BY <1>1, <1>3, <1>4 DEF NoMemUop, MemUop, MemOp
<1>7. Bubble \in Issuable
  BY <1>3 DEF Bubble, Issuable, Uop, MemOp
<1> QED
  BY <1>1, <1>2, <1>3, <1>5, <1>6, <1>7

\* What is written to a register is a word.
LEMMA WriteType ==
  ASSUME NEW w \in WriteBack
  PROVE  realWriteValue(w) \in Word
  BY DataType DEF realWriteValue, WriteBack

\* The latches after reset.
LEMMA InitOK == Init => Inv
<1> SUFFICES ASSUME Init PROVE Inv
  OBVIOUS
<1>1. ram \in [MemWord -> Word]
  BY DataType DEF Init, MemoryInit
<1>2. WiresTypeOK
  <2>1. PC \in Addr /\ JUMP_addr \in Addr
    BY SignalsAssumption DEF Init, Addr
  <2>2. A \in Uop /\ B \in MemUop
    BY DataType DEF Init, ALUInit, Issuable
  <2>3. C \in WriteBack
    BY DataType, SignalsAssumption DEF Init, MemoryInit, WriteBack
  <2> QED
    BY <2>1, <2>2, <2>3 DEF WiresTypeOK, Init, ALUInit, MemoryInit, Phase
<1>3. ALUTypeOK
  BY DataType DEF ALUTypeOK, Init, ALUInit
<1>4. MemoryTypeOK
  <2>1. s_MEM_addr \in DataAddr
    BY SignalsAssumption DEF Init, MemoryInit, DataAddr
  <2> QED
    BY <1>1, <2>1, DataType, SignalsAssumption DEF MemoryTypeOK, Init, MemoryInit
<1>5. RegistersTypeOK /\ s_REG_write \in WriteBack
  BY DataType, SignalsAssumption DEF RegistersTypeOK, Init, RegistersInit, WriteBack
<1>6. PacketsOK
  BY DataType DEF PacketsOK, Init, ALUInit, Shape, NoMemUop
<1>7. LatchesOK
  BY DEF LatchesOK, Init, MemoryInit
<1> QED
  BY <1>2, <1>3, <1>4, <1>5, <1>6, <1>7 DEF Inv, TypeOK

-----------------------------------------------------------------------------
(* The four clock edges keep the invariant. *)

\* s0 latches what the stages work on.
LEMMA Tick0OK == Inv /\ Tick0 => Inv'
<1> SUFFICES ASSUME Inv, Tick0 PROVE Inv'
  OBVIOUS
<1> USE DEF Inv, TypeOK
<1>1. state = "s0" /\ state' = "s1" /\ UNCHANGED <<uartSide, fetchWires>>
  BY DEF Tick0, Edge
<1>2. ALU_s0 /\ Memory_s0 /\ s_REG_write' = C /\ UNCHANGED <<A, GPR>>
  BY DEF Tick0
<1>3. s_MEM_addr' \in DataAddr /\ s_MEM_data' \in Word /\ B \in MemUop
  <2>1. B \in MemUop /\ B.addr \in DataAddr /\ B.data \in Word
    BY DEF WiresTypeOK, MemUop
  <2> QED
    BY <1>2, <2>1 DEF Memory_s0, MemoryTypeOK
<1>4. WiresTypeOK'
  BY <1>1, <1>2 DEF WiresTypeOK, ALU_s0, Memory_s0, fetchWires, Phase
<1>5. ALUTypeOK' /\ Shape(alu)'
  <2>1. CASE s_do_not_read_input
    BY <1>2, <2>1 DEF ALU_s0, ALUTypeOK, PacketsOK, Shape
  <2>2. CASE ~s_do_not_read_input
    <3>1. PICK miss \in DataMiss \cup {FALSE}, addr \in DataAddr, data \in ALUWord :
            /\ TLB_bad' = miss
            /\ alu' = [pc |-> IF miss \/ s_skip_one THEN A.pc ELSE NoAddr,
                       rd |-> A.rd, byte |-> A.byte, mem |-> A.mem,
                       addr |-> addr, data |-> data]
      BY <1>2, <2>2 DEF ALU_s0
    <3>2. A.pc \in Addr \cup {NoAddr} /\ A.rd \in Reg /\ A.byte \in BOOLEAN /\ A.mem \in MemOp
      BY DEF WiresTypeOK, Uop
    <3>3. data \in Word /\ miss \in BOOLEAN
      BY ALUAssumption
    <3>4. alu' \in MemUop
      BY <3>1, <3>2, <3>3 DEF MemUop
    <3>5. Shape(alu)'
      BY <3>1 DEF PacketsOK, Issuable, Shape
    <3> QED
      BY <1>2, <3>1, <3>3, <3>4, <3>5 DEF ALUTypeOK, ALU_s0
  <2> QED
    BY <2>1, <2>2
<1>6. MemoryTypeOK'
  BY <1>1, <1>2, <1>3 DEF MemoryTypeOK, Memory_s0, LowerStrobe, KeepSend, sbVars, uartSide
<1>7. RegistersTypeOK' /\ s_REG_write' \in WriteBack
  BY <1>2 DEF RegistersTypeOK, WiresTypeOK
<1>8. PacketsOK'
  BY <1>2, <1>5 DEF PacketsOK, ALU_s0, Shape, Empty
<1>9. LatchesOK'
  BY <1>1, <1>2 DEF LatchesOK, Memory_s0, ALU_s0, sbVars, Empty, Kept, device
<1> QED
  BY <1>4, <1>5, <1>6, <1>7, <1>8, <1>9

\* The control register's bits make a byte, a byte makes a word.
LEMMA ReadType ==
  ASSUME Inv, StartRead
  PROVE  s_output' \in Word /\ (device = "ram" => s_output' = ram[s_MEM_addr.word])
<1>1. s_MEM_addr.word \in MemWord /\ UART_DATA_RECV \in Byte /\ ram \in [MemWord -> Word]
  BY DEF Inv, TypeOK, MemoryTypeOK, DataAddr
<1>2. ASSUME device = "uart_ctrl" PROVE ControlWord \in Word
  <2>1. 0 .. 3 \subseteq Byte
    BY <1>1, <1>2, MemoryAssumption DEF device
  <2>2. 0 \in Byte /\ 1 \in Byte /\ 2 \in Byte /\ 3 \in Byte
    BY <2>1
  <2>3. \E b \in Byte : ControlWord = [ZeroWord EXCEPT ![LowPos] = b]
    BY <2>2 DEF ControlWord
  <2> QED
    BY <2>3, DataType
<1>3. device \in DevKind
  BY <1>1, SignalsAssumption DEF device
<1>4. CASE device = "uart_ctrl"
  BY <1>2, <1>4 DEF StartRead
<1>5. CASE device = "uart_data"
  BY <1>1, <1>5, DataType DEF StartRead
<1>6. CASE device = "ram"
  BY <1>1, <1>6 DEF StartRead
<1>7. CASE device = "io"
  BY <1>7 DEF StartRead
<1> QED
  BY <1>3, <1>4, <1>5, <1>6, <1>7 DEF DevKind

\* s1 starts the access and writes the register file.
LEMMA Tick1OK == Inv /\ Tick1 => Inv'
<1> SUFFICES ASSUME Inv, Tick1 PROVE Inv'
  OBVIOUS
<1> USE DEF Inv, TypeOK
<1>1. state = "s1" /\ state' = "s2" /\ UNCHANGED <<uartSide, fetchWires>>
  BY DEF Tick1, Edge
<1>2. ALU_idle /\ Memory_s1 /\ RegWrite(s_REG_write) /\ UNCHANGED A
      /\ s_REG_write' = [s_REG_write EXCEPT !.rd = 0]
  BY DEF Tick1, ALU_s1
<1>3. (StartRead \/ StartWrite \/ StartNothing) /\ s_REG' = [rd |-> B.rd, byte |-> B.byte]
      /\ UNCHANGED <<s_MEM_addr, s_MEM_data, sb_target_data, C>>
  BY <1>2 DEF Memory_s1
<1>4. /\ B.rd \in Reg /\ B.byte \in BOOLEAN /\ B.data \in Word
      /\ s_MEM_addr.word \in MemWord /\ s_MEM_addr.pos \in Pos
      /\ s_MEM_data \in Word /\ s_MEM_data[LowPos] \in Byte
  <2>1. s_MEM_data \in Word
    BY DEF MemoryTypeOK
  <2> QED
    BY <2>1, DataType, SignalsAssumption DEF WiresTypeOK, MemUop, MemoryTypeOK, DataAddr
<1>5. s_output' \in Word
  BY <1>3, <1>4, ReadType DEF StartWrite, StartNothing
<1>6. ram' \in [MemWord -> Word]
  BY <1>3, <1>4 DEF StartRead, StartWrite, StartNothing, MemoryTypeOK
<1>7. WiresTypeOK'
  <2>1. hold_from_memory' \in BOOLEAN
    BY <1>3 DEF StartRead, StartWrite, StartNothing, WiresTypeOK
  <2> QED
    BY <1>1, <1>2, <1>3, <2>1 DEF WiresTypeOK, ALU_idle, fetchWires, Phase
<1>8. ALUTypeOK'
  BY <1>2 DEF ALUTypeOK, ALU_idle, aluVars
<1>9. MemoryTypeOK'
  <2>1. /\ sb_in_the_middle' \in BOOLEAN /\ sb_replace_pos' \in Pos
        /\ UART_DATA_SEND' \in Byte /\ UART_DATA_SEND_STB' \in BOOLEAN
        /\ uart_send_stb_flag' \in BOOLEAN /\ UART_DATA_RECV_ACK' \in BOOLEAN
    BY <1>3, <1>4 DEF StartRead, StartWrite, StartNothing, MemoryTypeOK, sendVars
  <2> QED
    BY <1>1, <1>3, <1>4, <1>5, <1>6, <2>1 DEF MemoryTypeOK, uartSide
<1>10. RegistersTypeOK' /\ s_REG_write' \in WriteBack
  <2>1. realWriteValue(s_REG_write) \in Word /\ s_REG_write.rd \in Reg
    BY WriteType DEF WriteBack
  <2>2. GPR' \in [Reg -> Word]
    BY <1>2, <2>1 DEF RegWrite, RegistersTypeOK
  <2>3. s_REG_write' \in WriteBack
    BY <1>2, DataType DEF WriteBack
  <2> QED
    BY <2>2, <2>3 DEF RegistersTypeOK
<1>11. PacketsOK'
  BY <1>2 DEF PacketsOK, ALU_idle, aluVars, Shape, Empty
<1>12. LatchesOK'
  <2>1. CASE StartRead
    BY <1>1, <1>3, <2>1, ReadType DEF LatchesOK, StartRead, FirstHalfOfSb, Empty, Kept, device
  <2>2. CASE StartWrite
    BY <1>1, <1>3, <2>2 DEF LatchesOK, StartWrite
  <2>3. CASE StartNothing
    BY <1>1, <1>3, <2>3 DEF LatchesOK, StartNothing
  <2> QED
    BY <1>3, <2>1, <2>2, <2>3
<1> QED
  BY <1>7, <1>8, <1>9, <1>10, <1>11, <1>12

\* s2 hands back the result.
LEMMA Tick2OK == Inv /\ Tick2 => Inv'
<1> SUFFICES ASSUME Inv, Tick2 PROVE Inv'
  OBVIOUS
<1> USE DEF Inv, TypeOK
<1>1. state = "s2" /\ state' = "s3" /\ UNCHANGED <<uartSide, fetchWires>>
  BY DEF Tick2, Edge
<1>2. ALU_idle /\ Memory_s2 /\ UNCHANGED <<A, GPR, s_REG_write>>
  BY DEF Tick2, ALU_s2
<1>3. C' \in WriteBack
  <2>1. s_REG.rd \in Reg /\ s_REG.byte \in BOOLEAN /\ s_MEM_addr.pos \in Pos /\ s_output \in Word
    BY DEF MemoryTypeOK, DataAddr
  <2> QED
    BY <1>2, <2>1 DEF Memory_s2, WriteBack
<1>4. WiresTypeOK'
  BY <1>1, <1>2, <1>3 DEF WiresTypeOK, ALU_idle, Memory_s2, fetchWires, Phase
<1>5. ALUTypeOK' /\ RegistersTypeOK' /\ s_REG_write' \in WriteBack
  BY <1>2 DEF ALUTypeOK, RegistersTypeOK, ALU_idle, aluVars
<1>6. MemoryTypeOK'
  BY <1>1, <1>2 DEF MemoryTypeOK, Memory_s2, LowerStrobe, KeepSend, uartSide
<1>7. PacketsOK'
  BY <1>2 DEF PacketsOK, ALU_idle, aluVars, Shape, Empty
<1>8. LatchesOK'
  BY <1>1, <1>2 DEF LatchesOK, Memory_s2, Kept, device
<1> QED
  BY <1>4, <1>5, <1>6, <1>7, <1>8

\* s3 merges the byte of a sb and moves the pipeline on.
LEMMA Tick3OK == Inv /\ Tick3 => Inv'
<1> SUFFICES ASSUME Inv, Tick3 PROVE Inv'
  OBVIOUS
<1> USE DEF Inv, TypeOK
<1>1. state = "s3" /\ state' = "s0" /\ UNCHANGED <<uartSide, fetchWires>>
  BY DEF Tick3, Edge
<1>2. ALU_s3 /\ Memory_s3 /\ UNCHANGED <<GPR, s_REG_write>> /\ A' \in Issuable
  BY DataType DEF Tick3
<1>3. alu' \in MemUop /\ Shape(alu)'
  BY <1>2 DEF ALU_s3, ALUTypeOK, MemUop, PacketsOK, Shape
<1>4. B' \in MemUop /\ (Empty(B)' \/ Shape(B)') /\ (hold_from_memory => Empty(B)')
  <2>1. alu \in MemUop /\ Shape(alu) /\ B \in MemUop
    BY DEF ALUTypeOK, PacketsOK, WiresTypeOK
  <2>2. CASE B' = Emptied(NoAddr, ZeroWord)
    BY <2>1, <2>2, DataType DEF Emptied, MemUop, MemOp, Empty
  <2>3. CASE ~hold_from_memory /\ B' = Emptied(alu.pc, alu.data)
    BY <2>1, <2>3, DataType DEF Emptied, MemUop, MemOp, Empty
  <2>4. CASE ~hold_from_memory /\ B' = [alu EXCEPT !.pc = NoAddr]
    BY <2>1, <2>4 DEF MemUop, Shape
  <2> QED
    BY <1>2, <2>2, <2>3, <2>4 DEF ALU_s3, Swallows
<1>5. WiresTypeOK'
  <2>1. A' \in Uop
    BY <1>2 DEF Issuable
  <2>2. TLB_data_exception' \in BOOLEAN /\ TLB_data_write' \in BOOLEAN
    BY <1>2 DEF ALU_s3, WiresTypeOK
  <2> QED
    BY <1>1, <1>2, <1>4, <2>1, <2>2 DEF WiresTypeOK, Memory_s3, fetchWires, Phase
<1>6. ALUTypeOK'
  BY <1>2, <1>3 DEF ALUTypeOK, ALU_s3, WiresTypeOK
<1>7. Merged \in Word
  <2>1. s_MEM_data[LowPos] \in Byte /\ sb_replace_pos \in Pos /\ sb_target_data \in Word
    BY DataType, SignalsAssumption DEF MemoryTypeOK
  <2> QED
    BY <2>1 DEF Merged, Word
<1>8. MemoryTypeOK'
  BY <1>1, <1>2, <1>7 DEF MemoryTypeOK, Memory_s3, LowerStrobe, KeepSend, uartSide
<1>9. RegistersTypeOK' /\ s_REG_write' \in WriteBack
  BY <1>2 DEF RegistersTypeOK
<1>10. PacketsOK'
  BY <1>2, <1>3, <1>4 DEF PacketsOK
<1>11. LatchesOK'
  <2>1. sb_in_the_middle => Kept(sb_target_data)'
    <3>1. sb_target_data \in Word
      BY DEF MemoryTypeOK
    <3>2. sb_in_the_middle => \A p \in Pos \ {sb_replace_pos} : sb_target_data'[p] = sb_target_data[p]
      BY <1>2, <3>1 DEF Memory_s3, Merged, Word
    <3> QED
      BY <1>1, <1>2, <3>2 DEF LatchesOK, Memory_s3, Kept, device
  <2> QED
    BY <1>1, <1>2, <1>4, <2>1 DEF LatchesOK, Memory_s3
<1> QED
  BY <1>5, <1>6, <1>8, <1>9, <1>10, <1>11

\* The wires, latches and registers have their types in every reachable state,
\* and between its two cycles a sb keeps what it read.
THEOREM Invariant == Spec => []Inv
<1>1. Inv /\ UNCHANGED <<vars, fetchWires>> => Inv'
  BY DEF Inv, TypeOK, WiresTypeOK, ALUTypeOK, MemoryTypeOK, RegistersTypeOK, PacketsOK,
         LatchesOK, Shape, Empty, Kept, device, vars, fetchWires, aluVars, memVars, sbVars,
         sendVars, uartSide
<1>2. Inv /\ [Next]_<<vars, fetchWires>> => Inv'
  BY <1>1, Tick0OK, Tick1OK, Tick2OK, Tick3OK DEF Next
<1> QED
  BY <1>2, InitOK, PTL DEF Spec

-----------------------------------------------------------------------------
(* The four clock edges as steps of the atomic memory: s1 performs what is *)
(* requested, s3 lets the next request arrive, and nobody sees the rest.   *)

\* A step that the atomic memory does not see.
Stutter == UNCHANGED <<ram, VisibleReg, CurrentRequest>>

\* After reset the memory and the registers hold zeros and nothing is requested.
LEMMA InitMaps == Init => Atomic!Init
<1> SUFFICES ASSUME Init PROVE Atomic!Init
  OBVIOUS
<1>1. ram = [w \in MemWord |-> ZeroWord]
  BY DEF Init, MemoryInit
<1>2. VisibleReg = [r \in Reg |-> ZeroWord]
  BY DEF Init, MemoryInit, RegistersInit, VisibleReg, Produced
<1>3. CurrentRequest = NoRequest
  BY DEF Init, MemoryInit, ALUInit, CurrentRequest, NoMemUop
<1> QED
  BY <1>1, <1>2, <1>3 DEF Atomic!Init

\* Latching a request neither performs nor changes it.
LEMMA Tick0Stutters == Inv /\ Tick0 => Stutter
<1> SUFFICES ASSUME Inv, Tick0 PROVE Stutter
  OBVIOUS
<1>1. /\ state = "s0" /\ state' = "s1" /\ ALU_s0 /\ Memory_s0 /\ s_REG_write' = C
      /\ UNCHANGED GPR
  BY DEF Tick0, Edge
<1>2. ram' = ram /\ C' = C /\ B' = B /\ UNCHANGED sbVars
  BY <1>1 DEF Memory_s0, ALU_s0
<1>3. VisibleReg' = VisibleReg
  BY <1>1, <1>2 DEF VisibleReg, Produced, realWriteValue
<1>4. CurrentRequest' = CurrentRequest
  <2>1. UNCHANGED <<sb_in_the_middle, sb_target_data, sb_replace_pos>>
    BY <1>2 DEF sbVars
  <2>2. CASE sb_in_the_middle
    <3>1. s_MEM_addr' = s_MEM_addr /\ SbByte' = SbByte
      BY <1>1, <2>1, <2>2 DEF Memory_s0, SbByte
    <3> QED
      BY <2>1, <2>2, <3>1 DEF CurrentRequest, Requested
  <2>3. CASE ~sb_in_the_middle
    BY <1>1, <1>2, <2>1, <2>3 DEF CurrentRequest, Requested, NoRequest
  <2> QED
    BY <2>2, <2>3
<1> QED
  BY <1>2, <1>3, <1>4 DEF Stutter

\* Handing back a result changes nothing that the program sees.
LEMMA Tick2Stutters == Inv /\ Tick2 => Stutter
<1> SUFFICES ASSUME Inv, Tick2 PROVE Stutter
  OBVIOUS
<1>1. state = "s2" /\ state' = "s3" /\ ALU_idle /\ Memory_s2 /\ UNCHANGED GPR
  BY DEF Tick2, Edge, ALU_s2
<1>2. /\ ram' = ram /\ B' = B
      /\ UNCHANGED <<s_MEM_addr, s_MEM_data, sb_in_the_middle, sb_replace_pos, s_output, s_REG>>
  BY <1>1 DEF Memory_s2, ALU_idle
<1>3. VisibleReg' = VisibleReg
  BY <1>1, <1>2 DEF VisibleReg, Produced, realWriteValue
<1>4. CurrentRequest' = CurrentRequest
  BY <1>1, <1>2 DEF CurrentRequest, SbByte, Requested, NoRequest
<1> QED
  BY <1>2, <1>3, <1>4 DEF Stutter

\* What arrives is a request.
LEMMA RequestType == Inv => CurrentRequest \in Requests
<1> SUFFICES ASSUME Inv PROVE CurrentRequest \in Requests
  OBVIOUS
<1>1. NoRequest \in Requests
  BY DataType DEF NoRequest, Requested, Requests, MemOp
<1>2. Requested(B.rd, B.byte, B.mem, B.addr,
                IF B.mem = "writeb" THEN [ZeroWord EXCEPT ![LowPos] = B.data[LowPos]]
                ELSE B.data) \in Requests
  <2>1. /\ B.rd \in Reg /\ B.byte \in BOOLEAN /\ B.mem \in MemOp /\ B.addr \in DataAddr
        /\ B.data \in Word
    BY DEF Inv, TypeOK, WiresTypeOK, MemUop
  <2>2. [ZeroWord EXCEPT ![LowPos] = B.data[LowPos]] \in Word
    BY <2>1, DataType, SignalsAssumption
  <2> QED
    BY <2>1, <2>2 DEF Requested, Requests
<1>3. Requested(0, FALSE, "writeb", [s_MEM_addr EXCEPT !.pos = sb_replace_pos],
                [ZeroWord EXCEPT ![LowPos] = SbByte]) \in Requests
  <2>1. /\ s_MEM_addr \in DataAddr /\ sb_replace_pos \in Pos /\ s_MEM_data \in Word
        /\ sb_target_data \in Word /\ state \in Phase
    BY DEF Inv, TypeOK, MemoryTypeOK, WiresTypeOK
  <2>2. SbByte \in Byte
    BY <2>1, DataType, SignalsAssumption DEF SbByte, Phase
  <2>3. [s_MEM_addr EXCEPT !.pos = sb_replace_pos] \in DataAddr
    BY <2>1 DEF DataAddr
  <2>4. [ZeroWord EXCEPT ![LowPos] = SbByte] \in Word
    BY <2>2, DataType
  <2> QED
    BY <2>3, <2>4, DataType DEF Requested, Requests, MemOp
<1> QED
  BY <1>1, <1>2, <1>3 DEF CurrentRequest

\* In the next state as well.
LEMMA RequestTypeNext == Inv' => (CurrentRequest \in Requests)'
  BY RequestType, PTL

\* A request arrives when no sb is in the middle of its own.
LEMMA Tick3Maps == Inv /\ Tick3 => Stutter \/ Atomic!Arrive
<1> SUFFICES ASSUME Inv, Tick3 PROVE Stutter \/ Atomic!Arrive
  OBVIOUS
<1>1. state = "s3" /\ state' = "s0" /\ ALU_s3 /\ Memory_s3 /\ UNCHANGED GPR
  BY DEF Tick3, Edge
<1>2. /\ ram' = ram /\ C' = C
      /\ UNCHANGED <<s_MEM_addr, s_MEM_data, sb_in_the_middle, sb_replace_pos>>
  BY <1>1 DEF Memory_s3
<1>3. VisibleReg' = VisibleReg
  BY <1>1, <1>2 DEF VisibleReg, Produced, realWriteValue, Inv, LatchesOK
<1>4. CASE sb_in_the_middle
  <2>1. sb_target_data'[sb_replace_pos] = s_MEM_data[LowPos]
    BY <1>1, <1>4 DEF Memory_s3, Merged, Inv, TypeOK, MemoryTypeOK, Word
  <2>2. CurrentRequest' = CurrentRequest
    BY <1>1, <1>2, <1>4, <2>1 DEF CurrentRequest, SbByte, Requested
  <2> QED
    BY <1>2, <1>3, <2>2 DEF Stutter
<1>5. CASE ~sb_in_the_middle
  <2>1. CurrentRequest = NoRequest
    BY <1>1, <1>5 DEF CurrentRequest
  <2>2. CurrentRequest' \in Requests
    <3>1. Inv'
      BY Tick3OK
    <3> QED
      BY <3>1, RequestTypeNext
  <2> QED
    BY <1>2, <1>3, <2>1, <2>2 DEF Atomic!Arrive
<1> QED
  BY <1>4, <1>5

\* The registers as the program sees them before s1 are those of GPR behind it.
LEMMA VisibleBehind ==
  ASSUME Inv, Tick1
  PROVE  /\ GPR' = VisibleReg /\ VisibleReg \in [Reg -> Word]
         /\ VisibleReg' = IF B.rd = 0 THEN VisibleReg
                          ELSE [VisibleReg EXCEPT ![B.rd] =
                                  IF B.byte THEN [ZeroWord EXCEPT ![LowPos] = s_output'[s_MEM_addr.pos]]
                                  ELSE s_output']
<1>1. state = "s1" /\ state' = "s2" /\ RegWrite(s_REG_write) /\ Memory_s1
  BY DEF Tick1, Edge
<1>2. GPR' = VisibleReg
  BY <1>1 DEF RegWrite, VisibleReg, Produced
<1>3. VisibleReg \in [Reg -> Word]
  <2>1. Inv'
    BY Tick1OK
  <2>2. GPR' \in [Reg -> Word]
    BY <2>1 DEF Inv, TypeOK, RegistersTypeOK
  <2> QED
    BY <1>2, <2>2
<1>4. s_REG' = [rd |-> B.rd, byte |-> B.byte] /\ s_MEM_addr' = s_MEM_addr
  BY <1>1 DEF Memory_s1
<1>5. Produced' = [rd |-> B.rd, byte |-> B.byte, pos |-> s_MEM_addr.pos, data |-> s_output']
  BY <1>1, <1>4 DEF Produced
<1> QED
  BY <1>2, <1>3, <1>5 DEF VisibleReg, realWriteValue

\* s1 performs the request, or does the first half of a sb, which nobody sees.
LEMMA Tick1Maps == Inv /\ Tick1 => Stutter \/ Atomic!Perform
<1> SUFFICES ASSUME Inv, Tick1 PROVE Stutter \/ Atomic!Perform
  OBVIOUS
<1>1. /\ state = "s1" /\ state' = "s2" /\ Memory_s1
      /\ B' = B /\ UNCHANGED <<s_MEM_addr, s_MEM_data, sb_target_data>>
  BY DEF Tick1, Edge, ALU_s1, ALU_idle, Memory_s1
<1>2. StartRead \/ StartWrite \/ StartNothing
  BY <1>1 DEF Memory_s1
<1>3. /\ B \in MemUop /\ s_MEM_addr \in DataAddr /\ s_MEM_data \in Word
      /\ ram \in [MemWord -> Word] /\ B.mem \in MemOp
      /\ s_MEM_addr.word \in MemWord /\ s_MEM_addr.pos \in Pos
  BY DEF Inv, TypeOK, WiresTypeOK, MemoryTypeOK, MemUop, DataAddr
<1>4. CASE FirstHalfOfSb
  <2>1. B.mem = "writeb" /\ ~sb_in_the_middle /\ B.rd = 0 /\ ~B.byte
    BY <1>4 DEF FirstHalfOfSb, Inv, PacketsOK, Empty, Shape
  <2>2. StartRead /\ s_MEM_addr = B.addr /\ s_MEM_data = B.data
    BY <1>1, <1>2, <2>1, <1>4 DEF StartWrite, StartNothing, Inv, LatchesOK
  <2>3. sb_in_the_middle' /\ sb_replace_pos' = s_MEM_addr.pos /\ ram' = ram
    BY <1>4, <2>2 DEF StartRead
  <2>4. VisibleReg' = VisibleReg
    BY <2>1, VisibleBehind
  <2>5. CurrentRequest = Requested(0, FALSE, "writeb", B.addr,
                                   [ZeroWord EXCEPT ![LowPos] = B.data[LowPos]])
    BY <1>1, <1>3, <2>1 DEF CurrentRequest, MemUop
  <2>6. CurrentRequest' = Requested(0, FALSE, "writeb", s_MEM_addr,
                                    [ZeroWord EXCEPT ![LowPos] = s_MEM_data[LowPos]])
    <3>1. [s_MEM_addr EXCEPT !.pos = s_MEM_addr.pos] = s_MEM_addr
      BY <1>3 DEF DataAddr
    <3>2. SbByte' = s_MEM_data[LowPos]
      BY <1>1 DEF SbByte
    <3> QED
      BY <1>1, <2>3, <3>1, <3>2 DEF CurrentRequest
  <2> QED
    BY <2>2, <2>3, <2>4, <2>5, <2>6 DEF Stutter
<1>5. CASE sb_in_the_middle
  <2> DEFINE w == s_MEM_addr.word
             q == sb_replace_pos
             req == CurrentRequest
  <2>1. Empty(B) /\ Kept(s_MEM_data) /\ q \in Pos
    BY <1>1, <1>5 DEF Inv, LatchesOK, TypeOK, MemoryTypeOK
  <2>2. StartWrite
    BY <1>2, <1>5, <2>1 DEF StartRead, StartNothing, FirstHalfOfSb, Empty
  <2>3. /\ req.rd = 0 /\ req.mem = "writeb" /\ req.addr.word = w /\ req.addr.pos = q
        /\ req.data[LowPos] = s_MEM_data[q]
    BY <1>1, <1>3, <1>5, <2>1, SignalsAssumption
    DEF CurrentRequest, Requested, SbByte, DataAddr, ZeroWord
  <2>4. CurrentRequest' = NoRequest /\ req # NoRequest
    BY <1>1, <2>2, <2>3 DEF StartWrite, CurrentRequest, NoRequest, Requested
  <2>5. VisibleReg' = VisibleReg
    BY <2>1, VisibleBehind DEF Empty
  <2>6. ram' = IF device = "ram" THEN [ram EXCEPT ![w] = s_MEM_data] ELSE ram
    BY <2>2 DEF StartWrite
  <2>7. device = "ram" => s_MEM_data = [ram[w] EXCEPT ![q] = s_MEM_data[q]]
    BY <1>3, <2>1 DEF Kept, Word
  <2>8. Atomic!Store
    <3>1. CASE device = "ram"
      <4>1. ram' = [ram EXCEPT ![w][q] = s_MEM_data[q]]
        BY <1>3, <2>6, <2>7, <3>1
      <4> QED
        BY <2>3, <2>5, <3>1, <4>1 DEF Atomic!Store, device
    <3>2. CASE device # "ram"
      BY <2>3, <2>5, <2>6, <3>2 DEF Atomic!Store, device
    <3> QED
      BY <3>1, <3>2
  <2> QED
    BY <2>4, <2>8 DEF Atomic!Perform
<1>6. CASE ~FirstHalfOfSb /\ ~sb_in_the_middle
  <2> DEFINE w == s_MEM_addr.word
             req == CurrentRequest
  <2>1. s_MEM_addr = B.addr /\ s_MEM_data = B.data
    BY <1>1, <1>6 DEF Inv, LatchesOK
  <2>2. CurrentRequest' = NoRequest
    <3>1. ~sb_in_the_middle'
      BY <1>2, <1>6 DEF StartRead, StartWrite, StartNothing
    <3> QED
      BY <1>1, <3>1 DEF CurrentRequest, NoRequest
  <2>3. B.mem \in {"none", "read", "write"} /\ (B.mem # "read" /\ B.rd # 0 => ~B.byte)
        /\ (B.mem = "write" => B.rd = 0)
    BY <1>3, <1>6 DEF MemOp, FirstHalfOfSb, Inv, PacketsOK, Empty, Shape
  <2>4. Empty(B) => CurrentRequest = NoRequest
    BY <1>1, <1>6 DEF CurrentRequest, Empty
  <2>5. ~Empty(B) => /\ req.rd = B.rd /\ req.byte = B.byte /\ req.mem = B.mem
                     /\ req.addr = B.addr /\ req.data = B.data /\ req # NoRequest
    BY <1>1, <1>6, <2>3 DEF CurrentRequest, Empty, Requested, NoRequest
  <2>6. CASE B.mem = "read"
    <3>1. StartRead /\ ram' = ram
      BY <1>2, <1>6, <2>6 DEF StartRead, StartWrite, StartNothing
    <3>2. s_output' \in Word /\ (device = "ram" => s_output' = ram[w])
      BY <3>1, ReadType
    <3>3. VisibleReg' = IF req.rd = 0 THEN VisibleReg
                        ELSE [VisibleReg EXCEPT ![req.rd] = Atomic!Loaded(s_output')]
      BY <2>1, <2>5, <2>6, VisibleBehind DEF Empty, Atomic!Loaded
    <3>4. Atomic!Load
      BY <2>1, <2>5, <2>6, <3>1, <3>2, <3>3 DEF Empty, Atomic!Load, Atomic!SetReg, device
    <3> QED
      BY <2>2, <2>5, <2>6, <3>4 DEF Empty, Atomic!Perform
  <2>7. CASE B.mem = "write"
    <3>1. ram' = IF device = "ram" THEN [ram EXCEPT ![w] = s_MEM_data] ELSE ram
      BY <1>2, <1>6, <2>7 DEF StartRead, StartWrite, StartNothing
    <3>2. VisibleReg' = VisibleReg
      BY <2>3, <2>7, VisibleBehind
    <3>3. Atomic!Store
      BY <2>1, <2>5, <2>7, <3>1, <3>2 DEF Empty, Atomic!Store, device
    <3> QED
      BY <2>2, <2>5, <2>7, <3>3 DEF Empty, Atomic!Perform
  <2>8. CASE B.mem = "none"
    <3>1. ram' = ram /\ s_output' = B.data
      BY <1>2, <1>6, <2>8 DEF StartRead, StartWrite, StartNothing
    <3>2. CASE B.rd = 0
      <4>1. VisibleReg' = VisibleReg
        BY <3>2, VisibleBehind
      <4> QED
        BY <2>2, <2>4, <2>8, <3>1, <3>2, <4>1 DEF Empty, Stutter
    <3>3. CASE B.rd # 0
      <4>1. VisibleReg' = [VisibleReg EXCEPT ![B.rd] = B.data]
        BY <2>3, <2>8, <3>1, <3>3, VisibleBehind
      <4>2. Atomic!Compute
        BY <2>5, <2>8, <3>1, <3>3, <4>1 DEF Empty, Atomic!Compute, Atomic!SetReg
      <4> QED
        BY <2>2, <2>5, <2>8, <3>3, <4>2 DEF Empty, Atomic!Perform
    <3> QED
      BY <3>2, <3>3
  <2> QED
    BY <2>3, <2>6, <2>7, <2>8
<1> QED
  BY <1>4, <1>5, <1>6

\* The data path implements the atomic memory: a request is performed as one
\* step, on what the program sees of the registers and on the memory, although
\* a sb reads and writes its word in two cycles and a result reaches the
\* register file a cycle later.
THEOREM DataPathIsAtomic == Spec => MemoryIsAtomic
<1>1. Inv /\ [Next]_<<vars, fetchWires>> => [Atomic!Next]_<<ram, VisibleReg, CurrentRequest>>
  <2> SUFFICES ASSUME Inv, [Next]_<<vars, fetchWires>>
               PROVE  Stutter \/ Atomic!Next
    BY DEF Stutter
  <2>1. CASE UNCHANGED <<vars, fetchWires>>
    <3>1. UNCHANGED <<state, B, C, s_REG_write, GPR, ram, s_MEM_addr, s_MEM_data,
                      sb_in_the_middle, sb_target_data, sb_replace_pos, s_output, s_REG>>
      BY <2>1 DEF vars, memVars, sbVars
    <3> QED
      BY <3>1 DEF Stutter, VisibleReg, Produced, realWriteValue, CurrentRequest, SbByte,
                  Requested, NoRequest
  <2>2. CASE Next
    BY <2>2, Tick0Stutters, Tick1Maps, Tick2Stutters, Tick3Maps DEF Next, Atomic!Next
  <2> QED
    BY <2>1, <2>2
<1> QED
  BY <1>1, InitMaps, Invariant, PTL DEF Spec, MemoryIsAtomic, Atomic!Spec, Atomic!vars
=============================================================================
