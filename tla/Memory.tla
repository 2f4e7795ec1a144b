------------------------------- MODULE Memory -------------------------------
(***************************************************************************)
(* CPU/Memory.vhdl: the memory stage.  s0 latches address and data, s1     *)
(* starts the access, s2 samples the result and hands it back, s3 merges   *)
(* the byte of a sb into the word just read.  A sb takes two cycles: the   *)
(* first reads the word and holds the pipeline, the second writes the      *)
(* merged word.                                                            *)
(*                                                                         *)
(* The two SRAMs are one function ram.  The "io" devices (VGA, digits,     *)
(* LED, Ethernet) accept any write and answer a read with any word; of the *)
(* UART registers this module has the port towards the UART.               *)
(***************************************************************************)
EXTENDS Signals

\* The UART control register answers one of the values 0 .. 3.
ASSUME MemoryAssumption ==
  (\E w \in MemWord : Dev[w] = "uart_ctrl") => 0 .. 3 \subseteq Byte

VARIABLES
  ram,
  s_MEM_addr, s_MEM_data,
  sb_in_the_middle, sb_target_data, sb_replace_pos,
  s_output,            \* what s2 will hand back: the RAM's answer or s_output
  s_REG,               \* s_REG_write, s_REG_write_addr, s_REG_write_byte_only
  UART_DATA_SEND, UART_DATA_SEND_STB,
  uart_send_stb_flag, uart_send_ack_flag,
  UART_DATA_RECV_ACK,
  UART_DATA_SEND_ACK, UART_DATA_RECV, UART_DATA_RECV_STB  \* driven by the UART

sbVars == <<sb_in_the_middle, sb_target_data, sb_replace_pos>>
sendVars == <<UART_DATA_SEND, UART_DATA_SEND_STB, uart_send_stb_flag>>
uartSide == <<uart_send_ack_flag, UART_DATA_SEND_ACK, UART_DATA_RECV,
              UART_DATA_RECV_STB>>
memVars == <<ram, s_MEM_addr, s_MEM_data, sbVars, s_output, s_REG, sendVars,
             UART_DATA_RECV_ACK>>

MemoryTypeOK ==
  /\ ram \in [MemWord -> Word]
  /\ s_MEM_addr \in DataAddr /\ s_MEM_data \in Word
  /\ sb_in_the_middle \in BOOLEAN
  /\ sb_target_data \in Word /\ sb_replace_pos \in Pos
  /\ s_output \in Word
  /\ s_REG \in [rd : Reg, byte : BOOLEAN]
  /\ UART_DATA_SEND \in Byte /\ UART_DATA_SEND_STB \in BOOLEAN
  /\ uart_send_stb_flag \in BOOLEAN /\ uart_send_ack_flag \in BOOLEAN
  /\ UART_DATA_RECV_ACK \in BOOLEAN /\ UART_DATA_SEND_ACK \in BOOLEAN
  /\ UART_DATA_RECV \in Byte /\ UART_DATA_RECV_STB \in BOOLEAN

MemoryInit ==
  /\ ram \in [MemWord -> {ZeroWord}]
  /\ s_MEM_addr = [word |-> CHOOSE w \in MemWord : TRUE, pos |-> LowPos]
  /\ s_MEM_data = ZeroWord
  /\ sb_in_the_middle = FALSE /\ sb_target_data = ZeroWord
  /\ sb_replace_pos = LowPos
  /\ s_output = ZeroWord
  /\ s_REG = [rd |-> 0, byte |-> FALSE]
  /\ UART_DATA_SEND = 0 /\ UART_DATA_SEND_STB = FALSE
  /\ uart_send_stb_flag = FALSE /\ uart_send_ack_flag = FALSE
  /\ UART_DATA_RECV_ACK = FALSE /\ UART_DATA_SEND_ACK = FALSE
  /\ UART_DATA_RECV = 0 /\ UART_DATA_RECV_STB = FALSE
  /\ hold_from_memory = FALSE
  /\ C = [rd |-> 0, byte |-> FALSE, pos |-> LowPos, data |-> ZeroWord]

\* The strobe is lowered once the acknowledge has been counted.
LowerStrobe_Always ==      \* mutant: at the next phase, acknowledged or not
  UART_DATA_SEND_STB' = FALSE
LowerStrobe ==
  UART_DATA_SEND_STB' =
    (UART_DATA_SEND_STB /\ uart_send_ack_flag # uart_send_stb_flag)

KeepSend == UNCHANGED <<UART_DATA_SEND, uart_send_stb_flag>>

Memory_s0 ==
  /\ IF sb_in_the_middle
     THEN s_MEM_data' = sb_target_data /\ s_MEM_addr' = s_MEM_addr
     ELSE s_MEM_data' = B.data /\ s_MEM_addr' = B.addr
  /\ hold_from_memory' = FALSE
  /\ UART_DATA_RECV_ACK' = FALSE
  /\ LowerStrobe /\ KeepSend
  /\ UNCHANGED <<ram, sbVars, s_output, s_REG, C>>

device == Dev[s_MEM_addr.word]

\* Bits 1 and 0 of the UART control register: can read, can write.
ControlWord ==
  LET bit(b, v) == IF b THEN v ELSE 0
  IN [ZeroWord EXCEPT ![LowPos] = bit(UART_DATA_RECV_STB, 2)
                                  + bit(~UART_DATA_SEND_STB, 1)]

FirstHalfOfSb == B.mem = "writeb" /\ ~sb_in_the_middle

StartRead ==
  /\ B.mem = "read" \/ FirstHalfOfSb
  /\ IF FirstHalfOfSb
     THEN /\ sb_in_the_middle' = TRUE /\ hold_from_memory' = TRUE
          /\ sb_replace_pos' = s_MEM_addr.pos
     ELSE UNCHANGED <<sb_in_the_middle, hold_from_memory, sb_replace_pos>>
  /\ CASE device = "uart_ctrl" -> s_output' = ControlWord
       [] device = "uart_data" ->
            s_output' = [ZeroWord EXCEPT ![LowPos] = UART_DATA_RECV]
       [] device = "ram" -> s_output' = ram[s_MEM_addr.word]
       [] device = "io" -> s_output' \in Word
  /\ UART_DATA_RECV_ACK' = (UART_DATA_RECV_ACK \/ device = "uart_data")
  /\ UNCHANGED <<ram, sendVars>>

StartWrite ==
  /\ B.mem = "write" \/ sb_in_the_middle
  /\ ~(B.mem = "read" \/ FirstHalfOfSb)
  /\ sb_in_the_middle' = FALSE
  /\ s_output' = s_MEM_data
  /\ ram' = IF device = "ram" THEN [ram EXCEPT ![s_MEM_addr.word] = s_MEM_data]
            ELSE ram
  /\ IF device = "uart_data"
     THEN /\ UART_DATA_SEND' = s_MEM_data[LowPos]
          /\ UART_DATA_SEND_STB' = TRUE
          /\ uart_send_stb_flag' = ~uart_send_stb_flag
     ELSE UNCHANGED sendVars
  /\ UNCHANGED <<hold_from_memory, sb_replace_pos, UART_DATA_RECV_ACK>>

StartNothing ==
  /\ B.mem = "none" /\ ~sb_in_the_middle
  /\ s_output' = B.data
  /\ UNCHANGED <<ram, hold_from_memory, sb_in_the_middle, sb_replace_pos,
                 sendVars, UART_DATA_RECV_ACK>>

Memory_s1 ==
  /\ StartRead \/ StartWrite \/ StartNothing
  /\ s_REG' = [rd |-> B.rd, byte |-> B.byte]
  /\ UNCHANGED <<s_MEM_addr, s_MEM_data, sb_target_data, C>>

Memory_s2 ==
  /\ C' = [rd |-> s_REG.rd, byte |-> s_REG.byte, pos |-> s_MEM_addr.pos,
           data |-> s_output]
  /\ sb_target_data' = IF sb_in_the_middle THEN s_output ELSE sb_target_data
  /\ LowerStrobe /\ KeepSend
  /\ UNCHANGED <<ram, s_MEM_addr, s_MEM_data, sb_in_the_middle, sb_replace_pos,
                 s_output, s_REG, UART_DATA_RECV_ACK, hold_from_memory>>

\* The toggle clocked by the UART's acknowledge.
CountAck_Never == UNCHANGED uart_send_ack_flag      \* mutant
CountAck ==
  uart_send_ack_flag' =
    IF ~UART_DATA_SEND_ACK /\ UART_DATA_SEND_ACK' THEN ~uart_send_ack_flag
    ELSE uart_send_ack_flag

Merged_AtLow ==       \* mutant: the byte goes to the low position
  [sb_target_data EXCEPT ![LowPos] = s_MEM_data[LowPos]]
Merged == [sb_target_data EXCEPT ![sb_replace_pos] = s_MEM_data[LowPos]]

Memory_s3 ==
  /\ sb_target_data' = IF sb_in_the_middle THEN Merged ELSE sb_target_data
  /\ LowerStrobe /\ KeepSend
  /\ UNCHANGED <<ram, s_MEM_addr, s_MEM_data, sb_in_the_middle, sb_replace_pos,
                 s_output, s_REG, UART_DATA_RECV_ACK, hold_from_memory, C>>

=============================================================================
