-------------------------- MODULE SerialPort_proofs --------------------------
(***************************************************************************)
(* Theorems about the serial port, for bytes of any width, whatever the    *)
(* speed of the line and the phase of the two clocks: every byte the       *)
(* terminal sends is fetched once and in order, and every byte the program *)
(* writes is received once and in order.                                   *)
(***************************************************************************)
EXTENDS SerialPort, SerialLemmas

-----------------------------------------------------------------------------
(* The invariants of the two directions                                    *)

\* The requests of the program: a test, a fetch, a write.
ReadCtrl == Access("read", "uart_ctrl", 0)
ReadData == Access("read", "uart_data", 0)
Write(b) == Access("write", "uart_data", b)

\* What the program has asked for in this cycle, and how far the memory stage is.
Asks ==
  /\ state \in Phase /\ sb_in_the_middle = FALSE
  /\ software \in {"free", "rtest", "wtest", "readable", "writable", "fetching"}
  /\ software \in {"rtest", "wtest"} => B = ReadCtrl
  /\ software = "fetching" => B = ReadData
  /\ software \in {"readable", "writable"} => B = Pause
  /\ software = "free" => B = Pause \/ \E b \in Written : B = Write(b)
  /\ state = "s1" => s_MEM_addr = B.addr /\ s_MEM_data = B.data
  /\ state = "s3" => C.data = s_output
  /\ UART_DATA_RECV_ACK \in BOOLEAN
\* No clock runs ahead of the other.
Clocks == cpuEdges \in 0 .. MaxCpu /\ uartEdges \in 0 .. MaxUart

\* The bits below n.
Bits(n) == 0 .. n - 1
\* Bit hostTx.bit of the frame is sampled next; the receiver has the bits before it.
InFrame ==
  /\ hostTx.mode \in {"idle", "glitch", "sending"}
  /\ hostTx = [mode |-> hostTx.mode, byte |-> hostTx.byte, bit |-> hostTx.bit]
  /\ hostTx.bit \in 0 .. DataBits + 1
  /\ hostTx.mode = "sending" => hostTx.byte \in Typed
  /\ hostTx.mode # "sending" => hostTx = [Quiet EXCEPT !.mode = hostTx.mode]
  /\ UART_DATA_RECV \in Byte /\ UART_DATA_RECV_STB \in BOOLEAN
  /\ hostTx.bit = 0 =>
       uart_rx_state \in {"rx_wait_start_synchronise", "rx_get_start_bit"} /\ uart_rx_count = 0
  /\ hostTx.bit \in 1 .. DataBits =>
       uart_rx_state = "rx_get_data" /\ uart_rx_count = hostTx.bit - 1
  /\ hostTx.bit = DataBits + 1 => uart_rx_state = "rx_get_stop_bit" /\ uart_rx_count = 0
  /\ hostTx.bit # 0 =>
       /\ ~UART_DATA_RECV_STB
       /\ \A i \in Bits(hostTx.bit - 1) :
            UART0!BitOf(UART_DATA_RECV, DataBits - (hostTx.bit - 1) + i)
              = UART0!BitOf(hostTx.byte, i)

\* The three phases of an acknowledge.
Phases == [s2 |-> 0, s3 |-> 1, s0 |-> 2]

\* It falls before the stop bit of the next frame, and not before an edge of the
\* UART's clock has lowered the strobe.
Acknowledged ==
  /\ UART_DATA_RECV_ACK =>
       /\ state \in {"s2", "s3", "s0"}
       /\ hostTx.bit <= Phases[state] * MaxUart + uartEdges
       /\ UART_DATA_RECV_STB => cpuEdges >= Phases[state] + 1
  /\ state \in {"s2", "s3"} => UART_DATA_RECV_ACK = (software = "fetching")

\* A byte that the control word has shown is there until it is fetched.
SeenReadable ==
  /\ software = "readable" => Unread
  /\ software = "fetching" /\ state \in {"s0", "s1"} => Unread
  /\ software = "rtest" /\ state \in {"s2", "s3"} /\ s_output[LowPos] \div 2 = 1 => Unread

\* The inductive invariant of the receiving direction.
ReceiveInv == Asks /\ Clocks /\ InFrame /\ Acknowledged /\ SeenReadable

\* The transmitter with a byte, and how many of its bits have left.
TxBusy == {"wait_for_tick", "send_start_bit", "transmit_data", "send_stop_bit"}
Sent == IF uart_tx_state = "send_stop_bit" THEN DataBits ELSE uart_tx_count
\* A byte is in two parts: n bits at the terminal, the rest in the shift register.
Matches(b, n, r, d) ==
  \A i \in 0 .. DataBits - 1 :
    UART0!BitOf(b, i) = IF i < n THEN r[i + 2] ELSE UART0!BitOf(d, i - n)
Carries(b) == Matches(b, Sent, hostRx, uart_tx_data_block)

\* A frame on its way out holds one byte from its start to its stop bit.
OutFrame ==
  /\ uart_tx_state \in TxBusy \cup {"idle"}
  /\ uart_tx_data_block \in Byte
  /\ uart_tx_count \in 0 .. DataBits - 1
  /\ uart_tx_state # "transmit_data" => uart_tx_count = 0
  /\ uart_tx_state \in {"idle", "wait_for_tick", "send_start_bit"} => hostRx = <<>> /\ TX = 1
  /\ uart_tx_state = "transmit_data" => Len(hostRx) = uart_tx_count + 1
  /\ uart_tx_state = "send_stop_bit" => Len(hostRx) = DataBits + 1
  /\ hostRx \in Seq({0, 1})
  /\ uart_tx_state # "idle" => \E b \in Byte : Carries(b)

\* Edges of the UART's clock since the transmitter has taken its byte, at least.
Taken ==
  CASE uart_tx_state = "wait_for_tick" -> 1
    [] uart_tx_state = "send_start_bit" -> 2
    [] uart_tx_state = "transmit_data" -> 3 + uart_tx_count
    [] uart_tx_state = "send_stop_bit" -> 3 + DataBits
    [] OTHER -> 4 + DataBits

\* The toggles are equal: the byte in the port has been taken.
Same == uart_send_stb_flag = uart_send_ack_flag
\* The strobe of a byte that has been taken is lowered by the next edge of
\* real_clock but one, long before the transmitter looks at it again.
Strobed ==
  /\ UART_DATA_SEND \in Byte
  /\ UART_DATA_SEND_STB \in BOOLEAN /\ UART_DATA_SEND_ACK \in BOOLEAN
  /\ uart_send_stb_flag \in BOOLEAN /\ uart_send_ack_flag \in BOOLEAN
  /\ UART_DATA_SEND_ACK => uart_tx_state = "wait_for_tick"
  /\ ~UART_DATA_SEND_STB => Same
  /\ UART_DATA_SEND_STB /\ Same =>
       Taken <= (IF state = "s2" THEN MaxUart ELSE 0) + uartEdges

\* A free port that the control word has shown is free until the write.
SeenWritable ==
  /\ software = "writable" => ~UART_DATA_SEND_STB
  /\ B.mem = "write" /\ state \in {"s0", "s1"} => ~UART_DATA_SEND_STB
  /\ software = "wtest" /\ state \in {"s2", "s3"} /\ s_output[LowPos] % 2 = 1
       => ~UART_DATA_SEND_STB

\* The inductive invariant of the sending direction.
SendInv == Asks /\ Clocks /\ OutFrame /\ Strobed /\ SeenWritable

-----------------------------------------------------------------------------
(* Bytes and their bits                                                    *)

\* What is known of the constants.
LEMMA Constants ==
  /\ DataBits \in Nat \ {0} /\ DontCare \in {0, 1}
  /\ MaxCpu \in Nat \ {0} /\ MaxUart \in Nat \ {0} /\ MaxCpu <= 3 /\ 3 * MaxUart <= DataBits + 1
  /\ Written \subseteq Byte /\ Typed \subseteq Byte
  /\ 0 \in Byte /\ LowPos \in Pos
BY SerialPortAssumption, ClockAssumption, SignalsAssumption

\* A byte is a number below 2^DataBits.
LEMMA BytesAre == \A b : b \in Byte <=> b \in Nat /\ b < Two(DataBits)
<1>1. Two(DataBits) \in Nat /\ Two(DataBits) = 2 ^ DataBits
  BY Constants, Power DEF Two
<1>2. Byte = 0 .. Two(DataBits) - 1
  BY <1>1, SerialPortAssumption DEF UART0!Data
<1> QED BY <1>1, <1>2

\* A bit of a byte is a digit of a number.
LEMMA BitIsDigit == \A b, i : UART0!BitOf(b, i) = Digit(b, i)
BY DEF UART0!BitOf, Digit

\* A bit is 0 or 1.
LEMMA BitIs == ASSUME NEW b \in Byte, NEW i \in Nat PROVE UART0!BitOf(b, i) \in {0, 1}
<1> DEFINE d == 2 ^ i
           q == b \div d
<1>1. b \in Nat /\ d \in Nat \ {0}
  BY BytesAre, Power
<1>2. q \in Nat
  <2> HIDE DEF d
  <2> QED BY <1>1, Divided
<1>3. q % 2 \in {0, 1}
  <2> HIDE DEF q
  <2> QED BY <1>2
<1> QED BY <1>3 DEF UART0!BitOf

\* The bit that is sent first is the remainder.
LEMMA LowestBit == ASSUME NEW b \in Byte PROVE UART0!BitOf(b, 0) = b % 2 /\ b % 2 \in {0, 1}
<1>1. b \in Nat /\ b \div 1 = b
  BY BytesAre
<1> QED BY <1>1, PowerZero DEF UART0!BitOf

\* shift_right_by_one (UART.vhdl:137-146): a bit comes in at the top, the others move down.
LEMMA ByteShifted ==
  ASSUME NEW b \in Byte, NEW x \in {0, 1}, NEW s, s = UART0!shift_right_by_one(b, x)
  PROVE  /\ s \in Byte
         /\ UART0!BitOf(s, DataBits - 1) = x
         /\ \A i \in Nat : i < DataBits - 1 => UART0!BitOf(s, i) = UART0!BitOf(b, i + 1)
<1> DEFINE n == DataBits - 1
<1>1. n \in Nat /\ n + 1 = DataBits
  BY Constants
<1>2. b \in Nat /\ b < Two(n + 1)
  <2> HIDE DEF n
  <2> QED BY <1>1, BytesAre
<1>3. s = (b \div 2) + x * Two(n)
  BY DEF UART0!shift_right_by_one, Two
<1> HIDE DEF n
<1>4. s \in Nat /\ s < Two(n + 1) /\ Digit(s, n) = x
  BY <1>1, <1>2, <1>3, Shifted
<1>5. s \in Byte
  BY <1>1, <1>4, BytesAre
<1>6. ASSUME NEW i \in Nat, i < n PROVE Digit(s, i) = Digit(b, i + 1)
  BY <1>1, <1>2, <1>3, <1>6, ShiftedOn
<1> QED BY <1>4, <1>5, <1>6, BitIsDigit DEF n

\* Two bytes with the same bits are the same byte.
LEMMA SameBits ==
  ASSUME NEW a \in Byte, NEW b \in Byte,
         \A i \in 0 .. DataBits - 1 : UART0!BitOf(a, i) = UART0!BitOf(b, i)
  PROVE  a = b
<1>1. a \in Nat /\ b \in Nat /\ a < Two(DataBits) /\ b < Two(DataBits)
  BY BytesAre
<1>2. \A i \in Nat : i < DataBits => Digit(a, i) = Digit(b, i)
  BY Constants, BitIsDigit
<1> QED BY <1>1, <1>2, Constants, SameDigits

-----------------------------------------------------------------------------
(* The program and the four phases of the memory stage                     *)

\* The four requests of the program, told apart.
LEMMA Requests ==
  /\ Pause.mem = "none"
  /\ ReadCtrl.mem = "read" /\ Dev[ReadCtrl.addr.word] = "uart_ctrl"
  /\ ReadData.mem = "read" /\ Dev[ReadData.addr.word] = "uart_data"
  /\ \A b : /\ Write(b).mem = "write" /\ Dev[Write(b).addr.word] = "uart_data"
            /\ Write(b).data[LowPos] = b
<1>1. \E w \in MemWord : Dev[w] = "uart_ctrl"
  BY SerialPortAssumption
<1>2. \E w \in MemWord : Dev[w] = "uart_data"
  BY SerialPortAssumption
<1>3. Dev[CHOOSE w \in MemWord : Dev[w] = "uart_ctrl"] = "uart_ctrl"
  BY <1>1
<1>4. Dev[CHOOSE w \in MemWord : Dev[w] = "uart_data"] = "uart_data"
  BY <1>2
<1>5. \A b : [ZeroWord EXCEPT ![LowPos] = b][LowPos] = b
  BY Constants DEF ZeroWord
<1> QED BY <1>3, <1>4, <1>5 DEF Pause, ReadCtrl, ReadData, Write, Access

\* What the program has.
programVars == <<B, software, written, fetched>>

\* s0: the request is latched, the acknowledge falls.
Latches ==
  /\ state = "s0" /\ state' = "s1"
  /\ s_MEM_addr' = B.addr /\ s_MEM_data' = B.data
  /\ UART_DATA_RECV_ACK' = FALSE
  /\ LowerStrobe /\ KeepSend
  /\ UNCHANGED <<programVars, C, s_output, sb_in_the_middle>>

\* s1: the access. A fetch raises the acknowledge, a write the strobe.
Begins ==
  /\ state = "s1" /\ state' = "s2"
  /\ UART_DATA_RECV_ACK' = (UART_DATA_RECV_ACK \/ software = "fetching")
  /\ software = "fetching" => s_output'[LowPos] = UART_DATA_RECV
  /\ software \in {"rtest", "wtest"} => s_output'[LowPos] = ControlWord[LowPos]
  /\ IF B.mem = "write"
     THEN /\ UART_DATA_SEND' = B.data[LowPos] /\ UART_DATA_SEND_STB' = TRUE
          /\ uart_send_stb_flag' = ~uart_send_stb_flag
     ELSE UNCHANGED sendVars
  /\ UNCHANGED <<programVars, C, sb_in_the_middle>>

\* s2: what has been read goes to the program.
HandsBack ==
  /\ state = "s2" /\ state' = "s3"
  /\ C'.data = s_output
  /\ LowerStrobe /\ KeepSend
  /\ UNCHANGED <<programVars, s_output, sb_in_the_middle, UART_DATA_RECV_ACK>>

\* s3: the program goes on.
Ends ==
  /\ state = "s3" /\ state' = "s0"
  /\ LowerStrobe /\ KeepSend /\ Program
  /\ UNCHANGED <<C, s_output, sb_in_the_middle, UART_DATA_RECV_ACK>>

\* What the memory stage is asked for follows from where the program is.
LEMMA Asked ==
  ASSUME Asks
  PROVE  /\ software = "fetching" <=> B.mem = "read" /\ Dev[B.addr.word] = "uart_data"
         /\ software \in {"rtest", "wtest"} <=> B.mem = "read" /\ Dev[B.addr.word] = "uart_ctrl"
         /\ B.mem = "write" => Dev[B.addr.word] = "uart_data" /\ B.data[LowPos] \in Written
         /\ B.mem \in {"none", "read", "write"}
         /\ B.mem = "write" => software = "free"
BY Requests DEF Asks

\* An edge of real_clock is one of the four phases.
LEMMA CpuMoves ==
  ASSUME Asks, Cpu, UART_DATA_RECV_ACK \in BOOLEAN
  PROVE  Latches \/ Begins \/ HandsBack \/ Ends
<1>1. CASE state = "s0"
  <2>1. Memory_s0 /\ state' = "s1" /\ UNCHANGED programVars
    BY <1>1 DEF Cpu, programVars
  <2> QED BY <1>1, <2>1 DEF Latches, Memory_s0, Asks, sbVars
<1>2. CASE state = "s1"
  <2>1. Memory_s1 /\ state' = "s2" /\ UNCHANGED programVars
    BY <1>2 DEF Cpu, programVars
  <2>2. s_MEM_addr = B.addr /\ s_MEM_data = B.data /\ ~sb_in_the_middle
    BY <1>2 DEF Asks
  <2>3. device = Dev[B.addr.word] /\ FirstHalfOfSb = (B.mem = "writeb")
    BY <2>2 DEF device, FirstHalfOfSb
  <2>4. UNCHANGED C
    BY <2>1 DEF Memory_s1
  <2>5. LowPos \in DOMAIN ZeroWord
    BY Constants DEF ZeroWord
  <2>6. CASE B.mem = "none"
    <3>1. StartNothing
      BY <2>1, <2>2, <2>6, <2>3 DEF Memory_s1, StartRead, StartWrite
    <3>2. software \notin {"fetching", "rtest", "wtest"}
      BY <2>6, Asked
    <3> QED BY <1>2, <2>1, <2>2, <2>4, <2>6, <3>1, <3>2 DEF Begins, StartNothing, programVars, sendVars
  <2>7. CASE B.mem = "write"
    <3>1. StartWrite
      BY <2>1, <2>2, <2>3, <2>7 DEF Memory_s1, StartRead, StartNothing
    <3>2. software \notin {"fetching", "rtest", "wtest"} /\ device = "uart_data"
      BY <2>3, <2>7, Asked
    <3>3. /\ UART_DATA_SEND' = B.data[LowPos] /\ UART_DATA_SEND_STB' = TRUE
          /\ uart_send_stb_flag' = ~uart_send_stb_flag
      BY <2>2, <3>1, <3>2 DEF StartWrite
    <3>4. UNCHANGED UART_DATA_RECV_ACK /\ sb_in_the_middle' = FALSE
      BY <3>1 DEF StartWrite
    <3>5. UART_DATA_RECV_ACK' = (UART_DATA_RECV_ACK \/ software = "fetching")
      BY <3>2, <3>4
    <3>6. UNCHANGED sb_in_the_middle
      BY <2>2, <3>4 DEF Asks
    <3> QED BY <1>2, <2>1, <2>4, <2>7, <3>2, <3>3, <3>5, <3>6 DEF Begins, programVars
  <2>8. CASE B.mem = "read"
    <3>1. StartRead /\ ~FirstHalfOfSb
      BY <2>1, <2>2, <2>3, <2>8 DEF Memory_s1, StartWrite, StartNothing
    <3>2. UNCHANGED <<sendVars, sb_in_the_middle>>
      BY <3>1 DEF StartRead
    <3>3. UART_DATA_RECV_ACK' = (UART_DATA_RECV_ACK \/ device = "uart_data")
      BY <3>1 DEF StartRead
    <3>4. device = "uart_data" => s_output'[LowPos] = UART_DATA_RECV
      <4>1. device = "uart_data" => s_output' = [ZeroWord EXCEPT ![LowPos] = UART_DATA_RECV]
        BY <3>1 DEF StartRead
      <4> QED BY <4>1, <2>5
    <3>5. device = "uart_ctrl" => s_output' = ControlWord
      BY <3>1 DEF StartRead
    <3>6. /\ software = "fetching" <=> device = "uart_data"
          /\ software \in {"rtest", "wtest"} <=> device = "uart_ctrl"
      BY <2>3, <2>8, Asked
    <3> QED BY <1>2, <2>1, <2>4, <2>8, <3>2, <3>3, <3>4, <3>5, <3>6 DEF Begins, programVars
  <2> QED BY <2>6, <2>7, <2>8, Asked
<1>3. CASE state = "s2"
  <2>1. Memory_s2 /\ state' = "s3" /\ UNCHANGED programVars
    BY <1>3 DEF Cpu, programVars
  <2> QED BY <1>3, <2>1 DEF HandsBack, Memory_s2
<1>4. CASE state = "s3"
  <2>1. Memory_s3 /\ state' = "s0" /\ Program
    BY <1>4 DEF Cpu
  <2> QED BY <1>4, <2>1 DEF Ends, Memory_s3
<1> QED BY <1>1, <1>2, <1>3, <1>4 DEF Asks, Phase

\* The control word has the strobes the two tests look at.
LEMMA Control ==
  /\ ControlWord[LowPos] \div 2 = 1 => UART_DATA_RECV_STB
  /\ ControlWord[LowPos] % 2 = 1 => ~UART_DATA_SEND_STB
<1>1. ControlWord[LowPos] = (IF UART_DATA_RECV_STB THEN 2 ELSE 0)
                            + (IF ~UART_DATA_SEND_STB THEN 1 ELSE 0)
  BY Constants DEF ControlWord, ZeroWord
<1> QED BY <1>1

\* A phase keeps what the program has asked for.
LEMMA AsksOn ==
  ASSUME Asks, Latches \/ Begins \/ HandsBack \/ Ends
  PROVE  Asks'
<1>1. CASE Latches
  BY <1>1 DEF Latches, Asks, programVars, Phase
<1>2. CASE Begins
  BY <1>2 DEF Begins, Asks, programVars, Phase
<1>3. CASE HandsBack
  BY <1>3 DEF HandsBack, Asks, programVars, Phase
<1>4. CASE Ends
  BY <1>4 DEF Ends, Asks, Phase, Program, ReadCtrl, ReadData, Write
<1> QED BY <1>1, <1>2, <1>3, <1>4

-----------------------------------------------------------------------------
(* The receiver and the terminal that sends                                *)

\* The bit counters count modulo DataBits.
LEMMA Modulo == ASSUME NEW n \in Nat, n < DataBits
  PROVE  (n + 1) % DataBits = IF n = DataBits - 1 THEN 0 ELSE n + 1
<1>1. CASE n = DataBits - 1
  <2>1. n + 1 = DataBits * 1 + 0
    BY <1>1, Constants
  <2> QED BY <1>1, <2>1, Constants, Quotient
<1>2. CASE n # DataBits - 1
  <2>1. n + 1 = DataBits * 0 + (n + 1) /\ n + 1 < DataBits
    BY <1>2, Constants
  <2> QED BY <1>2, <2>1, Constants, Quotient
<1> QED BY <1>1, <1>2

\* The terminal has a frame on the line.
Sending == hostTx.mode = "sending"

\* An edge of the UART's clock for the receiver and the line.
Receives == \E over, sample \in BOOLEAN :
  /\ UART0!UART_RECEIVE_DATA(over, sample, LineBit)
  /\ IF sample THEN over /\ Sampled ELSE HostSends

\* A frame begins.
Puts ==
  /\ ~Sending /\ Sending'
  /\ hostTx'.byte \in Typed /\ typed' = Another(typed, hostTx'.byte)
  /\ hostTx.bit = 0 /\ hostTx'.bit = 0
  /\ UART_DATA_RECV_STB' = Unread /\ UNCHANGED UART_DATA_RECV

\* A frame goes on, or there is none.
GoesOn ==
  /\ Sending' = Sending /\ (Sending => hostTx'.byte = hostTx.byte) /\ UNCHANGED typed
  /\ hostTx'.bit \in {hostTx.bit, hostTx.bit + 1}
  /\ UART_DATA_RECV_STB' = Unread
  /\ Unread => hostTx'.bit = 0 /\ UNCHANGED UART_DATA_RECV

\* It has ended.
Stops ==
  /\ Sending /\ ~Sending' /\ UNCHANGED typed
  /\ hostTx.bit = DataBits + 1 /\ hostTx'.bit = 0
  /\ ~UART_DATA_RECV_STB /\ UART_DATA_RECV_STB'
  /\ UART_DATA_RECV' = hostTx.byte

\* What an edge of real_clock alone leaves as it is.
rxState == <<uart_rx_state, uart_rx_count, UART_DATA_RECV, UART_DATA_RECV_STB>>

\* An edge without the sample tick: the line may fall, the frame stays where it is.
LEMMA Waits ==
  ASSUME InFrame, UART_DATA_RECV_ACK \in BOOLEAN, HostSends,
         NEW over \in BOOLEAN, UART0!UART_RECEIVE_DATA(over, FALSE, LineBit)
  PROVE  InFrame' /\ (Puts \/ GoesOn)
<1>1. UNCHANGED <<UART_DATA_RECV, uart_rx_count>> /\ UART_DATA_RECV_STB' \in BOOLEAN
  BY DEF UART0!UART_RECEIVE_DATA, UART0!WaitStart, UART0!GetStartBit, UART0!GetData,
         UART0!GetStopBit, UART0!Unfetched, InFrame
<1>2. UART_DATA_RECV_STB' = Unread
  BY Constants DEF UART0!UART_RECEIVE_DATA, UART0!WaitStart, UART0!GetStartBit, UART0!GetData,
         UART0!GetStopBit, UART0!Unfetched, InFrame, Unread
<1>3. \/ uart_rx_state' = uart_rx_state
      \/ uart_rx_state = "rx_wait_start_synchronise" /\ uart_rx_state' = "rx_get_start_bit"
  BY DEF UART0!UART_RECEIVE_DATA, UART0!WaitStart, UART0!GetStartBit, UART0!GetData,
         UART0!GetStopBit, UART0!Unfetched, InFrame
<1>4. hostTx.bit = 0 => uart_rx_state' \in {"rx_wait_start_synchronise", "rx_get_start_bit"}
  BY <1>3 DEF InFrame
<1>5. hostTx.bit # 0 => ~Unread /\ uart_rx_state' = uart_rx_state
  BY <1>3, Constants DEF InFrame, Unread
<1>6. CASE UNCHANGED <<hostTx, typed>>
  <2>1. GoesOn
    BY <1>1, <1>2, <1>5, <1>6 DEF GoesOn, Sending
  <2>2. InFrame'
    <3>1. LineBit' = LineBit
      BY <1>6 DEF LineBit
    <3> QED BY <1>1, <1>2, <1>3, <1>4, <1>5, <1>6 DEF InFrame, UART0!BitOf
  <2> QED BY <2>1, <2>2
<1>7. CASE /\ hostTx.mode # "sending" /\ UNCHANGED typed
            /\ hostTx' = [Quiet EXCEPT !.mode = hostTx'.mode]
            /\ hostTx'.mode \in {"idle", "glitch"}
  <2>1. hostTx.bit = 0 /\ hostTx'.bit = 0 /\ hostTx'.byte = 0
    BY <1>7 DEF InFrame, Quiet
  <2>2. GoesOn
    BY <1>1, <1>2, <1>7, <2>1 DEF GoesOn, Sending
  <2>3. InFrame'
    BY <1>1, <1>4, <1>7, <2>1, Constants DEF InFrame, Quiet
  <2> QED BY <2>2, <2>3
<1>8. CASE \E b \in Typed : /\ hostTx.mode = "idle"
                            /\ hostTx' = [mode |-> "sending", byte |-> b, bit |-> 0]
                            /\ typed' = Another(typed, b)
  <2>1. hostTx.bit = 0
    BY <1>8 DEF InFrame, Quiet
  <2>2. Puts
    BY <1>1, <1>2, <1>8, <2>1 DEF Puts, Sending
  <2>3. InFrame'
    BY <1>1, <1>4, <1>8, <2>1, Constants DEF InFrame
  <2> QED BY <2>2, <2>3
<1> QED BY <1>6, <1>7, <1>8 DEF HostSends, Quiet

\* An edge with the sample tick: the receiver is one bit further in the frame.
LEMMA Samples ==
  ASSUME InFrame, UART_DATA_RECV_ACK \in BOOLEAN, Sampled,
         UART0!UART_RECEIVE_DATA(TRUE, TRUE, LineBit)
  PROVE  InFrame' /\ (GoesOn \/ Stops)
<1>1. /\ hostTx.mode \in {"idle", "sending"} /\ UNCHANGED typed
      /\ uart_rx_state # "rx_wait_start_synchronise"
  BY DEF Sampled, InFrame
<1>2. CASE hostTx.mode = "idle"
  <2>1. hostTx.bit = 0 /\ UNCHANGED hostTx /\ uart_rx_state = "rx_get_start_bit" /\ LineBit = 1
    BY <1>1, <1>2 DEF InFrame, Quiet, Sampled, LineBit
  <2>2. UART0!GetStartBit(TRUE, 1)
    BY <2>1 DEF UART0!UART_RECEIVE_DATA, UART0!WaitStart, UART0!GetData, UART0!GetStopBit
  <2>3. /\ UNCHANGED <<UART_DATA_RECV, uart_rx_count>> /\ UART_DATA_RECV_STB' = Unread
        /\ uart_rx_state' = "rx_wait_start_synchronise"
    BY <2>2 DEF UART0!GetStartBit, UART0!Unfetched, Unread
  <2>4. GoesOn
    BY <1>1, <2>1, <2>3 DEF GoesOn, Sending
  <2>5. UART_DATA_RECV_STB' \in BOOLEAN
    BY <2>3 DEF InFrame, Unread
  <2>6. InFrame'
    BY <1>2, <2>1, <2>3, <2>5, Constants DEF InFrame
  <2> QED BY <2>4, <2>6
<1>3. CASE hostTx.mode = "sending" /\ hostTx.bit = 0
  <2>1. uart_rx_state = "rx_get_start_bit" /\ LineBit = 0 /\ ~Unread
    BY <1>1, <1>3 DEF InFrame, Sampled, LineBit
  <2>2. UART0!GetStartBit(TRUE, 0)
    BY <2>1 DEF UART0!UART_RECEIVE_DATA, UART0!WaitStart, UART0!GetData, UART0!GetStopBit
  <2>3. /\ UNCHANGED <<UART_DATA_RECV, uart_rx_count>> /\ UART_DATA_RECV_STB' = FALSE
        /\ uart_rx_state' = "rx_get_data"
    BY <2>2 DEF UART0!GetStartBit
  <2>4. hostTx' = [hostTx EXCEPT !.bit = 1]
    BY <1>3, Constants DEF Sampled
  <2>5. hostTx'.mode = "sending" /\ hostTx'.byte = hostTx.byte /\ hostTx'.bit = 1
        /\ hostTx' = [mode |-> hostTx'.mode, byte |-> hostTx'.byte, bit |-> hostTx'.bit]
    BY <1>3, <2>4 DEF InFrame
  <2>6. GoesOn
    <3>1. UART_DATA_RECV_STB' = Unread
      BY <2>1, <2>3 DEF Unread
    <3>2. Sending' = Sending /\ hostTx'.bit \in {hostTx.bit, hostTx.bit + 1}
      BY <1>3, <2>5 DEF Sending
    <3> QED BY <1>1, <2>1, <2>5, <3>1, <3>2 DEF GoesOn
  <2>7. InFrame'
    <3>1. hostTx'.bit \in 0 .. DataBits + 1 /\ hostTx'.bit # 0 /\ hostTx'.bit # DataBits + 1
          /\ uart_rx_count' = hostTx'.bit - 1
      BY <1>3, <2>3, <2>5, Constants DEF InFrame
    <3>2. hostTx'.byte \in Typed /\ UART_DATA_RECV' \in Byte
      BY <1>3, <2>3, <2>5 DEF InFrame
    <3>3. Bits(hostTx'.bit - 1) = {}
      BY <2>5 DEF Bits
    <3> QED BY <2>3, <2>5, <3>1, <3>2, <3>3 DEF InFrame
  <2> QED BY <2>6, <2>7
<1>4. CASE hostTx.mode = "sending" /\ hostTx.bit \in 1 .. DataBits
  <2> DEFINE k == hostTx.bit
             x == UART0!BitOf(hostTx.byte, k - 1)
  <2>1. /\ uart_rx_state = "rx_get_data" /\ uart_rx_count = k - 1 /\ ~UART_DATA_RECV_STB
        /\ LineBit = x /\ hostTx.byte \in Byte /\ k \in Nat /\ k >= 1 /\ k <= DataBits
    BY <1>4, Constants DEF InFrame, LineBit
  <2>2. UART0!GetData(TRUE, x)
    BY <2>1 DEF UART0!UART_RECEIVE_DATA, UART0!WaitStart, UART0!GetStartBit, UART0!GetStopBit
  <2>3. /\ UART_DATA_RECV' = UART0!shift_right_by_one(UART_DATA_RECV, x)
        /\ uart_rx_state' = IF k = DataBits THEN "rx_get_stop_bit" ELSE "rx_get_data"
        /\ uart_rx_count' = k % DataBits
        /\ UART_DATA_RECV_STB' = FALSE
    BY <2>1, <2>2, Constants DEF UART0!GetData, UART0!LastBit, InFrame
  <2>4. x \in {0, 1} /\ UART_DATA_RECV \in Byte
    BY <2>1, BitIs DEF InFrame
  <2> HIDE DEF x
  <2>5. /\ UART_DATA_RECV' \in Byte
        /\ UART0!BitOf(UART_DATA_RECV', DataBits - 1) = x
        /\ \A i \in Nat : i < DataBits - 1 =>
             UART0!BitOf(UART_DATA_RECV', i) = UART0!BitOf(UART_DATA_RECV, i + 1)
    BY <2>3, <2>4, ByteShifted
  <2>6. hostTx' = [hostTx EXCEPT !.bit = k + 1]
    BY <1>4, <2>1, Constants DEF Sampled
  <2>7. hostTx'.mode = "sending" /\ hostTx'.byte = hostTx.byte /\ hostTx'.bit = k + 1
        /\ hostTx' = [mode |-> hostTx'.mode, byte |-> hostTx'.byte, bit |-> hostTx'.bit]
    BY <1>4, <2>6 DEF InFrame
  <2>8. ASSUME NEW i \in Bits(k)
        PROVE  UART0!BitOf(UART_DATA_RECV', DataBits - k + i) = UART0!BitOf(hostTx.byte, i)
    <3>1. CASE i = k - 1
      <4>1. DataBits - k + i = DataBits - 1
        BY <2>1, <3>1, Constants
      <4> QED BY <2>5, <3>1, <4>1 DEF x
    <3>2. CASE i # k - 1
      <4>1. i \in Bits(k - 1) /\ DataBits - k + i \in Nat /\ DataBits - k + i < DataBits - 1
            /\ (DataBits - k + i) + 1 = DataBits - (k - 1) + i
        BY <2>1, <3>2, Constants DEF Bits
      <4>2. UART0!BitOf(UART_DATA_RECV, DataBits - (k - 1) + i) = UART0!BitOf(hostTx.byte, i)
        BY <2>1, <4>1 DEF InFrame
      <4>3. UART0!BitOf(UART_DATA_RECV', DataBits - k + i)
              = UART0!BitOf(UART_DATA_RECV, (DataBits - k + i) + 1)
        BY <2>5, <4>1
      <4> QED BY <4>1, <4>2, <4>3
    <3> QED BY <3>1, <3>2
  <2>9. k % DataBits = IF k = DataBits THEN 0 ELSE k
    <3>1. k - 1 \in Nat /\ k - 1 < DataBits /\ (k - 1) + 1 = k
      BY <2>1, Constants
    <3> QED BY <3>1, <2>1, Constants, Modulo
  <2>10. GoesOn
    BY <1>1, <1>4, <2>1, <2>3, <2>7 DEF GoesOn, Sending, Unread
  <2>11. InFrame'
    <3>1. hostTx'.bit - 1 = k /\ hostTx'.bit \in 1 .. DataBits + 1 /\ hostTx'.bit # 0
      BY <2>1, <2>7, Constants
    <3>2. hostTx'.bit \in 1 .. DataBits => uart_rx_state' = "rx_get_data" /\ uart_rx_count' = k
      BY <2>1, <2>3, <2>7, <2>9, Constants
    <3>3. hostTx'.bit = DataBits + 1 => uart_rx_state' = "rx_get_stop_bit" /\ uart_rx_count' = 0
      BY <2>1, <2>3, <2>7, <2>9, Constants
    <3>4. hostTx'.byte \in Typed
      BY <1>4, <2>7 DEF InFrame
    <3>5. \A i \in Bits(hostTx'.bit - 1) :
            UART0!BitOf(UART_DATA_RECV', DataBits - (hostTx'.bit - 1) + i) = UART0!BitOf(hostTx'.byte, i)
      <4> HIDE DEF k
      <4> QED BY <2>7, <2>8, <3>1
    <3> HIDE DEF k
    <3>6. hostTx'.bit \in 0 .. DataBits + 1
      BY <3>1, Constants
    <3>7. UART_DATA_RECV_STB' \in BOOLEAN /\ ~UART_DATA_RECV_STB'
      BY <2>3
    <3> QED BY <2>5, <2>7, <3>1, <3>2, <3>3, <3>4, <3>5, <3>6, <3>7 DEF InFrame
  <2> QED BY <2>10, <2>11
<1>5. CASE hostTx.mode = "sending" /\ hostTx.bit = DataBits + 1
  <2>1. uart_rx_state = "rx_get_stop_bit" /\ ~UART_DATA_RECV_STB /\ LineBit = 1 /\ uart_rx_count = 0
    BY <1>5, Constants DEF InFrame, LineBit
  <2>2. UART0!GetStopBit(TRUE, 1)
    BY <2>1 DEF UART0!UART_RECEIVE_DATA, UART0!WaitStart, UART0!GetStartBit, UART0!GetData
  <2>3. /\ UNCHANGED <<UART_DATA_RECV, uart_rx_count>> /\ UART_DATA_RECV_STB' = TRUE
        /\ uart_rx_state' = "rx_wait_start_synchronise"
    BY <2>2 DEF UART0!GetStopBit, InFrame
  <2>4. UART_DATA_RECV = hostTx.byte
    <3>1. hostTx.bit - 1 = DataBits /\ hostTx.bit # 0 /\ hostTx.byte \in Byte /\ UART_DATA_RECV \in Byte
      BY <1>5, Constants DEF InFrame
    <3>2. \A i \in Bits(DataBits) :
            UART0!BitOf(UART_DATA_RECV, DataBits - DataBits + i) = UART0!BitOf(hostTx.byte, i)
      BY <3>1 DEF InFrame
    <3>3. ASSUME NEW i \in 0 .. DataBits - 1
          PROVE  UART0!BitOf(UART_DATA_RECV, i) = UART0!BitOf(hostTx.byte, i)
      <4>1. i \in Bits(DataBits) /\ DataBits - DataBits + i = i
        BY Constants DEF Bits
      <4> QED BY <3>2, <4>1
    <3> QED BY <3>1, <3>3, SameBits
  <2>5. hostTx' = Quiet
    BY <1>5 DEF Sampled
  <2>6. Stops
    BY <1>1, <1>5, <2>1, <2>3, <2>4, <2>5 DEF Stops, Sending, Quiet
  <2>7. InFrame'
    BY <2>1, <2>3, <2>5, Constants DEF InFrame, Quiet
  <2> QED BY <2>6, <2>7
<1> QED BY <1>1, <1>2, <1>3, <1>4, <1>5, Constants DEF InFrame

-----------------------------------------------------------------------------
(* Every step, seen from the receiver                                      *)

\* An edge of one clock or of both, as Next counts them.
OnlyCpu == cpuEdges < MaxCpu /\ cpuEdges' = cpuEdges + 1 /\ uartEdges' = 0
OnlyUart == uartEdges < MaxUart /\ uartEdges' = uartEdges + 1 /\ cpuEdges' = 0
BothClocks == cpuEdges' = 1 /\ uartEdges' = 1
NoClock == UNCHANGED <<cpuEdges, uartEdges>>

\* real_clock has an edge, or not.
CpuStep == Latches \/ Begins \/ HandsBack \/ Ends
CpuStill == UNCHANGED <<state, programVars, C, s_output, sb_in_the_middle, s_MEM_addr,
                        s_MEM_data, UART_DATA_RECV_ACK, sendVars>>

\* The UART's clock has an edge, or not.
LineStep == Puts \/ GoesOn \/ Stops
Rests == UNCHANGED <<hostTx, typed, rxState>>

\* Without an edge of real_clock nothing of it moves.
LEMMA AsksStill == ASSUME Asks, CpuStill PROVE Asks'
BY DEF Asks, CpuStill, programVars

\* The clocks stay within their bounds.
LEMMA Ticks ==
  ASSUME Clocks, OnlyCpu \/ OnlyUart \/ BothClocks \/ NoClock
  PROVE  Clocks'
BY Constants DEF Clocks, OnlyCpu, OnlyUart, BothClocks, NoClock

\* An edge of the UART's clock, seen from the receiver.
LEMMA LineMoves ==
  ASSUME InFrame, UART_DATA_RECV_ACK \in BOOLEAN, NEW baud, Uart(baud)
  PROVE  InFrame' /\ LineStep
<1>1. CASE \E over \in BOOLEAN : UART0!UART_RECEIVE_DATA(over, FALSE, LineBit) /\ HostSends
  BY <1>1, Waits DEF LineStep
<1>2. CASE UART0!UART_RECEIVE_DATA(TRUE, TRUE, LineBit) /\ Sampled
  BY <1>2, Samples DEF LineStep
<1> QED BY <1>1, <1>2 DEF Uart

\* A step, seen from the receiver.
ReceiveStep ==
  \/ OnlyCpu /\ CpuStep /\ Rests
  \/ OnlyUart /\ CpuStill /\ LineStep
  \/ BothClocks /\ CpuStep /\ LineStep
  \/ NoClock /\ CpuStill /\ Rests

\* Every step, seen from the receiver.
LEMMA ReceiveSteps ==
  ASSUME ReceiveInv, [Next]_vars
  PROVE  ReceiveStep /\ Asks' /\ Clocks' /\ InFrame'
<1>1. Asks /\ Clocks /\ InFrame /\ UART_DATA_RECV_ACK \in BOOLEAN
  BY DEF ReceiveInv, Asks, Acknowledged
<1>2. ASSUME UNCHANGED <<uartVars, lineVars>> PROVE Rests /\ InFrame'
  <2>1. Rests
    BY <1>2 DEF uartVars, lineVars, Rests, uartSide, rxState
  <2> QED BY <1>1, <2>1 DEF Rests, rxState, InFrame, UART0!BitOf
<1>3. ASSUME UNCHANGED cpuVars PROVE CpuStill
  BY <1>3 DEF cpuVars, CpuStill, programVars, memVars, sbVars, sendVars
<1>4. CASE CpuEdge
  <2>1. OnlyCpu /\ Cpu /\ UNCHANGED <<uartVars, lineVars>>
    BY <1>4 DEF CpuEdge, OnlyCpu
  <2>2. CpuStep /\ Asks'
    BY <1>1, <2>1, CpuMoves, AsksOn DEF CpuStep
  <2> QED BY <1>1, <1>2, <2>1, <2>2, Ticks DEF ReceiveStep
<1>5. CASE \E baud \in BOOLEAN : UartEdge(baud)
  <2>1. PICK baud \in BOOLEAN : OnlyUart /\ Uart(baud) /\ UNCHANGED cpuVars
    BY <1>5 DEF UartEdge, OnlyUart
  <2>2. CpuStill /\ Asks'
    BY <1>1, <1>3, <2>1, AsksStill
  <2>3. LineStep /\ InFrame'
    BY <1>1, <2>1, LineMoves
  <2> QED BY <1>1, <2>1, <2>2, <2>3, Ticks DEF ReceiveStep
<1>6. CASE \E baud \in BOOLEAN : BothEdges(baud)
  <2>1. PICK baud \in BOOLEAN : BothClocks /\ Uart(baud) /\ Cpu
    BY <1>6 DEF BothEdges, BothClocks
  <2>2. CpuStep /\ Asks'
    BY <1>1, <2>1, CpuMoves, AsksOn DEF CpuStep
  <2>3. LineStep /\ InFrame'
    BY <1>1, <2>1, LineMoves
  <2> QED BY <1>1, <2>1, <2>2, <2>3, Ticks DEF ReceiveStep
<1>7. CASE UNCHANGED vars
  <2>1. NoClock /\ UNCHANGED cpuVars /\ UNCHANGED <<uartVars, lineVars>>
    BY <1>7 DEF vars, NoClock, uartVars
  <2> QED BY <1>1, <1>2, <1>3, <2>1, AsksStill, Ticks DEF ReceiveStep
<1> QED BY <1>4, <1>5, <1>6, <1>7 DEF Next

\* A stop bit under an acknowledge: only at its very end.
LEMMA NoStopUnderAck ==
  ASSUME Acknowledged, Clocks, Stops, UART_DATA_RECV_ACK
  PROVE  state = "s0" /\ uartEdges = MaxUart
<1>1. /\ DataBits + 1 <= Phases[state] * MaxUart + uartEdges
      /\ state \in {"s2", "s3", "s0"} /\ uartEdges \in Nat /\ uartEdges <= MaxUart
  BY Constants DEF Acknowledged, Clocks, Stops
<1>2. Phases["s2"] = 0 /\ Phases["s3"] = 1 /\ Phases["s0"] = 2
  BY DEF Phases
<1>3. /\ 0 * MaxUart = 0 /\ 1 * MaxUart = MaxUart /\ 2 * MaxUart = MaxUart + MaxUart
      /\ 3 * MaxUart = MaxUart + MaxUart + MaxUart
  BY Constants
<1> QED BY <1>1, <1>2, <1>3, Constants

\* The access that fetches the byte.
Fetches == Begins /\ software = "fetching"

\* The byte in the receiver is there until it is fetched.
LEMMA UnreadOn ==
  ASSUME ReceiveInv, ReceiveStep
  PROVE  /\ Unread' = ((Unread /\ ~Fetches) \/ Stops)
         /\ Stops => ~Unread /\ ~Fetches
         /\ Fetches => Unread
         /\ Unread => UNCHANGED UART_DATA_RECV
<1>1. UART_DATA_RECV_ACK \in BOOLEAN /\ UART_DATA_RECV_STB \in BOOLEAN /\ Acknowledged /\ Clocks
  BY DEF ReceiveInv, Asks, InFrame, Acknowledged
<1>2. Fetches => Unread
  BY DEF ReceiveInv, SeenReadable, Fetches, Begins
<1>3. Stops => ~Unread
  BY DEF Stops, Unread
<1>4. Begins => ~UART_DATA_RECV_ACK
  BY <1>1 DEF Begins, Acknowledged
<1>5. state \in {"s2", "s3"} => UART_DATA_RECV_ACK = (software = "fetching")
  BY <1>1 DEF Acknowledged
<1>6. CASE OnlyCpu /\ CpuStep /\ Rests
  <2>1. UNCHANGED <<UART_DATA_RECV, UART_DATA_RECV_STB>> /\ ~Stops
    BY <1>6 DEF Rests, rxState, Stops, Sending
  <2>2. CASE Latches
    <3>1. ~(UART_DATA_RECV_ACK /\ UART_DATA_RECV_STB)
      <4>1. UART_DATA_RECV_ACK /\ UART_DATA_RECV_STB => cpuEdges >= Phases["s0"] + 1
        BY <1>1, <2>2 DEF Acknowledged, Latches
      <4> QED BY <1>1, <1>6, <4>1, Constants DEF Phases, Clocks, OnlyCpu
    <3>2. UART_DATA_RECV_ACK' = FALSE /\ ~Fetches
      BY <2>2 DEF Latches, Fetches, Begins
    <3> QED BY <1>1, <1>2, <1>3, <2>1, <3>1, <3>2 DEF Unread
  <2>3. CASE Begins
    <3>1. UART_DATA_RECV_ACK' = (software = "fetching") /\ Fetches = (software = "fetching")
      BY <1>1, <1>4, <2>3 DEF Begins, Fetches
    <3> QED BY <1>1, <1>2, <1>3, <1>4, <2>1, <2>3, <3>1 DEF Unread
  <2>4. CASE HandsBack \/ Ends
    <3>1. UNCHANGED UART_DATA_RECV_ACK /\ ~Fetches
      BY <2>4 DEF HandsBack, Ends, Fetches, Begins
    <3> QED BY <1>1, <1>2, <1>3, <2>1, <3>1 DEF Unread
  <2> QED BY <1>6, <2>2, <2>3, <2>4 DEF CpuStep
<1>7. ASSUME LineStep PROVE /\ ~Stops => UART_DATA_RECV_STB' = Unread
                            /\ Stops => UART_DATA_RECV_STB'
                            /\ Unread => UNCHANGED UART_DATA_RECV
  BY <1>3, <1>7 DEF LineStep, Puts, GoesOn, Stops, Unread
<1>8. CASE OnlyUart /\ CpuStill /\ LineStep
  <2>1. UNCHANGED UART_DATA_RECV_ACK /\ ~Fetches
    BY <1>8 DEF CpuStill, Fetches, Begins
  <2>2. Stops => ~UART_DATA_RECV_ACK
    BY <1>1, <1>8, NoStopUnderAck, Constants DEF OnlyUart, Clocks
  <2> QED BY <1>1, <1>2, <1>3, <1>7, <1>8, <2>1, <2>2 DEF Unread
<1>9. CASE BothClocks /\ CpuStep /\ LineStep
  <2>1. CASE Latches
    <3>1. UART_DATA_RECV_ACK' = FALSE /\ ~Fetches
      BY <2>1 DEF Latches, Fetches, Begins
    <3> QED BY <1>1, <1>2, <1>3, <1>7, <1>9, <3>1 DEF Unread
  <2>2. CASE Begins
    <3>1. UART_DATA_RECV_ACK' = (software = "fetching") /\ Fetches = (software = "fetching")
      BY <1>1, <1>4, <2>2 DEF Begins, Fetches
    <3>2. Stops => ~Fetches
      BY <1>2, <1>3
    <3> QED BY <1>1, <1>2, <1>3, <1>7, <1>9, <3>1, <3>2 DEF Unread
  <2>3. CASE HandsBack \/ Ends
    <3>1. UNCHANGED UART_DATA_RECV_ACK /\ ~Fetches
      BY <2>3 DEF HandsBack, Ends, Fetches, Begins
    <3>2. Stops => ~UART_DATA_RECV_ACK
      BY <1>1, <2>3, NoStopUnderAck DEF HandsBack, Ends
    <3> QED BY <1>1, <1>2, <1>3, <1>7, <1>9, <3>1, <3>2 DEF Unread
  <2> QED BY <1>9, <2>1, <2>2, <2>3 DEF CpuStep
<1>10. CASE NoClock /\ CpuStill /\ Rests
  <2>1. UNCHANGED <<UART_DATA_RECV, UART_DATA_RECV_STB, UART_DATA_RECV_ACK>> /\ ~Stops /\ ~Fetches
    BY <1>10 DEF Rests, rxState, Stops, Sending, CpuStill, Fetches, Begins
  <2> QED BY <1>1, <1>2, <1>3, <2>1 DEF Unread
<1> QED BY <1>6, <1>8, <1>9, <1>10 DEF ReceiveStep

-----------------------------------------------------------------------------
(* The invariant of the receiver                                           *)

\* The acknowledge stays ahead of the next frame.
LEMMA AcknowledgedOn ==
  ASSUME ReceiveInv, ReceiveStep, InFrame'
  PROVE  Acknowledged'
<1>1. UART_DATA_RECV_ACK \in BOOLEAN /\ UART_DATA_RECV_STB \in BOOLEAN /\ Acknowledged /\ Clocks
  BY DEF ReceiveInv, Asks, InFrame, Acknowledged
<1>2. hostTx.bit \in Nat /\ (UART_DATA_RECV_STB => hostTx.bit = 0)
  BY Constants DEF ReceiveInv, InFrame
<1>3. Fetches => Unread
  BY DEF ReceiveInv, SeenReadable, Fetches, Begins
<1>4. Rests \/ LineStep
  BY DEF ReceiveStep
<1>5. Rests => hostTx' = hostTx /\ UART_DATA_RECV_STB' = UART_DATA_RECV_STB
  BY DEF Rests, rxState
<1>6. LineStep => /\ hostTx'.bit \in Nat /\ hostTx'.bit <= hostTx.bit + 1
                  /\ UART_DATA_RECV_STB' /\ ~Stops => Unread
                  /\ Unread => hostTx'.bit = 0
  <2>1. CASE Puts
    BY <1>2, <2>1 DEF Puts
  <2>2. CASE GoesOn
    <3>1. hostTx'.bit \in {hostTx.bit, hostTx.bit + 1} /\ UART_DATA_RECV_STB' = Unread
          /\ (Unread => hostTx'.bit = 0)
      BY <2>2 DEF GoesOn
    <3> QED BY <1>2, <3>1
  <2>3. CASE Stops
    BY <1>2, <2>3, Constants DEF Stops, Unread
  <2> QED BY <2>1, <2>2, <2>3 DEF LineStep
<1>7. /\ Phases["s2"] = 0 /\ Phases["s3"] = 1 /\ Phases["s0"] = 2
      /\ 0 * MaxUart = 0 /\ 1 * MaxUart = MaxUart
      /\ 2 * MaxUart = MaxUart + MaxUart /\ MaxUart \in Nat /\ MaxUart >= 1
  BY Constants DEF Phases
<1>8. cpuEdges \in Nat /\ uartEdges \in Nat /\ uartEdges <= MaxUart
  BY <1>1, Constants DEF Clocks
<1>9. CASE Latches
  BY <1>9 DEF Latches, Acknowledged
<1>10. CASE Begins
  <2>1. ~UART_DATA_RECV_ACK /\ state' = "s2" /\ UART_DATA_RECV_ACK' = (software = "fetching")
        /\ software' = software /\ (CpuStill => FALSE)
    BY <1>1, <1>10 DEF Acknowledged, Begins, programVars, CpuStill
  <2>2. CASE ~UART_DATA_RECV_ACK'
    BY <2>1, <2>2 DEF Acknowledged
  <2>3. CASE UART_DATA_RECV_ACK'
    <3>1. Unread /\ hostTx.bit = 0
      BY <1>2, <1>3, <1>10, <2>1, <2>3 DEF Fetches, Unread
    <3>2. hostTx'.bit = 0
      BY <1>4, <1>5, <1>6, <3>1
    <3>3. cpuEdges' >= 1 /\ uartEdges' \in Nat
      BY <1>8, <2>1 DEF ReceiveStep, OnlyCpu, BothClocks
    <3> QED BY <1>7, <2>1, <3>2, <3>3 DEF Acknowledged
  <2> QED BY <2>2, <2>3
<1>11. CASE HandsBack \/ Ends \/ CpuStill
  <2>1. UNCHANGED UART_DATA_RECV_ACK
    BY <1>11 DEF HandsBack, Ends, CpuStill
  <2>2. state' \in {"s2", "s3"} => UART_DATA_RECV_ACK' = (software' = "fetching")
    BY <1>1, <1>11, <2>1 DEF HandsBack, Ends, CpuStill, Acknowledged, programVars
  <2>3. CASE ~UART_DATA_RECV_ACK
    BY <1>1, <2>1, <2>2, <2>3 DEF Acknowledged
  <2>4. CASE UART_DATA_RECV_ACK
    <3>1. /\ state \in {"s2", "s3", "s0"}
          /\ hostTx.bit <= Phases[state] * MaxUart + uartEdges
          /\ UART_DATA_RECV_STB => cpuEdges >= Phases[state] + 1
          /\ ~Unread
      BY <1>1, <2>4 DEF Acknowledged, Unread
    <3>2. CASE CpuStill
      <4>1. state' = state
        BY <3>2 DEF CpuStill
      <4>2. ~(OnlyCpu /\ CpuStep) /\ ~(BothClocks /\ CpuStep)
        BY <3>2 DEF CpuStill, CpuStep, Latches, Begins, HandsBack, Ends
      <4>3. CASE OnlyUart /\ LineStep
        <5>1. ~Stops
          BY <1>1, <1>8, <2>4, <4>3, NoStopUnderAck DEF OnlyUart
        <5>2. ~UART_DATA_RECV_STB'
          BY <1>6, <3>1, <4>3, <5>1
        <5>3. hostTx'.bit <= Phases[state] * MaxUart + uartEdges'
          BY <1>2, <1>6, <1>7, <1>8, <3>1, <4>3 DEF OnlyUart
        <5> QED BY <2>1, <2>2, <3>1, <4>1, <5>2, <5>3, <2>4, <1>1 DEF Acknowledged
      <4>4. CASE NoClock /\ Rests
        BY <1>1, <1>5, <2>1, <2>2, <3>1, <4>1, <4>4 DEF Acknowledged, NoClock
      <4> QED BY <4>2, <4>3, <4>4 DEF ReceiveStep
    <3>3. CASE HandsBack \/ Ends
      <4>1. \/ state = "s2" /\ state' = "s3"
            \/ state = "s3" /\ state' = "s0"
        BY <3>3 DEF HandsBack, Ends
      <4>2. Phases[state'] = Phases[state] + 1 /\ Phases[state'] * MaxUart = Phases[state] * MaxUart + MaxUart
            /\ Phases[state] * MaxUart \in Nat /\ Phases[state] \in Nat
        <5>1. CASE state = "s2" /\ state' = "s3"
          BY <1>7, <5>1
        <5>2. CASE state = "s3" /\ state' = "s0"
          BY <1>7, <5>2
        <5> QED BY <4>1, <5>1, <5>2
      <4>3. ~CpuStill
        BY <4>1 DEF CpuStill
      <4>4. CASE OnlyCpu /\ Rests
        <5> DEFINE p == Phases[state] * MaxUart
        <5>1. hostTx'.bit <= Phases[state'] * MaxUart + uartEdges'
          <6>1. hostTx'.bit <= p + uartEdges /\ Phases[state'] * MaxUart = p + MaxUart
                /\ p \in Nat /\ uartEdges' = 0 /\ hostTx'.bit \in Nat
            BY <1>2, <1>5, <3>1, <4>2, <4>4 DEF OnlyCpu
          <6> HIDE DEF p
          <6> QED BY <6>1, <1>7, <1>8
        <5>2. UART_DATA_RECV_STB' => cpuEdges' >= Phases[state'] + 1
          <6>1. UART_DATA_RECV_STB' => cpuEdges >= Phases[state] + 1
            BY <1>5, <3>1, <4>4
          <6>2. cpuEdges' = cpuEdges + 1
            BY <4>4 DEF OnlyCpu
          <6> QED BY <6>1, <6>2, <1>8, <4>2
        <5> QED BY <1>1, <2>1, <2>2, <4>1, <5>1, <5>2 DEF Acknowledged
      <4>5. CASE BothClocks /\ LineStep
        <5>1. ~Stops
          BY <1>1, <2>4, <4>1, NoStopUnderAck
        <5>2. ~UART_DATA_RECV_STB'
          BY <1>6, <3>1, <4>5, <5>1
        <5>3. hostTx'.bit <= Phases[state'] * MaxUart + uartEdges'
          BY <1>2, <1>6, <1>7, <1>8, <3>1, <4>2, <4>5 DEF BothClocks
        <5> QED BY <1>1, <2>1, <2>2, <4>1, <5>2, <5>3 DEF Acknowledged
      <4> QED BY <4>3, <4>4, <4>5 DEF ReceiveStep
    <3> QED BY <1>11, <3>2, <3>3
  <2> QED BY <1>1, <2>3, <2>4
<1> QED BY <1>9, <1>10, <1>11 DEF ReceiveStep, CpuStep

\* What the program has seen of the receiver stays true until it fetches.
LEMMA SeenReadableOn ==
  ASSUME ReceiveInv, ReceiveStep
  PROVE  SeenReadable'
<1>1. SeenReadable /\ Asks /\ UART_DATA_RECV_ACK \in BOOLEAN
  BY DEF ReceiveInv, Asks, Acknowledged
<1>2. Unread /\ ~Fetches => Unread'
  BY UnreadOn
<1>3. CASE Latches
  <2>1. UNCHANGED <<software, s_output>> /\ state = "s0" /\ state' = "s1" /\ ~Fetches
    BY <1>3 DEF Latches, programVars, Fetches, Begins
  <2> QED BY <1>1, <1>2, <2>1 DEF SeenReadable
<1>4. CASE Begins
  <2>1. UNCHANGED software /\ state = "s1" /\ state' = "s2"
    BY <1>4 DEF Begins, programVars
  <2>2. CASE software = "rtest" /\ s_output'[LowPos] \div 2 = 1
    <3>1. UART_DATA_RECV_STB
      BY <1>4, <2>2, Control DEF Begins
    <3>2. ~UART_DATA_RECV_ACK
      BY <2>1 DEF ReceiveInv, Acknowledged
    <3>3. Unread'
      BY <1>2, <2>2, <3>1, <3>2 DEF Unread, Fetches
    <3> QED BY <2>1, <2>2, <3>3 DEF SeenReadable
  <2>3. CASE ~(software = "rtest" /\ s_output'[LowPos] \div 2 = 1)
    BY <1>1, <1>2, <2>1, <2>3 DEF SeenReadable, Fetches
  <2> QED BY <2>2, <2>3
<1>5. CASE HandsBack
  <2>1. UNCHANGED <<software, s_output>> /\ state = "s2" /\ state' = "s3" /\ ~Fetches
    BY <1>5 DEF HandsBack, programVars, Fetches, Begins
  <2> QED BY <1>1, <1>2, <2>1 DEF SeenReadable
<1>6. CASE Ends
  <2>1. state = "s3" /\ state' = "s0" /\ ~Fetches /\ C.data = s_output
    BY <1>1, <1>6 DEF Ends, Fetches, Begins, Asks
  <2>2. software' = "readable" => Unread
    BY <1>1, <1>6, <2>1 DEF Ends, Program, SeenReadable, CanRead, answer
  <2>3. software' = "fetching" => Unread
    BY <1>1, <1>6, <2>1 DEF Ends, Program, SeenReadable
  <2> QED BY <1>2, <2>1, <2>2, <2>3 DEF SeenReadable
<1>7. CASE CpuStill
  <2>1. UNCHANGED <<software, s_output, state>> /\ ~Fetches
    BY <1>7 DEF CpuStill, programVars, Fetches, Begins
  <2> QED BY <1>1, <1>2, <2>1 DEF SeenReadable
<1> QED BY <1>3, <1>4, <1>5, <1>6, <1>7 DEF ReceiveStep, CpuStep

-----------------------------------------------------------------------------
(* Every byte is fetched once                                              *)

\* The program has got the byte when the memory stage has read it.
LEMMA DeliveredOn ==
  ASSUME ReceiveInv, ReceiveStep
  PROVE  Delivered' = IF Fetches THEN Another(Delivered, UART_DATA_RECV) ELSE Delivered
<1>1. CASE Latches
  <2>1. UNCHANGED <<software, fetched>> /\ state = "s0" /\ state' = "s1"
    BY <1>1 DEF Latches, programVars
  <2> QED BY <2>1 DEF Delivered, Fetches, Begins
<1>2. CASE Begins
  <2>1. UNCHANGED <<software, fetched>> /\ state = "s1" /\ state' = "s2"
    BY <1>2 DEF Begins, programVars
  <2>2. Fetches => s_output'[LowPos] = UART_DATA_RECV
    BY DEF Fetches, Begins
  <2> QED BY <1>2, <2>1, <2>2 DEF Delivered, Fetches, Another
<1>3. CASE HandsBack
  <2>1. UNCHANGED <<software, fetched, s_output>> /\ state = "s2" /\ state' = "s3"
    BY <1>3 DEF HandsBack, programVars
  <2> QED BY <2>1 DEF Delivered, Fetches, Begins, Another
<1>4. CASE Ends
  <2>1. state = "s3" /\ state' = "s0" /\ C.data = s_output /\ ~Fetches
    BY <1>4 DEF Ends, Fetches, Begins, ReceiveInv, Asks
  <2>2. fetched' = IF software = "fetching" THEN Another(fetched, s_output[LowPos]) ELSE fetched
    BY <1>4, <2>1 DEF Ends, Program, answer
  <2> QED BY <2>1, <2>2 DEF Delivered
<1>5. CASE CpuStill
  <2>1. UNCHANGED <<software, fetched, s_output, state>>
    BY <1>5 DEF CpuStill, programVars
  <2>2. ~Fetches
    BY <1>5 DEF CpuStill, Fetches, Begins
  <2> QED BY <2>1, <2>2 DEF Delivered, Another
<1> QED BY <1>1, <1>2, <1>3, <1>4, <1>5 DEF ReceiveStep, CpuStep

InQueue == (IF Unread THEN <<UART_DATA_RECV>> ELSE <<>>)
           \o (IF hostTx.mode = "sending" THEN <<hostTx.byte>> ELSE <<>>)

\* The bytes on their way in: at most one in the receiver, one on the line.
LEMMA InQueueIs ==
  InQueue = IF Unread THEN IF Sending THEN <<UART_DATA_RECV, hostTx.byte>> ELSE <<UART_DATA_RECV>>
            ELSE IF Sending THEN <<hostTx.byte>> ELSE <<>>
BY Joined DEF InQueue, Sending

\* ... and after the step.
LEMMA InQueueIsNow ==
  InQueue' = IF Unread' THEN IF Sending' THEN <<UART_DATA_RECV', hostTx'.byte>> ELSE <<UART_DATA_RECV'>>
            ELSE IF Sending' THEN <<hostTx'.byte>> ELSE <<>>
BY Joined DEF InQueue, Sending

\* Every step is one of the channel, or none.
LEMMA Fetched ==
  ASSUME ReceiveInv, ReceiveStep
  PROVE  Incoming!Next \/ UNCHANGED <<typed, InQueue, Delivered>>
<1> USE DEF Incoming!Next, Incoming!Put, Incoming!Get, Incoming!PutAndGet, Incoming!Enter,
            Incoming!Leave, Another
<1>1. /\ Unread' = ((Unread /\ ~Fetches) \/ Stops)
      /\ Stops => ~Unread /\ ~Fetches
      /\ Fetches => Unread
      /\ Unread => UNCHANGED UART_DATA_RECV
  BY UnreadOn
<1>2. Delivered' = IF Fetches THEN Another(Delivered, UART_DATA_RECV) ELSE Delivered
  BY DeliveredOn
<1>3. Unread \in BOOLEAN
  BY DEF ReceiveInv, Asks, InFrame, Acknowledged, Unread
<1>4. CASE Puts
  <2>1. /\ ~Sending /\ Sending' /\ hostTx'.byte \in Typed /\ ~Stops
        /\ typed' = Another(typed, hostTx'.byte)
    BY <1>4 DEF Puts, Stops
  <2>2. CASE Fetches
    <3>1. InQueue = <<UART_DATA_RECV>> /\ InQueue' = <<hostTx'.byte>>
      BY <1>1, <1>3, <2>1, <2>2, InQueueIs, InQueueIsNow
    <3>2. Incoming!PutAndGet
      <4>1. InQueue # <<>> /\ InQueue' = Append(Tail(InQueue), hostTx'.byte)
            /\ Head(InQueue) = UART_DATA_RECV
        BY <3>1, Joined
      <4> QED BY <1>2, <2>1, <2>2, <4>1 DEF InQueue
    <3> QED BY <3>2
  <2>3. CASE ~Fetches
    <3>1. InQueue' = Append(InQueue, hostTx'.byte) /\ Len(InQueue) < 2
      <4>1. CASE Unread
        <5>1. InQueue = <<UART_DATA_RECV>> /\ InQueue' = <<UART_DATA_RECV, hostTx'.byte>>
          BY <1>1, <2>1, <2>3, <4>1, InQueueIs, InQueueIsNow
        <5> QED BY <5>1, Joined
      <4>2. CASE ~Unread
        <5>1. InQueue = <<>> /\ InQueue' = <<hostTx'.byte>>
          BY <1>1, <2>1, <2>3, <4>2, InQueueIs, InQueueIsNow
        <5> QED BY <5>1, Joined
      <4> QED BY <4>1, <4>2
    <3>2. Incoming!Put
      BY <1>2, <2>1, <2>3, <3>1 DEF InQueue
    <3> QED BY <3>2
  <2> QED BY <2>2, <2>3
<1>5. CASE GoesOn \/ Rests
  <2>1. Sending' = Sending /\ (Sending => hostTx'.byte = hostTx.byte) /\ UNCHANGED typed /\ ~Stops
    BY <1>5 DEF GoesOn, Rests, Sending, Stops
  <2>2. CASE Fetches
    <3>1. Unread /\ ~Unread' /\ Sending \in BOOLEAN
      BY <1>1, <2>1, <2>2 DEF Sending
    <3>2. InQueue # <<>> /\ InQueue' = Tail(InQueue) /\ Head(InQueue) = UART_DATA_RECV
      <4>1. CASE Sending
        <5>1. InQueue = <<UART_DATA_RECV, hostTx.byte>> /\ InQueue' = <<hostTx.byte>>
          BY <3>1, <2>1, <4>1, InQueueIs, InQueueIsNow
        <5> QED BY <5>1, Joined
      <4>2. CASE ~Sending
        <5>1. InQueue = <<UART_DATA_RECV>> /\ InQueue' = <<>>
          BY <3>1, <2>1, <4>2, InQueueIs, InQueueIsNow
        <5> QED BY <5>1, Joined
      <4> QED BY <4>1, <4>2
    <3>3. Incoming!Get
      BY <1>2, <2>1, <2>2, <3>2 DEF InQueue
    <3> QED BY <3>3
  <2>3. CASE ~Fetches
    <3>1. Unread' = Unread
      BY <1>1, <1>3, <2>1, <2>3
    <3>2. UNCHANGED InQueue
      BY <1>1, <2>1, <3>1, InQueueIs, InQueueIsNow
    <3> QED BY <1>2, <2>1, <2>3, <3>2
  <2> QED BY <2>2, <2>3
<1>6. CASE Stops
  <2>1. ~Unread /\ ~Fetches /\ Unread' /\ Sending /\ ~Sending' /\ UNCHANGED typed
        /\ UART_DATA_RECV' = hostTx.byte
    BY <1>1, <1>6 DEF Stops
  <2>2. UNCHANGED InQueue
    BY <2>1, InQueueIs, InQueueIsNow
  <2> QED BY <1>2, <2>1, <2>2
<1> QED BY <1>4, <1>5, <1>6 DEF ReceiveStep, LineStep

\* The receiver at the start.
LEMMA ReceiveInit == ASSUME Init PROVE ReceiveInv /\ Incoming!Init
<1>1. /\ state = "s0" /\ B = Pause /\ software = "free" /\ sb_in_the_middle = FALSE
      /\ cpuEdges = 0 /\ uartEdges = 0 /\ hostTx = Quiet /\ fetched = NoByte /\ typed = NoByte
      /\ UART_DATA_RECV_ACK = FALSE /\ UART_DATA_RECV_STB = FALSE /\ UART_DATA_RECV = 0
      /\ uart_rx_state = "rx_wait_start_synchronise" /\ uart_rx_count = 0
  BY DEF Init, MemoryInit, UART0!UARTInit
<1>2. Asks /\ Clocks
  <2>1. UART_DATA_RECV_ACK \in BOOLEAN
    BY <1>1
  <2>2. Clocks
    BY <1>1, Constants DEF Clocks
  <2> QED BY <1>1, <2>1, <2>2 DEF Asks, Phase
<1>3. InFrame
  <2>1. hostTx.mode = "idle" /\ hostTx.byte = 0 /\ hostTx.bit = 0
        /\ hostTx = [mode |-> "idle", byte |-> 0, bit |-> 0]
        /\ hostTx = [Quiet EXCEPT !.mode = "idle"]
    BY <1>1 DEF Quiet
  <2>2. 0 \in 0 .. DataBits + 1 /\ 0 \notin 1 .. DataBits /\ DataBits + 1 # 0
    BY Constants
  <2> QED BY <1>1, <2>1, <2>2, Constants DEF InFrame
<1>4. Acknowledged /\ SeenReadable
  BY <1>1 DEF Acknowledged, SeenReadable
<1>5. InQueue = <<>> /\ Delivered = fetched
  BY <1>1, InQueueIs DEF Unread, Sending, Quiet, Delivered
<1> QED BY <1>1, <1>2, <1>3, <1>4, <1>5 DEF ReceiveInv, Incoming!Init, InQueue, NoByte

\* FetchedOnce, for bytes of any width: every byte the terminal sends is fetched
\* once and in order, whatever the speed of the line and the phase of the clocks.
\* An acknowledge stands for three phases: the UART has seen it when it falls,
\* and it has fallen when the next stop bit could raise the strobe
\* (Memory.vhdl:156,185-189, UART.vhdl:324-329,346-351,360,395-412).
THEOREM EveryByteIsFetchedOnce == Spec => FetchedOnce
<1>1. Init => ReceiveInv /\ Incoming!Init
  BY ReceiveInit
<1>2. ReceiveInv /\ [Next]_vars => ReceiveInv'
  BY ReceiveSteps, AcknowledgedOn, SeenReadableOn DEF ReceiveInv
<1>3. ReceiveInv /\ [Next]_vars => [Incoming!Next]_<<typed, InQueue, Delivered>>
  BY ReceiveSteps, Fetched
<1>4. ReceiveInv /\ [Next]_vars =>
        [Incoming!Next]_<<typed, (IF Unread THEN <<UART_DATA_RECV>> ELSE <<>>)
           \o (IF hostTx.mode = "sending" THEN <<hostTx.byte>> ELSE <<>>), Delivered>>
  BY <1>3 DEF InQueue
<1> QED BY <1>1, <1>2, <1>4, PTL DEF Spec, FetchedOnce, Incoming!Spec

-----------------------------------------------------------------------------
(* The transmitter and the terminal that receives                          *)

Matched(n, r, d) == CHOOSE b \in Byte : Matches(b, n, r, d)

\* There is one byte with given bits.
LEMMA MatchedIs ==
  ASSUME NEW b \in Byte, NEW n, NEW r, NEW d, Matches(b, n, r, d)
  PROVE  Matched(n, r, d) = b
<1> DEFINE c == Matched(n, r, d)
<1>1. c \in Byte /\ Matches(c, n, r, d)
  BY DEF Matched
<1> HIDE DEF c
<1>2. \A i \in 0 .. DataBits - 1 : UART0!BitOf(c, i) = UART0!BitOf(b, i)
  BY <1>1 DEF Matches
<1>3. c = b
  BY <1>1, <1>2, SameBits
<1> QED BY <1>3 DEF c

\* The byte in the transmitter, by its bits.
LEMMA InTransmitterIs ==
  /\ InTransmitter = Matched(Sent, hostRx, uart_tx_data_block)
  /\ InTransmitter' = Matched(Sent', hostRx', uart_tx_data_block')
BY DEF InTransmitter, Matched, Matches, Sent, UART0!BitOf

\* The byte in the transmitter is the one whose bits it carries.
LEMMA Carried ==
  /\ \A b \in Byte : Carries(b) => InTransmitter = b
  /\ \A b \in Byte : Carries(b)' => InTransmitter' = b
<1>1. ASSUME NEW b \in Byte, Carries(b) PROVE InTransmitter = b
  BY <1>1, MatchedIs, InTransmitterIs DEF Carries
<1>2. ASSUME NEW b \in Byte, Carries(b)' PROVE InTransmitter' = b
  <2>1. Matches(b, Sent', hostRx', uart_tx_data_block')
    BY <1>2 DEF Carries, Matches, UART0!BitOf
  <2> QED BY <2>1, MatchedIs, InTransmitterIs
<1> QED BY <1>1, <1>2

\* Carries(b) after a step.
CarriesNow(b) == Matches(b, Sent', hostRx', uart_tx_data_block')
\* Carries after a step.
LEMMA CarriedOn == \A b : Carries(b)' = CarriesNow(b)
BY DEF Carries, CarriesNow, Matches, UART0!BitOf

\* Nothing is in the transmitter.
TxIdle == uart_tx_state = "idle"

\* The transmitter takes the byte in the port.
Takes ==
  /\ TxIdle /\ uart_tx_state' = "wait_for_tick"
  /\ UART_DATA_SEND_STB /\ UART_DATA_SEND_ACK' = TRUE
  /\ uart_send_ack_flag' = ~uart_send_ack_flag
  /\ InTransmitter' = UART_DATA_SEND /\ UNCHANGED shown

\* It goes on with it, or waits.
Transmits ==
  /\ TxIdle' = TxIdle /\ ~(TxIdle /\ UART_DATA_SEND_STB)
  /\ UNCHANGED <<uart_send_ack_flag, shown>> /\ UART_DATA_SEND_ACK' = FALSE
  /\ ~TxIdle => InTransmitter' = InTransmitter
  /\ Taken' <= Taken + 1

\* The terminal has it.
Finishes ==
  /\ ~TxIdle /\ TxIdle'
  /\ UNCHANGED uart_send_ack_flag /\ UART_DATA_SEND_ACK' = FALSE
  /\ shown' = Another(shown, InTransmitter)
  /\ Taken' <= Taken + 1

\* An edge of the UART's clock for the transmitter and the line.
Transmitter(baud) ==
  /\ UART0!UART_SEND_DATA(baud)
  /\ IF baud THEN HostReceives ELSE UNCHANGED <<shown, hostRx>>
  /\ CountAck

\* The types of the port's handshake.
Flags ==
  /\ UART_DATA_SEND \in Byte /\ UART_DATA_SEND_STB \in BOOLEAN /\ UART_DATA_SEND_ACK \in BOOLEAN
  /\ uart_send_ack_flag \in BOOLEAN /\ (UART_DATA_SEND_ACK => uart_tx_state = "wait_for_tick")

\* An edge has passed.
LEMMA TakenIs ==
  ASSUME OutFrame PROVE Taken \in Nat /\ Taken >= 1
BY Constants DEF OutFrame, Taken, TxBusy

\* ... and after the step.
LEMMA TakenIsNow ==
  ASSUME OutFrame' PROVE Taken' \in Nat
BY Constants DEF OutFrame, Taken, TxBusy

\* Nothing is shifted: the states before the start bit has left.
LEMMA TxWaits ==
  ASSUME OutFrame, Flags, NEW baud \in BOOLEAN, Transmitter(baud),
         uart_tx_state \in {"idle", "wait_for_tick"} \/ ~baud
  PROVE  OutFrame' /\ (Takes \/ Transmits)
<1>1. UNCHANGED <<TX, uart_tx_count>>
  BY DEF Transmitter, UART0!UART_SEND_DATA, UART0!Idle, UART0!WaitForTick, UART0!SendStartBit,
     UART0!TransmitData, UART0!SendStopBit
<1>2. UNCHANGED <<hostRx, shown>>
  <2>1. CASE ~baud
    BY <2>1 DEF Transmitter
  <2>2. CASE baud
    BY <1>1, <2>2 DEF Transmitter, HostReceives, OutFrame
  <2> QED BY <2>1, <2>2
<1>3. CASE TxIdle /\ UART_DATA_SEND_STB
  <2>1. /\ uart_tx_data_block' = UART_DATA_SEND /\ uart_tx_state' = "wait_for_tick"
        /\ UART_DATA_SEND_ACK' = TRUE
    BY <1>3 DEF TxIdle, Transmitter, UART0!UART_SEND_DATA, UART0!Idle, UART0!WaitForTick,
       UART0!SendStartBit, UART0!TransmitData, UART0!SendStopBit, Flags
  <2>2. uart_send_ack_flag' = ~uart_send_ack_flag
    BY <1>3, <2>1 DEF Transmitter, CountAck, Flags, TxIdle
  <2>3. Sent' = 0
    BY <1>1, <1>3, <2>1 DEF Sent, OutFrame, TxIdle
  <2>4. CarriesNow(UART_DATA_SEND)
    <3>1. ASSUME NEW i \in 0 .. DataBits - 1
          PROVE  UART0!BitOf(UART_DATA_SEND, i) =
                   IF i < Sent' THEN (hostRx')[i + 2] ELSE UART0!BitOf(uart_tx_data_block', i - Sent')
      <4>1. ~(i < Sent') /\ i - Sent' = i
        BY <2>3
      <4> QED BY <2>1, <4>1
    <3> QED BY <3>1 DEF CarriesNow, Matches
  <2>5. InTransmitter' = UART_DATA_SEND
    BY <2>4, Carried, CarriedOn DEF Flags
  <2>6. OutFrame'
    <3>1. \E b \in Byte : Carries(b)'
      BY <2>4, CarriedOn DEF Flags
    <3> QED BY <1>1, <1>2, <1>3, <2>1, <3>1 DEF OutFrame, Flags, TxBusy, TxIdle
  <2>7. Takes
    BY <1>2, <1>3, <2>1, <2>2, <2>5 DEF Takes
  <2> QED BY <2>6, <2>7
<1>4. CASE ~(TxIdle /\ UART_DATA_SEND_STB)
  <2>1. /\ UNCHANGED uart_tx_data_block /\ UART_DATA_SEND_ACK' = FALSE
        /\ \/ UNCHANGED uart_tx_state
           \/ uart_tx_state = "wait_for_tick" /\ uart_tx_state' = "send_start_bit"
    BY <1>4 DEF TxIdle, Transmitter, UART0!UART_SEND_DATA, UART0!Idle, UART0!WaitForTick,
       UART0!SendStartBit, UART0!TransmitData, UART0!SendStopBit, Flags
  <2>2. UNCHANGED uart_send_ack_flag
    BY <2>1 DEF Transmitter, CountAck
  <2>3. UNCHANGED Sent
    BY <1>1, <2>1 DEF Sent
  <2>4. \A b : Carries(b)' = Carries(b)
    BY <1>2, <2>1, <2>3, CarriedOn DEF CarriesNow, Carries
  <2>5. UNCHANGED InTransmitter
    BY <1>2, <2>1, <2>3, InTransmitterIs
  <2>6. OutFrame'
    BY <1>1, <1>2, <2>1, <2>4 DEF OutFrame, TxBusy
  <2>7. Taken' <= Taken + 1
    <3>1. CASE UNCHANGED uart_tx_state
      <4>1. Taken' = Taken
        BY <1>1, <3>1 DEF Taken
      <4> QED BY <4>1, TakenIs
    <3>2. CASE uart_tx_state = "wait_for_tick" /\ uart_tx_state' = "send_start_bit"
      BY <3>2 DEF Taken
    <3> QED BY <2>1, <3>1, <3>2
  <2>8. Transmits
    BY <1>2, <1>4, <2>1, <2>2, <2>5, <2>7 DEF Transmits, TxIdle
  <2> QED BY <2>6, <2>8
<1> QED BY <1>3, <1>4

\* The start bit.
LEMMA StartBitLeaves ==
  ASSUME OutFrame, Flags, Transmitter(TRUE), uart_tx_state = "send_start_bit"
  PROVE  OutFrame' /\ Transmits
<1>1. /\ TX' = 0 /\ uart_tx_state' = "transmit_data" /\ UART_DATA_SEND_ACK' = FALSE
      /\ UNCHANGED <<uart_tx_data_block, uart_tx_count>>
  BY DEF Transmitter, UART0!UART_SEND_DATA, UART0!Idle, UART0!WaitForTick, UART0!SendStartBit,
     UART0!TransmitData, UART0!SendStopBit
<1>2. hostRx = <<>> /\ hostRx' = <<0>> /\ UNCHANGED shown
  BY <1>1 DEF Transmitter, HostReceives, OutFrame
<1>3. Sent = 0 /\ Sent' = 0 /\ uart_tx_count = 0
  BY <1>1 DEF Sent, OutFrame
<1>4. ASSUME NEW b, Carries(b) PROVE CarriesNow(b)
  <2>1. \A i \in 0 .. DataBits - 1 : ~(i < Sent) /\ ~(i < Sent')
    BY <1>3
  <2> QED BY <1>1, <1>3, <1>4, <2>1 DEF Carries, CarriesNow, Matches
<1>5. PICK b \in Byte : Carries(b)
  BY DEF OutFrame
<1>6. InTransmitter' = InTransmitter /\ Carries(b)'
  BY <1>4, <1>5, Carried, CarriedOn
<1>7. OutFrame'
  <2>1. hostRx' \in Seq({0, 1}) /\ Len(hostRx') = 1
    BY <1>2
  <2> QED BY <1>1, <1>2, <1>3, <1>6, <2>1 DEF OutFrame, TxBusy
<1>8. Taken' <= Taken + 1
  BY <1>1, <1>3 DEF Taken
<1>9. UNCHANGED uart_send_ack_flag
  BY <1>1 DEF Transmitter, CountAck
<1> QED BY <1>1, <1>2, <1>6, <1>7, <1>8, <1>9 DEF Transmits, TxIdle

\* A bit goes from the shift register to the terminal: the byte is the same.
LEMMA BitLeaves ==
  ASSUME OutFrame, Flags, Transmitter(TRUE), uart_tx_state = "transmit_data"
  PROVE  OutFrame' /\ Transmits
<1> DEFINE n == uart_tx_count
           last == n = DataBits - 1
           d == uart_tx_data_block
<1>1. /\ n \in Nat /\ n < DataBits /\ n <= DataBits - 1 /\ d \in Byte
      /\ Len(hostRx) = n + 1 /\ hostRx \in Seq({0, 1})
  BY Constants DEF OutFrame
<1>2. /\ TX' = d % 2 /\ uart_tx_data_block' = UART0!shift_right_by_one(d, DontCare)
      /\ uart_tx_state' = IF last THEN "send_stop_bit" ELSE "transmit_data"
      /\ uart_tx_count' = (n + 1) % DataBits /\ UART_DATA_SEND_ACK' = FALSE
  BY DEF Transmitter, UART0!UART_SEND_DATA, UART0!Idle, UART0!WaitForTick, UART0!SendStartBit,
     UART0!TransmitData, UART0!SendStopBit, UART0!LastBit
<1>3. TX' = UART0!BitOf(d, 0) /\ TX' \in {0, 1}
  BY <1>1, <1>2, LowestBit
<1>4. hostRx' = Append(hostRx, TX') /\ UNCHANGED shown
  <2>1. hostRx # <<>> /\ Len(hostRx) <= DataBits
    BY <1>1, Constants
  <2> QED BY <2>1 DEF Transmitter, HostReceives
<1> HIDE DEF d, n
<1>5. /\ hostRx' \in Seq({0, 1}) /\ Len(hostRx') = n + 2
      /\ \A i \in 1 .. n + 1 : (hostRx')[i] = hostRx[i]
      /\ (hostRx')[n + 2] = TX'
  BY <1>1, <1>3, <1>4, AppendProperties
<1>6. /\ uart_tx_data_block' \in Byte
      /\ \A i \in Nat : i < DataBits - 1 => UART0!BitOf(uart_tx_data_block', i) = UART0!BitOf(d, i + 1)
  BY <1>1, <1>2, ByteShifted, Constants
<1>7. uart_tx_count' = IF last THEN 0 ELSE n + 1
  BY <1>1, <1>2, Modulo
<1>8. Sent = n /\ Sent' = n + 1
  <2>1. Sent = n
    BY DEF Sent, n
  <2>2. CASE last
    BY <1>1, <1>2, <2>1, <2>2, Constants DEF Sent
  <2>3. CASE ~last
    BY <1>1, <1>2, <1>7, <2>1, <2>3, Constants DEF Sent
  <2> QED BY <2>1, <2>2, <2>3
<1>9. ASSUME NEW b, Carries(b) PROVE CarriesNow(b)
  <2> SUFFICES ASSUME NEW i \in 0 .. DataBits - 1
               PROVE  UART0!BitOf(b, i) = IF i < n + 1 THEN (hostRx')[i + 2]
                                          ELSE UART0!BitOf(uart_tx_data_block', i - (n + 1))
    BY <1>8 DEF CarriesNow, Matches
  <2>1. UART0!BitOf(b, i) = IF i < n THEN hostRx[i + 2] ELSE UART0!BitOf(d, i - n)
    BY <1>8, <1>9 DEF Carries, Matches, d
  <2>2. CASE i < n
    <3>1. i + 2 \in 1 .. n + 1 /\ i < n + 1
      BY <1>1, <2>2
    <3> QED BY <1>5, <2>1, <2>2, <3>1
  <2>3. CASE i = n
    <3>1. i - n = 0 /\ ~(i < n) /\ i < n + 1 /\ i + 2 = n + 2
      BY <1>1, <2>3
    <3> QED BY <1>3, <1>5, <2>1, <3>1
  <2>4. CASE i > n
    <3>1. i - (n + 1) \in Nat /\ i - (n + 1) < DataBits - 1 /\ (i - (n + 1)) + 1 = i - n
          /\ ~(i < n) /\ ~(i < n + 1)
      BY <1>1, <2>4, Constants
    <3> QED BY <1>6, <2>1, <3>1
  <2> QED BY <1>1, <2>2, <2>3, <2>4
<1>10. PICK b \in Byte : Carries(b)
  BY DEF OutFrame
<1>11. InTransmitter' = InTransmitter /\ Carries(b)'
  BY <1>9, <1>10, Carried, CarriedOn
<1>12. OutFrame'
  <2>1. CASE last
    <3>1. uart_tx_state' = "send_stop_bit" /\ uart_tx_count' = 0 /\ Len(hostRx') = DataBits + 1
      BY <1>1, <1>2, <1>5, <1>7, <2>1, Constants
    <3>2. 0 \in 0 .. DataBits - 1
      BY Constants
    <3> QED BY <1>5, <1>6, <1>11, <3>1, <3>2 DEF OutFrame, TxBusy
  <2>2. CASE ~last
    <3>1. uart_tx_state' = "transmit_data" /\ uart_tx_count' = n + 1 /\ Len(hostRx') = (n + 1) + 1
          /\ n + 1 \in 0 .. DataBits - 1
      BY <1>1, <1>2, <1>5, <1>7, <2>2, Constants
    <3> QED BY <1>5, <1>6, <1>11, <3>1 DEF OutFrame, TxBusy
  <2> QED BY <2>1, <2>2
<1>13. Taken' <= Taken + 1
  <2>1. Taken = 3 + n
    BY DEF Taken, n
  <2>2. CASE last
    BY <1>1, <1>2, <2>1, <2>2, Constants DEF Taken
  <2>3. CASE ~last
    BY <1>1, <1>2, <1>7, <2>1, <2>3, Constants DEF Taken
  <2> QED BY <2>2, <2>3
<1>14. UNCHANGED uart_send_ack_flag
  BY <1>2 DEF Transmitter, CountAck
<1>15. uart_tx_state' # "idle"
  BY <1>2
<1> QED BY <1>2, <1>4, <1>11, <1>12, <1>13, <1>14, <1>15 DEF Transmits, TxIdle

\* The stop bit: the terminal has the byte.
LEMMA StopBitLeaves ==
  ASSUME OutFrame, Flags, Transmitter(TRUE), uart_tx_state = "send_stop_bit"
  PROVE  OutFrame' /\ Finishes
<1>1. /\ TX' = 1 /\ uart_tx_state' = "idle" /\ UART_DATA_SEND_ACK' = FALSE
      /\ UNCHANGED <<uart_tx_data_block, uart_tx_count>>
  BY DEF Transmitter, UART0!UART_SEND_DATA, UART0!Idle, UART0!WaitForTick, UART0!SendStartBit,
     UART0!TransmitData, UART0!SendStopBit
<1>2. hostRx # <<>> /\ ~(Len(hostRx) <= DataBits)
  BY Constants DEF OutFrame
<1>3. /\ hostRx' = <<>>
      /\ shown' = Another(shown, CHOOSE b \in Byte : \A i \in 0 .. DataBits - 1 :
                                   UART0!BitOf(b, i) = hostRx[i + 2])
  BY <1>1, <1>2 DEF Transmitter, HostReceives
<1>4. PICK b \in Byte : Carries(b)
  BY DEF OutFrame
<1>5. Sent = DataBits
  BY DEF Sent
<1>6. \A i \in 0 .. DataBits - 1 : UART0!BitOf(b, i) = hostRx[i + 2]
  BY <1>4, <1>5, Constants DEF Carries, Matches
<1>7. shown' = Another(shown, b)
  <2> DEFINE c == CHOOSE c \in Byte : \A i \in 0 .. DataBits - 1 :
                                   UART0!BitOf(c, i) = hostRx[i + 2]
  <2>1. c \in Byte /\ \A i \in 0 .. DataBits - 1 : UART0!BitOf(c, i) = hostRx[i + 2]
    BY <1>6
  <2>2. shown' = Another(shown, c)
    BY <1>3
  <2> HIDE DEF c
  <2>3. \A i \in 0 .. DataBits - 1 : UART0!BitOf(c, i) = UART0!BitOf(b, i)
    BY <1>6, <2>1
  <2>4. c = b
    BY <2>1, <2>3, SameBits
  <2> QED BY <2>2, <2>4
<1>8. InTransmitter = b
  BY <1>4, Carried
<1>9. OutFrame'
  <2>1. hostRx' \in Seq({0, 1})
    BY <1>3
  <2>2. uart_tx_count' = 0 /\ 0 \in 0 .. DataBits - 1
    BY <1>1, Constants DEF OutFrame
  <2> QED BY <1>1, <1>3, <2>1, <2>2 DEF OutFrame, TxBusy
<1>10. Taken' <= Taken + 1
  BY <1>1, Constants DEF Taken
<1>11. UNCHANGED uart_send_ack_flag
  BY <1>1 DEF Transmitter, CountAck
<1> QED BY <1>1, <1>7, <1>8, <1>9, <1>10, <1>11 DEF Finishes, TxIdle

\* The transmitter has an edge.
TxStep == Takes \/ Transmits \/ Finishes

\* An edge of the UART's clock, seen from the transmitter.
LEMMA TxMoves ==
  ASSUME OutFrame, Flags, NEW baud \in BOOLEAN, Uart(baud)
  PROVE  OutFrame' /\ TxStep
<1>1. Transmitter(baud)
  BY DEF Uart, Transmitter
<1>2. CASE uart_tx_state \in {"idle", "wait_for_tick"} \/ ~baud
  BY <1>1, <1>2, TxWaits DEF TxStep
<1>3. CASE baud /\ uart_tx_state \notin {"idle", "wait_for_tick"}
  <2>1. Transmitter(TRUE) /\ uart_tx_state \in {"send_start_bit", "transmit_data", "send_stop_bit"}
    <3>1. baud = TRUE
      BY <1>3
    <3> QED BY <1>1, <1>3, <3>1 DEF OutFrame, TxBusy
  <2> QED BY <2>1, StartBitLeaves, BitLeaves, StopBitLeaves DEF TxStep
<1> QED BY <1>2, <1>3

-----------------------------------------------------------------------------
(* Every step, seen from the transmitter                                   *)

\* What an edge of real_clock alone leaves as it is.
TxRests == UNCHANGED <<TX, uart_tx_state, uart_tx_data_block, uart_tx_count, hostRx, shown,
                       uart_send_ack_flag, UART_DATA_SEND_ACK>>

\* A step, seen from the transmitter.
SendStep ==
  \/ OnlyCpu /\ CpuStep /\ TxRests
  \/ OnlyUart /\ CpuStill /\ TxStep
  \/ BothClocks /\ CpuStep /\ TxStep
  \/ NoClock /\ CpuStill /\ TxRests

\* Without an edge of the UART's clock nothing of it moves.
LEMMA TxStays == ASSUME OutFrame, TxRests PROVE OutFrame' /\ UNCHANGED <<Taken, InTransmitter>>
<1>1. UNCHANGED <<TX, uart_tx_state, uart_tx_data_block, uart_tx_count, hostRx>>
  BY DEF TxRests
<1>2. UNCHANGED Sent /\ UNCHANGED Taken
  BY <1>1 DEF Sent, Taken
<1>3. \A b : Carries(b)' = Carries(b)
  BY <1>1, <1>2, CarriedOn DEF CarriesNow, Carries
<1>4. UNCHANGED InTransmitter
  BY <1>1, <1>2, InTransmitterIs
<1>5. OutFrame'
  BY <1>1, <1>3 DEF OutFrame
<1> QED BY <1>2, <1>4, <1>5

\* Every step, seen from the transmitter.
LEMMA SendSteps ==
  ASSUME SendInv, [Next]_vars
  PROVE  SendStep /\ Asks' /\ Clocks' /\ OutFrame'
<1>1. Asks /\ Clocks /\ OutFrame /\ Flags /\ UART_DATA_RECV_ACK \in BOOLEAN
  BY DEF SendInv, Asks, Strobed, Flags
<1>2. ASSUME UNCHANGED <<uartVars, lineVars>> PROVE TxRests /\ OutFrame'
  <2>1. TxRests
    BY <1>2 DEF uartVars, lineVars, TxRests, uartSide
  <2> QED BY <1>1, <2>1, TxStays
<1>3. ASSUME UNCHANGED cpuVars PROVE CpuStill
  BY <1>3 DEF cpuVars, CpuStill, programVars, memVars, sbVars, sendVars
<1>4. CASE CpuEdge
  <2>1. OnlyCpu /\ Cpu /\ UNCHANGED <<uartVars, lineVars>>
    BY <1>4 DEF CpuEdge, OnlyCpu
  <2>2. CpuStep /\ Asks'
    BY <1>1, <2>1, CpuMoves, AsksOn DEF CpuStep
  <2> QED BY <1>1, <1>2, <2>1, <2>2, Ticks DEF SendStep
<1>5. CASE \E baud \in BOOLEAN : UartEdge(baud)
  <2>1. PICK baud \in BOOLEAN : OnlyUart /\ Uart(baud) /\ UNCHANGED cpuVars
    BY <1>5 DEF UartEdge, OnlyUart
  <2>2. CpuStill /\ Asks'
    BY <1>1, <1>3, <2>1, AsksStill
  <2>3. TxStep /\ OutFrame'
    BY <1>1, <2>1, TxMoves
  <2> QED BY <1>1, <2>1, <2>2, <2>3, Ticks DEF SendStep
<1>6. CASE \E baud \in BOOLEAN : BothEdges(baud)
  <2>1. PICK baud \in BOOLEAN : BothClocks /\ Uart(baud) /\ Cpu
    BY <1>6 DEF BothEdges, BothClocks
  <2>2. CpuStep /\ Asks'
    BY <1>1, <2>1, CpuMoves, AsksOn DEF CpuStep
  <2>3. TxStep /\ OutFrame'
    BY <1>1, <2>1, TxMoves
  <2> QED BY <1>1, <2>1, <2>2, <2>3, Ticks DEF SendStep
<1>7. CASE UNCHANGED vars
  <2>1. NoClock /\ UNCHANGED cpuVars /\ UNCHANGED <<uartVars, lineVars>>
    BY <1>7 DEF vars, NoClock, uartVars
  <2> QED BY <1>1, <1>2, <1>3, <2>1, AsksStill, Ticks DEF SendStep
<1> QED BY <1>4, <1>5, <1>6, <1>7 DEF Next

\* The access that writes the port, and the phases that lower the strobe.
WritesPort == Begins /\ B.mem = "write"
Lowers == Latches \/ HandsBack \/ Ends

\* What a step does to the port: a write raises the strobe, the other phases lower it.
LEMMA PortOn ==
  ASSUME CpuStep \/ CpuStill
  PROVE  /\ WritesPort => /\ UART_DATA_SEND' = B.data[LowPos] /\ UART_DATA_SEND_STB' = TRUE
                          /\ uart_send_stb_flag' = ~uart_send_stb_flag
         /\ ~WritesPort => UNCHANGED <<UART_DATA_SEND, uart_send_stb_flag>>
         /\ Lowers => UART_DATA_SEND_STB' = (UART_DATA_SEND_STB /\ ~Same)
         /\ ~Lowers /\ ~WritesPort => UNCHANGED UART_DATA_SEND_STB
         /\ Lowers => ~WritesPort
<1>1. CASE Latches
  BY <1>1 DEF Latches, WritesPort, Begins, Lowers, LowerStrobe, KeepSend, Same
<1>2. CASE Begins
  BY <1>2 DEF Begins, Latches, HandsBack, Ends, WritesPort, Lowers, sendVars
<1>3. CASE HandsBack
  BY <1>3 DEF HandsBack, WritesPort, Begins, Lowers, LowerStrobe, KeepSend, Same
<1>4. CASE Ends
  BY <1>4 DEF Ends, WritesPort, Begins, Lowers, LowerStrobe, KeepSend, Same
<1>5. CASE CpuStill
  BY <1>5 DEF CpuStill, Latches, Begins, HandsBack, Ends, WritesPort, Lowers, sendVars
<1> QED BY <1>1, <1>2, <1>3, <1>4, <1>5 DEF CpuStep

\* The toggles differ from the write until the byte is taken, and it is taken once.
LEMMA SameOn ==
  ASSUME SendInv, SendStep
  PROVE  /\ Takes => ~Same /\ Same' /\ ~WritesPort
         /\ ~Takes /\ WritesPort => Same /\ ~Same'
         /\ ~Takes /\ ~WritesPort => Same' = Same
<1>1. Strobed /\ OutFrame /\ Clocks /\ SeenWritable
  BY DEF SendInv
<1>2. WritesPort => ~UART_DATA_SEND_STB /\ Same
  BY <1>1 DEF WritesPort, Begins, SeenWritable, Strobed
<1>3. Takes => ~WritesPort
  BY <1>2 DEF Takes
<1>4. Takes => ~Same
  <2>1. SUFFICES ASSUME Takes, Same PROVE FALSE
    OBVIOUS
  <2>2. Taken <= (IF state = "s2" THEN MaxUart ELSE 0) + uartEdges /\ Taken = 4 + DataBits
    BY <1>1, <2>1 DEF Strobed, Takes, TxIdle, Taken
  <2>3. uartEdges \in Nat /\ uartEdges <= MaxUart /\ 3 * MaxUart = MaxUart + MaxUart + MaxUart
    BY <1>1, Constants DEF Clocks
  <2> QED BY <2>2, <2>3, Constants
<1>5. CpuStep \/ CpuStill
  BY DEF SendStep
<1>6. ~Takes => UNCHANGED uart_send_ack_flag
  BY DEF SendStep, TxStep, TxRests, Transmits, Finishes
<1>7. Takes => uart_send_ack_flag' = ~uart_send_ack_flag
  BY DEF Takes
<1>8. /\ WritesPort => uart_send_stb_flag' = ~uart_send_stb_flag
      /\ ~WritesPort => UNCHANGED uart_send_stb_flag
  BY <1>5, PortOn
<1>9. uart_send_stb_flag \in BOOLEAN /\ uart_send_ack_flag \in BOOLEAN
  BY <1>1 DEF Strobed
<1> QED BY <1>2, <1>3, <1>4, <1>6, <1>7, <1>8, <1>9 DEF Same

\* The strobe is lowered before the transmitter could take the byte again.
LEMMA StrobedOn ==
  ASSUME SendInv, SendStep, OutFrame'
  PROVE  Strobed'
<1>1. Strobed /\ OutFrame /\ Clocks /\ SeenWritable /\ Asks
  BY DEF SendInv
<1>2. CpuStep \/ CpuStill
  BY DEF SendStep
<1>3. TxRests \/ TxStep
  BY DEF SendStep
<1>4. UART_DATA_SEND' \in Byte /\ UART_DATA_SEND_STB' \in BOOLEAN /\ uart_send_stb_flag' \in BOOLEAN
  <2>1. WritesPort => B.data[LowPos] \in Byte
    BY <1>1, Asked, Constants DEF WritesPort
  <2>2. UART_DATA_SEND \in Byte /\ UART_DATA_SEND_STB \in BOOLEAN /\ uart_send_stb_flag \in BOOLEAN
    BY <1>1 DEF Strobed
  <2>3. Same \in BOOLEAN
    BY DEF Same
  <2>4. UART_DATA_SEND' \in Byte
    BY <1>2, <2>1, <2>2, PortOn
  <2>5. UART_DATA_SEND_STB' \in BOOLEAN
    BY <1>2, <2>2, <2>3, PortOn
  <2>6. uart_send_stb_flag' \in BOOLEAN
    BY <1>2, <2>2, PortOn
  <2> QED BY <2>4, <2>5, <2>6
<1>5. /\ uart_send_ack_flag' \in BOOLEAN /\ UART_DATA_SEND_ACK' \in BOOLEAN
      /\ UART_DATA_SEND_ACK' => uart_tx_state' = "wait_for_tick"
  <2>1. CASE TxRests
    BY <1>1, <2>1 DEF Strobed, TxRests
  <2>2. CASE Takes
    BY <1>1, <2>2 DEF Strobed, Takes
  <2>3. CASE Transmits \/ Finishes
    BY <1>1, <2>3 DEF Strobed, Transmits, Finishes
  <2> QED BY <1>3, <2>1, <2>2, <2>3 DEF TxStep
<1>6. ~UART_DATA_SEND_STB' => Same'
  <2>1. SUFFICES ASSUME ~UART_DATA_SEND_STB', ~Takes PROVE Same'
    BY SameOn
  <2>2. ~WritesPort
    BY <1>2, <2>1, PortOn
  <2>3. ~UART_DATA_SEND_STB \/ Same
    BY <1>2, <2>1, <2>2, PortOn
  <2>4. Same
    BY <1>1, <2>3 DEF Strobed
  <2> QED BY <2>1, <2>2, <2>4, SameOn
<1>7. uartEdges \in Nat /\ uartEdges <= MaxUart /\ MaxUart \in Nat /\ Taken \in Nat
  BY <1>1, Constants, TakenIs DEF Clocks
<1>8. CASE Takes
  <2>1. Taken' = 1
    BY <1>8 DEF Takes, Taken
  <2>2. uartEdges' \in Nat /\ uartEdges' >= 1
    <3>1. ~TxRests
      BY <1>8 DEF Takes, TxIdle, TxRests
    <3> QED BY <1>7, <3>1 DEF SendStep, OnlyUart, BothClocks
  <2>3. Taken' <= (IF state' = "s2" THEN MaxUart ELSE 0) + uartEdges'
    <3> DEFINE m == IF state' = "s2" THEN MaxUart ELSE 0
    <3>1. m \in Nat
      BY <1>7
    <3> HIDE DEF m
    <3>2. 1 <= m + uartEdges'
      <4>1. \A a, b \in Nat : b >= 1 => 1 <= a + b
        OBVIOUS
      <4> QED BY <2>2, <3>1, <4>1
    <3> QED BY <2>1, <3>2 DEF m
  <2> QED BY <1>4, <1>5, <1>6, <2>3 DEF Strobed
<1>9. CASE ~Takes /\ UART_DATA_SEND_STB' /\ Same'
  <2>1. ~WritesPort
    BY <1>9, SameOn
  <2>2. Same
    BY <1>9, <2>1, SameOn
  <2>3. ~Lowers /\ UART_DATA_SEND_STB
    BY <1>2, <1>9, <2>1, <2>2, PortOn
  <2>4. Taken <= (IF state = "s2" THEN MaxUart ELSE 0) + uartEdges
    BY <1>1, <2>2, <2>3 DEF Strobed
  <2>5. TxRests => Taken' = Taken
    BY <1>1, TxStays
  <2>6. TxStep => Taken' <= Taken + 1 /\ Taken' \in Nat
    <3>1. Taken' \in Nat
      BY TakenIsNow
    <3> QED BY <1>9, <3>1 DEF TxStep, Transmits, Finishes
  <2>7. Taken' <= (IF state' = "s2" THEN MaxUart ELSE 0) + uartEdges'
    <3>1. CASE Begins
      <4>1. state = "s1" /\ state' = "s2" /\ ~CpuStill
        BY <3>1 DEF Begins, CpuStill
      <4>2. Taken <= uartEdges
        BY <1>7, <2>4, <4>1
      <4>3. CASE OnlyCpu /\ TxRests
        <5>1. Taken' = Taken /\ uartEdges' = 0
          BY <2>5, <4>3 DEF OnlyCpu
        <5> QED BY <1>7, <4>1, <4>2, <5>1
      <4>4. CASE BothClocks /\ TxStep
        <5>1. Taken' <= Taken + 1 /\ uartEdges' = 1 /\ Taken' \in Nat
          BY <2>6, <4>4 DEF BothClocks
        <5> QED BY <1>7, <4>1, <4>2, <5>1
      <4> QED BY <4>1, <4>3, <4>4 DEF SendStep
    <3>2. CASE CpuStill
      <4>1. state' = state /\ ~CpuStep
        BY <3>2 DEF CpuStill, CpuStep, Latches, Begins, HandsBack, Ends
      <4>2. CASE OnlyUart /\ TxStep
        <5>1. Taken' <= Taken + 1 /\ uartEdges' = uartEdges + 1 /\ Taken' \in Nat
          BY <2>6, <4>2 DEF OnlyUart
        <5> QED BY <1>7, <2>4, <4>1, <5>1
      <4>3. CASE NoClock /\ TxRests
        <5>1. Taken' = Taken /\ uartEdges' = uartEdges
          BY <2>5, <4>3 DEF NoClock
        <5> QED BY <1>7, <2>4, <4>1, <5>1
      <4> QED BY <4>1, <4>2, <4>3 DEF SendStep
    <3> QED BY <1>2, <2>3, <3>1, <3>2 DEF CpuStep, Lowers
  <2> QED BY <1>4, <1>5, <1>6, <2>7 DEF Strobed
<1>10. CASE ~Takes /\ ~(UART_DATA_SEND_STB' /\ Same')
  BY <1>4, <1>5, <1>6, <1>10 DEF Strobed
<1> QED BY <1>8, <1>9, <1>10

-----------------------------------------------------------------------------
(* Every byte is sent once                                                 *)

\* The program writes only when it has seen the port free.
LEMMA Programs ==
  ASSUME Program
  PROVE  \/ B'.mem # "write" /\ UNCHANGED written
         \/ /\ software = "writable"
            /\ \E b \in Written : B' = Write(b) /\ written' = Another(written, b)
<1>1. CASE /\ software = "writable"
            /\ \E b \in Written : /\ B' = Access("write", "uart_data", b)
                                  /\ written' = Another(written, b)
  BY <1>1 DEF Write
<1>2. CASE ~(/\ software = "writable"
             /\ \E b \in Written : /\ B' = Access("write", "uart_data", b)
                                   /\ written' = Another(written, b))
  <2>1. UNCHANGED written /\ (B' = Pause \/ B' = ReadCtrl \/ B' = ReadData)
    BY <1>2 DEF Program, ReadCtrl, ReadData
  <2> QED BY <2>1, Requests
<1> QED BY <1>1, <1>2

\* What the program has seen of the port stays true until it writes.
LEMMA SeenWritableOn ==
  ASSUME SendInv, SendStep
  PROVE  SeenWritable'
<1>1. SeenWritable /\ Asks /\ UART_DATA_SEND_STB \in BOOLEAN
  BY DEF SendInv, Strobed
<1>2. CpuStep \/ CpuStill
  BY DEF SendStep
<1>3. ~WritesPort /\ ~UART_DATA_SEND_STB => ~UART_DATA_SEND_STB'
  BY <1>1, <1>2, PortOn
<1>4. CASE Latches
  <2>1. UNCHANGED <<software, B, s_output>> /\ state = "s0" /\ state' = "s1" /\ ~WritesPort
    BY <1>4 DEF Latches, programVars, WritesPort, Begins
  <2> QED BY <1>1, <1>3, <2>1 DEF SeenWritable
<1>5. CASE Begins
  <2>1. UNCHANGED <<software, B>> /\ state = "s1" /\ state' = "s2"
    BY <1>5 DEF Begins, programVars
  <2>2. software \in {"writable", "wtest"} => ~WritesPort
    BY <1>1, Asked DEF WritesPort
  <2>3. software = "wtest" /\ s_output'[LowPos] % 2 = 1 => ~UART_DATA_SEND_STB
    BY <1>5, Control DEF Begins
  <2> QED BY <1>1, <1>3, <2>1, <2>2, <2>3 DEF SeenWritable
<1>6. CASE HandsBack
  <2>1. UNCHANGED <<software, B, s_output>> /\ state = "s2" /\ state' = "s3" /\ ~WritesPort
    BY <1>6 DEF HandsBack, programVars, WritesPort, Begins
  <2> QED BY <1>1, <1>3, <2>1 DEF SeenWritable
<1>7. CASE Ends
  <2>1. state = "s3" /\ state' = "s0" /\ ~WritesPort /\ C.data = s_output /\ Program
    BY <1>1, <1>7 DEF Ends, WritesPort, Begins, Asks
  <2>2. software' = "writable" => ~UART_DATA_SEND_STB
    BY <1>1, <2>1 DEF Program, SeenWritable, CanWrite, answer
  <2>3. B'.mem = "write" => ~UART_DATA_SEND_STB
    BY <1>1, <2>1, Programs DEF SeenWritable
  <2> QED BY <1>3, <2>1, <2>2, <2>3 DEF SeenWritable
<1>8. CASE CpuStill
  <2>1. UNCHANGED <<software, B, s_output, state>> /\ ~WritesPort
    BY <1>8 DEF CpuStill, programVars, WritesPort, Begins
  <2> QED BY <1>1, <1>3, <2>1 DEF SeenWritable
<1> QED BY <1>2, <1>4, <1>5, <1>6, <1>7, <1>8 DEF CpuStep

\* A byte in the port, or in the memory stage on its way to it.
Writes == B.mem = "write" /\ state \in {"s0", "s1"}
Holds == ~Same \/ Writes
HeldByte == IF Same THEN B.data[LowPos] ELSE UART_DATA_SEND

\* The program decides on a write.
PutsByte == \E b \in Written :
  Ends /\ software = "writable" /\ B' = Write(b) /\ written' = Another(written, b)

\* A write in the memory stage.
LEMMA WritesOn ==
  ASSUME Asks, CpuStep \/ CpuStill
  PROVE  /\ ~PutsByte => UNCHANGED written /\ (Writes' => Writes /\ UNCHANGED B)
         /\ ~PutsByte /\ ~WritesPort => Writes' = Writes
         /\ WritesPort => Writes /\ ~Writes'
         /\ PutsByte => ~Writes /\ Writes' /\ ~WritesPort
<1>1. CASE Latches
  <2>1. UNCHANGED <<B, written>> /\ state = "s0" /\ state' = "s1" /\ ~PutsByte /\ ~WritesPort
    BY <1>1 DEF Latches, programVars, PutsByte, Ends, WritesPort, Begins
  <2> QED BY <2>1 DEF Writes
<1>2. CASE Begins
  <2>1. UNCHANGED <<B, written>> /\ state = "s1" /\ state' = "s2" /\ ~PutsByte
        /\ WritesPort = (B.mem = "write")
    BY <1>2 DEF Begins, programVars, PutsByte, Ends, WritesPort
  <2> QED BY <2>1 DEF Writes
<1>3. CASE HandsBack
  <2>1. UNCHANGED <<B, written>> /\ state = "s2" /\ state' = "s3" /\ ~PutsByte /\ ~WritesPort
    BY <1>3 DEF HandsBack, programVars, PutsByte, Ends, WritesPort, Begins
  <2> QED BY <2>1 DEF Writes
<1>4. CASE Ends
  <2>1. state = "s3" /\ state' = "s0" /\ Program /\ ~WritesPort
    BY <1>4 DEF Ends, WritesPort, Begins
  <2>2. PutsByte => B'.mem = "write"
    BY Requests DEF PutsByte
  <2>3. ~PutsByte => B'.mem # "write" /\ UNCHANGED written
    BY <1>4, <2>1, Programs DEF PutsByte
  <2> QED BY <2>1, <2>2, <2>3 DEF Writes
<1>5. CASE CpuStill
  <2>1. UNCHANGED <<B, written, state>> /\ ~PutsByte /\ ~WritesPort
    BY <1>5 DEF CpuStill, programVars, PutsByte, Ends, WritesPort, Begins
  <2> QED BY <2>1 DEF Writes
<1> QED BY <1>1, <1>2, <1>3, <1>4, <1>5 DEF CpuStep

\* A byte goes into the port once and leaves it once.
LEMMA HeldOn ==
  ASSUME SendInv, SendStep
  PROVE  /\ Takes => /\ Holds /\ ~Holds' /\ HeldByte = UART_DATA_SEND /\ UNCHANGED written /\ ~PutsByte
         /\ ~Takes /\ PutsByte => ~Holds /\ Holds' /\ HeldByte' = B'.data[LowPos]
         /\ ~Takes /\ ~PutsByte => /\ UNCHANGED written /\ Holds' = Holds
                                   /\ Holds => HeldByte' = HeldByte
<1>1. Asks /\ (CpuStep \/ CpuStill) /\ SeenWritable /\ Strobed
  BY DEF SendInv, SendStep
<1>2. PutsByte => ~UART_DATA_SEND_STB
  BY <1>1 DEF PutsByte, SeenWritable
<1>3. Writes => ~UART_DATA_SEND_STB
  BY <1>1 DEF Writes, SeenWritable
<1>4. ~UART_DATA_SEND_STB => Same
  BY <1>1 DEF Strobed
<1>5. CASE Takes
  <2>1. ~Same /\ Same' /\ ~WritesPort /\ UART_DATA_SEND_STB
    BY <1>5, SameOn DEF Takes
  <2>2. ~PutsByte /\ ~Writes
    BY <1>2, <1>3, <2>1
  <2>3. ~Writes' /\ UNCHANGED written
    BY <1>1, <2>2, WritesOn
  <2> QED BY <1>5, <2>1, <2>2, <2>3 DEF Holds, HeldByte
<1>6. CASE ~Takes /\ PutsByte
  <2>1. ~Writes /\ Writes' /\ ~WritesPort /\ Same
    BY <1>1, <1>2, <1>4, <1>6, WritesOn
  <2>2. Same'
    BY <1>6, <2>1, SameOn
  <2> QED BY <1>6, <2>1, <2>2 DEF Holds, HeldByte
<1>7. CASE ~Takes /\ ~PutsByte /\ WritesPort
  <2>1. Writes /\ ~Writes' /\ UNCHANGED written
    BY <1>1, <1>7, WritesOn
  <2>2. Same /\ ~Same'
    BY <1>7, SameOn
  <2>3. UART_DATA_SEND' = B.data[LowPos]
    BY <1>1, <1>7, PortOn
  <2> QED BY <1>7, <2>1, <2>2, <2>3 DEF Holds, HeldByte
<1>8. CASE ~Takes /\ ~PutsByte /\ ~WritesPort
  <2>1. Writes' = Writes /\ UNCHANGED written /\ (Writes' => UNCHANGED B)
    BY <1>1, <1>8, WritesOn
  <2>2. Same' = Same
    BY <1>8, SameOn
  <2>3. UNCHANGED UART_DATA_SEND
    BY <1>1, <1>8, PortOn
  <2>4. Same \in BOOLEAN /\ Writes \in BOOLEAN
    BY DEF Same, Writes
  <2>5. Holds' = Holds
    BY <2>1, <2>2 DEF Holds
  <2>6. Holds => HeldByte' = HeldByte
    BY <2>1, <2>2, <2>3, <2>4 DEF Holds, HeldByte
  <2> QED BY <1>8, <2>1, <2>5, <2>6
<1> QED BY <1>5, <1>6, <1>7, <1>8

\* The bytes on their way out: at most one in the port, one in the transmitter.
LEMMA UnderWayIs ==
  ASSUME SeenWritable, Strobed
  PROVE  UnderWay = IF TxIdle THEN IF Holds THEN <<HeldByte>> ELSE <<>>
                    ELSE IF Holds THEN <<InTransmitter, HeldByte>> ELSE <<InTransmitter>>
<1>1. Same \/ ~Writes
  BY DEF Strobed, SeenWritable, Writes
<1>2. UnderWay = (IF TxIdle THEN <<>> ELSE <<InTransmitter>>)
                 \o (IF Same THEN <<>> ELSE <<UART_DATA_SEND>>)
                 \o (IF Writes THEN <<B.data[LowPos]>> ELSE <<>>)
  BY DEF UnderWay, TxIdle, Same, Writes
<1>3. CASE Same /\ ~Writes
  BY <1>2, <1>3, Joined DEF Holds
<1>4. CASE Same /\ Writes
  BY <1>2, <1>4, Joined DEF Holds, HeldByte
<1>5. CASE ~Same
  BY <1>1, <1>2, <1>5, Joined DEF Holds, HeldByte
<1> QED BY <1>3, <1>4, <1>5

\* ... and after the step.
LEMMA UnderWayIsNow ==
  ASSUME SeenWritable', Strobed'
  PROVE  UnderWay' = IF TxIdle' THEN IF Holds' THEN <<HeldByte'>> ELSE <<>>
                     ELSE IF Holds' THEN <<InTransmitter', HeldByte'>> ELSE <<InTransmitter'>>
<1>1. Same' \/ ~Writes'
  BY DEF Strobed, SeenWritable, Writes
<1>2. UnderWay' = (IF TxIdle' THEN <<>> ELSE <<InTransmitter'>>)
                 \o (IF Same' THEN <<>> ELSE <<UART_DATA_SEND'>>)
                 \o (IF Writes' THEN <<(B')["data"][LowPos]>> ELSE <<>>)
  BY DEF UnderWay, TxIdle, Same, Writes
<1>3. CASE Same' /\ ~Writes'
  BY <1>2, <1>3, Joined DEF Holds
<1>4. CASE Same' /\ Writes'
  BY <1>2, <1>4, Joined DEF Holds, HeldByte
<1>5. CASE ~Same'
  BY <1>1, <1>2, <1>5, Joined DEF Holds, HeldByte
<1> QED BY <1>3, <1>4, <1>5

\* Every step is one of the channel, or none.
LEMMA SentOn ==
  ASSUME SendInv, SendStep, OutFrame', Strobed', SeenWritable'
  PROVE  Outgoing!Next \/ UNCHANGED <<written, UnderWay, shown>>
<1> USE DEF Outgoing!Next, Outgoing!Put, Outgoing!Get, Outgoing!PutAndGet, Outgoing!Enter,
            Outgoing!Leave, Another
<1> DEFINE t == InTransmitter
           h == HeldByte
<1>1. UnderWay = IF TxIdle THEN IF Holds THEN <<h>> ELSE <<>>
                 ELSE IF Holds THEN <<t, h>> ELSE <<t>>
  BY UnderWayIs DEF SendInv
<1>2. UnderWay' = IF TxIdle' THEN IF Holds' THEN <<h'>> ELSE <<>>
                  ELSE IF Holds' THEN <<t', h'>> ELSE <<t'>>
  BY UnderWayIsNow
<1> HIDE DEF t, h
<1>3. PutsByte => \E b \in Written : B'.data[LowPos] = b /\ written' = Another(written, b)
  BY Requests DEF PutsByte
<1>4. OutFrame
  BY DEF SendInv
<1>5. CASE Takes
  <2>1. /\ TxIdle /\ ~TxIdle' /\ Holds /\ ~Holds' /\ h = UART_DATA_SEND /\ t' = UART_DATA_SEND
        /\ UNCHANGED <<written, shown>>
    BY <1>5, HeldOn DEF Takes, TxIdle, h, t
  <2>2. UNCHANGED UnderWay
    BY <1>1, <1>2, <2>1
  <2> QED BY <2>1, <2>2
<1>6. CASE Transmits \/ TxRests
  <2>1. ~Takes /\ TxIdle' = TxIdle /\ (~TxIdle => t' = t) /\ UNCHANGED shown
    BY <1>4, <1>6, TxStays DEF Transmits, TxRests, Takes, TxIdle, t
  <2>2. CASE PutsByte
    <3>1. ~Holds /\ Holds' /\ h' = B'.data[LowPos]
      BY <2>1, <2>2, HeldOn DEF h
    <3>2. PICK b \in Written : h' = b /\ written' = Another(written, b)
      BY <1>3, <2>2, <3>1
    <3>3. Len(UnderWay) < 2 /\ UnderWay' = Append(UnderWay, b)
      <4>1. CASE TxIdle
        <5>1. UnderWay = <<>> /\ UnderWay' = <<b>>
          BY <1>1, <1>2, <2>1, <3>1, <3>2, <4>1
        <5> QED BY <5>1, Joined
      <4>2. CASE ~TxIdle
        <5>1. UnderWay = <<t>> /\ UnderWay' = <<t, b>>
          BY <1>1, <1>2, <2>1, <3>1, <3>2, <4>2
        <5> QED BY <5>1, Joined
      <4> QED BY <4>1, <4>2
    <3>4. Outgoing!Put
      BY <2>1, <3>2, <3>3
    <3> QED BY <3>4
  <2>3. CASE ~PutsByte
    <3>1. UNCHANGED written /\ Holds' = Holds /\ (Holds => h' = h)
      BY <2>1, <2>3, HeldOn DEF h
    <3>2. UNCHANGED UnderWay
      BY <1>1, <1>2, <2>1, <3>1
    <3> QED BY <2>1, <3>1, <3>2
  <2> QED BY <2>2, <2>3
<1>7. CASE Finishes
  <2>1. ~Takes /\ ~TxIdle /\ TxIdle' /\ shown' = Another(shown, t)
    BY <1>7 DEF Finishes, Takes, t
  <2>2. CASE PutsByte
    <3>1. ~Holds /\ Holds' /\ h' = B'.data[LowPos]
      BY <2>1, <2>2, HeldOn DEF h
    <3>2. PICK b \in Written : h' = b /\ written' = Another(written, b)
      BY <1>3, <2>2, <3>1
    <3>3. UnderWay = <<t>> /\ UnderWay' = <<b>>
      BY <1>1, <1>2, <2>1, <3>1, <3>2
    <3>4. UnderWay # <<>> /\ Head(UnderWay) = t /\ UnderWay' = Append(Tail(UnderWay), b)
      BY <3>3, Joined
    <3>5. Outgoing!PutAndGet
      BY <2>1, <3>2, <3>4
    <3> QED BY <3>5
  <2>3. CASE ~PutsByte
    <3>1. UNCHANGED written /\ Holds' = Holds /\ (Holds => h' = h)
      BY <2>1, <2>3, HeldOn DEF h
    <3>2. UnderWay # <<>> /\ Head(UnderWay) = t /\ UnderWay' = Tail(UnderWay)
      <4>1. CASE Holds
        <5>1. UnderWay = <<t, h>> /\ UnderWay' = <<h>>
          BY <1>1, <1>2, <2>1, <3>1, <4>1
        <5> QED BY <5>1, Joined
      <4>2. CASE ~Holds
        <5>1. UnderWay = <<t>> /\ UnderWay' = <<>>
          BY <1>1, <1>2, <2>1, <3>1, <4>2
        <5> QED BY <5>1, Joined
      <4> QED BY <4>1, <4>2
    <3>3. Outgoing!Get
      BY <2>1, <3>1, <3>2
    <3> QED BY <3>3
  <2> QED BY <2>2, <2>3
<1> QED BY <1>5, <1>6, <1>7 DEF SendStep, TxStep

\* The transmitter at the start.
LEMMA SendInit == ASSUME Init PROVE SendInv /\ Outgoing!Init
<1>1. /\ state = "s0" /\ B = Pause /\ software = "free" /\ written = NoByte /\ shown = NoByte
      /\ UART_DATA_SEND = 0 /\ UART_DATA_SEND_STB = FALSE /\ UART_DATA_SEND_ACK = FALSE
      /\ uart_send_stb_flag = FALSE /\ uart_send_ack_flag = FALSE
      /\ uart_tx_state = "idle" /\ uart_tx_count = 0 /\ uart_tx_data_block = 0 /\ TX = 1
      /\ hostRx = <<>>
  BY DEF Init, MemoryInit, UART0!UARTInit
<1>2. Asks /\ Clocks
  BY ReceiveInit DEF ReceiveInv
<1>3. OutFrame
  <2>1. 0 \in 0 .. DataBits - 1 /\ hostRx \in Seq({0, 1})
    BY <1>1, Constants
  <2> QED BY <1>1, <2>1, Constants DEF OutFrame
<1>4. Strobed
  BY <1>1, Constants DEF Strobed, Same
<1>5. SeenWritable
  BY <1>1 DEF SeenWritable
<1>6. UnderWay = <<>>
  <2>1. TxIdle /\ ~Holds
    BY <1>1, Requests DEF TxIdle, Holds, Same, Writes
  <2> QED BY <1>4, <1>5, <2>1, UnderWayIs
<1> QED BY <1>1, <1>2, <1>3, <1>4, <1>5, <1>6 DEF SendInv, Outgoing!Init, NoByte

\* SentOnce, for bytes of any width: every byte the program writes is received
\* once and in order. The strobe is up until the acknowledge has been counted
\* (Memory.vhdl:106-112,153-155,223-226), and lowered before the transmitter is
\* idle again (UART.vhdl:201-206).
THEOREM EveryByteIsSentOnce == Spec => SentOnce
<1>1. Init => SendInv /\ Outgoing!Init
  BY SendInit
<1>2. SendInv /\ [Next]_vars => SendInv'
  BY SendSteps, StrobedOn, SeenWritableOn DEF SendInv
<1>3. SendInv /\ [Next]_vars => [Outgoing!Next]_<<written, UnderWay, shown>>
  BY SendSteps, StrobedOn, SeenWritableOn, SentOn
<1> QED BY <1>1, <1>2, <1>3, PTL DEF Spec, SentOnce, Outgoing!Spec

=============================================================================
