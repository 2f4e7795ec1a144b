----------------------------- MODULE SerialPort -----------------------------
(***************************************************************************)
(* The memory stage and the UART, each with its own clock, between a       *)
(* program that polls the control register before every access, as         *)
(* kernel.s does, and a terminal on the line.  One step is an edge of one  *)
(* clock, or of both at the same moment.                                   *)
(***************************************************************************)
EXTENDS Memory, Sequences

CONSTANTS
  DataBits, DontCare,     \* of the UART
  Written,     \* bytes the program may write
  Typed,       \* bytes the terminal may send
  MaxCpu,      \* edges of real_clock in one period of the UART's clock
  MaxUart      \* edges of the UART's clock in one period of real_clock

VARIABLES
  TX, uart_tx_state, uart_tx_data_block, uart_tx_count,
  uart_rx_state, uart_rx_count,
  cpuEdges,    \* edges of real_clock since the UART's last edge, and with it
  uartEdges,   \* edges of the UART's clock since real_clock's last edge, ...
  software,    \* where the program is
  written,     \* the last byte it has written
  fetched,     \* ... and fetched
  typed,       \* the last byte the terminal has sent
  shown,       \* ... and received
  hostRx,      \* bits of the byte it is receiving, start bit first
  hostTx       \* the byte it is sending, with the bits the UART has sampled

UART0 == INSTANCE UART WITH
  DATA_STREAM_IN <- UART_DATA_SEND, DATA_STREAM_IN_STB <- UART_DATA_SEND_STB,
  DATA_STREAM_IN_ACK <- UART_DATA_SEND_ACK, DATA_STREAM_OUT <- UART_DATA_RECV,
  DATA_STREAM_OUT_STB <- UART_DATA_RECV_STB,
  DATA_STREAM_OUT_ACK <- UART_DATA_RECV_ACK

ASSUME SerialPortAssumption ==
  /\ DataBits \in Nat \ {0} /\ DontCare \in {0, 1}
  /\ MaxCpu \in Nat \ {0} /\ MaxUart \in Nat \ {0}
  /\ Byte = UART0!Data /\ Written \subseteq Byte /\ Typed \subseteq Byte
  /\ {"uart_data", "uart_ctrl"} \subseteq {Dev[w] : w \in MemWord}

\* An acknowledge to the UART stands for three phases (Memory.vhdl:156,189): the
\* UART has an edge in them, and not so many that a frame fits in.
ASSUME ClockAssumption == MaxCpu <= 3 /\ 3 * MaxUart <= DataBits + 1

otherWires == <<PC, A_HOLD, JUMP_true, JUMP_addr, TLB_data_exception,
                TLB_data_write, A>>
cpuVars == <<state, B, C, hold_from_memory, memVars, software, written, fetched>>
lineVars == <<typed, shown, hostRx, hostTx>>
vars == <<cpuVars, lineVars, uartSide, TX, uart_tx_state, uart_tx_data_block,
          uart_tx_count, uart_rx_state, uart_rx_count, cpuEdges, uartEdges, otherWires>>

NoByte == [value |-> 0, flip |-> FALSE]
Another(got, b) == [value |-> b, flip |-> ~got.flip]

-----------------------------------------------------------------------------
(* The program: rtest, lw and wtest, sw, with any pause between them *)

Access(mem, dev, b) ==
  [pc |-> NoAddr, rd |-> IF mem = "read" THEN 1 ELSE 0, byte |-> FALSE,
   mem |-> mem,
   addr |-> [word |-> CHOOSE w \in MemWord : Dev[w] = dev, pos |-> LowPos],
   data |-> [ZeroWord EXCEPT ![LowPos] = b]]
Pause == [Access("none", "uart_ctrl", 0) EXCEPT !.rd = 0]

answer == C.data[LowPos]
CanRead == answer \div 2 = 1
CanWrite == answer % 2 = 1

Program ==
  \/ /\ software \in {"free", "readable", "writable"}
     /\ B' = Pause /\ UNCHANGED <<software, written, fetched>>
  \/ /\ software = "free"
     /\ B' = Access("read", "uart_ctrl", 0) /\ software' \in {"rtest", "wtest"}
     /\ UNCHANGED <<written, fetched>>
  \/ /\ software = "rtest"
     /\ B' = Pause /\ software' = IF CanRead THEN "readable" ELSE "free"
     /\ UNCHANGED <<written, fetched>>
  \/ /\ software = "wtest"
     /\ B' = Pause /\ software' = IF CanWrite THEN "writable" ELSE "free"
     /\ UNCHANGED <<written, fetched>>
  \/ /\ software = "readable"
     /\ B' = Access("read", "uart_data", 0) /\ software' = "fetching"
     /\ UNCHANGED <<written, fetched>>
  \/ /\ software = "fetching"
     /\ B' = Pause /\ software' = "free"
     /\ fetched' = Another(fetched, answer) /\ UNCHANGED written
  \/ /\ software = "writable"
     /\ \E b \in Written :
          B' = Access("write", "uart_data", b) /\ written' = Another(written, b)
     /\ software' = "free" /\ UNCHANGED fetched

Cpu ==
  \/ /\ state = "s0" /\ state' = "s1" /\ Memory_s0
     /\ UNCHANGED <<B, software, written, fetched>>
  \/ /\ state = "s1" /\ state' = "s2" /\ Memory_s1
     /\ UNCHANGED <<B, software, written, fetched>>
  \/ /\ state = "s2" /\ state' = "s3" /\ Memory_s2
     /\ UNCHANGED <<B, software, written, fetched>>
  \/ /\ state = "s3" /\ state' = "s0" /\ Memory_s3 /\ Program

-----------------------------------------------------------------------------
(* The terminal *)

\* It looks at the line once per bit, after each baud tick.
HostReceives ==
  IF hostRx = <<>>
  THEN hostRx' = (IF TX' = 0 THEN <<0>> ELSE <<>>) /\ UNCHANGED shown
  ELSE IF Len(hostRx) <= DataBits
  THEN hostRx' = Append(hostRx, TX') /\ UNCHANGED shown
  ELSE /\ hostRx' = <<>>
       /\ shown' =
            IF TX' = 0 THEN shown
            ELSE Another(shown, CHOOSE b \in Byte : \A i \in 0 .. DataBits - 1 :
                                UART0!BitOf(b, i) = hostRx[i + 2])

\* hostTx.bit counts from 0 (start bit) to DataBits + 1 (stop bit).  A glitch
\* is a line that falls and rises again within half a bit.
Quiet == [mode |-> "idle", byte |-> 0, bit |-> 0]
LineBit ==
  CASE hostTx.mode = "idle" -> 1
    [] hostTx.mode = "glitch" -> 0
    [] hostTx.mode = "sending" ->
         IF hostTx.bit = 0 THEN 0
         ELSE IF hostTx.bit <= DataBits THEN UART0!BitOf(hostTx.byte, hostTx.bit - 1)
         ELSE 1

HostSends ==
  \/ UNCHANGED <<hostTx, typed>>
  \/ /\ hostTx.mode = "idle" /\ uart_rx_state = "rx_wait_start_synchronise"
     /\ \/ \E b \in Typed : /\ hostTx' = [mode |-> "sending", byte |-> b, bit |-> 0]
                           /\ typed' = Another(typed, b)
        \/ hostTx' = [Quiet EXCEPT !.mode = "glitch"] /\ UNCHANGED typed
  \/ hostTx.mode = "glitch" /\ hostTx' = Quiet /\ UNCHANGED typed

\* The strobe is up and the byte has not been read yet.
Unread == UART_DATA_RECV_STB /\ ~UART_DATA_RECV_ACK

\* Every bit is sampled once (SerialLink); the terminal is so slow that the
\* program has fetched a byte when the next start bit is sampled.
Sampled ==
  /\ uart_rx_state # "rx_wait_start_synchronise" /\ hostTx.mode # "glitch"
  /\ uart_rx_state = "rx_get_start_bit" /\ hostTx.mode = "sending" =>
       ~Unread
  /\ hostTx' = IF hostTx.mode = "idle" THEN hostTx
               ELSE IF hostTx.bit = DataBits + 1 THEN Quiet
               ELSE [hostTx EXCEPT !.bit = @ + 1]
  /\ UNCHANGED typed

Uart(baud) ==
  /\ UART0!UART_SEND_DATA(baud)
  /\ IF baud THEN HostReceives ELSE UNCHANGED <<shown, hostRx>>
  /\ \/ \E over \in BOOLEAN : UART0!UART_RECEIVE_DATA(over, FALSE, LineBit) /\ HostSends
     \/ UART0!UART_RECEIVE_DATA(TRUE, TRUE, LineBit) /\ Sampled
  /\ CountAck

uartVars == <<uartSide, TX, uart_tx_state, uart_tx_data_block, uart_tx_count,
              uart_rx_state, uart_rx_count>>

-----------------------------------------------------------------------------

Init ==
  /\ state = "s0" /\ MemoryInit /\ UART0!UARTInit
  /\ B = Pause /\ software = "free"
  /\ written = NoByte /\ fetched = NoByte /\ typed = NoByte /\ shown = NoByte
  /\ hostRx = <<>> /\ hostTx = Quiet
  /\ cpuEdges = 0 /\ uartEdges = 0
  /\ PC = 0 /\ A_HOLD = FALSE /\ JUMP_true = FALSE /\ JUMP_addr = 0
  /\ TLB_data_exception = FALSE /\ TLB_data_write = FALSE /\ A = Bubble

CpuEdge ==
  /\ cpuEdges < MaxCpu /\ cpuEdges' = cpuEdges + 1 /\ uartEdges' = 0
  /\ Cpu /\ UNCHANGED <<uartVars, lineVars, otherWires>>

UartEdge(baud) ==
  /\ uartEdges < MaxUart /\ uartEdges' = uartEdges + 1 /\ cpuEdges' = 0
  /\ Uart(baud) /\ UNCHANGED <<cpuVars, otherWires>>

BothEdges(baud) ==
  /\ cpuEdges' = 1 /\ uartEdges' = 1
  /\ Cpu /\ Uart(baud) /\ UNCHANGED otherWires

Next ==
  \/ CpuEdge
  \/ \E baud \in BOOLEAN : UartEdge(baud) \/ BothEdges(baud)

Spec == Init /\ [][Next]_vars

\* Both clocks run, and the baud counter keeps reaching zero.
FairSpec ==
  /\ Spec
  /\ WF_vars(CpuEdge \/ \E baud \in BOOLEAN : BothEdges(baud))
  /\ WF_vars(UartEdge(TRUE) \/ BothEdges(TRUE))

TypeOK ==
  /\ WiresTypeOK /\ MemoryTypeOK /\ UART0!UARTTypeOK
  /\ cpuEdges \in 0 .. MaxCpu /\ uartEdges \in 0 .. MaxUart
  /\ software \in {"free", "rtest", "wtest", "readable", "writable", "fetching"}
  /\ hostRx \in UNION {[1 .. n -> UART0!Bit] : n \in 0 .. DataBits + 1}

-----------------------------------------------------------------------------
(* Properties *)

\* The byte in the transmitter: the bits already on the line, then the rest.
InTransmitter ==
  LET sent == IF uart_tx_state = "send_stop_bit" THEN DataBits ELSE uart_tx_count
  IN CHOOSE b \in Byte :
       \A i \in 0 .. DataBits - 1 :
         UART0!BitOf(b, i) = IF i < sent THEN hostRx[i + 2]
                             ELSE UART0!BitOf(uart_tx_data_block, i - sent)

UnderWay ==
  (IF uart_tx_state = "idle" THEN <<>> ELSE <<InTransmitter>>)
  \o (IF uart_send_stb_flag = uart_send_ack_flag THEN <<>>
      ELSE <<UART_DATA_SEND>>)
  \o (IF B.mem = "write" /\ state \in {"s0", "s1"} THEN <<B.data[LowPos]>>
      ELSE <<>>)

Outgoing == INSTANCE SerialChannel WITH
  Item <- Written, Capacity <- 2, put <- written, got <- shown,
  queue <- UnderWay

\* Every byte the program writes is received by the terminal once and in
\* order, although the strobe is raised in one clock domain, acknowledged by
\* a pulse of the other and lowered phases later (Memory.vhdl:106-112,153-155,
\* 223-226, UART.vhdl:201-206).
SentOnce == Outgoing!Spec

\* What the program has got, from the moment the memory stage has read it.
Delivered ==
  IF software = "fetching" /\ state \in {"s2", "s3"}
  THEN Another(fetched, s_output[LowPos]) ELSE fetched

Incoming == INSTANCE SerialChannel WITH
  Item <- Typed, Capacity <- 2, put <- typed, got <- Delivered,
  queue <- (IF Unread THEN <<UART_DATA_RECV>> ELSE <<>>)
           \o (IF hostTx.mode = "sending" THEN <<hostTx.byte>> ELSE <<>>)

\* Every byte the terminal sends is fetched once and in order: a byte
\* acknowledged is not offered again, and an acknowledge never falls on the
\* next byte (Memory.vhdl:156,185-189, UART.vhdl:324-329,346-351,360).
FetchedOnce == Incoming!Spec

\* wtest comes to an end: a raised strobe is lowered again (kernel.s:96-101).
StrobeFalls == UART_DATA_SEND_STB ~> ~UART_DATA_SEND_STB

\* A byte that is under way reaches the terminal.
EveryByteLeaves ==
  \A flip \in BOOLEAN :
    (UnderWay # <<>> /\ shown.flip = flip) ~> shown.flip # flip

=============================================================================
