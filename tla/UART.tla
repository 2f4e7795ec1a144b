-------------------------------- MODULE UART --------------------------------
(***************************************************************************)
(* CPU/UART.vhdl: transmitter and receiver.  The variables in capitals are *)
(* the entity's ports.  The two state machines are advanced by one edge of *)
(* the UART's own clock; whether that edge carries the baud tick, the      *)
(* oversampling tick and the sample tick, and what the filtered line reads,*)
(* are parameters: SerialLink makes them from counters and filter, the     *)
(* serial port leaves their rate open.                                     *)
(*                                                                         *)
(* A byte is a number below 2^DataBits, sent with its lowest bit first.    *)
(***************************************************************************)
EXTENDS Naturals

CONSTANTS
  DataBits,     \* 8; the bit counters count modulo DataBits
  DontCare      \* the bit '-' has become in the circuit

ASSUME UARTAssumption == DataBits \in Nat \ {0} /\ DontCare \in {0, 1}

VARIABLES
  DATA_STREAM_IN, DATA_STREAM_IN_STB, DATA_STREAM_IN_ACK,
  DATA_STREAM_OUT,           \* uart_rx_data_block, shared with the receiver
  DATA_STREAM_OUT_STB, DATA_STREAM_OUT_ACK,
  TX,                        \* uart_tx_data
  uart_tx_state, uart_tx_data_block, uart_tx_count,
  uart_rx_state, uart_rx_count

txVars == <<DATA_STREAM_IN_ACK, TX, uart_tx_state, uart_tx_data_block,
            uart_tx_count>>
rxVars == <<DATA_STREAM_OUT, DATA_STREAM_OUT_STB, uart_rx_state, uart_rx_count>>

Bit == {0, 1}
Data == 0 .. 2^DataBits - 1
BitOf(b, i) == (b \div 2^i) % 2

UARTTypeOK ==
  /\ DATA_STREAM_IN_ACK \in BOOLEAN /\ DATA_STREAM_OUT_STB \in BOOLEAN
  /\ DATA_STREAM_OUT \in Data /\ uart_tx_data_block \in Data
  /\ TX \in Bit
  /\ uart_tx_state \in {"idle", "wait_for_tick", "send_start_bit",
                        "transmit_data", "send_stop_bit"}
  /\ uart_rx_state \in {"rx_wait_start_synchronise", "rx_get_start_bit",
                        "rx_get_data", "rx_get_stop_bit"}
  /\ uart_tx_count \in 0 .. DataBits - 1
  /\ uart_rx_count \in 0 .. DataBits - 1

UARTInit ==
  /\ DATA_STREAM_IN_ACK = FALSE /\ DATA_STREAM_OUT_STB = FALSE
  /\ DATA_STREAM_OUT = 0 /\ uart_tx_data_block = 0
  /\ TX = 1
  /\ uart_tx_state = "idle" /\ uart_tx_count = 0
  /\ uart_rx_state = "rx_wait_start_synchronise" /\ uart_rx_count = 0

shift_right_by_one(b, fill) == b \div 2 + fill * 2^(DataBits - 1)

LastBit(count) == count = DataBits - 1

-----------------------------------------------------------------------------
(* Transmitter *)

Idle ==
  /\ uart_tx_state = "idle"
  /\ IF DATA_STREAM_IN_STB
     THEN uart_tx_data_block' = DATA_STREAM_IN /\ uart_tx_state' = "wait_for_tick"
     ELSE UNCHANGED <<uart_tx_data_block, uart_tx_state>>
  /\ DATA_STREAM_IN_ACK' = DATA_STREAM_IN_STB
  /\ UNCHANGED <<TX, uart_tx_count>>

WaitForTick(baud) ==
  /\ uart_tx_state = "wait_for_tick"
  /\ uart_tx_state' = IF baud THEN "send_start_bit" ELSE uart_tx_state
  /\ DATA_STREAM_IN_ACK' = FALSE
  /\ UNCHANGED <<TX, uart_tx_data_block, uart_tx_count>>

SendStartBit(baud) ==
  /\ uart_tx_state = "send_start_bit"
  /\ IF baud THEN TX' = 0 /\ uart_tx_state' = "transmit_data"
     ELSE UNCHANGED <<TX, uart_tx_state>>
  /\ DATA_STREAM_IN_ACK' = FALSE
  /\ UNCHANGED <<uart_tx_data_block, uart_tx_count>>

TransmitData(baud) ==
  /\ uart_tx_state = "transmit_data"
  /\ IF baud
     THEN /\ TX' = uart_tx_data_block % 2
          /\ uart_tx_data_block' = shift_right_by_one(uart_tx_data_block, DontCare)
          /\ uart_tx_state' = IF LastBit(uart_tx_count) THEN "send_stop_bit"
                              ELSE uart_tx_state
          /\ uart_tx_count' = (uart_tx_count + 1) % DataBits
     ELSE UNCHANGED <<TX, uart_tx_data_block, uart_tx_state, uart_tx_count>>
  /\ DATA_STREAM_IN_ACK' = FALSE

SendStopBit(baud) ==
  /\ uart_tx_state = "send_stop_bit"
  /\ IF baud THEN TX' = 1 /\ uart_tx_state' = "idle"
     ELSE UNCHANGED <<TX, uart_tx_state>>
  /\ DATA_STREAM_IN_ACK' = FALSE
  /\ UNCHANGED <<uart_tx_data_block, uart_tx_count>>

UART_SEND_DATA(baud) ==
  \/ Idle
  \/ WaitForTick(baud)
  \/ SendStartBit(baud)
  \/ TransmitData(baud)
  \/ SendStopBit(baud)

-----------------------------------------------------------------------------
(* Receiver *)

\* Between bytes the strobe is revoked when the byte is acknowledged.
Unfetched_UntilStart ==     \* mutant: only while waiting for a start bit
  /\ DATA_STREAM_OUT_STB
  /\ ~(DATA_STREAM_OUT_ACK /\ uart_rx_state = "rx_wait_start_synchronise")
Unfetched == DATA_STREAM_OUT_STB /\ ~DATA_STREAM_OUT_ACK

WaitStart(over, bit) ==
  /\ uart_rx_state = "rx_wait_start_synchronise"
  /\ DATA_STREAM_OUT_STB' = Unfetched
  /\ uart_rx_state' = IF over /\ bit = 0 THEN "rx_get_start_bit"
                      ELSE uart_rx_state
  /\ UNCHANGED <<DATA_STREAM_OUT, uart_rx_count>>

\* A byte not fetched before the middle of the start bit is lost; a start
\* bit that is gone by then was none.
GetStartBit(sample, bit) ==
  /\ uart_rx_state = "rx_get_start_bit"
  /\ DATA_STREAM_OUT_STB' = (Unfetched /\ ~(sample /\ bit = 0))
  /\ uart_rx_state' = IF ~sample THEN uart_rx_state
                      ELSE IF bit = 0 THEN "rx_get_data"
                      ELSE "rx_wait_start_synchronise"
  /\ UNCHANGED <<DATA_STREAM_OUT, uart_rx_count>>

GetData(sample, bit) ==
  /\ uart_rx_state = "rx_get_data"
  /\ IF sample
     THEN /\ DATA_STREAM_OUT' = shift_right_by_one(DATA_STREAM_OUT, bit)
          /\ uart_rx_state' = IF LastBit(uart_rx_count) THEN "rx_get_stop_bit"
                              ELSE uart_rx_state
          /\ uart_rx_count' = (uart_rx_count + 1) % DataBits
     ELSE UNCHANGED <<DATA_STREAM_OUT, uart_rx_state, uart_rx_count>>
  /\ UNCHANGED DATA_STREAM_OUT_STB

GetStopBit(sample, bit) ==
  /\ uart_rx_state = "rx_get_stop_bit"
  /\ DATA_STREAM_OUT_STB' = (DATA_STREAM_OUT_STB \/ (sample /\ bit = 1))
  /\ uart_rx_state' = IF sample THEN "rx_wait_start_synchronise"
                      ELSE uart_rx_state
  /\ UNCHANGED <<DATA_STREAM_OUT, uart_rx_count>>

UART_RECEIVE_DATA(over, sample, bit) ==
  \/ WaitStart(over, bit)
  \/ GetStartBit(sample, bit)
  \/ GetData(sample, bit)
  \/ GetStopBit(sample, bit)

=============================================================================
