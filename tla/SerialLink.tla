----------------------------- MODULE SerialLink -----------------------------
(***************************************************************************)
(* The UART's receiver and a sender whose clock is not its own.  Time is   *)
(* counted in oversampling ticks, 16 to a nominal bit, from the start bit  *)
(* on; every later edge of the line is at most Drift ticks from where it   *)
(* should be.  Between bytes the line may fall for up to MaxGlitch ticks.  *)
(***************************************************************************)
EXTENDS UART, Integers, Sequences

CONSTANTS
  Typed,         \* bytes the terminal may send
  Drift,         \* how far an edge may be from its place
  MaxGlitch      \* how long a false start bit may last

ASSUME SerialLinkAssumption ==
  /\ Typed \subseteq Data
  /\ Drift \in 0 .. 7 /\ MaxGlitch \in Nat

-----------------------------------------------------------------------------
(* The ticks of CPU/UART.vhdl: the counter that divides the oversampling   *)
(* tick by 16, the moment of the 16 at which the receiver samples, and the *)
(* filter on the line.  The divider that makes the oversampling tick is    *)
(* left out: an edge of the clock has the tick or has not.                 *)

VARIABLES baud_counter, uart_rx_sync_clock, uart_rx_filter, uart_rx_bit

timingVars == <<baud_counter, uart_rx_sync_clock, uart_rx_filter, uart_rx_bit>>

TimingInit ==
  /\ baud_counter = 15 /\ uart_rx_sync_clock = 0
  /\ uart_rx_filter = 3 /\ uart_rx_bit = 1

\* The line must read the same often enough before the bit follows.
RXD_SYNC_FILTER(RX) ==
  /\ uart_rx_filter' =
       CASE RX = 1 /\ uart_rx_filter < 3 -> uart_rx_filter + 1
         [] RX = 0 /\ uart_rx_filter > 0 -> uart_rx_filter - 1
         [] OTHER -> uart_rx_filter
  /\ uart_rx_bit' =
       CASE uart_rx_filter = 3 -> 1
         [] uart_rx_filter = 0 -> 0
         [] OTHER -> uart_rx_bit

\* baud_counter with its highest bit inverted: half a bit from now.
HalfABitAway == (baud_counter + 8) % 16

Resynchronize_Always ==               \* mutant: in the middle of a byte, too
  uart_rx_sync_clock' = IF uart_rx_bit = 0 THEN HalfABitAway ELSE uart_rx_sync_clock
Resynchronize ==
  uart_rx_sync_clock' =
    IF uart_rx_state = "rx_wait_start_synchronise" /\ uart_rx_bit = 0
    THEN HalfABitAway ELSE uart_rx_sync_clock

sample_tick == uart_rx_sync_clock = baud_counter

\* A clock edge with the oversampling tick, and one without.
Oversample(RX) ==
  /\ UART_RECEIVE_DATA(TRUE, sample_tick, uart_rx_bit)
  /\ Resynchronize
  /\ UART_SEND_DATA(baud_counter = 0)
  /\ baud_counter' = (baud_counter - 1) % 16
  /\ RXD_SYNC_FILTER(RX)

PlainEdge ==
  /\ UART_RECEIVE_DATA(FALSE, FALSE, uart_rx_bit)
  /\ UART_SEND_DATA(FALSE)
  /\ UNCHANGED timingVars

-----------------------------------------------------------------------------
(* The sender, the receiver's reader, and the line between them.            *)

VARIABLES
  hostTx,      \* what the sender does: mode, byte, bit, ticks since its start
               \* and a byte whose stop bit has ended before it was sampled
  typed,       \* the last byte it has sent
  fetched      \* the last byte the CPU has fetched

uartVars == <<txVars, rxVars, timingVars, DATA_STREAM_IN, DATA_STREAM_IN_STB>>
readerVars == <<DATA_STREAM_OUT_ACK, fetched>>
senderVars == <<hostTx, typed>>
vars == <<uartVars, readerVars, senderVars>>

None == -1
Quiet == [mode |-> "idle", byte |-> 0, bit |-> 0, age |-> 0, late |-> None]

LineBit ==
  CASE hostTx.mode = "idle" -> 1
    [] hostTx.mode = "glitch" -> hostTx.bit
    [] hostTx.mode = "sending" ->
         IF hostTx.bit = 0 THEN 0
         ELSE IF hostTx.bit <= DataBits THEN BitOf(hostTx.byte, hostTx.bit - 1)
         ELSE 1

-----------------------------------------------------------------------------
(* The sender *)

\* A glitch is over after a bit, and a frame starts on a line that was quiet.
Falls ==
  /\ hostTx.mode = "idle"
  /\ \/ \E b \in Typed :
          /\ hostTx' = [hostTx EXCEPT !.mode = "sending", !.byte = b]
          /\ typed' = [value |-> b, flip |-> ~typed.flip]
     \/ /\ MaxGlitch > 0
        /\ hostTx' = [hostTx EXCEPT !.mode = "glitch"] /\ UNCHANGED typed
  /\ UNCHANGED <<uartVars, readerVars>>

EdgeTime == 16 * (hostTx.bit + 1)

Changes ==
  /\ \/ /\ hostTx.mode = "sending"
        /\ hostTx.age >= EdgeTime - Drift
        /\ hostTx' =
             IF hostTx.bit <= DataBits THEN [hostTx EXCEPT !.bit = @ + 1]
             ELSE [Quiet EXCEPT !.late = IF uart_rx_state = "rx_get_stop_bit"
                                         THEN hostTx.byte ELSE None]
     \/ /\ hostTx.mode = "glitch" /\ hostTx.bit = 0 /\ hostTx.age > 0
        /\ hostTx' = [hostTx EXCEPT !.bit = 1]
     \/ hostTx.mode = "glitch" /\ hostTx.age = 16 /\ hostTx' = Quiet
  /\ UNCHANGED <<uartVars, readerVars, typed>>

MayAge ==
  CASE hostTx.mode = "sending" -> hostTx.age < EdgeTime + Drift
    [] hostTx.mode = "glitch" ->
         hostTx.age < (IF hostTx.bit = 0 THEN MaxGlitch ELSE 16)
    [] OTHER -> TRUE

-----------------------------------------------------------------------------
(* The receiver and its reader *)

Unread == DATA_STREAM_OUT_STB /\ ~DATA_STREAM_OUT_ACK

\* The byte before is fetched when a start bit is sampled, and an acknowledge
\* is shorter than a tick.
Tick ==
  /\ MayAge
  /\ uart_rx_state = "rx_get_start_bit" /\ sample_tick => ~Unread
  /\ DATA_STREAM_OUT_ACK => DATA_STREAM_OUT_STB
  /\ Oversample(LineBit)
  /\ hostTx' =
       [hostTx EXCEPT !.age = IF hostTx.mode = "idle" THEN 0 ELSE @ + 1,
                      !.late = IF uart_rx_state' = "rx_get_stop_bit" THEN @ ELSE None]
  /\ UNCHANGED <<DATA_STREAM_IN, DATA_STREAM_IN_STB, readerVars, typed>>

ClockEdge ==
  /\ DATA_STREAM_OUT_ACK
  /\ PlainEdge
  /\ UNCHANGED <<DATA_STREAM_IN, DATA_STREAM_IN_STB, readerVars, senderVars>>

Fetch ==
  /\ Unread
  /\ fetched' = [value |-> DATA_STREAM_OUT, flip |-> ~fetched.flip]
  /\ DATA_STREAM_OUT_ACK' = TRUE
  /\ UNCHANGED <<uartVars, senderVars>>

EndOfPulse ==
  /\ DATA_STREAM_OUT_ACK /\ ~DATA_STREAM_OUT_STB
  /\ DATA_STREAM_OUT_ACK' = FALSE
  /\ UNCHANGED <<uartVars, senderVars, fetched>>

Init ==
  /\ UARTInit /\ TimingInit
  /\ DATA_STREAM_IN = 0 /\ DATA_STREAM_IN_STB = FALSE
  /\ DATA_STREAM_OUT_ACK = FALSE
  /\ hostTx = Quiet
  /\ fetched = [value |-> 0, flip |-> FALSE] /\ typed = fetched

Next == Falls \/ Changes \/ Tick \/ ClockEdge \/ Fetch \/ EndOfPulse

Spec == Init /\ [][Next]_vars

-----------------------------------------------------------------------------
(* Properties *)

\* A frame is a byte under way until the receiver has it.
Ended == hostTx.late # None
Arriving ==
  hostTx.mode = "sending"
  /\ ~(hostTx.bit = DataBits + 1 /\ uart_rx_state = "rx_wait_start_synchronise")

Incoming == INSTANCE SerialChannel WITH
  Item <- Typed, Capacity <- 2, put <- typed, got <- fetched,
  queue <- (IF Unread THEN <<DATA_STREAM_OUT>> ELSE <<>>)
           \o (IF Ended THEN <<hostTx.late>> ELSE <<>>)
           \o (IF Arriving THEN <<hostTx.byte>> ELSE <<>>)

\* Every bit of every frame is sampled once and inside the bit, and a glitch
\* is no frame, whatever the phase of the two clocks: bytes arrive once, in
\* order and unchanged (UART.vhdl:276-308,332-341,352-412).
Received == Incoming!Spec

=============================================================================
