-------------------------- MODULE SerialLink_proofs --------------------------
(***************************************************************************)
(* The receiver and the sender's clock: for bytes of any width, any phase  *)
(* of the two clocks and any false start bits, every byte arrives once, in *)
(* order and unchanged, if no edge of a frame is more than 6 ticks from    *)
(* its place and no false start bit is longer than 8.                      *)
(***************************************************************************)
EXTENDS SerialLink, SerialLemmas

-----------------------------------------------------------------------------
(* The inductive invariant                                                  *)

\* The variables of line and receiver keep to their sets.
Types ==
  /\ baud_counter \in 0 .. 15 /\ uart_rx_sync_clock \in 0 .. 15
  /\ uart_rx_filter \in 0 .. 3 /\ uart_rx_bit \in {0, 1}
  /\ DATA_STREAM_OUT \in Data
  /\ DATA_STREAM_OUT_STB \in BOOLEAN /\ DATA_STREAM_OUT_ACK \in BOOLEAN
  /\ uart_rx_state \in {"rx_wait_start_synchronise", "rx_get_start_bit",
                        "rx_get_data", "rx_get_stop_bit"}
  /\ uart_rx_count \in 0 .. DataBits - 1
  /\ hostTx \in [mode : {"idle", "sending", "glitch"}, byte : Data, bit : Nat,
                 age : Nat, late : Data \cup {None}]

\* Bit k of a frame: start bit, byte, stop bit.
Level(b, k) == IF k = 0 THEN 0 ELSE IF k <= DataBits THEN BitOf(b, k - 1) ELSE 1

\* How old a frame or a false start bit is when the line has its bit.
Sender ==
  /\ hostTx.mode = "idle" => hostTx.bit = 0 /\ hostTx.age = 0
  /\ hostTx.mode = "glitch" =>
       \/ hostTx.bit = 0 /\ hostTx.age <= 8
       \/ hostTx.bit = 1 /\ hostTx.age \in 1 .. 16
  /\ hostTx.mode = "sending" =>
       /\ hostTx.byte \in Typed /\ hostTx.bit <= DataBits + 1
       /\ hostTx.bit > 0 => hostTx.age >= 16 * hostTx.bit - Drift
       /\ hostTx.age <= 16 * (hostTx.bit + 1) + Drift

\* How far the filter is on its way to a level.
Toward(filter, level) == IF level = 1 THEN filter ELSE 3 - filter

\* Behind an edge of the line that came most ticks ago at most and least ticks
\* ago at least, the filter lets the old level through for four ticks.
Follows(filter, bit, old, new, most, least) ==
  /\ Toward(filter, old) >= 3 - most
  /\ most <= 3 => bit = old
  /\ Toward(filter, new) = 3 \/ Toward(filter, new) >= least
  /\ least >= 4 => bit = new

\* What the filter has made of the line.
Filtered ==
  /\ hostTx.mode = "idle" => uart_rx_filter = 3 /\ uart_rx_bit = 1
  /\ hostTx.mode # "idle" /\ hostTx.bit = 0 =>
       /\ uart_rx_filter = IF hostTx.age <= 3 THEN 3 - hostTx.age ELSE 0
       /\ uart_rx_bit = IF hostTx.age <= 3 THEN 1 ELSE 0
  /\ hostTx.mode = "glitch" /\ hostTx.bit = 1 =>
       /\ uart_rx_filter >= 3 - hostTx.age
       /\ hostTx.age <= 3 => uart_rx_bit = 1
       /\ hostTx.age > 3 /\ uart_rx_bit = 1 => uart_rx_filter > 0
       /\ uart_rx_filter = 3 \/ uart_rx_filter >= hostTx.age - 8
       /\ hostTx.age >= 12 => uart_rx_bit = 1
  /\ hostTx.mode = "sending" /\ hostTx.bit > 0 =>
       Follows(uart_rx_filter, uart_rx_bit,
               Level(hostTx.byte, hostTx.bit - 1), Level(hostTx.byte, hostTx.bit),
               hostTx.age - (16 * hostTx.bit - Drift), hostTx.age - (16 * hostTx.bit + Drift))

\* Ticks until the next sample.
ToSample == (baud_counter - uart_rx_sync_clock) % 16

\* The byte has come in as far as its first count bits.
Collected(out, byte, count) ==
  \A i \in 0 .. count - 1 : BitOf(out, DataBits - count + i) = BitOf(byte, i)

\* Bit k of a frame is sampled 12 ticks behind the place of its first edge; the
\* stop bit may be over by then.
Sampling ==
  /\ uart_rx_state # "rx_get_data" => uart_rx_count = 0
  /\ uart_rx_state \in {"rx_get_data", "rx_get_stop_bit"} => ~DATA_STREAM_OUT_STB
  /\ Ended => /\ uart_rx_state = "rx_get_stop_bit" /\ hostTx.late = DATA_STREAM_OUT
              /\ hostTx.mode = "sending" => hostTx.bit = 0
              /\ hostTx.age + ToSample <= 2
  /\ uart_rx_state = "rx_wait_start_synchronise" =>
       /\ hostTx.mode = "sending" =>
            \/ hostTx.bit = 0 /\ hostTx.age <= 4
            \/ hostTx.bit = DataBits + 1 /\ hostTx.age >= 16 * DataBits + 29
       /\ hostTx.mode = "glitch" =>
            hostTx.age <= 4 \/ (hostTx.bit = 1 /\ uart_rx_bit = 1)
  /\ uart_rx_state = "rx_get_start_bit" =>
       hostTx.mode # "idle" /\ hostTx.age + ToSample = 12
  /\ uart_rx_state = "rx_get_data" =>
       /\ hostTx.mode = "sending" /\ hostTx.age + ToSample = 16 * uart_rx_count + 28
       /\ Collected(DATA_STREAM_OUT, hostTx.byte, uart_rx_count)
  /\ uart_rx_state = "rx_get_stop_bit" /\ ~Ended =>
       /\ hostTx.mode = "sending" /\ hostTx.age + ToSample = 16 * DataBits + 28
       /\ DATA_STREAM_OUT = hostTx.byte

Inv == Types /\ Sender /\ Filtered /\ Sampling

-----------------------------------------------------------------------------
(* Bytes                                                                    *)

\* A byte is a number below 2^DataBits.
LEMMA BytesAre == \A b : b \in Data <=> b \in Nat /\ b < Two(DataBits)
<1>1. Two(DataBits) \in Nat /\ Two(DataBits) = 2 ^ DataBits
  BY UARTAssumption, Power DEF Two
<1>2. Data = 0 .. Two(DataBits) - 1
  BY <1>1 DEF Data
<1> QED BY <1>1, <1>2

\* A bit is 0 or 1.
LEMMA BitIs == ASSUME NEW b \in Data, NEW i \in Nat PROVE BitOf(b, i) \in {0, 1}
<1> DEFINE d == 2 ^ i
           q == b \div d
<1>1. b \in Nat /\ d \in Nat \ {0}
  BY BytesAre, Power
<1>2. q \in Nat
  <2> HIDE DEF d
  <2> QED BY <1>1, Divided
<1>3. q % 2 \in {0, 1}
  <2> HIDE DEF q
  <2> QED BY <1>2
<1> QED BY <1>3 DEF BitOf

\* Every bit of a frame is 0 or 1.
LEMMA LevelIs == ASSUME NEW b \in Data, NEW k \in Nat PROVE Level(b, k) \in {0, 1}
<1>1. k # 0 => k - 1 \in Nat
  OBVIOUS
<1> QED BY <1>1, BitIs, UARTAssumption DEF Level

\* shift_right_by_one (UART.vhdl:137-146): a bit comes in at the top, the others move down.
LEMMA ByteShifted ==
  ASSUME NEW b \in Data, NEW x \in {0, 1}, NEW s, s = shift_right_by_one(b, x)
  PROVE  /\ s \in Data
         /\ BitOf(s, DataBits - 1) = x
         /\ \A i \in Nat : i < DataBits - 1 => BitOf(s, i) = BitOf(b, i + 1)
<1> DEFINE n == DataBits - 1
<1>1. n \in Nat /\ n + 1 = DataBits
  BY UARTAssumption
<1>2. b \in Nat /\ b < Two(n + 1)
  <2> HIDE DEF n
  <2> QED BY <1>1, BytesAre
<1>3. s = (b \div 2) + x * Two(n)
  BY DEF shift_right_by_one, Two
<1>4. \A c, i : BitOf(c, i) = Digit(c, i)
  BY DEF BitOf, Digit
<1> HIDE DEF n
<1>5. s \in Nat /\ s < Two(n + 1) /\ Digit(s, n) = x
  BY <1>1, <1>2, <1>3, Shifted
<1>6. s \in Data
  BY <1>1, <1>5, BytesAre
<1>7. ASSUME NEW i \in Nat, i < n PROVE Digit(s, i) = Digit(b, i + 1)
  BY <1>1, <1>2, <1>3, <1>7, ShiftedOn
<1> QED BY <1>4, <1>5, <1>6, <1>7 DEF n

\* A byte of which all bits have come in is the byte that was sent.
LEMMA AllCollected ==
  ASSUME NEW a \in Data, NEW b \in Data, Collected(a, b, DataBits)
  PROVE  a = b
<1>1. a \in Nat /\ b \in Nat /\ a < Two(DataBits) /\ b < Two(DataBits)
  BY BytesAre
<1>2. ASSUME NEW i \in Nat, i < DataBits PROVE Digit(a, i) = Digit(b, i)
  <2>1. i \in 0 .. DataBits - 1 /\ DataBits - DataBits + i = i
    BY <1>2, UARTAssumption
  <2>2. BitOf(a, i) = BitOf(b, i)
    BY <2>1 DEF Collected
  <2> QED BY <2>2 DEF BitOf, Digit
<1> QED BY <1>1, <1>2, UARTAssumption, SameDigits

\* One more bit comes in.
LEMMA OneMore ==
  ASSUME NEW out \in Data, NEW b \in Data, NEW c \in 0 .. DataBits - 1,
         Collected(out, b, c)
  PROVE  Collected(shift_right_by_one(out, BitOf(b, c)), b, c + 1)
<1> DEFINE s == shift_right_by_one(out, BitOf(b, c))
<1>1. BitOf(b, c) \in {0, 1}
  BY UARTAssumption, BitIs
<1>2. /\ BitOf(s, DataBits - 1) = BitOf(b, c)
      /\ \A i \in Nat : i < DataBits - 1 => BitOf(s, i) = BitOf(out, i + 1)
  BY <1>1, ByteShifted
<1> HIDE DEF s
<1>3. ASSUME NEW i \in 0 .. (c + 1) - 1
      PROVE  BitOf(s, DataBits - (c + 1) + i) = BitOf(b, i)
  <2>1. CASE i = c
    <3>1. DataBits - (c + 1) + i = DataBits - 1
      BY <2>1, UARTAssumption
    <3> QED BY <1>2, <2>1, <3>1
  <2>2. CASE i # c
    <3>1. /\ i \in 0 .. c - 1 /\ DataBits - (c + 1) + i \in Nat
          /\ DataBits - (c + 1) + i < DataBits - 1
          /\ (DataBits - (c + 1) + i) + 1 = DataBits - c + i
      BY <2>2, UARTAssumption
    <3>2. BitOf(s, DataBits - (c + 1) + i) = BitOf(out, (DataBits - (c + 1) + i) + 1)
      BY <1>2, <3>1
    <3> QED BY <3>1, <3>2 DEF Collected
  <2> QED BY <2>1, <2>2
<1> QED BY <1>3 DEF Collected, s

-----------------------------------------------------------------------------
(* One tick                                                                 *)

\* What is known of the constants.
LEMMA Constants ==
  /\ DataBits \in Nat \ {0} /\ Drift \in 0 .. 7 /\ MaxGlitch \in Nat
  /\ Typed \subseteq Data /\ 0 \in Data /\ None \notin Data
  /\ \A b \in Data : b \in Nat
<1>1. 0 < Two(DataBits)
  BY UARTAssumption, Power DEF Two
<1> QED BY <1>1, UARTAssumption, SerialLinkAssumption, BytesAre DEF None

\* The counter of bits goes round.
LEMMA Modulo ==
  ASSUME NEW n \in Nat \ {0}, NEW c \in 0 .. n - 1
  PROVE  (c + 1) % n = IF c = n - 1 THEN 0 ELSE c + 1
<1>1. CASE c = n - 1
  <2>1. c + 1 = n * 1 + 0
    BY <1>1
  <2>2. (c + 1) % n = 0
    BY <2>1, Quotient
  <2> QED BY <1>1, <2>2
<1>2. CASE c # n - 1
  <2>1. c + 1 = n * 0 + (c + 1) /\ c + 1 < n
    BY <1>2
  <2>2. (c + 1) % n = c + 1
    BY <2>1, Quotient
  <2> QED BY <1>2, <2>2
<1> QED BY <1>1, <1>2

\* The ticks to the next sample are counted down, and begin anew in the middle
\* between two samples when the receiver synchronises.
LEMMA Countdown ==
  ASSUME Types
  PROVE  /\ ToSample \in 0 .. 15
         /\ sample_tick <=> ToSample = 0
         /\ UNCHANGED uart_rx_sync_clock /\ baud_counter' = (baud_counter - 1) % 16 =>
              ToSample' = IF ToSample = 0 THEN 15 ELSE ToSample - 1
         /\ uart_rx_sync_clock' = HalfABitAway /\ baud_counter' = (baud_counter - 1) % 16 =>
              ToSample' = 7
BY DEF Types, ToSample, sample_tick, HalfABitAway

\* What a tick does to counters, filter and sender.
LEMMA TickIs ==
  ASSUME Types, Tick
  PROVE  /\ MayAge
         /\ uart_rx_state = "rx_get_start_bit" /\ ToSample = 0 => ~Unread
         /\ DATA_STREAM_OUT_ACK => DATA_STREAM_OUT_STB
         /\ UNCHANGED <<DATA_STREAM_OUT_ACK, fetched, typed>>
         /\ UART_RECEIVE_DATA(TRUE, ToSample = 0, uart_rx_bit)
         /\ RXD_SYNC_FILTER(LineBit)
         /\ ToSample' = IF uart_rx_state = "rx_wait_start_synchronise" /\ uart_rx_bit = 0
                        THEN 7 ELSE IF ToSample = 0 THEN 15 ELSE ToSample - 1
         /\ baud_counter' \in 0 .. 15 /\ uart_rx_sync_clock' \in 0 .. 15
         /\ hostTx' = [hostTx EXCEPT
              !.age = IF hostTx.mode = "idle" THEN 0 ELSE hostTx.age + 1,
              !.late = IF uart_rx_state' = "rx_get_stop_bit" THEN hostTx.late ELSE None]
<1>1. Oversample(LineBit) /\ sample_tick = (ToSample = 0)
  BY Countdown DEF Tick, sample_tick
<1>2. baud_counter' = (baud_counter - 1) % 16 /\ baud_counter' \in 0 .. 15
  BY <1>1 DEF Oversample, Types
<1>3. CASE uart_rx_state = "rx_wait_start_synchronise" /\ uart_rx_bit = 0
  <2>1. uart_rx_sync_clock' = HalfABitAway
    BY <1>1, <1>3 DEF Oversample, Resynchronize
  <2>2. ToSample' = 7 /\ uart_rx_sync_clock' \in 0 .. 15
    BY <1>2, <2>1, Countdown DEF HalfABitAway, Types
  <2> QED BY <1>1, <1>2, <1>3, <2>2 DEF Tick, Oversample, readerVars
<1>4. CASE ~(uart_rx_state = "rx_wait_start_synchronise" /\ uart_rx_bit = 0)
  <2>1. UNCHANGED uart_rx_sync_clock
    BY <1>1, <1>4 DEF Oversample, Resynchronize
  <2>2. ToSample' = (IF ToSample = 0 THEN 15 ELSE ToSample - 1) /\ uart_rx_sync_clock' \in 0 .. 15
    BY <1>2, <2>1, Countdown DEF Types
  <2> QED BY <1>1, <1>2, <1>4, <2>2 DEF Tick, Oversample, readerVars
<1> QED BY <1>3, <1>4

\* What the receiver does at an edge of its clock.
LEMMA ReceiverIs ==
  ASSUME Types, NEW over \in BOOLEAN, NEW sample \in BOOLEAN,
         UART_RECEIVE_DATA(over, sample, uart_rx_bit)
  PROVE  /\ uart_rx_state = "rx_wait_start_synchronise" =>
              /\ DATA_STREAM_OUT_STB' = Unread /\ UNCHANGED <<DATA_STREAM_OUT, uart_rx_count>>
              /\ uart_rx_state' = IF over /\ uart_rx_bit = 0 THEN "rx_get_start_bit"
                                  ELSE "rx_wait_start_synchronise"
         /\ uart_rx_state = "rx_get_start_bit" =>
              /\ DATA_STREAM_OUT_STB' = (Unread /\ ~(sample /\ uart_rx_bit = 0))
              /\ UNCHANGED <<DATA_STREAM_OUT, uart_rx_count>>
              /\ uart_rx_state' = IF ~sample THEN "rx_get_start_bit"
                                  ELSE IF uart_rx_bit = 0 THEN "rx_get_data"
                                  ELSE "rx_wait_start_synchronise"
         /\ uart_rx_state = "rx_get_data" =>
              /\ UNCHANGED DATA_STREAM_OUT_STB
              /\ sample =>
                   /\ DATA_STREAM_OUT' = shift_right_by_one(DATA_STREAM_OUT, uart_rx_bit)
                   /\ IF uart_rx_count = DataBits - 1
                      THEN uart_rx_state' = "rx_get_stop_bit" /\ uart_rx_count' = 0
                      ELSE uart_rx_state' = "rx_get_data" /\ uart_rx_count' = uart_rx_count + 1
              /\ ~sample => UNCHANGED <<DATA_STREAM_OUT, uart_rx_state, uart_rx_count>>
         /\ uart_rx_state = "rx_get_stop_bit" =>
              /\ DATA_STREAM_OUT_STB' = (DATA_STREAM_OUT_STB \/ (sample /\ uart_rx_bit = 1))
              /\ UNCHANGED <<DATA_STREAM_OUT, uart_rx_count>>
              /\ uart_rx_state' = IF sample THEN "rx_wait_start_synchronise"
                                  ELSE "rx_get_stop_bit"
<1>1. CASE uart_rx_state = "rx_wait_start_synchronise"
  BY <1>1 DEF UART_RECEIVE_DATA, WaitStart, GetStartBit, GetData, GetStopBit, Unfetched, Unread
<1>2. CASE uart_rx_state = "rx_get_start_bit"
  BY <1>2 DEF UART_RECEIVE_DATA, WaitStart, GetStartBit, GetData, GetStopBit, Unfetched, Unread
<1>3. CASE uart_rx_state = "rx_get_data"
  <2>1. GetData(sample, uart_rx_bit)
    BY <1>3 DEF UART_RECEIVE_DATA, WaitStart, GetStartBit, GetStopBit
  <2>2. (uart_rx_count + 1) % DataBits =
          IF uart_rx_count = DataBits - 1 THEN 0 ELSE uart_rx_count + 1
    BY Constants, Modulo DEF Types
  <2> QED BY <1>3, <2>1, <2>2 DEF GetData, LastBit
<1>4. CASE uart_rx_state = "rx_get_stop_bit"
  BY <1>4 DEF UART_RECEIVE_DATA, WaitStart, GetStartBit, GetData, GetStopBit
<1> QED BY <1>1, <1>2, <1>3, <1>4 DEF Types

\* The receiver keeps to its sets.
LEMMA ReceiverTypes ==
  ASSUME Types, NEW over \in BOOLEAN, NEW sample \in BOOLEAN,
         UART_RECEIVE_DATA(over, sample, uart_rx_bit)
  PROVE  /\ DATA_STREAM_OUT' \in Data /\ DATA_STREAM_OUT_STB' \in BOOLEAN
         /\ uart_rx_state' \in {"rx_wait_start_synchronise", "rx_get_start_bit",
                                "rx_get_data", "rx_get_stop_bit"}
         /\ uart_rx_count' \in 0 .. DataBits - 1
<1>1. shift_right_by_one(DATA_STREAM_OUT, uart_rx_bit) \in Data
  BY ByteShifted DEF Types
<1>2. Unread \in BOOLEAN
  BY DEF Unread
<1>3. CASE uart_rx_state = "rx_get_data"
  BY <1>1, <1>3, ReceiverIs, Constants DEF Types
<1>4. CASE uart_rx_state # "rx_get_data"
  BY <1>2, <1>4, ReceiverIs DEF Types
<1> QED BY <1>3, <1>4

\* The line is 0 or 1.
LEMMA LineIs ==
  ASSUME Types
  PROVE  /\ hostTx.mode = "idle" => LineBit = 1
         /\ hostTx.mode = "glitch" => LineBit = hostTx.bit
         /\ hostTx.mode = "sending" => /\ LineBit = Level(hostTx.byte, hostTx.bit)
                                       /\ LineBit \in {0, 1}
<1>1. hostTx.byte \in Data /\ hostTx.bit \in Nat
  BY DEF Types
<1>2. Level(hostTx.byte, hostTx.bit) \in {0, 1}
  BY <1>1, LevelIs
<1>3. hostTx.mode = "sending" => LineBit = Level(hostTx.byte, hostTx.bit)
  BY DEF LineBit, Level
<1> QED BY <1>2, <1>3 DEF LineBit

\* A tick keeps all to their sets.
LEMMA TypesTick == ASSUME Types, Tick PROVE Types'
<1>1. /\ DATA_STREAM_OUT' \in Data /\ DATA_STREAM_OUT_STB' \in BOOLEAN
      /\ uart_rx_state' \in {"rx_wait_start_synchronise", "rx_get_start_bit",
                             "rx_get_data", "rx_get_stop_bit"}
      /\ uart_rx_count' \in 0 .. DataBits - 1
  BY TickIs, ReceiverTypes
<1>2. uart_rx_filter' \in 0 .. 3 /\ uart_rx_bit' \in {0, 1}
  <2>1. RXD_SYNC_FILTER(LineBit)
    BY TickIs
  <2> HIDE DEF LineBit
  <2>2. uart_rx_filter \in 0 .. 3 /\ uart_rx_bit \in {0, 1}
    BY DEF Types
  <2> QED BY <2>1, <2>2 DEF RXD_SYNC_FILTER
<1>3. hostTx' \in [mode : {"idle", "sending", "glitch"}, byte : Data, bit : Nat,
                   age : Nat, late : Data \cup {None}]
  <2> DEFINE age == IF hostTx.mode = "idle" THEN 0 ELSE hostTx.age + 1
             late == IF uart_rx_state' = "rx_get_stop_bit" THEN hostTx.late ELSE None
  <2>1. hostTx' = [hostTx EXCEPT !.age = age, !.late = late]
    BY TickIs
  <2>2. /\ hostTx \in [mode : {"idle", "sending", "glitch"}, byte : Data, bit : Nat,
                       age : Nat, late : Data \cup {None}]
        /\ age \in Nat /\ late \in Data \cup {None}
    BY DEF Types
  <2> HIDE DEF age, late
  <2> QED BY <2>1, <2>2
<1> QED BY <1>1, <1>2, <1>3, TickIs DEF Types

\* What a tick does to the sender.
LEMMA Ages ==
  ASSUME Types, Tick
  PROVE  /\ hostTx'.mode = hostTx.mode /\ hostTx'.byte = hostTx.byte /\ hostTx'.bit = hostTx.bit
         /\ hostTx'.age = IF hostTx.mode = "idle" THEN 0 ELSE hostTx.age + 1
         /\ hostTx'.late = IF uart_rx_state' = "rx_get_stop_bit" THEN hostTx.late ELSE None
<1>1. hostTx \in [mode : {"idle", "sending", "glitch"}, byte : Data, bit : Nat,
                  age : Nat, late : Data \cup {None}]
  BY DEF Types
<1> QED BY <1>1, TickIs

\* An edge of the line is never late.
LEMMA SenderTick ==
  ASSUME Types, Sender, Tick, MaxGlitch <= 8
  PROVE  Sender'
<1>1. MayAge /\ hostTx.age \in Nat /\ hostTx.bit \in Nat
  BY TickIs DEF Types
<1>2. CASE hostTx.mode = "idle"
  BY <1>2, Ages DEF Sender
<1>3. CASE hostTx.mode = "glitch"
  BY <1>1, <1>3, Ages, Constants DEF Sender, MayAge
<1>4. CASE hostTx.mode = "sending"
  BY <1>1, <1>4, Ages, Constants DEF Sender, MayAge, EdgeTime
<1> QED BY <1>2, <1>3, <1>4 DEF Types

\* The filter one tick later.
LEMMA OneTick ==
  ASSUME Types, NEW old \in {0, 1}, NEW new \in {0, 1}, NEW most \in Nat, NEW least \in Int,
         Follows(uart_rx_filter, uart_rx_bit, old, new, most, least), RXD_SYNC_FILTER(new)
  PROVE  Follows(uart_rx_filter', uart_rx_bit', old, new, most + 1, least + 1)
<1>1. uart_rx_filter \in 0 .. 3 /\ uart_rx_bit \in {0, 1}
  BY DEF Types
<1> QED BY <1>1 DEF Follows, Toward, RXD_SYNC_FILTER

\* The filter follows the line.
LEMMA FilteredTick ==
  ASSUME Types, Sender, Filtered, Tick
  PROVE  Filtered'
<1>1. /\ hostTx.age \in Nat /\ hostTx.bit \in Nat /\ hostTx.byte \in Data
      /\ uart_rx_filter \in 0 .. 3 /\ uart_rx_bit \in {0, 1}
  BY DEF Types
<1>2. RXD_SYNC_FILTER(LineBit)
  BY TickIs
<1> HIDE DEF LineBit
<1>3. CASE hostTx.mode = "idle"
  <2>1. LineBit = 1 /\ hostTx'.mode = "idle" /\ hostTx'.bit = 0
    BY <1>3, LineIs, Ages DEF Sender
  <2> QED BY <1>2, <1>3, <2>1 DEF Filtered, RXD_SYNC_FILTER
<1>4. CASE hostTx.mode # "idle" /\ hostTx.bit = 0
  <2>1. LineBit = 0
    BY <1>1, <1>4, LineIs DEF Level, Types
  <2>2. hostTx'.mode # "idle" /\ hostTx'.bit = 0 /\ hostTx'.age = hostTx.age + 1
    BY <1>4, Ages
  <2> QED BY <1>1, <1>2, <1>4, <2>1, <2>2 DEF Filtered, RXD_SYNC_FILTER
<1>5. CASE hostTx.mode = "glitch" /\ hostTx.bit # 0
  <2>1. LineBit = 1 /\ hostTx.bit = 1
    BY <1>5, LineIs DEF Sender
  <2>2. hostTx'.mode = "glitch" /\ hostTx'.bit = 1 /\ hostTx'.age = hostTx.age + 1
    BY <1>5, <2>1, Ages
  <2>3. /\ hostTx'.mode = "glitch" /\ hostTx'.bit = 1 =>
             /\ uart_rx_filter' >= 3 - hostTx'.age
             /\ hostTx'.age <= 3 => uart_rx_bit' = 1
             /\ hostTx'.age > 3 /\ uart_rx_bit' = 1 => uart_rx_filter' > 0
             /\ uart_rx_filter' = 3 \/ uart_rx_filter' >= hostTx'.age - 8
             /\ hostTx'.age >= 12 => uart_rx_bit' = 1
    BY <1>1, <1>2, <1>5, <2>1, <2>2 DEF Filtered, RXD_SYNC_FILTER
  <2> QED BY <2>2, <2>3 DEF Filtered
<1>6. CASE hostTx.mode = "sending" /\ hostTx.bit # 0
  <2> DEFINE old == Level(hostTx.byte, hostTx.bit - 1)
             new == Level(hostTx.byte, hostTx.bit)
             most == hostTx.age - (16 * hostTx.bit - Drift)
             least == hostTx.age - (16 * hostTx.bit + Drift)
  <2>1. LineBit = new /\ new \in {0, 1}
    BY <1>6, LineIs
  <2>2. old \in {0, 1}
    <3>1. hostTx.bit - 1 \in Nat
      BY <1>1, <1>6
    <3> QED BY <1>1, <3>1, LevelIs
  <2>3. most \in Nat /\ least \in Int
    BY <1>1, <1>6, Constants DEF Sender
  <2>4. Follows(uart_rx_filter, uart_rx_bit, old, new, most, least)
    BY <1>1, <1>6 DEF Filtered
  <2>5. RXD_SYNC_FILTER(new)
    BY <1>2, <2>1
  <2>6. /\ hostTx'.mode = "sending" /\ hostTx'.bit = hostTx.bit /\ hostTx'.byte = hostTx.byte
        /\ hostTx'.age = hostTx.age + 1
    BY <1>6, Ages
  <2>7. /\ hostTx'.age - (16 * hostTx'.bit - Drift) = most + 1
        /\ hostTx'.age - (16 * hostTx'.bit + Drift) = least + 1
    BY <1>1, <2>6, Constants
  <2> HIDE DEF old, new, most, least
  <2>8. Follows(uart_rx_filter', uart_rx_bit', old, new, most + 1, least + 1)
    BY <2>1, <2>2, <2>3, <2>4, <2>5, OneTick
  <2> QED BY <1>6, <2>6, <2>7, <2>8 DEF Filtered, old, new
<1>7. hostTx.mode \in {"idle", "glitch", "sending"}
  BY DEF Types
<1> QED BY <1>3, <1>4, <1>5, <1>6, <1>7

\* Twelve ticks behind its place the line's bit k is the one that is sampled.
LEMMA InsideTheBit ==
  ASSUME Types, Sender, Filtered, Drift <= 6, hostTx.mode = "sending",
         NEW k \in Nat, hostTx.age = 16 * k + 12
  PROVE  hostTx.bit \in {k, k + 1} /\ uart_rx_bit = Level(hostTx.byte, k)
<1>1. hostTx.bit \in Nat /\ hostTx.bit \in {k, k + 1}
  BY Constants DEF Types, Sender
<1>2. CASE hostTx.bit = 0
  BY <1>1, <1>2 DEF Filtered, Level
<1>3. CASE hostTx.bit = k /\ k # 0
  BY <1>3, Constants DEF Filtered, Follows
<1>4. CASE hostTx.bit = k + 1
  <2>1. hostTx.bit - 1 = k /\ hostTx.bit > 0 /\ hostTx.age - (16 * hostTx.bit - Drift) <= 3
    BY <1>4, Constants
  <2> QED BY <1>1, <2>1 DEF Filtered, Follows
<1> QED BY <1>1, <1>2, <1>3, <1>4

\* The filter never lets a false start bit through a second time.
LEMMA GlitchOver ==
  ASSUME Types, Filtered, Tick, hostTx.mode = "glitch", hostTx.bit = 1, uart_rx_bit = 1,
         hostTx.age > 3
  PROVE  uart_rx_bit' = 1
<1>1. RXD_SYNC_FILTER(LineBit)
  BY TickIs
<1>2. uart_rx_filter > 0
  BY DEF Filtered
<1> HIDE DEF LineBit
<1> QED BY <1>1, <1>2 DEF RXD_SYNC_FILTER, Types

\* What a waiting receiver takes for the start of a frame is its start bit.
LEMMA SeesStart ==
  ASSUME Types, Filtered, Sampling, Drift <= 6, hostTx.mode = "sending",
         uart_rx_state = "rx_wait_start_synchronise", uart_rx_bit = 0
  PROVE  hostTx.bit = 0
<1>1. hostTx.age \in Nat
  BY DEF Types
<1>2. SUFFICES ASSUME hostTx.bit # 0 PROVE FALSE
  OBVIOUS
<1>3. hostTx.bit = DataBits + 1 /\ hostTx.age >= 16 * DataBits + 29
  BY <1>2 DEF Sampling
<1>4. hostTx.age - (16 * hostTx.bit + Drift) >= 4 /\ hostTx.bit > 0
  BY <1>1, <1>3, Constants
<1>5. Level(hostTx.byte, hostTx.bit) = 1
  BY <1>3, Constants DEF Level
<1> QED BY <1>4, <1>5 DEF Filtered, Follows

\* A tick while the receiver waits for a start bit.
LEMMA TickWaiting ==
  ASSUME Types, Sender, Filtered, Sampling, Tick, Drift <= 6,
         uart_rx_state = "rx_wait_start_synchronise"
  PROVE  Sampling'
<1>1. hostTx.age \in Nat /\ uart_rx_bit \in {0, 1} /\ hostTx.mode \in {"idle", "sending", "glitch"}
  BY DEF Types
<1>2. /\ UNCHANGED uart_rx_count /\ uart_rx_count = 0
      /\ uart_rx_state' = IF uart_rx_bit = 0 THEN "rx_get_start_bit"
                          ELSE "rx_wait_start_synchronise"
  BY TickIs, ReceiverIs DEF Sampling
<1>3. ~Ended'
  BY <1>2, Ages DEF Ended
<1>4. CASE uart_rx_bit = 0
  <2>1. ToSample' = 7
    BY <1>4, TickIs
  <2>2. hostTx.mode # "idle" /\ hostTx.age = 4
    <3>1. CASE hostTx.mode = "idle"
      BY <1>4, <3>1 DEF Filtered
    <3>2. CASE hostTx.mode = "glitch"
      BY <1>1, <1>4, <3>2 DEF Filtered, Sampling, Sender
    <3>3. CASE hostTx.mode = "sending"
      <4>1. hostTx.bit = 0
        BY <1>4, <3>3, SeesStart
      <4> QED BY <1>1, <1>4, <3>3, <4>1, Constants DEF Filtered, Sampling
    <3> QED BY <1>1, <3>1, <3>2, <3>3
  <2>3. hostTx'.age = 5 /\ hostTx'.mode # "idle"
    BY <2>2, Ages
  <2> QED BY <1>2, <1>3, <1>4, <2>1, <2>3 DEF Sampling
<1>5. CASE uart_rx_bit = 1
  <2>1. uart_rx_state' = "rx_wait_start_synchronise"
    BY <1>2, <1>5
  <2>2. hostTx'.mode = "sending" =>
            \/ hostTx'.bit = 0 /\ hostTx'.age <= 4
            \/ hostTx'.bit = DataBits + 1 /\ hostTx'.age >= 16 * DataBits + 29
    BY <1>1, <1>5, Ages, Constants DEF Sampling, Filtered
  <2>3. hostTx'.mode = "glitch" =>
          hostTx'.age <= 4 \/ (hostTx'.bit = 1 /\ uart_rx_bit' = 1)
    <3> SUFFICES ASSUME hostTx.mode = "glitch", hostTx.age > 3
                 PROVE  hostTx'.bit = 1 /\ uart_rx_bit' = 1
      BY <1>1, Ages
    <3>1. hostTx.bit = 1
      BY <1>1, <1>5 DEF Sender, Filtered
    <3> QED BY <1>5, <3>1, GlitchOver, Ages
  <2> QED BY <1>2, <1>3, <2>1, <2>2, <2>3 DEF Sampling
<1> QED BY <1>1, <1>4, <1>5

\* A tick in the start bit.
LEMMA TickStart ==
  ASSUME Types, Sender, Filtered, Sampling, Tick, Drift <= 6,
         uart_rx_state = "rx_get_start_bit"
  PROVE  Sampling'
<1>1. /\ hostTx.age \in Nat /\ hostTx.mode \in {"sending", "glitch"}
      /\ hostTx.age + ToSample = 12 /\ ToSample \in 0 .. 15 /\ uart_rx_count = 0
  BY Countdown DEF Types, Sampling
<1>2. hostTx'.mode = hostTx.mode /\ hostTx'.bit = hostTx.bit /\ hostTx'.age = hostTx.age + 1
  BY <1>1, Ages
<1>3. ToSample' = IF ToSample = 0 THEN 15 ELSE ToSample - 1
  BY TickIs
<1>4. CASE ToSample # 0
  <2>1. uart_rx_state' = "rx_get_start_bit" /\ UNCHANGED uart_rx_count
    BY <1>4, TickIs, ReceiverIs
  <2>2. ~Ended'
    BY <2>1, Ages DEF Ended
  <2>3. hostTx'.age + ToSample' = 12
    BY <1>1, <1>2, <1>3, <1>4
  <2> QED BY <1>1, <1>2, <2>1, <2>2, <2>3 DEF Sampling
<1>5. CASE ToSample = 0 /\ hostTx.mode = "sending"
  <2>1. uart_rx_bit = 0
    <3>1. hostTx.age = 16 * 0 + 12
      BY <1>1, <1>5
    <3> QED BY <1>5, <3>1, InsideTheBit DEF Level
  <2>2. uart_rx_state' = "rx_get_data" /\ UNCHANGED uart_rx_count /\ ~DATA_STREAM_OUT_STB'
    BY <1>5, <2>1, TickIs, ReceiverIs
  <2>3. ~Ended'
    BY <2>2, Ages DEF Ended
  <2>4. hostTx'.age + ToSample' = 28
    BY <1>1, <1>2, <1>3, <1>5
  <2> QED BY <1>1, <1>2, <1>5, <2>2, <2>3, <2>4 DEF Sampling, Collected
<1>6. CASE ToSample = 0 /\ hostTx.mode = "glitch"
  <2>1. hostTx.bit = 1 /\ uart_rx_bit = 1
    BY <1>1, <1>6 DEF Sender, Filtered
  <2>2. uart_rx_state' = "rx_wait_start_synchronise" /\ UNCHANGED uart_rx_count
    <3>1. UART_RECEIVE_DATA(TRUE, TRUE, uart_rx_bit)
      BY <1>6, TickIs
    <3>2. /\ UNCHANGED uart_rx_count
          /\ uart_rx_state' = IF uart_rx_bit = 0 THEN "rx_get_data"
                              ELSE "rx_wait_start_synchronise"
      BY <3>1, ReceiverIs
    <3> QED BY <2>1, <3>2
  <2>3. ~Ended'
    BY <2>2, Ages DEF Ended
  <2>4. uart_rx_bit' = 1
    BY <1>1, <1>6, <2>1, GlitchOver
  <2> QED BY <1>1, <1>2, <1>6, <2>1, <2>2, <2>3, <2>4 DEF Sampling
<1> QED BY <1>1, <1>4, <1>5, <1>6

\* A tick in the byte.
LEMMA TickData ==
  ASSUME Types, Sender, Filtered, Sampling, Tick, Drift <= 6,
         uart_rx_state = "rx_get_data"
  PROVE  Sampling'
<1>1. /\ hostTx.age \in Nat /\ hostTx.mode = "sending" /\ hostTx.byte \in Data
      /\ uart_rx_count \in 0 .. DataBits - 1 /\ DATA_STREAM_OUT \in Data
      /\ hostTx.age + ToSample = 16 * uart_rx_count + 28 /\ ToSample \in 0 .. 15
      /\ Collected(DATA_STREAM_OUT, hostTx.byte, uart_rx_count) /\ ~DATA_STREAM_OUT_STB
  BY Countdown DEF Types, Sampling
<1>2. /\ hostTx'.mode = "sending" /\ hostTx'.byte = hostTx.byte
      /\ hostTx'.age = hostTx.age + 1
  BY <1>1, Ages
<1>3. ToSample' = IF ToSample = 0 THEN 15 ELSE ToSample - 1
  BY TickIs
<1>4. ~Ended /\ ~DATA_STREAM_OUT_STB'
  BY <1>1, TickIs, ReceiverIs DEF Sampling
<1>5. ~Ended'
  BY <1>4, Ages DEF Ended
<1>6. CASE ToSample # 0
  <2>1. UNCHANGED <<DATA_STREAM_OUT, uart_rx_state, uart_rx_count>>
    BY <1>6, TickIs, ReceiverIs
  <2>2. hostTx'.age + ToSample' = 16 * uart_rx_count + 28
    BY <1>1, <1>2, <1>3, <1>6
  <2> QED BY <1>1, <1>2, <1>4, <1>5, <2>1, <2>2 DEF Sampling
<1>7. CASE ToSample = 0
  <2>1. uart_rx_bit = BitOf(hostTx.byte, uart_rx_count)
    <3> DEFINE k == uart_rx_count + 1
    <3>1. k \in Nat /\ hostTx.age = 16 * k + 12
      BY <1>1, <1>7, Constants
    <3>2. Level(hostTx.byte, k) = BitOf(hostTx.byte, uart_rx_count)
      BY <1>1, Constants DEF Level
    <3> HIDE DEF k
    <3> QED BY <1>1, <3>1, <3>2, InsideTheBit
  <2> DEFINE out == shift_right_by_one(DATA_STREAM_OUT, uart_rx_bit)
  <2>2. Collected(out, hostTx.byte, uart_rx_count + 1)
    BY <1>1, <2>1, OneMore
  <2>3. out \in Data
    BY <1>1, ByteShifted DEF Types
  <2>4. /\ DATA_STREAM_OUT' = out
        /\ IF uart_rx_count = DataBits - 1
           THEN uart_rx_state' = "rx_get_stop_bit" /\ uart_rx_count' = 0
           ELSE uart_rx_state' = "rx_get_data" /\ uart_rx_count' = uart_rx_count + 1
    BY <1>7, TickIs, ReceiverIs
  <2> HIDE DEF out
  <2>5. hostTx'.age + ToSample' = 16 * (uart_rx_count + 1) + 28
    BY <1>1, <1>2, <1>3, <1>7, Constants
  <2>6. CASE uart_rx_count = DataBits - 1
    <3>1. uart_rx_count + 1 = DataBits
      BY <2>6, Constants
    <3>2. out = hostTx.byte
      BY <1>1, <2>2, <2>3, <3>1, AllCollected
    <3> QED BY <1>2, <1>4, <1>5, <2>4, <2>5, <2>6, <3>1, <3>2 DEF Sampling
  <2>7. CASE uart_rx_count # DataBits - 1
    BY <1>2, <1>4, <1>5, <2>2, <2>4, <2>5, <2>7 DEF Sampling
  <2> QED BY <2>6, <2>7
<1> QED BY <1>6, <1>7

\* What the receiver reads of the stop bit, behind which a frame or a false start
\* bit may already have begun.
LEMMA StopIsHigh ==
  ASSUME Types, Sender, Filtered, Sampling, Drift <= 6,
         uart_rx_state = "rx_get_stop_bit", ToSample = 0
  PROVE  /\ uart_rx_bit = 1
         /\ ~Ended => hostTx.bit = DataBits + 1 /\ hostTx.age = 16 * DataBits + 28
<1>1. hostTx.age \in Nat /\ hostTx.bit \in Nat /\ hostTx.mode \in {"idle", "sending", "glitch"}
  BY DEF Types
<1>2. CASE Ended
  BY <1>1, <1>2 DEF Sampling, Filtered, Sender
<1>3. CASE ~Ended
  <2> DEFINE k == DataBits + 1
  <2>1. /\ hostTx.mode = "sending" /\ k \in Nat /\ hostTx.age = 16 * k + 12
        /\ hostTx.age = 16 * DataBits + 28
    BY <1>1, <1>3, Constants DEF Sampling
  <2>2. Level(hostTx.byte, k) = 1 /\ hostTx.bit <= k
    BY <2>1, Constants DEF Level, Sender
  <2> HIDE DEF k
  <2>3. hostTx.bit \in {k, k + 1} /\ uart_rx_bit = Level(hostTx.byte, k)
    BY <2>1, InsideTheBit
  <2> QED BY <1>1, <2>1, <2>2, <2>3 DEF k
<1> QED BY <1>2, <1>3

\* A tick in the stop bit.
LEMMA TickStop ==
  ASSUME Types, Sender, Filtered, Sampling, Tick, Drift <= 6,
         uart_rx_state = "rx_get_stop_bit"
  PROVE  Sampling'
<1>1. /\ hostTx.age \in Nat /\ ToSample \in 0 .. 15 /\ uart_rx_count = 0
      /\ hostTx.mode \in {"idle", "sending", "glitch"} /\ hostTx.bit \in Nat
  BY Countdown DEF Types, Sampling
<1>2. /\ hostTx'.mode = hostTx.mode /\ hostTx'.byte = hostTx.byte /\ hostTx'.bit = hostTx.bit
      /\ hostTx'.age = IF hostTx.mode = "idle" THEN 0 ELSE hostTx.age + 1
  BY Ages
<1>3. ToSample' = (IF ToSample = 0 THEN 15 ELSE ToSample - 1)
      /\ UNCHANGED <<DATA_STREAM_OUT, uart_rx_count>>
  BY TickIs, ReceiverIs
<1>4. CASE ToSample # 0
  <2>1. uart_rx_state' = "rx_get_stop_bit" /\ ~DATA_STREAM_OUT_STB'
    BY <1>4, TickIs, ReceiverIs DEF Sampling
  <2>2. hostTx'.late = hostTx.late
    BY <2>1, Ages
  <2> QED BY <1>1, <1>2, <1>3, <1>4, <2>1, <2>2 DEF Sampling, Ended, Sender
<1>5. CASE ToSample = 0
  <2>1. uart_rx_state' = "rx_wait_start_synchronise"
    BY <1>5, TickIs, ReceiverIs
  <2>2. ~Ended'
    BY <2>1, Ages DEF Ended
  <2>3. CASE Ended
    <3>1. hostTx.age <= 2 /\ (hostTx.mode = "sending" => hostTx.bit = 0)
      BY <1>1, <1>5, <2>3 DEF Sampling
    <3> QED BY <1>1, <1>2, <1>3, <2>1, <2>2, <3>1 DEF Sampling
  <2>4. CASE ~Ended
    <3>1. /\ hostTx.mode = "sending" /\ hostTx.bit = DataBits + 1
          /\ hostTx.age = 16 * DataBits + 28
      BY <1>5, <2>4, StopIsHigh DEF Sampling
    <3>2. hostTx'.age >= 16 * DataBits + 29
      BY <1>2, <3>1, Constants
    <3> QED BY <1>1, <1>2, <1>3, <2>1, <2>2, <3>1, <3>2 DEF Sampling
  <2> QED BY <2>3, <2>4
<1> QED BY <1>4, <1>5

\* A tick keeps the receiver with the line.
LEMMA SamplingTick ==
  ASSUME Types, Sender, Filtered, Sampling, Tick, Drift <= 6
  PROVE  Sampling'
BY TickWaiting, TickStart, TickData, TickStop DEF Types

-----------------------------------------------------------------------------
(* The other actions                                                        *)

\* What the edges of the line leave alone.
LEMMA LineOnly ==
  ASSUME UNCHANGED uartVars
  PROVE  /\ UNCHANGED <<baud_counter, uart_rx_sync_clock, uart_rx_filter, uart_rx_bit,
                        DATA_STREAM_OUT, DATA_STREAM_OUT_STB, uart_rx_state, uart_rx_count>>
         /\ ToSample' = ToSample
BY DEF uartVars, rxVars, timingVars, ToSample

\* What the beginning of a frame or of a false start bit does.
LEMMA FallsIs ==
  ASSUME Falls
  PROVE  /\ hostTx.mode = "idle"
         /\ UNCHANGED uartVars /\ UNCHANGED DATA_STREAM_OUT_ACK /\ UNCHANGED fetched
         /\ \/ \E b \in Typed : /\ hostTx' = [hostTx EXCEPT !.mode = "sending", !.byte = b]
                                /\ typed' = [value |-> b, flip |-> ~typed.flip]
            \/ hostTx' = [hostTx EXCEPT !.mode = "glitch"] /\ UNCHANGED typed
<1>1. UNCHANGED uartVars /\ UNCHANGED readerVars
  BY Zenon DEF Falls
<1>2. UNCHANGED DATA_STREAM_OUT_ACK /\ UNCHANGED fetched
  BY <1>1 DEF readerVars
<1> QED BY <1>1, <1>2, Zenon DEF Falls

\* A frame or a false start bit begins.
LEMMA InvFalls == ASSUME Inv, Falls PROVE Inv'
<1>1. /\ hostTx \in [mode : {"idle", "sending", "glitch"}, byte : Data, bit : Nat,
                     age : Nat, late : Data \cup {None}]
      /\ hostTx.mode = "idle" /\ hostTx.bit = 0 /\ hostTx.age = 0
  <2>1. hostTx.mode = "idle"
    BY FallsIs, Zenon
  <2> QED BY <2>1 DEF Inv, Types, Sender
<1>2. PICK mode \in {"sending", "glitch"}, b \in Data :
        /\ hostTx' = [hostTx EXCEPT !.mode = mode, !.byte = b]
        /\ mode = "sending" => b \in Typed
  <2>1. ASSUME NEW b \in Typed, hostTx' = [hostTx EXCEPT !.mode = "sending", !.byte = b]
        PROVE  \E mode \in {"sending", "glitch"}, c \in Data :
                 /\ hostTx' = [hostTx EXCEPT !.mode = mode, !.byte = c]
                 /\ mode = "sending" => c \in Typed
    <3>1. b \in Data
      BY Constants
    <3> QED BY <2>1, <3>1, Zenon
  <2>2. ASSUME hostTx' = [hostTx EXCEPT !.mode = "glitch"]
        PROVE  \E mode \in {"sending", "glitch"}, c \in Data :
                 /\ hostTx' = [hostTx EXCEPT !.mode = mode, !.byte = c]
                 /\ mode = "sending" => c \in Typed
    <3>1. hostTx' = [hostTx EXCEPT !.mode = "glitch", !.byte = hostTx.byte]
      BY <1>1, <2>2
    <3>2. hostTx.byte \in Data /\ "glitch" # "sending"
      BY <1>1
    <3> QED BY <3>1, <3>2, Zenon
  <2> QED BY <2>1, <2>2, FallsIs, Zenon
<1>3. /\ hostTx' \in [mode : {"idle", "sending", "glitch"}, byte : Data, bit : Nat,
                      age : Nat, late : Data \cup {None}]
      /\ hostTx'.mode = mode /\ hostTx'.byte = b /\ hostTx'.bit = 0 /\ hostTx'.age = 0
      /\ hostTx'.late = hostTx.late
  BY <1>1, <1>2
<1>4. UNCHANGED uartVars /\ UNCHANGED DATA_STREAM_OUT_ACK
  BY FallsIs, Zenon
<1>5. Types'
  BY <1>3, <1>4, LineOnly DEF Inv, Types
<1>6. Sender'
  BY <1>2, <1>3, Constants DEF Sender
<1>7. Filtered'
  BY <1>1, <1>3, <1>4, LineOnly DEF Inv, Filtered
<1>8. Sampling'
  BY <1>1, <1>2, <1>3, <1>4, LineOnly DEF Inv, Sampling, Ended
<1> QED BY <1>5, <1>6, <1>7, <1>8 DEF Inv

\* At the end of a bit the filter has had its level long enough.
LEMMA Settled ==
  ASSUME Inv, Drift <= 6, hostTx.mode = "sending", hostTx.age >= EdgeTime - Drift
  PROVE  LET level == Level(hostTx.byte, hostTx.bit)
         IN  level \in {0, 1} /\ Toward(uart_rx_filter, level) = 3 /\ uart_rx_bit = level
<1>1. /\ hostTx.age \in Nat /\ hostTx.bit \in Nat /\ hostTx.byte \in Data
      /\ uart_rx_filter \in 0 .. 3
  BY DEF Inv, Types
<1>2. CASE hostTx.bit = 0
  <2>1. hostTx.age > 3
    BY <1>1, <1>2, Constants DEF EdgeTime
  <2> QED BY <1>1, <1>2, <2>1 DEF Inv, Filtered, Level, Toward
<1>3. CASE hostTx.bit # 0
  <2>1. hostTx.age - (16 * hostTx.bit + Drift) >= 4 /\ hostTx.bit > 0
    BY <1>1, <1>3, Constants DEF EdgeTime
  <2> DEFINE level == Level(hostTx.byte, hostTx.bit)
  <2>2. level \in {0, 1}
    BY <1>1, LevelIs
  <2>3. /\ Toward(uart_rx_filter, level) = 3 \/ Toward(uart_rx_filter, level) >= 4
        /\ uart_rx_bit = level
    <3>1. /\ \/ Toward(uart_rx_filter, level) = 3
             \/ Toward(uart_rx_filter, level) >= hostTx.age - (16 * hostTx.bit + Drift)
          /\ uart_rx_bit = level
      BY <2>1 DEF Inv, Filtered, Follows
    <3>2. Toward(uart_rx_filter, level) \in Int
      BY <1>1 DEF Toward
    <3> HIDE DEF level
    <3> QED BY <1>1, <2>1, <3>1, <3>2, Constants
  <2> HIDE DEF level
  <2>4. Toward(uart_rx_filter, level) <= 3
    BY <1>1 DEF Toward
  <2>5. Toward(uart_rx_filter, level) \in Int
    BY <1>1 DEF Toward
  <2>6. Toward(uart_rx_filter, level) = 3
    BY <2>3, <2>4, <2>5
  <2> QED BY <2>2, <2>3, <2>6 DEF level
<1> QED BY <1>2, <1>3

\* What an edge of the line does.
LEMMA ChangesIs ==
  ASSUME Changes
  PROVE  /\ UNCHANGED uartVars
         /\ UNCHANGED DATA_STREAM_OUT_ACK /\ UNCHANGED fetched /\ UNCHANGED typed
         /\ \/ /\ hostTx.mode = "sending" /\ hostTx.age >= EdgeTime - Drift
               /\ hostTx.bit <= DataBits /\ hostTx' = [hostTx EXCEPT !.bit = hostTx.bit + 1]
            \/ /\ hostTx.mode = "sending" /\ hostTx.age >= EdgeTime - Drift
               /\ ~(hostTx.bit <= DataBits)
               /\ hostTx' = [Quiet EXCEPT !.late = IF uart_rx_state = "rx_get_stop_bit"
                                                  THEN hostTx.byte ELSE None]
            \/ /\ hostTx.mode = "glitch" /\ hostTx.bit = 0 /\ hostTx.age > 0
               /\ hostTx' = [hostTx EXCEPT !.bit = 1]
            \/ hostTx.mode = "glitch" /\ hostTx.age = 16 /\ hostTx' = Quiet
<1>1. UNCHANGED <<uartVars, readerVars, typed>>
  BY DEF Changes
<1>2. /\ UNCHANGED uartVars
      /\ UNCHANGED DATA_STREAM_OUT_ACK /\ UNCHANGED fetched /\ UNCHANGED typed
  BY <1>1 DEF readerVars
<1> QED BY <1>2 DEF Changes

\* The receiver is behind the start of a frame and before its end when an edge comes.
LEMMA FrameEdge ==
  ASSUME Inv, Drift <= 6, hostTx.mode = "sending", hostTx.age >= EdgeTime - Drift
  PROVE  /\ ~Ended
         /\ hostTx.bit <= DataBits => uart_rx_state # "rx_wait_start_synchronise"
         /\ uart_rx_state = "rx_get_stop_bit" => DATA_STREAM_OUT = hostTx.byte
         /\ ~(hostTx.bit <= DataBits) =>
              /\ hostTx.bit = DataBits + 1
              /\ uart_rx_state \in {"rx_wait_start_synchronise", "rx_get_stop_bit"}
              /\ uart_rx_state = "rx_get_stop_bit" => ToSample <= 2
<1>1. /\ hostTx.age \in Nat /\ hostTx.bit \in Nat /\ ToSample \in 0 .. 15
      /\ uart_rx_count \in 0 .. DataBits - 1
  BY Countdown DEF Inv, Types
<1>2. hostTx.age >= 16 * (hostTx.bit + 1) - Drift
  BY DEF EdgeTime
<1>3. hostTx.age >= 10
  BY <1>1, <1>2, Constants
<1>4. ~Ended
  BY <1>1, <1>3 DEF Inv, Sampling
<1>5. hostTx.bit <= DataBits => uart_rx_state # "rx_wait_start_synchronise"
  BY <1>1, <1>3, Constants DEF Inv, Sampling
<1>6. uart_rx_state = "rx_get_stop_bit" =>
        /\ DATA_STREAM_OUT = hostTx.byte
        /\ hostTx.age + ToSample = 16 * DataBits + 28
  BY <1>4 DEF Inv, Sampling
<1>7. ASSUME ~(hostTx.bit <= DataBits)
      PROVE  /\ hostTx.bit = DataBits + 1
             /\ uart_rx_state \in {"rx_wait_start_synchronise", "rx_get_stop_bit"}
             /\ uart_rx_state = "rx_get_stop_bit" => ToSample <= 2
  <2>1. hostTx.bit = DataBits + 1
    BY <1>1, <1>7, Constants DEF Inv, Sender
  <2>2. hostTx.age >= 16 * DataBits + 26
    BY <1>1, <1>2, <2>1, Constants
  <2>3. uart_rx_state # "rx_get_start_bit"
    BY <1>1, <2>2, Constants DEF Inv, Sampling
  <2>4. uart_rx_state # "rx_get_data"
    <3>1. uart_rx_count + 1 <= DataBits
      BY <1>1, Constants
    <3> QED BY <1>1, <2>2, <3>1, Constants DEF Inv, Sampling
  <2>5. uart_rx_state = "rx_get_stop_bit" => ToSample <= 2
    BY <1>1, <1>6, <2>2, Constants
  <2> QED BY <2>1, <2>3, <2>4, <2>5 DEF Inv, Types
<1> QED BY <1>4, <1>5, <1>6, <1>7

\* The next bit of a frame is on the line.
LEMMA InvNextBit ==
  ASSUME Inv, Drift <= 6, UNCHANGED uartVars, UNCHANGED DATA_STREAM_OUT_ACK,
         hostTx.mode = "sending", hostTx.age >= EdgeTime - Drift, hostTx.bit <= DataBits,
         hostTx' = [hostTx EXCEPT !.bit = hostTx.bit + 1]
  PROVE  Inv'
<1>1. hostTx \in [mode : {"idle", "sending", "glitch"}, byte : Data, bit : Nat,
                  age : Nat, late : Data \cup {None}]
  BY DEF Inv, Types
<1>2. /\ hostTx' \in [mode : {"idle", "sending", "glitch"}, byte : Data, bit : Nat,
                      age : Nat, late : Data \cup {None}]
      /\ hostTx'.mode = "sending" /\ hostTx'.byte = hostTx.byte
      /\ hostTx'.bit = hostTx.bit + 1 /\ hostTx'.age = hostTx.age
      /\ hostTx'.late = hostTx.late
  BY <1>1
<1>3. Types'
  BY <1>2, LineOnly DEF Inv, Types
<1>4. /\ hostTx.age >= 16 * hostTx'.bit - Drift /\ hostTx.age <= 16 * hostTx'.bit + Drift
      /\ hostTx.age \in Nat /\ hostTx.bit \in Nat
  BY <1>1, <1>2 DEF Inv, Sender, EdgeTime
<1>5. Sender'
  BY <1>2, <1>4, Constants DEF Inv, Sender
<1>6. Filtered'
  <2> DEFINE old == Level(hostTx.byte, hostTx.bit)
             new == Level(hostTx.byte, hostTx.bit + 1)
  <2>1. old \in {0, 1} /\ Toward(uart_rx_filter, old) = 3 /\ uart_rx_bit = old
    BY Settled
  <2>2. new \in {0, 1} /\ uart_rx_filter \in 0 .. 3
    BY <1>1, <1>4, LevelIs DEF Inv, Types
  <2>3. (hostTx.bit + 1) - 1 = hostTx.bit
    BY <1>4
  <2> HIDE DEF old, new
  <2>4. Follows(uart_rx_filter, uart_rx_bit, old, new,
                hostTx.age - (16 * (hostTx.bit + 1) - Drift),
                hostTx.age - (16 * (hostTx.bit + 1) + Drift))
    BY <1>2, <1>4, <2>1, <2>2, Constants DEF Follows, Toward
  <2>5. /\ hostTx'.mode = "sending" /\ hostTx'.bit # 0
        /\ Follows(uart_rx_filter', uart_rx_bit',
                   Level(hostTx'.byte, hostTx'.bit - 1), Level(hostTx'.byte, hostTx'.bit),
                   hostTx'.age - (16 * hostTx'.bit - Drift),
                   hostTx'.age - (16 * hostTx'.bit + Drift))
    BY <1>2, <1>4, <2>3, <2>4, LineOnly DEF old, new
  <2> QED BY <2>5 DEF Filtered
<1>7. Sampling'
  <2>1. ~Ended /\ uart_rx_state # "rx_wait_start_synchronise"
    BY FrameEdge
  <2> QED BY <1>2, <2>1, LineOnly DEF Inv, Sampling, Ended
<1> QED BY <1>3, <1>5, <1>6, <1>7 DEF Inv

\* The line is quiet behind a frame.
LEMMA InvFrameEnd ==
  ASSUME Inv, Drift <= 6, UNCHANGED uartVars, UNCHANGED DATA_STREAM_OUT_ACK,
         hostTx.mode = "sending", hostTx.age >= EdgeTime - Drift, ~(hostTx.bit <= DataBits),
         hostTx' = [Quiet EXCEPT !.late = IF uart_rx_state = "rx_get_stop_bit"
                                          THEN hostTx.byte ELSE None]
  PROVE  Inv'
<1>1. hostTx.byte \in Data /\ hostTx.bit \in Nat
  BY DEF Inv, Types
<1>2. /\ hostTx' \in [mode : {"idle", "sending", "glitch"}, byte : Data, bit : Nat,
                      age : Nat, late : Data \cup {None}]
      /\ hostTx'.mode = "idle" /\ hostTx'.bit = 0 /\ hostTx'.age = 0
      /\ hostTx'.late = IF uart_rx_state = "rx_get_stop_bit" THEN hostTx.byte ELSE None
  BY <1>1, Constants DEF Quiet
<1>3. Types'
  BY <1>2, LineOnly DEF Inv, Types
<1>4. Sender'
  BY <1>2 DEF Sender
<1>5. Filtered'
  <2>1. hostTx.bit = DataBits + 1
    BY FrameEdge
  <2>2. Level(hostTx.byte, hostTx.bit) = 1
    BY <2>1, Constants DEF Level
  <2>3. Toward(uart_rx_filter, 1) = 3 /\ uart_rx_bit = 1
    BY <2>2, Settled
  <2> QED BY <1>2, <2>3, LineOnly DEF Filtered, Toward
<1>6. Sampling'
  <2>1. /\ uart_rx_state \in {"rx_wait_start_synchronise", "rx_get_stop_bit"}
        /\ uart_rx_state = "rx_get_stop_bit" =>
             DATA_STREAM_OUT = hostTx.byte /\ ToSample <= 2
    BY FrameEdge
  <2>2. ToSample \in 0 .. 15 /\ hostTx.byte # None
    BY <1>1, Countdown, Constants DEF Inv
  <2> QED BY <1>2, <2>1, <2>2, LineOnly DEF Inv, Sampling, Ended
<1> QED BY <1>3, <1>4, <1>5, <1>6 DEF Inv

\* A false start bit is over.
LEMMA InvGlitchEdge ==
  ASSUME Inv, UNCHANGED uartVars, UNCHANGED DATA_STREAM_OUT_ACK,
         hostTx.mode = "glitch", hostTx.bit = 0, hostTx.age > 0,
         hostTx' = [hostTx EXCEPT !.bit = 1]
  PROVE  Inv'
<1>1. hostTx \in [mode : {"idle", "sending", "glitch"}, byte : Data, bit : Nat,
                  age : Nat, late : Data \cup {None}]
  BY DEF Inv, Types
<1>2. /\ hostTx' \in [mode : {"idle", "sending", "glitch"}, byte : Data, bit : Nat,
                      age : Nat, late : Data \cup {None}]
      /\ hostTx'.mode = "glitch" /\ hostTx'.bit = 1 /\ hostTx'.age = hostTx.age
      /\ hostTx'.late = hostTx.late
  BY <1>1
<1>3. Types'
  BY <1>2, LineOnly DEF Inv, Types
<1>4. hostTx.age \in 1 .. 8
  BY <1>1 DEF Inv, Sender
<1>5. Sender'
  BY <1>2, <1>4 DEF Sender
<1>6. Filtered'
  BY <1>2, <1>4, LineOnly DEF Inv, Filtered, Types
<1>7. Sampling'
  BY <1>2, <1>4, LineOnly DEF Inv, Sampling, Ended
<1> QED BY <1>3, <1>5, <1>6, <1>7 DEF Inv

\* The line is quiet behind a false start bit.
LEMMA InvGlitchEnd ==
  ASSUME Inv, UNCHANGED uartVars, UNCHANGED DATA_STREAM_OUT_ACK,
         hostTx.mode = "glitch", hostTx.age = 16, hostTx' = Quiet
  PROVE  Inv' /\ ~Ended /\ ~Ended'
<1>1. hostTx.bit = 1 /\ ToSample \in 0 .. 15
  BY Countdown DEF Inv, Sender
<1>2. /\ hostTx' \in [mode : {"idle", "sending", "glitch"}, byte : Data, bit : Nat,
                      age : Nat, late : Data \cup {None}]
      /\ hostTx'.mode = "idle" /\ hostTx'.bit = 0 /\ hostTx'.age = 0 /\ hostTx'.late = None
  BY Constants DEF Quiet
<1>3. Types'
  BY <1>2, LineOnly DEF Inv, Types
<1>4. Sender'
  BY <1>2 DEF Sender
<1>5. Filtered'
  BY <1>1, <1>2, LineOnly DEF Inv, Filtered, Types
<1>6. ~Ended /\ ~Ended'
  BY <1>1, <1>2 DEF Inv, Sampling, Ended
<1>7. Sampling'
  BY <1>1, <1>2, <1>6, LineOnly DEF Inv, Sampling, Types
<1> QED BY <1>3, <1>4, <1>5, <1>6, <1>7 DEF Inv

\* An edge of the line.
LEMMA InvChanges == ASSUME Inv, Drift <= 6, Changes PROVE Inv'
BY ChangesIs, InvNextBit, InvFrameEnd, InvGlitchEdge, InvGlitchEnd, Zenon

\* An edge of the clock that has no tick, while the reader acknowledges.
LEMMA EdgeIs ==
  ASSUME Inv, ClockEdge
  PROVE  /\ UNCHANGED <<baud_counter, uart_rx_sync_clock, uart_rx_filter, uart_rx_bit,
                        DATA_STREAM_OUT, uart_rx_state, uart_rx_count, DATA_STREAM_OUT_ACK,
                        fetched, typed, hostTx>>
         /\ ToSample' = ToSample /\ DATA_STREAM_OUT_ACK
         /\ DATA_STREAM_OUT_STB' \in BOOLEAN
         /\ uart_rx_state \in {"rx_get_data", "rx_get_stop_bit"} => ~DATA_STREAM_OUT_STB'
<1>1. Types
  BY DEF Inv
<1>2. UART_RECEIVE_DATA(FALSE, FALSE, uart_rx_bit) /\ DATA_STREAM_OUT_ACK
  BY Zenon DEF ClockEdge, PlainEdge
<1>3. UNCHANGED timingVars /\ UNCHANGED readerVars /\ UNCHANGED senderVars
  BY DEF ClockEdge, PlainEdge
<1>4. UNCHANGED <<DATA_STREAM_OUT, uart_rx_state, uart_rx_count>>
  BY <1>1, <1>2, ReceiverIs DEF Types
<1>5. uart_rx_state \in {"rx_get_data", "rx_get_stop_bit"} => ~DATA_STREAM_OUT_STB'
  BY <1>1, <1>2, ReceiverIs DEF Inv, Sampling
<1>6. DATA_STREAM_OUT_STB' \in BOOLEAN
  BY <1>1, <1>2, ReceiverTypes
<1> QED BY <1>2, <1>3, <1>4, <1>5, <1>6 DEF timingVars, readerVars, senderVars, ToSample

\* It keeps the invariant.
LEMMA InvClockEdge == ASSUME Inv, ClockEdge PROVE Inv'
<1>1. Types'
  BY EdgeIs DEF Inv, Types
<1>2. Sender' /\ Filtered'
  BY EdgeIs DEF Inv, Sender, Filtered
<1>3. Sampling'
  BY EdgeIs DEF Inv, Sampling, Ended, Types
<1> QED BY <1>1, <1>2, <1>3 DEF Inv

\* The reader takes a byte.
LEMMA FetchIs ==
  ASSUME Fetch
  PROVE  /\ Unread /\ DATA_STREAM_OUT_ACK' = TRUE
         /\ UNCHANGED uartVars /\ UNCHANGED hostTx /\ UNCHANGED typed
         /\ fetched' = [value |-> DATA_STREAM_OUT, flip |-> ~fetched.flip]
<1>1. UNCHANGED uartVars /\ UNCHANGED senderVars
  BY Zenon DEF Fetch
<1>2. UNCHANGED hostTx /\ UNCHANGED typed
  BY <1>1 DEF senderVars
<1> QED BY <1>1, <1>2, Zenon DEF Fetch

\* The acknowledge ends.
LEMMA PulseIs ==
  ASSUME EndOfPulse
  PROVE  /\ DATA_STREAM_OUT_ACK /\ ~DATA_STREAM_OUT_STB /\ DATA_STREAM_OUT_ACK' = FALSE
         /\ UNCHANGED uartVars /\ UNCHANGED hostTx /\ UNCHANGED typed /\ UNCHANGED fetched
BY DEF EndOfPulse, senderVars

\* Line, filter and receiver do not see it.
LEMMA InvReader ==
  ASSUME Inv, UNCHANGED uartVars, UNCHANGED hostTx, DATA_STREAM_OUT_ACK' \in BOOLEAN
  PROVE  Inv'
<1>1. Types'
  BY LineOnly DEF Inv, Types
<1>2. Sender' /\ Filtered'
  BY LineOnly DEF Inv, Sender, Filtered
<1>3. Sampling'
  BY LineOnly DEF Inv, Sampling, Ended
<1> QED BY <1>1, <1>2, <1>3 DEF Inv

\* The invariant holds of the start.
LEMMA InvInit == ASSUME Init PROVE Inv
<1>1. /\ hostTx = Quiet /\ DATA_STREAM_OUT_ACK = FALSE
      /\ baud_counter = 15 /\ uart_rx_sync_clock = 0 /\ uart_rx_filter = 3 /\ uart_rx_bit = 1
      /\ DATA_STREAM_OUT = 0 /\ DATA_STREAM_OUT_STB = FALSE
      /\ uart_rx_state = "rx_wait_start_synchronise" /\ uart_rx_count = 0
  BY DEF Init, UARTInit, TimingInit
<1>2. /\ hostTx \in [mode : {"idle", "sending", "glitch"}, byte : Data, bit : Nat,
                     age : Nat, late : Data \cup {None}]
      /\ hostTx.mode = "idle" /\ hostTx.bit = 0 /\ hostTx.age = 0 /\ hostTx.late = None
  BY <1>1, Constants DEF Quiet
<1>3. Types
  <2>1. 0 \in 0 .. DataBits - 1
    BY Constants
  <2>2. DATA_STREAM_OUT_STB \in BOOLEAN /\ DATA_STREAM_OUT_ACK \in BOOLEAN
    BY <1>1
  <2>3. /\ baud_counter \in 0 .. 15 /\ uart_rx_sync_clock \in 0 .. 15
        /\ uart_rx_filter \in 0 .. 3 /\ uart_rx_bit \in {0, 1} /\ DATA_STREAM_OUT \in Data
        /\ uart_rx_state \in {"rx_wait_start_synchronise", "rx_get_start_bit",
                              "rx_get_data", "rx_get_stop_bit"}
        /\ uart_rx_count \in 0 .. DataBits - 1
    BY <1>1, <2>1, Constants
  <2> QED BY <1>2, <2>2, <2>3 DEF Types
<1>4. Sender /\ Filtered
  BY <1>1, <1>2 DEF Sender, Filtered
<1>5. Sampling
  BY <1>1, <1>2 DEF Sampling, Ended
<1> QED BY <1>3, <1>4, <1>5 DEF Inv

\* A tick keeps the invariant.
LEMMA InvTick == ASSUME Inv, Drift <= 6, MaxGlitch <= 8, Tick PROVE Inv'
BY TypesTick, SenderTick, FilteredTick, SamplingTick DEF Inv

\* Every step keeps it.
LEMMA InvNext == ASSUME Inv, Drift <= 6, MaxGlitch <= 8, [Next]_vars PROVE Inv'
<1>1. CASE Falls
  BY <1>1, InvFalls
<1>2. CASE Changes
  BY <1>2, InvChanges
<1>3. CASE Tick
  BY <1>3, InvTick
<1>4. CASE ClockEdge
  BY <1>4, InvClockEdge
<1>5. CASE Fetch
  BY <1>5, FetchIs, InvReader, Zenon
<1>6. CASE EndOfPulse
  BY <1>6, PulseIs, InvReader
<1>7. CASE UNCHANGED vars
  <2>1. UNCHANGED uartVars /\ UNCHANGED hostTx /\ UNCHANGED DATA_STREAM_OUT_ACK
    BY <1>7 DEF vars, senderVars, readerVars
  <2>2. DATA_STREAM_OUT_ACK' \in BOOLEAN
    BY <2>1 DEF Inv, Types
  <2> QED BY <2>1, <2>2, InvReader
<1> QED BY <1>1, <1>2, <1>3, <1>4, <1>5, <1>6, <1>7 DEF Next

-----------------------------------------------------------------------------
(* The bytes under way                                                      *)

\* What is under way, as the channel counts it.
OnTheWay == (IF Unread THEN <<DATA_STREAM_OUT>> ELSE <<>>)
            \o (IF Ended THEN <<hostTx.late>> ELSE <<>>)
            \o (IF Arriving THEN <<hostTx.byte>> ELSE <<>>)

\* Three bytes in a row, each of which is there or not.
Row(p, x, q, y, r, z) ==
  (IF p THEN <<x>> ELSE <<>>) \o (IF q THEN <<y>> ELSE <<>>) \o (IF r THEN <<z>> ELSE <<>>)

\* Not both the first and the second are there.
LEMMA InARow ==
  ASSUME NEW p \in BOOLEAN, NEW q \in BOOLEAN, NEW r \in BOOLEAN, NEW x, NEW y, NEW z,
         p => ~q
  PROVE  Row(p, x, q, y, r, z) = IF p THEN IF r THEN <<x, z>> ELSE <<x>>
                                 ELSE IF q THEN IF r THEN <<y, z>> ELSE <<y>>
                                 ELSE IF r THEN <<z>> ELSE <<>>
<1> DEFINE one == IF p THEN <<x>> ELSE <<>>
           two == IF q THEN <<y>> ELSE <<>>
           three == IF r THEN <<z>> ELSE <<>>
<1>1. one \o two = IF p THEN <<x>> ELSE IF q THEN <<y>> ELSE <<>>
  <2>1. CASE p
    <3>1. one = <<x>> /\ two = <<>>
      BY <2>1
    <3> QED BY <2>1, <3>1, Joined
  <2>2. CASE ~p
    <3>1. one = <<>>
      BY <2>2
    <3> QED BY <2>2, <3>1, Joined
  <2> QED BY <2>1, <2>2
<1> DEFINE front == one \o two
<1>2. front \o three = IF p THEN IF r THEN <<x, z>> ELSE <<x>>
                       ELSE IF q THEN IF r THEN <<y, z>> ELSE <<y>>
                       ELSE IF r THEN <<z>> ELSE <<>>
  <2>1. CASE p
    <3>1. front = <<x>>
      BY <1>1, <2>1
    <3> HIDE DEF front
    <3> QED BY <2>1, <3>1, Joined
  <2>2. CASE ~p /\ q
    <3>1. front = <<y>>
      BY <1>1, <2>2
    <3> HIDE DEF front
    <3> QED BY <2>2, <3>1, Joined
  <2>3. CASE ~p /\ ~q
    <3>1. front = <<>>
      BY <1>1, <2>3
    <3> HIDE DEF front
    <3> QED BY <2>3, <3>1, Joined
  <2> QED BY <2>1, <2>2, <2>3
<1> QED BY <1>2, Zenon DEF Row

\* No more than two bytes are under way.
LEMMA OnTheWayIs ==
  ASSUME Inv
  PROVE  OnTheWay = IF Unread
                    THEN IF Arriving THEN <<DATA_STREAM_OUT, hostTx.byte>> ELSE <<DATA_STREAM_OUT>>
                    ELSE IF Ended
                    THEN IF Arriving THEN <<hostTx.late, hostTx.byte>> ELSE <<hostTx.late>>
                    ELSE IF Arriving THEN <<hostTx.byte>> ELSE <<>>
<1>1. Unread => ~Ended
  BY DEF Inv, Sampling, Unread
<1>2. Unread \in BOOLEAN /\ Ended \in BOOLEAN /\ Arriving \in BOOLEAN
  BY DEF Unread, Ended, Arriving
<1>3. OnTheWay = Row(Unread, DATA_STREAM_OUT, Ended, hostTx.late, Arriving, hostTx.byte)
  BY DEF OnTheWay, Row
<1> QED BY <1>1, <1>2, <1>3, InARow

\* ... and after a step.
LEMMA OnTheWayIsNow ==
  ASSUME Inv'
  PROVE  OnTheWay' = IF Unread'
                     THEN IF Arriving' THEN <<DATA_STREAM_OUT', hostTx'.byte>>
                                       ELSE <<DATA_STREAM_OUT'>>
                     ELSE IF Ended'
                     THEN IF Arriving' THEN <<hostTx'.late, hostTx'.byte>> ELSE <<hostTx'.late>>
                     ELSE IF Arriving' THEN <<hostTx'.byte>> ELSE <<>>
<1>1. Unread' => ~Ended'
  BY DEF Inv, Sampling, Unread
<1>2. Unread' \in BOOLEAN /\ Ended' \in BOOLEAN /\ Arriving' \in BOOLEAN
  BY DEF Unread, Ended, Arriving
<1>3. OnTheWay' = Row(Unread', DATA_STREAM_OUT', Ended', hostTx'.late, Arriving', hostTx'.byte)
  BY DEF OnTheWay, Row
<1> QED BY <1>1, <1>2, <1>3, InARow

\* A frame that begins is a byte put in.
LEMMA PutIn ==
  ASSUME Inv, Inv', Falls
  PROVE  Incoming!Next \/ UNCHANGED <<typed, OnTheWay, fetched>>
<1>1. ~Arriving /\ UNCHANGED uartVars /\ UNCHANGED DATA_STREAM_OUT_ACK /\ UNCHANGED fetched
  BY FallsIs, Zenon DEF Arriving
<1>2. hostTx \in [mode : {"idle", "sending", "glitch"}, byte : Data, bit : Nat,
                  age : Nat, late : Data \cup {None}]
      /\ hostTx.bit = 0
  <2>1. hostTx.mode = "idle"
    BY FallsIs, Zenon
  <2> QED BY <2>1 DEF Inv, Types, Sender
<1>3. Unread' = Unread /\ UNCHANGED DATA_STREAM_OUT
  BY <1>1, LineOnly DEF Unread
<1>4. CASE \E b \in Typed : /\ hostTx' = [hostTx EXCEPT !.mode = "sending", !.byte = b]
                            /\ typed' = [value |-> b, flip |-> ~typed.flip]
  <2>1. PICK b \in Typed : /\ hostTx' = [hostTx EXCEPT !.mode = "sending", !.byte = b]
                           /\ typed' = [value |-> b, flip |-> ~typed.flip]
    BY <1>4, Zenon
  <2>2. hostTx' = [hostTx EXCEPT !.mode = "sending", !.byte = b]
    BY <2>1, Zenon
  <2>3. hostTx'.mode = "sending" /\ hostTx'.byte = b /\ hostTx'.bit = 0
        /\ hostTx'.late = hostTx.late
    BY <1>2, <2>2
  <2>4. Arriving' /\ Ended' = Ended
    BY <2>3, Constants DEF Arriving, Ended
  <2>5. OnTheWay' = Append(OnTheWay, b) /\ Len(OnTheWay) < 2
    <3>1. CASE Unread
      <4>1. OnTheWay = <<DATA_STREAM_OUT>> /\ OnTheWay' = <<DATA_STREAM_OUT, b>>
        BY <1>1, <1>3, <2>3, <2>4, <3>1, OnTheWayIs, OnTheWayIsNow
      <4> QED BY <4>1, Joined
    <3>2. CASE ~Unread /\ Ended
      <4>1. OnTheWay = <<hostTx.late>> /\ OnTheWay' = <<hostTx.late, b>>
        BY <1>1, <1>3, <2>3, <2>4, <3>2, OnTheWayIs, OnTheWayIsNow
      <4> QED BY <4>1, Joined
    <3>3. CASE ~Unread /\ ~Ended
      <4>1. OnTheWay = <<>> /\ OnTheWay' = <<b>>
        BY <1>1, <1>3, <2>3, <2>4, <3>3, OnTheWayIs, OnTheWayIsNow
      <4> QED BY <4>1, Joined
    <3> QED BY <3>1, <3>2, <3>3
  <2>6. Incoming!Enter(b)
    BY <2>1, Zenon DEF Incoming!Enter
  <2>7. Incoming!Put
    BY <1>1, <2>5, <2>6, Zenon DEF Incoming!Put, OnTheWay
  <2> QED BY <2>7, Zenon DEF Incoming!Next
<1>5. CASE hostTx' = [hostTx EXCEPT !.mode = "glitch"] /\ UNCHANGED typed
  <2>1. hostTx'.mode = "glitch" /\ hostTx'.late = hostTx.late
    BY <1>2, <1>5
  <2>2. ~Arriving' /\ Ended' = Ended
    BY <2>1 DEF Arriving, Ended
  <2>3. UNCHANGED OnTheWay
    BY <1>1, <1>3, <2>1, <2>2, OnTheWayIs, OnTheWayIsNow
  <2> QED BY <1>1, <1>5, <2>3
<1> QED BY <1>4, <1>5, FallsIs, Zenon

\* An edge of the line moves no byte.
LEMMA StillOnTheWay ==
  ASSUME Inv, Inv', Drift <= 6, Changes
  PROVE  UNCHANGED <<typed, OnTheWay, fetched>>
<1>1. /\ UNCHANGED uartVars
      /\ UNCHANGED DATA_STREAM_OUT_ACK /\ UNCHANGED fetched /\ UNCHANGED typed
  BY ChangesIs, Zenon
<1>2. Unread' = Unread /\ UNCHANGED DATA_STREAM_OUT /\ UNCHANGED uart_rx_state
  BY <1>1, LineOnly DEF Unread
<1>3. hostTx \in [mode : {"idle", "sending", "glitch"}, byte : Data, bit : Nat,
                  age : Nat, late : Data \cup {None}]
  BY DEF Inv, Types
<1>4. CASE /\ hostTx.mode = "sending" /\ hostTx.age >= EdgeTime - Drift
           /\ hostTx.bit <= DataBits /\ hostTx' = [hostTx EXCEPT !.bit = hostTx.bit + 1]
  <2>1. hostTx'.mode = "sending" /\ hostTx'.byte = hostTx.byte /\ hostTx'.late = hostTx.late
    BY <1>3, <1>4
  <2>2. uart_rx_state # "rx_wait_start_synchronise"
    BY <1>4, FrameEdge
  <2>3. Arriving /\ Arriving' /\ Ended' = Ended
    BY <1>2, <1>4, <2>1, <2>2 DEF Arriving, Ended
  <2>4. UNCHANGED OnTheWay
    BY <1>2, <2>1, <2>3, OnTheWayIs, OnTheWayIsNow
  <2> QED BY <1>1, <2>4
<1>5. CASE /\ hostTx.mode = "sending" /\ hostTx.age >= EdgeTime - Drift
           /\ ~(hostTx.bit <= DataBits)
           /\ hostTx' = [Quiet EXCEPT !.late = IF uart_rx_state = "rx_get_stop_bit"
                                              THEN hostTx.byte ELSE None]
  <2>1. /\ hostTx'.mode = "idle"
        /\ hostTx'.late = IF uart_rx_state = "rx_get_stop_bit" THEN hostTx.byte ELSE None
    BY <1>5 DEF Quiet
  <2>2. /\ ~Ended /\ hostTx.bit = DataBits + 1
        /\ uart_rx_state \in {"rx_wait_start_synchronise", "rx_get_stop_bit"}
    BY <1>5, FrameEdge
  <2>3. ~Arriving'
    BY <2>1 DEF Arriving
  <2>4. CASE uart_rx_state = "rx_get_stop_bit"
    <3>1. Arriving /\ Ended' /\ ~Unread
      BY <1>3, <1>5, <2>1, <2>4, Constants DEF Arriving, Ended, Inv, Sampling, Unread
    <3>2. UNCHANGED OnTheWay
      BY <1>2, <2>1, <2>2, <2>3, <2>4, <3>1, OnTheWayIs, OnTheWayIsNow
    <3> QED BY <1>1, <3>2
  <2>5. CASE uart_rx_state = "rx_wait_start_synchronise"
    <3>1. ~Arriving /\ ~Ended'
      BY <1>5, <2>1, <2>2, <2>5 DEF Arriving, Ended
    <3>2. UNCHANGED OnTheWay
      BY <1>2, <2>2, <2>3, <3>1, OnTheWayIs, OnTheWayIsNow
    <3> QED BY <1>1, <3>2
  <2> QED BY <2>2, <2>4, <2>5
<1>6. CASE /\ hostTx.mode = "glitch" /\ hostTx.bit = 0 /\ hostTx.age > 0
           /\ hostTx' = [hostTx EXCEPT !.bit = 1]
  <2>1. hostTx'.mode = "glitch" /\ hostTx'.late = hostTx.late
    BY <1>3, <1>6
  <2>2. ~Arriving /\ ~Arriving' /\ Ended' = Ended
    BY <1>6, <2>1 DEF Arriving, Ended
  <2>3. UNCHANGED OnTheWay
    BY <1>2, <2>1, <2>2, OnTheWayIs, OnTheWayIsNow
  <2> QED BY <1>1, <2>3
<1>7. CASE hostTx.mode = "glitch" /\ hostTx.age = 16 /\ hostTx' = Quiet
  <2>1. ~Ended /\ ~Ended'
    BY <1>1, <1>7, InvGlitchEnd
  <2>2. ~Arriving /\ ~Arriving'
    BY <1>7 DEF Arriving, Quiet
  <2>3. UNCHANGED OnTheWay
    BY <1>2, <2>1, <2>2, OnTheWayIs, OnTheWayIsNow
  <2> QED BY <1>1, <2>3
<1> QED BY <1>4, <1>5, <1>6, <1>7, ChangesIs, Zenon

\* A tick moves no byte either: the one that has come in is as much under way as before.
LEMMA TickOnTheWay ==
  ASSUME Inv, Inv', Drift <= 6, Tick
  PROVE  UNCHANGED <<typed, OnTheWay, fetched>>
<1>1. Types /\ UNCHANGED DATA_STREAM_OUT_ACK /\ UNCHANGED fetched /\ UNCHANGED typed
  BY TickIs DEF Inv
<1>2. /\ hostTx'.mode = hostTx.mode /\ hostTx'.byte = hostTx.byte /\ hostTx'.bit = hostTx.bit
      /\ hostTx'.late = IF uart_rx_state' = "rx_get_stop_bit" THEN hostTx.late ELSE None
  BY <1>1, Ages
<1>3. ToSample \in 0 .. 15
  BY <1>1, Countdown
<1>4. UART_RECEIVE_DATA(TRUE, ToSample = 0, uart_rx_bit)
  BY <1>1, TickIs
<1>5. CASE uart_rx_state = "rx_wait_start_synchronise"
  <2>1. /\ DATA_STREAM_OUT_STB' = Unread /\ UNCHANGED DATA_STREAM_OUT
        /\ uart_rx_state' = IF uart_rx_bit = 0 THEN "rx_get_start_bit"
                            ELSE "rx_wait_start_synchronise"
    BY <1>1, <1>4, <1>5, ReceiverIs
  <2>2. Unread' = Unread
    BY <1>1, <2>1 DEF Unread
  <2>3. ~Ended /\ ~Ended'
    BY <1>2, <1>5, <2>1 DEF Inv, Sampling, Ended
  <2>4. Arriving' = Arriving
    <3>1. CASE uart_rx_bit = 0
      <4>1. hostTx.mode = "sending" => hostTx.bit = 0
        BY <1>5, <3>1, SeesStart DEF Inv
      <4> QED BY <1>2, <4>1, Constants DEF Arriving
    <3>2. CASE uart_rx_bit # 0
      BY <1>2, <1>5, <2>1, <3>2 DEF Arriving
    <3> QED BY <3>1, <3>2
  <2> QED BY <1>1, <1>2, <2>1, <2>2, <2>3, <2>4, OnTheWayIs, OnTheWayIsNow
<1>6. CASE uart_rx_state = "rx_get_start_bit"
  <2>1. /\ DATA_STREAM_OUT_STB' = (Unread /\ ~(ToSample = 0 /\ uart_rx_bit = 0))
        /\ UNCHANGED DATA_STREAM_OUT
        /\ uart_rx_state' = IF ToSample # 0 THEN "rx_get_start_bit"
                            ELSE IF uart_rx_bit = 0 THEN "rx_get_data"
                            ELSE "rx_wait_start_synchronise"
    BY <1>1, <1>4, <1>6, ReceiverIs
  <2>2. Unread' = Unread
    BY <1>1, <1>6, <2>1, TickIs DEF Unread
  <2>3. ~Ended /\ ~Ended'
    BY <1>2, <1>6, <2>1 DEF Inv, Sampling, Ended
  <2>4. hostTx.mode = "sending" => uart_rx_state' # "rx_wait_start_synchronise"
    <3>1. CASE hostTx.mode = "sending" /\ ToSample = 0
      <4>1. hostTx.age = 16 * 0 + 12
        BY <1>3, <1>6, <3>1 DEF Inv, Sampling, Types
      <4>2. uart_rx_bit = 0
        BY <3>1, <4>1, InsideTheBit DEF Inv, Level
      <4> QED BY <2>1, <3>1, <4>2
    <3> QED BY <2>1, <3>1
  <2>5. Arriving' = Arriving
    BY <1>2, <1>6, <2>4 DEF Arriving
  <2> QED BY <1>1, <1>2, <2>1, <2>2, <2>3, <2>5, OnTheWayIs, OnTheWayIsNow
<1>7. CASE uart_rx_state = "rx_get_data"
  <2>1. /\ UNCHANGED DATA_STREAM_OUT_STB
        /\ uart_rx_state' \in {"rx_get_data", "rx_get_stop_bit"}
    BY <1>1, <1>4, <1>7, ReceiverIs
  <2>2. ~Unread /\ ~Unread'
    BY <1>7, <2>1 DEF Inv, Sampling, Unread
  <2>3. ~Ended /\ ~Ended'
    BY <1>2, <1>7 DEF Inv, Sampling, Ended
  <2>4. Arriving' = Arriving
    BY <1>2, <1>7, <2>1 DEF Arriving
  <2> QED BY <1>1, <1>2, <2>2, <2>3, <2>4, OnTheWayIs, OnTheWayIsNow
<1>8. CASE uart_rx_state = "rx_get_stop_bit"
  <2>1. /\ DATA_STREAM_OUT_STB' = (DATA_STREAM_OUT_STB \/ (ToSample = 0 /\ uart_rx_bit = 1))
        /\ UNCHANGED DATA_STREAM_OUT
        /\ uart_rx_state' = IF ToSample = 0 THEN "rx_wait_start_synchronise"
                            ELSE "rx_get_stop_bit"
    BY <1>1, <1>4, <1>8, ReceiverIs
  <2>2. ~DATA_STREAM_OUT_STB /\ ~Unread
    BY <1>8 DEF Inv, Sampling, Unread
  <2>3. CASE ToSample # 0
    <3>1. ~Unread'
      BY <2>1, <2>2, <2>3 DEF Unread
    <3>2. Ended' = Ended /\ Arriving' = Arriving /\ hostTx'.late = hostTx.late
      BY <1>2, <1>8, <2>1, <2>3 DEF Ended, Arriving
    <3> QED BY <1>1, <1>2, <2>2, <3>1, <3>2, OnTheWayIs, OnTheWayIsNow
  <2>4. CASE ToSample = 0
    <3>1. uart_rx_bit = 1 /\ (~Ended => hostTx.bit = DataBits + 1)
      BY <1>8, <2>4, StopIsHigh DEF Inv
    <3>2. ~DATA_STREAM_OUT_ACK
      BY <1>1, <2>2, TickIs
    <3>3. Unread' /\ ~Ended' /\ UNCHANGED DATA_STREAM_OUT
      BY <1>1, <1>2, <2>1, <2>4, <3>1, <3>2 DEF Unread, Ended
    <3>4. CASE Ended
      <4>1. hostTx.late = DATA_STREAM_OUT /\ (hostTx.mode = "sending" => hostTx.bit = 0)
        BY <1>8, <3>4 DEF Inv, Sampling
      <4>2. Arriving' = Arriving
        BY <1>2, <4>1, Constants DEF Arriving
      <4> QED BY <1>1, <1>2, <2>2, <3>3, <3>4, <4>1, <4>2, OnTheWayIs, OnTheWayIsNow
    <3>5. CASE ~Ended
      <4>1. hostTx.mode = "sending" /\ DATA_STREAM_OUT = hostTx.byte
        BY <1>8, <3>5 DEF Inv, Sampling
      <4>2. Arriving /\ ~Arriving'
        BY <1>2, <1>8, <2>1, <2>4, <3>1, <3>5, <4>1 DEF Arriving
      <4> QED BY <1>1, <2>2, <3>3, <3>5, <4>1, <4>2, OnTheWayIs, OnTheWayIsNow
    <3> QED BY <3>4, <3>5
  <2> QED BY <2>3, <2>4
<1> QED BY <1>5, <1>6, <1>7, <1>8 DEF Inv, Types

\* Nor does an edge of the clock without one.
LEMMA EdgeOnTheWay ==
  ASSUME Inv, Inv', ClockEdge
  PROVE  UNCHANGED <<typed, OnTheWay, fetched>>
<1>1. ~Unread /\ ~Unread'
  BY EdgeIs DEF Unread
<1>2. Ended' = Ended /\ Arriving' = Arriving
  BY EdgeIs DEF Ended, Arriving
<1>3. UNCHANGED hostTx /\ UNCHANGED typed /\ UNCHANGED fetched
  BY EdgeIs
<1> QED BY <1>1, <1>2, <1>3, OnTheWayIs, OnTheWayIsNow

\* The byte that is fetched is the oldest one under way.
LEMMA GotOut ==
  ASSUME Inv, Inv', Fetch
  PROVE  Incoming!Next
<1>1. Unread /\ DATA_STREAM_OUT_ACK' = TRUE /\ UNCHANGED uartVars /\ UNCHANGED hostTx
  BY FetchIs, Zenon
<1>2. ~Unread' /\ UNCHANGED uart_rx_state
  BY <1>1, LineOnly DEF Unread
<1>3. Ended' = Ended /\ Arriving' = Arriving
  BY <1>1, <1>2 DEF Ended, Arriving
<1>4. ~Ended
  BY <1>1 DEF Inv, Sampling, Unread
<1>5. /\ OnTheWay # <<>> /\ Head(OnTheWay) = DATA_STREAM_OUT
      /\ OnTheWay' = Tail(OnTheWay)
  <2>1. CASE Arriving
    <3>1. OnTheWay = <<DATA_STREAM_OUT, hostTx.byte>> /\ OnTheWay' = <<hostTx.byte>>
      BY <1>1, <1>2, <1>3, <1>4, <2>1, OnTheWayIs, OnTheWayIsNow
    <3> QED BY <3>1, Joined
  <2>2. CASE ~Arriving
    <3>1. OnTheWay = <<DATA_STREAM_OUT>> /\ OnTheWay' = <<>>
      BY <1>1, <1>2, <1>3, <1>4, <2>2, OnTheWayIs, OnTheWayIsNow
    <3> QED BY <3>1, Joined
  <2> QED BY <2>1, <2>2
<1>6. /\ fetched' = [value |-> Head(OnTheWay), flip |-> ~fetched.flip]
      /\ UNCHANGED typed
  BY <1>5, FetchIs, Zenon
<1>7. Incoming!Get
  BY <1>5, <1>6, Zenon DEF Incoming!Get, Incoming!Leave, OnTheWay
<1> QED BY <1>7, Zenon DEF Incoming!Next

\* The end of an acknowledge moves nothing.
LEMMA PulseOnTheWay ==
  ASSUME Inv, Inv', EndOfPulse
  PROVE  UNCHANGED <<typed, OnTheWay, fetched>>
<1>1. UNCHANGED uartVars /\ UNCHANGED hostTx /\ UNCHANGED typed /\ UNCHANGED fetched
  BY PulseIs
<1>2. ~Unread /\ ~Unread' /\ UNCHANGED uart_rx_state
  BY <1>1, PulseIs, LineOnly DEF Unread
<1>3. Ended' = Ended /\ Arriving' = Arriving
  BY <1>1, <1>2 DEF Ended, Arriving
<1> QED BY <1>1, <1>2, <1>3, OnTheWayIs, OnTheWayIsNow

\* Every step is one of the channel, or none.
LEMMA Carried ==
  ASSUME Inv, Inv', Drift <= 6, [Next]_vars
  PROVE  Incoming!Next \/ UNCHANGED <<typed, OnTheWay, fetched>>
<1>1. CASE Falls
  BY <1>1, PutIn, Zenon
<1>2. CASE Changes
  BY <1>2, StillOnTheWay, Zenon
<1>3. CASE Tick
  BY <1>3, TickOnTheWay, Zenon
<1>4. CASE ClockEdge
  BY <1>4, EdgeOnTheWay, Zenon
<1>5. CASE Fetch
  BY <1>5, GotOut, Zenon
<1>6. CASE EndOfPulse
  BY <1>6, PulseOnTheWay, Zenon
<1>7. CASE UNCHANGED vars
  <2>1. /\ UNCHANGED uartVars /\ UNCHANGED hostTx /\ UNCHANGED DATA_STREAM_OUT_ACK
        /\ UNCHANGED typed /\ UNCHANGED fetched
    BY <1>7 DEF vars, senderVars, readerVars
  <2>2. Unread' = Unread /\ Ended' = Ended /\ Arriving' = Arriving /\ UNCHANGED DATA_STREAM_OUT
    BY <2>1, LineOnly DEF Unread, Ended, Arriving
  <2>3. UNCHANGED OnTheWay
    BY <2>1, <2>2, OnTheWayIs, OnTheWayIsNow
  <2> QED BY <2>1, <2>3, Zenon
<1> QED BY <1>1, <1>2, <1>3, <1>4, <1>5, <1>6, <1>7, Zenon DEF Next

\* Nothing is under way at the start.
LEMMA NothingYet == ASSUME Init PROVE Incoming!Init
<1>1. ~Unread /\ ~Ended /\ ~Arriving
  BY DEF Init, UARTInit, Quiet, Unread, Ended, Arriving, None
<1>2. OnTheWay = <<>>
  BY <1>1, InvInit, OnTheWayIs
<1> QED BY <1>2, Zenon DEF Init, Incoming!Init, OnTheWay

-----------------------------------------------------------------------------
(* The theorems                                                             *)

\* The receiver keeps with the line.  Counted from the edge at which a frame began,
\* its samples are 16 ticks apart and 12 behind the place of the first edge of the
\* bit they are of: four for the filter, and as much as an edge may be late.  A false
\* start bit of 8 ticks has left the filter by the time the start bit is sampled, and
\* the stop bit is sampled 4 ticks before its place ends, 2 behind its earliest end
\* (UART.vhdl:276-308,332-341,352-412).
THEOREM SamplesKeepTime == Drift <= 6 /\ MaxGlitch <= 8 => (Spec => []Inv)
<1> SUFFICES ASSUME Drift <= 6, MaxGlitch <= 8 PROVE Spec => []Inv
  OBVIOUS
<1>1. Init => Inv
  BY InvInit
<1>2. Inv /\ [Next]_vars => Inv'
  BY InvNext
<1> QED BY <1>1, <1>2, PTL DEF Spec

\* Received, for bytes of any width: on a line whose edges are no more than 6 ticks
\* of 16 from their place and whose false start bits are no longer than 8, every byte
\* arrives once, in order and unchanged, in any phase of the two clocks.
THEOREM EveryBitIsSampled == Drift <= 6 /\ MaxGlitch <= 8 => (Spec => Received)
<1> SUFFICES ASSUME Drift <= 6, MaxGlitch <= 8 PROVE Spec => Received
  OBVIOUS
<1>1. Init => Inv /\ Incoming!Init
  BY InvInit, NothingYet
<1>2. Inv /\ [Next]_vars => Inv'
  BY InvNext
<1>3. Inv /\ Inv' /\ [Next]_vars => [Incoming!Next]_<<typed, OnTheWay, fetched>>
  BY Carried, Zenon
<1>4. Inv /\ Inv' /\ [Next]_vars =>
        [Incoming!Next]_<<typed, (IF Unread THEN <<DATA_STREAM_OUT>> ELSE <<>>)
           \o (IF Ended THEN <<hostTx.late>> ELSE <<>>)
           \o (IF Arriving THEN <<hostTx.byte>> ELSE <<>>), fetched>>
  BY <1>3 DEF OnTheWay
<1> QED BY <1>1, <1>2, <1>4, PTL DEF Spec, Received, Incoming!Spec

=============================================================================
