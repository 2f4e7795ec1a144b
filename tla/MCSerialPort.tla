---------------------------- MODULE MCSerialPort ----------------------------
(***************************************************************************)
(* Value sets for model checking SerialPort: bytes of two bits.            *)
(***************************************************************************)
EXTENDS SerialPort

Words == {"data", "ctrl"}
Registers == [w \in Words |-> IF w = "data" THEN "uart_data" ELSE "uart_ctrl"]
LowOnly == {3}
TwoBits == 0 .. 3
TwoBytes == {1, 2}
NoByteSet == {}
OneByte == {2}

=============================================================================
