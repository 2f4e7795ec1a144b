------------------------------ MODULE Registers ------------------------------
(***************************************************************************)
(* CPU/Registers.vhd: the register file's write port.  It is clocked by    *)
(* the falling edge, so a write latched by the fetch stage in s0 is done   *)
(* before the next rising edge.                                            *)
(***************************************************************************)
EXTENDS Signals

VARIABLE GPR

\* A lb stores the addressed byte of the word, zero-extended.
realWriteValue(w) ==
  IF w.byte THEN [ZeroWord EXCEPT ![LowPos] = w.data[w.pos]] ELSE w.data

RegistersTypeOK == GPR \in [Reg -> Word]

RegistersInit == GPR = [r \in Reg |-> ZeroWord]

RegWrite(w) ==
  GPR' = IF w.rd = 0 THEN GPR ELSE [GPR EXCEPT ![w.rd] = realWriteValue(w)]

=============================================================================
