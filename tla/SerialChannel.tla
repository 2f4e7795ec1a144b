--------------------------- MODULE SerialChannel ---------------------------
(***************************************************************************)
(* What one direction of a serial port promises: bytes put in at one end   *)
(* are got at the other, each once and in order, and no more than Capacity *)
(* are under way.                                                          *)
(***************************************************************************)
EXTENDS Naturals, Sequences

CONSTANTS Item, Capacity

VARIABLES
  put,       \* the last byte put in, and a bit that flips with every byte
  queue,     \* under way, oldest first
  got        \* the last byte got, likewise

Init == put = [value |-> 0, flip |-> FALSE] /\ got = put /\ queue = <<>>

Enter(b) == put' = [value |-> b, flip |-> ~put.flip]
Leave == queue # <<>> /\ got' = [value |-> Head(queue), flip |-> ~got.flip]

Put ==
  /\ Len(queue) < Capacity
  /\ \E b \in Item : Enter(b) /\ queue' = Append(queue, b)
  /\ UNCHANGED got

Get == Leave /\ queue' = Tail(queue) /\ UNCHANGED put

\* Both ends move at the same clock edge.
PutAndGet ==
  Leave /\ \E b \in Item : Enter(b) /\ queue' = Append(Tail(queue), b)

Next == Put \/ Get \/ PutAndGet

Spec == Init /\ [][Next]_<<put, queue, got>>

=============================================================================
