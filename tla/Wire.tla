-------------------------------- MODULE Wire --------------------------------
(***************************************************************************)
(* The serial line between the Windows terminal and the machine: what each *)
(* side has sent and the other has not yet taken. Towards the machine the  *)
(* line ends in a buffer of one byte (CPU/UART.vhdl), towards the terminal *)
(* in the buffer of the operating system, which exists while the port is   *)
(* open.                                                                   *)
(***************************************************************************)
EXTENDS Words

VARIABLES toMachine, toHost, port
wires == <<toMachine, toHost, port>>

\* "leaked" is a port that is open in a process that no longer reads it.
Port == {"free", "open", "leaked"}

WireInit == toMachine = <<>> /\ toHost = <<>> /\ port = "free"

ToMachine(bytes) == toMachine' = toMachine \o bytes
ToHost(bytes) == toHost' = IF port = "open" THEN toHost \o bytes ELSE toHost

TakesFromHost(n) ==
  /\ Len(toMachine) >= n
  /\ toMachine' = SubSeq(toMachine, n + 1, Len(toMachine))
TakesFromMachine(n) ==
  /\ Len(toHost) >= n
  /\ toHost' = SubSeq(toHost, n + 1, Len(toHost))

\* The word that starts at byte k of what is on its way.
WordAt(queue, k) == FromBytes(SubSeq(queue, k, k + 3))

=============================================================================
