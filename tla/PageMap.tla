------------------------------ MODULE PageMap ------------------------------
(***************************************************************************)
(* What the commands on the TLB promise: pages that are mapped to frames.  *)
(* ADDTLB maps the page it names and touches no other; DELTLB unmaps the   *)
(* two pages of an entry.                                                  *)
(***************************************************************************)
CONSTANTS Page, NoFrame, Pair(_)

VARIABLES map, asked      \* asked: [name, page, frame] of the last command

Init == map = [p \in Page |-> NoFrame]

Ask == map' = map

Add ==
  /\ asked.name = "ADDTLB" /\ asked' = asked
  /\ map' = [map EXCEPT ![asked.page] = asked.frame]

Delete ==
  /\ asked.name = "DELTLB" /\ asked' = asked
  /\ \E p \in Page :
       map' = [q \in Page |-> IF Pair(q) = Pair(p) THEN NoFrame ELSE map[q]]

Clear == map' = [p \in Page |-> NoFrame]          \* a new machine

Next == Ask \/ Add \/ Delete \/ Clear

Spec == Init /\ [][Next]_<<map, asked>>

=============================================================================
