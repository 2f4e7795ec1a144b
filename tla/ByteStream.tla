----------------------------- MODULE ByteStream -----------------------------
(***************************************************************************)
(* What the web server promises a browser: of the page Page, got grows     *)
(* piece by piece from its first byte, and the stream ends, with a FIN or  *)
(* with a reset, when all of it is there and not before.  A browser may    *)
(* begin again.  Nothing is said of when.                                  *)
(***************************************************************************)
EXTENDS Integers, Sequences

CONSTANTS Hosts, Page

VARIABLES got, ended    \* per host

Init ==
  /\ got = [c \in Hosts |-> <<>>]
  /\ ended = [c \in Hosts |-> FALSE]

\* One byte or more of what comes next.
Deliver(c) ==
  /\ ~ended[c]
  /\ \E n \in (Len(got[c]) + 1)..Len(Page) : got' = [got EXCEPT ![c] = SubSeq(Page, 1, n)]
  /\ UNCHANGED ended

End(c) ==
  /\ got[c] = Page /\ ~ended[c]
  /\ ended' = [ended EXCEPT ![c] = TRUE]
  /\ UNCHANGED got

Restart(c) ==
  /\ ~ended[c]
  /\ got' = [got EXCEPT ![c] = <<>>]
  /\ UNCHANGED ended

Next == \E c \in Hosts : Deliver(c) \/ End(c) \/ Restart(c)

Spec == Init /\ [][Next]_<<got, ended>>
=============================================================================
