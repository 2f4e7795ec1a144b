------------------------------- MODULE Pages -------------------------------
(***************************************************************************)
(* Virtual addresses as the TLB and the terminal's copy of it divide them. *)
(***************************************************************************)
EXTENDS Words

CONSTANT NEntry       \* entries of the TLB, 8 in the hardware

Entry == 0 .. NEntry - 1

\* A virtual address: its pair of pages, which of the two, the offset, and
\* whether it is in the untranslated segments kseg0 and kseg1.
VPN2(w) == 8 * w.hi + w.lo \div 8192
Odd(w) == (w.lo \div 4096) % 2
PFN(w) == 16 * w.hi + w.lo \div 4096
Unmapped(w) == w.hi \div 8192 \in {4, 5}

=============================================================================
