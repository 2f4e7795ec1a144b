-------------------------------- MODULE TLB --------------------------------
(***************************************************************************)
(* The TLB of the machine (CPU/TLB.vhdl) and what tlbwi puts into it.      *)
(***************************************************************************)
EXTENDS Pages

VARIABLE data

Zero == [vpn |-> 0, pfn0 |-> 0, v0 |-> 0, pfn1 |-> 0, v1 |-> 0]

TLBInit == data = [i \in Entry |-> Zero]

\* The fields that tlbwi takes out of EntryHi, EntryLo0 and EntryLo1.
set_entry(hi, lo0, lo1) ==
  [vpn |-> VPN2(hi),
   pfn0 |-> 1024 * (lo0.hi % 1024) + lo0.lo \div 64, v0 |-> (lo0.lo \div 2) % 2,
   pfn1 |-> 1024 * (lo1.hi % 1024) + lo1.lo \div 64, v1 |-> (lo1.lo \div 2) % 2]

\* The cascade of comparisons: the first entry of the pair whose half is valid.
Hits(entries, addr) ==
  {i \in Entry : /\ entries[i].vpn = VPN2(addr)
                /\ IF Odd(addr) = 0 THEN entries[i].v0 = 1 ELSE entries[i].v1 = 1}

TLB_bad(entries, addr) == ~Unmapped(addr) /\ Hits(entries, addr) = {}

real_addr(entries, addr) ==
  IF Unmapped(addr) THEN [addr EXCEPT !.hi = @ % 16384]
  ELSE LET e == entries[Min(Hits(entries, addr))]
           pfn == IF Odd(addr) = 0 THEN e.pfn0 ELSE e.pfn1
       IN [hi |-> pfn \div 16, lo |-> 4096 * (pfn % 16) + (addr.lo % 4096)]

=============================================================================
