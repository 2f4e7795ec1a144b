----------------------------- MODULE PageTable -----------------------------
(***************************************************************************)
(* The copy of the TLB that the Windows terminal keeps                     *)
(* (win-term/memory.cpp): it decides which entry a mapping goes to, and    *)
(* the machine is told the entry.                                          *)
(***************************************************************************)
EXTENDS Pages

VARIABLE tlbEntry

NoEntry == [vpn |-> 0, pfn1 |-> 0, pfn2 |-> 0, v1 |-> FALSE, v2 |-> FALSE]

\* Memory::init.
PageTableInit == tlbEntry = [i \in Entry |-> NoEntry]

WithVPN(entries, vpn) == {i \in Entry : entries[i].vpn = vpn}
Free(entries) == {i \in Entry : ~entries[i].v1 /\ ~entries[i].v2}

Half_Alone(entry, odd, pfn) ==    \* mutant: the other page of the pair is lost
  IF odd = 0 THEN [NoEntry EXCEPT !.vpn = entry.vpn, !.v1 = TRUE, !.pfn1 = pfn]
  ELSE [NoEntry EXCEPT !.vpn = entry.vpn, !.v2 = TRUE, !.pfn2 = pfn]
Half(entry, odd, pfn) ==
  IF odd = 0 THEN [entry EXCEPT !.v1 = TRUE, !.pfn1 = pfn]
  ELSE [entry EXCEPT !.v2 = TRUE, !.pfn2 = pfn]

\* The first entry of the pair, or else the first free one; with neither, or
\* for an address that is not translated, nothing changes.
addTLBEntry(entries, addr, target) ==
  LET vpn == VPN2(addr)
      set(i) == [entries EXCEPT
                  ![i] = Half([@ EXCEPT !.vpn = vpn], Odd(addr), PFN(target))]
  IN CASE Unmapped(addr) -> entries
       [] ~Unmapped(addr) /\ WithVPN(entries, vpn) # {} ->
            set(Min(WithVPN(entries, vpn)))
       [] ~Unmapped(addr) /\ WithVPN(entries, vpn) = {} /\ Free(entries) # {} ->
            set(Min(Free(entries)))
       [] OTHER -> entries

\* visitable, without its limits on the physical address: searchInTLB asks
\* the first entry of the pair only.
visitable(entries, addr) ==
  \/ Unmapped(addr)
  \/ /\ WithVPN(entries, VPN2(addr)) # {}
     /\ LET e == entries[Min(WithVPN(entries, VPN2(addr)))]
        IN IF Odd(addr) = 0 THEN e.v1 ELSE e.v2

delTLBEntry_Forgotten(entries, i) == entries    \* mutant: no memset
delTLBEntry(entries, i) == [entries EXCEPT ![i] = NoEntry]

=============================================================================
