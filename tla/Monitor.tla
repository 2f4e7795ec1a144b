------------------------------ MODULE Monitor ------------------------------
(***************************************************************************)
(* The monitor in the machine (kernel/kernel.s) and its exception handler  *)
(* (kernel/kernel-int.s), with the user program it runs: any sequence of   *)
(* the calls, prints and exceptions given as constants. What is sent       *)
(* without reading anything in between is one step, except for a dump      *)
(* (word by word: each may miss in the TLB) and for the echo of A (the     *)
(* terminal answers its first byte).                                       *)
(***************************************************************************)
EXTENDS Wire, TLB, SequencesExt

CONSTANTS Contents,       \* the words of memory that are followed, at the start
          ProgramCalls,   \* system calls of the program: [v0, a0]
          ProgramPrints,  \* bytes it sends to the UART itself
          ProgramFaults,  \* its exceptions: 0 interrupt, 2 load, 3 store miss
          FaultAddress,   \* the address of its misses
          Leftovers,      \* what it leaves in t0 to t9
          MaxUnread       \* bound: it waits for the terminal to catch up

VARIABLES pc,             \* what the processor is in the middle of
          cursor, left,   \* the address ($s2, $s4) or word ($s1) at work; words left
          v0, a0,         \* what the last system call returned, its argument
          regs,           \* the registers that R shows
          mem

Addresses == DOMAIN Contents                      \* physical
monitorVars == <<pc, cursor, left, v0, a0, regs, mem, data>>

RegisterOrder ==
  <<"t0", "t1", "t2", "t3", "t4", "t5", "t6", "t7", "t8", "t9", "SR", "EPC",
    "Cause", "BadVAddr", "EntryHi", "EntryLo0", "EntryLo1", "Index", "EBase",
    "Count", "Compare">>

Greeting == <<79, 75, 10, 13>>                    \* OK and two line ends
ZeroWord == WordOf(0)
AllocFailed == [hi |-> 32768, lo |-> 0]
EBase == [hi |-> 32768, lo |-> 32768]
LoadPC == [hi |-> 32768, lo |-> 436]              \* where showmem loads
StorePC == [hi |-> 32768, lo |-> 480]             \* and A stores
EXL == 2

Handler(byte) ==
  CASE byte = 82 -> "showregs" [] byte \in {68, 85} -> "showmem" [] byte = 65 -> "assemble"
    [] byte = 71 -> "execute" [] byte = 69 -> "deltlb" [] byte = 84 -> "addtlb"
    [] OTHER -> "begin"

\* The states in which the processor polls the UART, and for how many bytes.
Wants == [begin |-> 1, showmem |-> 8, assemble |-> 8, execute |-> 4, deltlb |-> 1,
          addtlb |-> 15, alloc |-> 4, readline |-> 4, storing |-> 4, readint |-> 4,
          reported |-> 1]
Reading == DOMAIN Wants
Pc == Reading \union {"boot", "showregs", "loop", "echo", "program"}

NoRegs == [n \in Range(RegisterOrder) |-> ZeroWord]

MonitorInit ==
  /\ pc = "boot" /\ cursor = ZeroWord /\ left = 0 /\ v0 = ZeroWord /\ a0 = 0
  /\ regs = NoRegs /\ mem = Contents /\ TLBInit

\* A reset clears the processor, the TLB and the UART, and no memory.
Cleared ==
  /\ pc' = "boot" /\ cursor' = ZeroWord /\ left' = 0 /\ v0' = ZeroWord /\ a0' = 0
  /\ regs' = NoRegs /\ data' = [i \in Entry |-> Zero]
  /\ toMachine' = <<>>

Load(addr) ==
  LET p == real_addr(data, addr) IN IF p \in Addresses THEN mem[p] ELSE ZeroWord
Store(addr, word) ==
  LET p == real_addr(data, addr)
  IN mem' = IF p \in Addresses THEN [mem EXCEPT ![p] = word] ELSE mem

\* initial: stack, exception base, interrupts off, the greeting.
Boot ==
  /\ pc = "boot"
  /\ regs' = [regs EXCEPT !["EBase"] = EBase, !["SR"] = WordOf(EXL)]
  /\ ToHost(Greeting)
  /\ pc' = "begin"
  /\ UNCHANGED <<cursor, left, v0, a0, mem, data, toMachine, port>>

\* begin: a byte that is no command is dropped.
Begin ==
  /\ pc = "begin"
  /\ TakesFromHost(Wants[pc])
  /\ pc' = Handler(toMachine[1])
  /\ UNCHANGED <<cursor, left, v0, a0, regs, mem, data, toHost, port>>

ShowRegs ==
  /\ pc = "showregs"
  /\ ToHost(BytesOfAll([i \in 1 .. 21 |-> regs[RegisterOrder[i]]]))
  /\ pc' = "begin"
  /\ UNCHANGED <<cursor, left, v0, a0, regs, mem, data, toMachine, port>>

ShowMem_AddressOnly ==    \* mutant: the count is not read
  /\ pc = "showmem"
  /\ TakesFromHost(4)
  /\ cursor' = WordAt(toMachine, 1) /\ left' = 1 /\ pc' = "loop"
  /\ UNCHANGED <<v0, a0, regs, mem, data, toHost, port>>
ShowMem ==
  /\ pc = "showmem"
  /\ TakesFromHost(Wants[pc])
  /\ cursor' = WordAt(toMachine, 1)
  /\ left' = NumberOf(WordAt(toMachine, 5))
  /\ pc' = "loop"
  /\ UNCHANGED <<v0, a0, regs, mem, data, toHost, port>>

\* The handler's entry and its report to the terminal (int, nonesyscall). SR
\* is what eret leaves: the other way out of the handler is Boot.
Enters(cause, epc, bad) ==
  regs' = [regs EXCEPT !["EPC"] = Plus(epc, 4), !["Cause"] = WordOf(4 * cause),
                       !["SR"] = ZeroWord,
                       !["BadVAddr"] = IF cause \in {2, 3} THEN bad ELSE @]
Reports(cause, epc, bad) ==
  /\ Enters(cause, epc, bad)
  /\ ToHost(<<7>> \o BytesOf(regs'["Cause"]) \o BytesOf(regs'["EPC"]))
  /\ pc' = "reported"

LoopEnds_Late(n) == n < 0      \* mutant: one word too many
LoopEnds(n) == n = 0

ShowWord ==
  /\ pc = "loop"
  /\ IF TLB_bad(data, cursor)
     THEN Reports(2, LoadPC, cursor) /\ UNCHANGED <<cursor, left>>
     ELSE /\ ToHost(BytesOf(Load(cursor)))
          /\ cursor' = Plus(cursor, 4) /\ left' = left - 1
          /\ pc' = IF LoopEnds(left') THEN "begin" ELSE "loop"
          /\ UNCHANGED regs
  /\ UNCHANGED <<v0, a0, mem, data, toMachine, port>>

\* A: the word is stored and sent back, least significant byte first.
Assemble ==
  /\ pc = "assemble"
  /\ TakesFromHost(Wants[pc])
  /\ LET addr == WordAt(toMachine, 1)
         word == WordAt(toMachine, 5)
     IN IF TLB_bad(data, addr)
        THEN Reports(3, StorePC, addr) /\ UNCHANGED <<cursor, mem>>
        ELSE /\ Store(addr, word)
             /\ ToHost(<<BytesOf(word)[1]>>)
             /\ cursor' = word /\ pc' = "echo" /\ UNCHANGED regs
  /\ UNCHANGED <<left, v0, a0, data, port>>

Echo ==
  /\ pc = "echo"
  /\ ToHost(Tail(BytesOf(cursor)))
  /\ pc' = "begin"
  /\ UNCHANGED <<cursor, left, v0, a0, regs, mem, data, toMachine, port>>

Execute ==
  /\ pc = "execute"
  /\ TakesFromHost(Wants[pc])
  /\ cursor' = WordAt(toMachine, 1)
  /\ regs' = [n \in DOMAIN regs |-> IF n \in DOMAIN Leftovers THEN Leftovers[n] ELSE regs[n]]
  /\ pc' = "program"
  /\ UNCHANGED <<left, v0, a0, mem, data, toHost, port>>

\* mtc0 to Index, EntryHi, EntryLo0 and EntryLo1, and tlbwi.
Tlbwi(index, hi, lo0, lo1) ==
  /\ regs' = [regs EXCEPT !["Index"] = WordOf(index), !["EntryHi"] = hi,
                          !["EntryLo0"] = lo0, !["EntryLo1"] = lo1]
  /\ data' = [data EXCEPT ![index % NEntry] = set_entry(hi, lo0, lo1)]

DelTLB ==
  /\ pc = "deltlb"
  /\ TakesFromHost(Wants[pc])
  /\ Tlbwi(toMachine[1], ZeroWord, ZeroWord, ZeroWord)
  /\ pc' = "begin"
  /\ UNCHANGED <<cursor, left, v0, a0, mem, toHost, port>>

\* sll by 6 and 13 bits is a multiplication by 64 and 8192.
Sll(w, m) == [hi |-> (w.hi * m + (w.lo * m) \div 65536) % 65536,
              lo |-> (w.lo * m) % 65536]
EntryLo(pfn, flag) == Plus(Sll(pfn, 64), 2 * flag)

AddTLB ==
  /\ pc = "addtlb"
  /\ TakesFromHost(Wants[pc])
  /\ Tlbwi(toMachine[1], Sll(WordAt(toMachine, 2), 8192),
           EntryLo(WordAt(toMachine, 6), toMachine[10]),
           EntryLo(WordAt(toMachine, 11), toMachine[15]))
  /\ pc' = "begin"
  /\ UNCHANGED <<cursor, left, v0, a0, mem, toHost, port>>

\* The exception is over: eret behind the instruction, or a new start.
Reported ==
  /\ pc = "reported"
  /\ TakesFromHost(Wants[pc])
  /\ IF regs["Cause"] \in {WordOf(8), WordOf(12)}
     THEN pc' = "boot" ELSE pc' = "program"
  /\ UNCHANGED <<cursor, left, v0, a0, regs, mem, data, toHost, port>>

-----------------------------------------------------------------------------
(* The user program.                                                       *)

ProgramRuns == pc = "program" /\ Len(toHost) < MaxUnread

Return ==
  /\ ProgramRuns
  /\ ToHost(<<4>>)
  /\ pc' = "begin"
  /\ UNCHANGED <<cursor, left, v0, a0, regs, mem, data, toMachine, port>>

Putc ==
  /\ ProgramRuns
  /\ \E b \in ProgramPrints : ToHost(<<b>>)
  /\ UNCHANGED <<monitorVars, toMachine, port>>

Fault ==
  /\ ProgramRuns
  /\ \E cause \in ProgramFaults : Reports(cause, cursor, FaultAddress)
  /\ UNCHANGED <<cursor, left, v0, a0, mem, data, toMachine, port>>

\* The bytes at an address up to and with the first zero.
StringAt(addr) ==
  LET bytes == BytesOfAll([i \in 1 .. Cardinality(Addresses) + 1 |->
                             Load(Plus(addr, 4 * (i - 1)))])
      zero == CHOOSE k \in DOMAIN bytes :
                bytes[k] = 0 /\ \A j \in 1 .. k - 1 : bytes[j] # 0
  IN SubSeq(bytes, 1, zero)

\* What a call sends behind its number, and where it waits.
CallSends(call) ==
  CASE call.v0 \in {1, 5, 7} -> BytesOf(WordOf(call.a0))
    [] call.v0 = 6 -> StringAt([hi |-> 32768, lo |-> call.a0])
    [] OTHER -> <<>>
CallWaits(n) ==
  CASE n = 1 -> "alloc" [] n = 2 -> "readline" [] n = 3 -> "readint"
    [] n = 8 -> "boot" [] OTHER -> "program"

Syscall ==
  /\ ProgramRuns
  /\ \E call \in ProgramCalls :
       /\ ToHost(<<2, call.v0>> \o CallSends(call))
       /\ Enters(8, cursor, ZeroWord)
       /\ a0' = call.a0
       /\ IF call.v0 = 4 THEN v0' \in {WordOf(0), WordOf(1)}
          ELSE v0' = WordOf(call.v0)
       /\ pc' = CallWaits(call.v0)
  /\ UNCHANGED <<cursor, left, mem, data, toMachine, port>>

Alloc ==
  /\ pc = "alloc"
  /\ TakesFromHost(Wants[pc])
  /\ v0' = WordAt(toMachine, 1)
  /\ pc' = IF v0' = AllocFailed THEN "boot" ELSE "program"
  /\ UNCHANGED <<cursor, left, a0, regs, mem, data, toHost, port>>

ReadInt ==
  /\ pc = "readint"
  /\ TakesFromHost(Wants[pc])
  /\ v0' = WordAt(toMachine, 1)
  /\ pc' = "program"
  /\ UNCHANGED <<cursor, left, a0, regs, mem, data, toHost, port>>

ReadLine ==
  /\ pc = "readline"
  /\ TakesFromHost(Wants[pc])
  /\ v0' = WordAt(toMachine, 1)
  /\ left' = 0
  /\ pc' = "storing"
  /\ UNCHANGED <<cursor, a0, regs, mem, data, toHost, port>>

LineWord_Unscaled(a, k) == Plus(a, k)    \* mutant: addiu $s2, $s2, 1
LineWord(a, k) == Plus(a, 4 * k)

StoreLine ==
  /\ pc = "storing"
  /\ TakesFromHost(Wants[pc])
  /\ Store(LineWord(v0, left), WordAt(toMachine, 1))
  /\ left' = left + 1
  /\ pc' = IF 0 \in Range(SubSeq(toMachine, 1, 4)) THEN "program" ELSE "storing"
  /\ UNCHANGED <<cursor, v0, a0, regs, data, toHost, port>>

-----------------------------------------------------------------------------

\* A byte that arrives while the processor does not look takes the place of
\* the one before (see UART.tla).
Overrun ==
  /\ pc \notin Reading
  /\ Len(toMachine) > 1
  /\ toMachine' = Tail(toMachine)
  /\ UNCHANGED <<monitorVars, toHost, port>>

MonitorStep ==
  \/ Boot \/ Begin \/ ShowRegs \/ ShowMem \/ ShowWord \/ Assemble \/ Echo
  \/ Execute \/ DelTLB \/ AddTLB \/ Reported \/ Alloc \/ ReadInt
  \/ ReadLine \/ StoreLine
ProgramStep == Putc \/ Fault \/ Syscall

=============================================================================
