--------------------------------- MODULE CPU ---------------------------------
(***************************************************************************)
(* The pipeline: PCdecider, FetcherAndRegister, ALUWrapper and Memory,     *)
(* connected as in CPU/TOP.vhdl.  All four processes are clocked by        *)
(* real_clock and were reset together, so they are always in the same      *)
(* phase: one step of this module is one rising edge of real_clock.        *)
(*                                                                         *)
(* The UART side of the memory stage is idle here.                         *)
(***************************************************************************)
EXTENDS Fetcher, ALUWrapper, Memory, Sequences

vars == <<wires, pcVars, fetcherVars, aluVars, memVars, uartSide>>

TypeOK ==
  /\ WiresTypeOK
  /\ PCTypeOK
  /\ FetcherTypeOK
  /\ ALUTypeOK
  /\ MemoryTypeOK

Init ==
  /\ state = "s0"
  /\ PCInit /\ FetcherInit /\ ALUInit /\ MemoryInit

Edge(from, to) == state = from /\ state' = to /\ UNCHANGED uartSide

Tick0 == Edge("s0", "s1") /\ PC_s0 /\ Fetcher_s0 /\ ALU_s0 /\ Memory_s0
Tick1 == Edge("s1", "s2") /\ PC_s1 /\ Fetcher_s1 /\ ALU_s1 /\ Memory_s1
Tick2 ==
  Edge("s2", "s3") /\ PC_s2 /\ Fetcher_s2 /\ ALU_s2 /\ Memory_s2
Tick3 ==
  Edge("s3", "s0") /\ PC_s3 /\ Fetcher_s3 /\ ALU_s3 /\ Memory_s3

Next == Tick0 \/ Tick1 \/ Tick2 \/ Tick3

Spec == Init /\ [][Next]_vars

\* The clock does not stop.
FairSpec == Spec /\ WF_vars(Next)

-----------------------------------------------------------------------------
(* Safety of the pipeline registers.                                        *)

\* Destinations of the instructions that have left the fetch stage and have
\* not reached the register file.
InFlight == {alu.rd, B.rd, C.rd, s_REG_write.rd} \ {0}

UsesA ==
  \/ numA_from_reg \/ s_hilo # "none" \/ s_jump_if_condition
  \/ s_jump_addr_from_reg_a \/ s_numA_to_c0 # "none"
UsesB ==
  \/ numB_from_reg \/ s_hilo = "mul" \/ s_jump_if_condition
  \/ outbuffer.mem \in {"write", "writeb"}

\* An instruction is never issued with an operand that an older instruction
\* still has to write (FetcherAndRegister.vhdl:623-634: the two trackers, and
\* the register file's write-through for the third instruction back).
NoStaleOperand ==
  state = "s3" /\ Issues /\ ~s_skip_next =>
    /\ UsesA => s_REG_read_number_A \notin InFlight
    /\ UsesB => s_REG_read_number_B \notin InFlight

\* When the ALU stage re-uses its latch because the memory stage was busy,
\* what the fetch stage issued meanwhile is a bubble, so nothing is lost
\* (ALUWrapper.vhdl:91, FetcherAndRegister.vhdl:648).
NoIssueLost ==
  state = "s0" /\ s_do_not_read_input => A = Bubble

\* The cycle that writes back the merged word of a sb finds the stage empty:
\* no other access can take the write's place (Memory.vhdl:173,208).
SbHasTheStage ==
  sb_in_the_middle /\ state \in {"s0", "s1"} => B.mem = "none" /\ B.rd = 0

\* What is decoded is a word of the address the PC names, however long the
\* fetch stage has been holding (PCdecider.vhdl:85-93).
DecodesThePC == ir \in Code[PC] /\ s_addr = PC

\* Why these hold, phase by phase: the second half of a sb, the hold request
\* and the ALU stage's latch go together, and what is issued then is a bubble;
HoldHandshake ==
  /\ state \in {"s0", "s1"} =>
       /\ s_do_not_read_input = sb_in_the_middle
       /\ sb_in_the_middle => B.mem = "none" /\ B.rd = 0
  /\ state = "s0" /\ sb_in_the_middle => A = Bubble
  /\ hold_from_memory = (state # "s1" /\ sb_in_the_middle)
  /\ state = "s3" /\ hold_from_memory =>
       \/ A_HOLD \/ s_skip_this
       \/ s_skip_next /\ outbuffer = NoOp /\ ~s_jump_if_condition

\* the two trackers are one and two stages ahead of the fetch stage, and wait
\* when the ALU stage does;
Trackers ==
  /\ state = "s0" => /\ (IF s_do_not_read_input THEN alu.rd ELSE A.rd)
                          \in {0, s_last_write_reg}
                     /\ B.rd \in {0, s_last_last_write_reg}
  /\ state \in {"s1", "s2"} => /\ alu.rd \in {0, s_last_write_reg}
                               /\ B.rd \in {0, s_last_last_write_reg}
  /\ state \in {"s2", "s3"} => s_REG_write.rd = 0
  /\ state = "s2" => s_REG.rd = B.rd
  /\ state = "s3" => /\ C.rd = B.rd
                     /\ alu.rd \in {0, s_last_write_reg}
                     /\ ~hold_from_memory => s_last_last_write_reg = s_last_write_reg

\* so a fetch stage that goes on reads no register in flight.
NoConflict ==
  /\ s_skip_next => state = "s3"
  /\ state \in {"s2", "s3"} /\ ~A_HOLD /\ ~s_skip_next =>
       ~Conflict(alu.rd) /\ ~Conflict(B.rd)

HazardInv == HoldHandshake /\ Trackers /\ NoConflict

-----------------------------------------------------------------------------
(* The pipeline implements the instruction set's sequential machine.        *)

NextFetch ==
  IF A_HOLD THEN s_pc ELSE IF JUMP_true THEN JUMP_addr ELSE Plus(s_pc, 1)

\* The two next addresses the fetch stage will issue from.  In s0 the next
\* fetch is not settled; a word that will be annulled does not count, and
\* neither does one that an exception entered in this cycle displaces.
Fetches ==
  CASE s_skip_this /\ state = "s0" -> <<NextFetch, Plus(NextFetch, 1)>>
    [] s_skip_this /\ state # "s0" -> <<s_pc, Plus(s_pc, 1)>>
    [] s_skip_next /\ ~s_skip_this ->
         <<outbuffer_JUMP_addr, Plus(outbuffer_JUMP_addr, 1)>>
    [] OTHER -> <<PC, IF state = "s0" THEN NextFetch ELSE s_pc>>

\* Older instructions that may still be cancelled, oldest first: one that has
\* missed the TLB, the one in the ALU stage, the one on its way there.
Older ==
  LET Issued(t) == IF t = NoAddr THEN <<>> ELSE <<t>>
  IN  IF s_skip_next THEN <<>>
      ELSE Issued(B.pc) \o Issued(alu.pc)
           \o (IF state = "s0" THEN Issued(A.pc) ELSE <<>>)

Program == Older \o Fetches

\* The instruction-level machine, with the program counter of the oldest
\* instruction that may still be cancelled.
Machine == INSTANCE ISA WITH
  npc <- Program[1], nnpc <- Program[2],
  epc <- EPC, ebase <- EBASE, cause <- CAUSE.exc

\* What a program may rely on depends on what it does. In kseg0, where nothing
\* is translated, no access and no fetch misses the TLB.
NeverMisses == Unmapped = {} /\ DataMiss = {FALSE}

\* Interrupts stay disabled, or no request comes.
NeverInterrupted ==
  \/ \A v \in SRValue : ~v.ie
  \/ TimerMatch = {FALSE} /\ UartLine = {FALSE}

Jump == {"j", "jal", "jr", "jalr", "br", "brlink", "eret"}
Load == {"lw", "lb"}
Store == {"sw", "sb"}
Words == UNION {Code[a] : a \in Addr}
MayHold(a, ops) == \E i \in Code[a] : i.op \in ops
MayTrap(a) == a \in Unmapped \/ MayHold(a, {"syscall"})
MayMoveEPC(i) == i.op = "mtc0" /\ i.c0 \in {"EPC", "EBASE"}

\* Where an exception may go.
Handlers == {0} \cup {i.tgt : i \in {w \in Words : w.op = "mtc0" /\ w.c0 = "EBASE"}}

\* The word leaves nothing behind when it is decoded and annulled, but for a jr,
\* which only matters to an eret that follows at once.
Quiet(i) ==
  /\ i.op \notin {"syscall", "eret", "tlbwi"}
  /\ i.op = "mtc0" => i.c0 = "other"
  /\ i.op \in {"jr", "jalr"} => \A h \in Handlers : ~MayHold(h, {"eret"})
MayBeAnnulled(a) == a \notin Unmapped /\ \A i \in Code[a] : Quiet(i)

\* A program that can be interrupted anywhere: no jump has a slot to lose, and
\* no mtc0 that waits can write over what the trap saves.
Interruptible ==
  \A i \in Words : i.op \notin Jump \cup {"syscall"} /\ ~MayMoveEPC(i)

\* A program with system calls or unmapped words: none of them is in a delay
\* slot, nor is another jump, and the word behind one may be annulled.
TrapsInOrder ==
  \A a \in Addr :
    /\ MayHold(a, Jump) => ~MayTrap(Plus(a, 1)) /\ ~MayHold(Plus(a, 1), Jump)
    /\ MayTrap(a) => MayBeAnnulled(Plus(a, 1))

\* A program with words or data that may be unmapped: nothing waits for a
\* register, no jump and no exception goes to an unmapped word, and a load or
\* store is in no delay slot. The two words after one do not trap by
\* themselves, the first does not change where a trap goes, and what is fetched
\* after them may be annulled.
Sources == {0} \cup UNION {{i.ra, i.rb} : i \in Words}
Destinations == {0, LinkReg} \cup {i.rd : i \in Words}
MissesInOrder ==
  /\ Sources \cap Destinations = {0}
  /\ 0 \notin Unmapped /\ \A i \in Words : i.tgt \notin Unmapped
  /\ \A a \in Addr : MayHold(a, Load \cup Store) =>
       /\ \A b \in Addr : MayHold(b, Jump) => a # Plus(b, 1)
       /\ ~MayTrap(Plus(a, 1)) /\ ~MayTrap(Plus(a, 2))
       /\ MayBeAnnulled(Plus(a, 3))
       /\ \A i \in Code[Plus(a, 1)] :
            /\ i.op # "eret" /\ ~MayMoveEPC(i)
            /\ i.op \in Jump => MayBeAnnulled(i.tgt)

HasTraps == \E a \in Addr : MayTrap(a)
Orderly ==
  /\ HasTraps \/ ~NeverMisses => TrapsInOrder
  /\ ~NeverMisses => MissesInOrder
  /\ ~NeverInterrupted => NeverMisses /\ Interruptible

\* Whatever stalls, squashes and exceptions do, the program sees one
\* instruction after the other and traps it can be resumed from.
ImplementsISA == Machine!Spec

-----------------------------------------------------------------------------

\* Behind an exception one word is annulled, however long its slot is held and
\* whatever is decoded in it, and the next word is the first of the handler
\* ("skip one instruction, used after syscall, exception etc" and "there's no
\* delay slot for exception", FetcherAndRegister.vhdl:150,682,716).
TrapsReachTheHandler ==
  [][/\ s_skip_next /\ ~s_skip_next' => s_skip_this' /\ JUMP_true' /\ JUMP_addr' = EBASE
     /\ s_skip_this =>
          /\ (IF state = "s0" THEN NextFetch ELSE s_pc) = JUMP_addr
          /\ A' = Bubble
          /\ ~s_skip_this' => PC' = JUMP_addr]_vars

\* An instruction displaced by an exception has had no effect, so that it can be
\* executed again at EPC ("precise exceptions in the special case of a data
\* dependency too", readme.md:42).
DisplacedIsInert ==
  state = "s3" /\ s_skip_next => s_numA_to_c0 = "none" /\ s_hilo = "none"

\* A load or store that misses the TLB is reported at its own address: "EPC is
\* the PC of two cycles ago" (docs/cpu.md, TLB missing).
DataMissEPC ==
  [][state = "s2" /\ EntersException /\ s_exception_cause \in {"TLBL", "TLBS"}
       => EPC' = B.pc]_vars

\* Whatever the program: when the word behind a load or store that misses is in
\* the ALU stage, the address saved is that of the access: PC-8 (FetcherAndRegister.
\* vhdl:660) is "the PC of two cycles ago" (docs/cpu.md:76) unless a stall came
\* in between.
DataMissInStep ==
  [][state = "s2" /\ EntersException /\ s_exception_cause \in {"TLBL", "TLBS"}
       /\ B.pc # NoAddr /\ alu.pc = Plus(B.pc, 1) => EPC' = B.pc]_vars

\* A stall of the fetch stage ends (docs/cpu.md: the pipeline is stalled when
\* a data hazard occurs, within three cycles of the write).
StallsEnd == A_HOLD ~> ~A_HOLD

=============================================================================
