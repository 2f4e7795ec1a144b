------------------------------ MODULE PCdecider ------------------------------
(***************************************************************************)
(* CPU/PCdecider.vhdl: which instruction is fetched next.  The address of  *)
(* the next fetch is settled in s0, translated in s1 and s2 and driven on  *)
(* the RAM address bus in s3, where it also becomes the PC.  While the     *)
(* fetch stage holds, the bus is driven with the saved address instead.    *)
(***************************************************************************)
EXTENDS Signals

CONSTANTS
  BeginPC,    \* BEGIN_PC, or BIOS_BEGIN_PC when reset_on_bios
  Unmapped,   \* fetch addresses for which the TLB answers instruction_bad
  Code        \* Code[a]: the instructions that the word at a may hold

ASSUME PCdeciderAssumption ==
  /\ BeginPC \in Addr
  /\ Unmapped \subseteq Addr
  /\ Code \in [Addr -> SUBSET Instr]
  /\ \A a \in Addr : Code[a] # {}

VARIABLES
  s_pc,       \* address of the next fetch
  TLB_virt,   \* address presented to the TLB
  s_addr,     \* address of the last fetch, driven again while holding
  ir          \* instruction on the RAM data bus (s_data of the Fetcher)

pcVars == <<s_pc, TLB_virt, s_addr, ir>>

\* CPU/TLB.vhdl: instruction_bad, a function of the address presented.
TLB_instruction_bad == TLB_virt \in Unmapped

PCInit ==
  /\ s_pc = BeginPC
  /\ PC = BeginPC
  /\ TLB_virt = BeginPC
  /\ s_addr = BeginPC
  /\ ir \in Code[BeginPC]

PC_s0 ==
  /\ s_pc' = IF A_HOLD THEN s_pc
             ELSE IF JUMP_true THEN JUMP_addr ELSE Plus(s_pc, 1)
  /\ UNCHANGED <<PC, TLB_virt, s_addr, ir>>

PC_s1 ==
  /\ TLB_virt' = s_pc
  /\ UNCHANGED <<PC, s_pc, s_addr, ir>>

PC_s2 == UNCHANGED <<PC, s_pc, TLB_virt, s_addr, ir>>

PCTypeOK ==
  /\ s_pc \in Addr
  /\ TLB_virt \in Addr
  /\ s_addr \in Addr
  /\ ir \in Instr

FetchAddress_NotHeld == s_pc      \* mutant: the saved address is not used
FetchAddress == IF A_HOLD THEN s_addr ELSE s_pc

\* The RAM answers the address on the bus; it gives the same word as before
\* when the address is the one of the last fetch.
PC_s3 ==
  /\ PC' = IF A_HOLD THEN PC ELSE s_pc
  /\ s_addr' = FetchAddress
  /\ IF FetchAddress = s_addr THEN ir' = ir ELSE ir' \in Code[FetchAddress]
  /\ UNCHANGED <<s_pc, TLB_virt>>

=============================================================================
