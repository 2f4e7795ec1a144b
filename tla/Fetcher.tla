------------------------------- MODULE Fetcher -------------------------------
(***************************************************************************)
(* CPU/FetcherAndRegister.vhdl: decode, register read, hazard detection,   *)
(* exception entry and the coprocessor 0 registers.                        *)
(*                                                                         *)
(*   s0  notice an exception, or decode the word on the RAM data bus;      *)
(*       latch the write-back coming from the memory stage                 *)
(*   s1  compare the registers read with the two last destinations         *)
(*   s2  enter a pending exception                                         *)
(*   s3  issue the decoded instruction to the ALU stage, or a bubble       *)
(*                                                                         *)
(* COUNT and COMPARE are abstracted to the moments at which they agree     *)
(* (TimerMatch); register values other than addresses are not modelled.    *)
(***************************************************************************)
EXTENDS PCdecider

-----------------------------------------------------------------------------
(* CPU/InterruptHandler.vhdl: combinational, from the two request lines    *)
(* and the status register to the request sampled in s0.                   *)

IRQ == {"timer", "uart"}

\* Status register: interrupt enable, exception level, interrupt mask.
Status == [ie : BOOLEAN, exl : BOOLEAN, im : SUBSET IRQ]

Interrupt_globalmask(sr) == sr.ie /\ ~sr.exl

Interrupt_numbers(sr, lines) == lines \cap sr.im

Interrupt_int(sr, lines) ==
  Interrupt_globalmask(sr) /\ Interrupt_numbers(sr, lines) # {}

-----------------------------------------------------------------------------
(* The stage                                                               *)

CONSTANTS
  SRValue,     \* values software writes to the status register
  TimerMatch,  \* the outcomes of COUNT = COMPARE, a subset of BOOLEAN
  UartLine     \* the values of uart_data_out_stb, a subset of BOOLEAN

ASSUME FetcherAssumption ==
  /\ SRValue \subseteq Status
  /\ SRValue # {}
  /\ TimerMatch \subseteq BOOLEAN /\ TimerMatch # {}
  /\ UartLine \subseteq BOOLEAN /\ UartLine # {}

VARIABLES
  s_REG_read_number_A, s_REG_read_number_B,
  numA_from_reg, numB_from_reg,
  outbuffer,                \* outbuffer_MEM_* and outbuffer_REG_*
  outbuffer_JUMP_true, outbuffer_JUMP_addr,
  s_jump_if_condition,      \* s_jump_true_if_condition /= none
  s_link_if_jump_true,
  s_jump_addr_from_reg_a,
  s_hilo,                   \* s_signed_mul .. s_numA_to_hi: HI/LO write pending
  s_numA_to_c0,             \* "none" or the coprocessor register to write
  s_last_write_reg, s_last_last_write_reg,
  s_skip_next, s_skip_this,
  s_exception, s_exception_cause, s_interrupt_numbers,
  s_REG_write,              \* s_REG_write_*: the write-back being performed
  s_TLB_set_do, TLB_set_do,
  timer_int,
  SR, EPC, EBASE, CAUSE, BADVADDR   \* REGS_C0

operandVars == <<s_REG_read_number_A, s_REG_read_number_B,
                 numA_from_reg, numB_from_reg>>
jumpVars == <<outbuffer_JUMP_true, outbuffer_JUMP_addr, s_jump_if_condition,
              s_link_if_jump_true, s_jump_addr_from_reg_a>>
trackVars == <<s_last_write_reg, s_last_last_write_reg>>
skipVars == <<s_skip_next, s_skip_this>>
excVars == <<s_exception, s_exception_cause, s_interrupt_numbers>>
tlbVars == <<s_TLB_set_do, TLB_set_do>>
c0Vars == <<SR, EPC, EBASE, CAUSE, BADVADDR>>

fetcherVars == <<operandVars, outbuffer, jumpVars, s_hilo, s_numA_to_c0,
                 trackVars, skipVars, excVars, s_REG_write, tlbVars,
                 timer_int, c0Vars>>

ExcCause == {"int", "TLBL", "TLBS", "TLBL_TMP", "syscall"}
NoOp == [rd |-> 0, byte |-> FALSE, mem |-> "none"]
NoWriteBack == [C EXCEPT !.rd = 0]

FetcherTypeOK ==
  /\ s_REG_read_number_A \in Reg /\ s_REG_read_number_B \in Reg
  /\ numA_from_reg \in BOOLEAN /\ numB_from_reg \in BOOLEAN
  /\ outbuffer \in [rd : Reg, byte : BOOLEAN, mem : MemOp]
  /\ outbuffer_JUMP_true \in BOOLEAN /\ outbuffer_JUMP_addr \in Addr
  /\ s_jump_if_condition \in BOOLEAN /\ s_link_if_jump_true \in BOOLEAN
  /\ s_jump_addr_from_reg_a \in BOOLEAN
  /\ s_hilo \in {"none", "mul", "lo", "hi"}
  /\ s_numA_to_c0 \in C0Reg \cup {"none"}
  /\ s_last_write_reg \in Reg /\ s_last_last_write_reg \in Reg
  /\ s_skip_next \in BOOLEAN /\ s_skip_this \in BOOLEAN
  /\ s_exception \in BOOLEAN /\ s_exception_cause \in ExcCause
  /\ s_interrupt_numbers \subseteq IRQ
  /\ s_REG_write \in WriteBack
  /\ s_TLB_set_do \in BOOLEAN /\ TLB_set_do \in BOOLEAN
  /\ timer_int \in BOOLEAN
  /\ SR \in Status /\ EPC \in Addr /\ EBASE \in Addr
  /\ CAUSE \in [exc : ExcCause, ip : SUBSET IRQ]
  /\ BADVADDR \in Addr \cup {NoAddr}

FetcherInit ==
  /\ s_REG_read_number_A = 0 /\ s_REG_read_number_B = 0
  /\ numA_from_reg = FALSE /\ numB_from_reg = FALSE
  /\ outbuffer = NoOp
  /\ outbuffer_JUMP_true = FALSE /\ outbuffer_JUMP_addr = 0
  /\ s_jump_if_condition = FALSE /\ s_link_if_jump_true = FALSE
  /\ s_jump_addr_from_reg_a = FALSE
  /\ s_hilo = "none" /\ s_numA_to_c0 = "none"
  /\ s_last_write_reg = 0 /\ s_last_last_write_reg = 0
  /\ s_skip_next = FALSE /\ s_skip_this = FALSE
  /\ s_exception = FALSE /\ s_exception_cause = "int"
  /\ s_interrupt_numbers = {}
  /\ s_REG_write = [rd |-> 0, byte |-> FALSE, pos |-> LowPos, data |-> ZeroWord]
  /\ s_TLB_set_do = FALSE /\ TLB_set_do = FALSE /\ timer_int = FALSE
  /\ SR = [ie |-> FALSE, exl |-> FALSE, im |-> {}]
  /\ EPC = 0 /\ EBASE = 0 /\ CAUSE = [exc |-> "int", ip |-> {}]
  /\ BADVADDR = 0
  /\ A_HOLD = FALSE /\ JUMP_true = FALSE /\ JUMP_addr = 0
  /\ A = Bubble

-----------------------------------------------------------------------------
(* Decoding.  Each operator fixes every variable the decoder may assign;    *)
(* a signal that the branch of the VHDL does not mention keeps its value.   *)

Reads(a, b) == s_REG_read_number_A' = a /\ s_REG_read_number_B' = b
KeepsReads == UNCHANGED <<s_REG_read_number_A, s_REG_read_number_B>>
ToALU(a, b) == numA_from_reg' = a /\ numB_from_reg' = b
Out(rd, byte, mem) == outbuffer' = [rd |-> rd, byte |-> byte, mem |-> mem]

NoJump ==
  /\ outbuffer_JUMP_true' = FALSE /\ s_jump_if_condition' = FALSE
  /\ UNCHANGED <<outbuffer_JUMP_addr, s_link_if_jump_true, s_jump_addr_from_reg_a>>

KeepsSystem == UNCHANGED <<s_exception, s_exception_cause, s_TLB_set_do, SR, timer_int>>

\* eret clears EXL at once; mtc0 to COMPARE withdraws the timer request at
\* once; tlbwi asks for the TLB write that s1 starts.  All three happen in
\* s0, before it is known whether the instruction will be issued.
DecodeEret ==
  /\ ir.op = "eret"
  /\ SR' = [SR EXCEPT !.exl = FALSE]
  /\ outbuffer_JUMP_true' = TRUE /\ outbuffer_JUMP_addr' = EPC
  /\ s_jump_if_condition' = FALSE
  /\ s_numA_to_c0' = "none"
  /\ ToALU(FALSE, FALSE) /\ KeepsReads /\ Out(0, FALSE, "none")
  /\ UNCHANGED <<s_link_if_jump_true, s_jump_addr_from_reg_a, s_hilo,
                 s_exception, s_exception_cause, s_TLB_set_do, timer_int>>

DecodeMfc0 ==
  /\ ir.op = "mfc0"
  /\ ToALU(FALSE, FALSE) /\ KeepsReads /\ Out(ir.rd, FALSE, "none")
  /\ NoJump /\ KeepsSystem /\ UNCHANGED <<s_hilo, s_numA_to_c0>>

DecodeMtc0 ==
  /\ ir.op = "mtc0"
  /\ s_numA_to_c0' = ir.c0
  /\ timer_int' = (timer_int /\ ir.c0 # "COMPARE")
  /\ Reads(ir.ra, s_REG_read_number_B)
  /\ ToALU(numA_from_reg, FALSE) /\ Out(0, FALSE, "none")
  /\ NoJump
  /\ UNCHANGED <<s_hilo, s_exception, s_exception_cause, s_TLB_set_do, SR>>

DecodeTlbwi ==
  /\ ir.op = "tlbwi"
  /\ s_TLB_set_do' = TRUE
  /\ ToALU(FALSE, FALSE) /\ KeepsReads /\ Out(0, FALSE, "none")
  /\ NoJump
  /\ UNCHANGED <<s_hilo, s_numA_to_c0, s_exception, s_exception_cause, SR,
                 timer_int>>

DecodeArith ==
  /\ ir.op \in {"alu", "shift"}
  /\ Reads(ir.ra, IF ir.op = "alu" THEN ir.rb ELSE s_REG_read_number_B)
  /\ ToALU(TRUE, ir.op = "alu") /\ Out(ir.rd, FALSE, "none")
  /\ NoJump /\ KeepsSystem /\ UNCHANGED s_hilo

DecodeToHiLo ==
  /\ ir.op \in {"mult", "mtlo", "mthi"}
  /\ Reads(ir.ra, IF ir.op = "mult" THEN ir.rb ELSE s_REG_read_number_B)
  /\ ToALU(FALSE, FALSE) /\ Out(0, FALSE, "none")
  /\ s_hilo' = IF ir.op = "mult" THEN "mul" ELSE IF ir.op = "mtlo" THEN "lo" ELSE "hi"
  /\ NoJump /\ KeepsSystem

DecodeFromHiLo ==
  /\ ir.op = "mflohi"
  /\ ToALU(FALSE, FALSE) /\ KeepsReads /\ Out(ir.rd, FALSE, "none")
  /\ NoJump /\ KeepsSystem /\ UNCHANGED s_hilo

DecodeSyscall ==
  /\ ir.op = "syscall"
  /\ s_exception' = TRUE /\ s_exception_cause' = "syscall"
  /\ s_jump_if_condition' = FALSE
  /\ ToALU(FALSE, FALSE) /\ KeepsReads
  /\ UNCHANGED <<outbuffer, outbuffer_JUMP_true, outbuffer_JUMP_addr,
                 s_link_if_jump_true, s_jump_addr_from_reg_a, s_hilo,
                 s_TLB_set_do, SR, timer_int>>

DecodeJr ==
  /\ ir.op \in {"jr", "jalr"}
  /\ Reads(ir.ra, s_REG_read_number_B)
  /\ ToALU(FALSE, FALSE)
  /\ Out(IF ir.op = "jalr" THEN LinkReg ELSE 0, FALSE, "none")
  /\ outbuffer_JUMP_true' = TRUE /\ s_jump_addr_from_reg_a' = TRUE
  /\ s_jump_if_condition' = FALSE
  /\ UNCHANGED <<outbuffer_JUMP_addr, s_link_if_jump_true, s_hilo>>
  /\ KeepsSystem

DecodeR ==
  /\ s_numA_to_c0' = "none"
  /\ \/ DecodeArith \/ DecodeToHiLo \/ DecodeFromHiLo \/ DecodeSyscall
     \/ DecodeJr

DecodeJ ==
  /\ ir.op \in {"j", "jal"}
  /\ s_numA_to_c0' = "none"
  /\ s_jump_if_condition' = FALSE /\ s_jump_addr_from_reg_a' = FALSE
  /\ outbuffer_JUMP_true' = TRUE /\ outbuffer_JUMP_addr' = ir.tgt
  /\ ToALU(FALSE, FALSE) /\ KeepsReads
  /\ Out(IF ir.op = "jal" THEN LinkReg ELSE 0, FALSE, "none")
  /\ KeepsSystem /\ UNCHANGED <<s_link_if_jump_true, s_hilo>>

DecodeLoad ==
  /\ ir.op \in {"lw", "lb"}
  /\ Reads(ir.ra, s_REG_read_number_B) /\ ToALU(TRUE, FALSE)
  /\ Out(ir.rd, ir.op = "lb", "read")
  /\ NoJump

DecodeStore ==
  /\ ir.op \in {"sw", "sb"}
  /\ Reads(ir.ra, ir.rb) /\ ToALU(TRUE, FALSE)
  /\ Out(0, FALSE, IF ir.op = "sb" THEN "writeb" ELSE "write")
  /\ NoJump

DecodeLui ==
  /\ ir.op = "lui"
  /\ KeepsReads /\ ToALU(FALSE, FALSE) /\ Out(ir.rd, FALSE, "none")
  /\ NoJump

DecodeBranch ==
  /\ ir.op \in {"br", "brlink"}
  /\ Reads(ir.ra, ir.rb) /\ ToALU(FALSE, FALSE)
  /\ Out(0, FALSE, "none")
  /\ outbuffer_JUMP_true' = FALSE /\ outbuffer_JUMP_addr' = ir.tgt
  /\ s_jump_if_condition' = TRUE
  /\ s_link_if_jump_true' = (ir.op = "brlink")
  /\ s_jump_addr_from_reg_a' = FALSE

DecodeImmediate ==
  /\ ir.op = "alui"
  /\ Reads(ir.ra, s_REG_read_number_B) /\ ToALU(TRUE, FALSE)
  /\ Out(ir.rd, FALSE, "none")
  /\ NoJump

DecodeI ==
  /\ s_numA_to_c0' = "none"
  /\ KeepsSystem /\ UNCHANGED s_hilo
  /\ \/ DecodeLoad \/ DecodeStore \/ DecodeLui \/ DecodeBranch
     \/ DecodeImmediate

Decode ==
  \/ DecodeEret \/ DecodeMfc0 \/ DecodeMtc0 \/ DecodeTlbwi
  \/ DecodeR \/ DecodeJ \/ DecodeI

-----------------------------------------------------------------------------
(* The four phases.                                                         *)

decodeVars == <<operandVars, outbuffer, jumpVars, s_hilo, s_numA_to_c0,
                s_TLB_set_do, SR, timer_int>>

Raise(cause) == s_exception' = TRUE /\ s_exception_cause' = cause

\* An interrupt goes before a data TLB miss, that before a fetch TLB miss,
\* and only without any of them is the word on the data bus decoded.
Fetcher_s0 ==
  /\ \E u \in UartLine :
       LET lines == {l \in IRQ : (l = "timer" /\ timer_int) \/ (l = "uart" /\ u)}
           int == Interrupt_int(SR, lines)
       IN \/ /\ int
             /\ Raise("int")
             /\ s_interrupt_numbers' = Interrupt_numbers(SR, lines)
             /\ UNCHANGED <<decodeVars, BADVADDR>>
          \/ /\ ~int /\ TLB_data_exception
             /\ Raise(IF TLB_data_write THEN "TLBS" ELSE "TLBL")
             /\ BADVADDR' = NoAddr
             /\ UNCHANGED <<decodeVars, s_interrupt_numbers>>
          \/ /\ ~int /\ ~TLB_data_exception /\ TLB_instruction_bad
             /\ Raise("TLBL_TMP")
             /\ BADVADDR' = PC
             /\ UNCHANGED <<decodeVars, s_interrupt_numbers>>
          \/ /\ ~int /\ ~TLB_data_exception /\ ~TLB_instruction_bad
             /\ Decode
             /\ UNCHANGED <<s_interrupt_numbers, BADVADDR>>
  /\ s_REG_write' = C
  /\ UNCHANGED <<A_HOLD, JUMP_true, JUMP_addr, A, trackVars, skipVars,
                 TLB_set_do, EPC, EBASE, CAUSE>>

\* A register read now is still to be written by one of the two instructions
\* issued last.
Conflict_OnlyA(r) == r # 0 /\ r = s_REG_read_number_A   \* mutant
Conflict(r) ==
  r # 0 /\ r \in {s_REG_read_number_A, s_REG_read_number_B}

Fetcher_s1 ==
  /\ A_HOLD' = (Conflict(s_last_last_write_reg) \/ Conflict(s_last_write_reg))
  /\ s_REG_write' = [s_REG_write EXCEPT !.rd = 0]
  /\ s_TLB_set_do' = FALSE
  /\ TLB_set_do' = (TLB_set_do \/ s_TLB_set_do)
  /\ UNCHANGED <<JUMP_true, JUMP_addr, A, operandVars, outbuffer, jumpVars,
                 s_hilo, s_numA_to_c0, trackVars, skipVars, excVars,
                 timer_int, c0Vars>>

EntersException == s_exception /\ ~s_skip_this

\* A load or store is two instructions ahead of the one being decoded.
ExceptionPC_NotForStores ==       \* mutant: TLBS is forgotten
  IF s_exception_cause = "TLBL" THEN Plus(PC, -2) ELSE PC
ExceptionPC_SkipsOne ==           \* mutant: EPC is PC+4
  IF s_exception_cause \in {"TLBS", "TLBL"} THEN Plus(PC, -2) ELSE Plus(PC, 1)
ExceptionPC ==
  IF s_exception_cause \in {"TLBS", "TLBL"} THEN Plus(PC, -2) ELSE PC

EnterException ==
  /\ A_HOLD' = FALSE
  /\ s_exception' = FALSE
  /\ EPC' = ExceptionPC
  /\ CAUSE' = [exc |-> IF s_exception_cause = "TLBL_TMP" THEN "TLBL"
                       ELSE s_exception_cause,
               ip |-> s_interrupt_numbers]
  /\ SR' = [SR EXCEPT !.exl = TRUE]
  /\ ToALU(FALSE, FALSE)
  /\ s_jump_if_condition' = FALSE /\ s_jump_addr_from_reg_a' = FALSE
  /\ outbuffer' = NoOp
  /\ outbuffer_JUMP_true' = TRUE /\ outbuffer_JUMP_addr' = EBASE
  /\ s_skip_next' = TRUE
  /\ UNCHANGED <<s_REG_read_number_A, s_REG_read_number_B, s_link_if_jump_true,
                 s_exception_cause>>

HoldForMemory_Never == FALSE      \* mutant: the memory stage is not heeded
HoldForMemory == hold_from_memory /\ ~s_exception

Fetcher_s2 ==
  /\ s_last_last_write_reg' = IF hold_from_memory THEN s_last_last_write_reg
                              ELSE s_last_write_reg
  /\ \/ EntersException /\ EnterException
     \/ /\ ~EntersException
        /\ A_HOLD' = (A_HOLD \/ HoldForMemory)
        /\ UNCHANGED <<operandVars, outbuffer, jumpVars, s_skip_next,
                       s_exception, s_exception_cause, SR, EPC, CAUSE>>
  /\ UNCHANGED <<JUMP_true, JUMP_addr, A, s_hilo, s_numA_to_c0,
                 s_last_write_reg, s_skip_this, s_interrupt_numbers,
                 s_REG_write, tlbVars, timer_int, EBASE, BADVADDR>>

Issues == ~A_HOLD /\ ~s_skip_this

LinksIfTaken == s_jump_if_condition /\ s_link_if_jump_true

\* The destination of the last instruction, kept in step with the ALU stage,
\* which waits while the memory stage is busy.
TrackLastWrite_KeptOnHold(taken) ==   \* mutant: a bubble does not clear it
  s_last_write_reg' =
    IF A_HOLD \/ hold_from_memory \/ (LinksIfTaken /\ ~Issues) THEN s_last_write_reg
    ELSE IF LinksIfTaken /\ ~taken THEN 0 ELSE outbuffer.rd

TrackLastWrite(taken) ==
  s_last_write_reg' =
    IF hold_from_memory \/ (LinksIfTaken /\ ~Issues) THEN s_last_write_reg
    ELSE IF LinksIfTaken THEN (IF taken THEN LinkReg ELSE 0)
    ELSE IF A_HOLD THEN 0 ELSE outbuffer.rd

\* The address in the register read: that of the instruction decoded, or any
\* when the request to read it is left over from an instruction not issued.
ValueA ==
  IF ir.op \in {"jr", "jalr", "mtc0"} /\ ~s_skip_next THEN {ir.tgt} ELSE Addr

\* mtc0 writes its register when it is issued.
CommitC0 ==
  /\ s_numA_to_c0' = "none"
  /\ IF s_numA_to_c0 = "SR" THEN SR' \in SRValue ELSE SR' = SR
  /\ IF s_numA_to_c0 = "EPC" THEN EPC' \in ValueA ELSE EPC' = EPC
  /\ IF s_numA_to_c0 = "EBASE" THEN EBASE' \in ValueA ELSE EBASE' = EBASE

Issue(taken) ==
  /\ A' = [pc |-> IF s_skip_next THEN NoAddr ELSE PC,
           rd |-> IF ~LinksIfTaken THEN outbuffer.rd
                  ELSE IF taken THEN LinkReg ELSE 0,
           byte |-> outbuffer.byte,
           mem |-> outbuffer.mem]
  /\ JUMP_true' = (outbuffer_JUMP_true \/ taken)
  /\ IF s_jump_addr_from_reg_a THEN JUMP_addr' \in ValueA
     ELSE JUMP_addr' = outbuffer_JUMP_addr
  /\ s_jump_addr_from_reg_a' = FALSE
  /\ s_skip_this' = s_skip_next
  /\ Reads(0, 0)
  /\ CommitC0

IssueBubble_JumpsAgain ==         \* mutant: JUMP_true is not reset
  /\ A' = Bubble
  /\ s_skip_this' = (A_HOLD /\ s_skip_this)
  /\ KeepsReads
  /\ UNCHANGED <<JUMP_true, JUMP_addr, s_jump_addr_from_reg_a, s_numA_to_c0,
                 SR, EPC, EBASE>>

IssueBubble_Released ==           \* mutant: s_skip_this is reset though held
  /\ A' = Bubble
  /\ JUMP_true' = FALSE
  /\ s_skip_this' = FALSE
  /\ KeepsReads
  /\ UNCHANGED <<JUMP_addr, s_jump_addr_from_reg_a, s_numA_to_c0, SR, EPC, EBASE>>

IssueBubble ==
  /\ A' = Bubble
  /\ JUMP_true' = FALSE
  /\ s_skip_this' = (A_HOLD /\ s_skip_this)
  /\ KeepsReads
  /\ UNCHANGED <<JUMP_addr, s_jump_addr_from_reg_a, s_numA_to_c0, SR, EPC, EBASE>>

\* A taken branch links only if outbuffer_JUMP_true is not already set, which
\* it never is together with a condition.
Fetcher_s3 ==
  /\ \E taken \in (IF s_jump_if_condition /\ Issues THEN BOOLEAN ELSE {FALSE}) :
       /\ TrackLastWrite(taken)
       /\ \/ Issues /\ Issue(taken)
          \/ ~Issues /\ IssueBubble
  /\ s_skip_next' = FALSE
  /\ s_hilo' = "none"
  /\ TLB_set_do' = FALSE
  /\ \E match \in TimerMatch : timer_int' = (timer_int \/ match)
  /\ UNCHANGED <<A_HOLD, numA_from_reg, numB_from_reg, outbuffer,
                 outbuffer_JUMP_true, outbuffer_JUMP_addr, s_jump_if_condition,
                 s_link_if_jump_true, s_last_last_write_reg, excVars,
                 s_REG_write, s_TLB_set_do, CAUSE, BADVADDR>>

=============================================================================
