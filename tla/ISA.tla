--------------------------------- MODULE ISA ---------------------------------
(***************************************************************************)
(* What the pipeline promises a program: one instruction after the other,  *)
(* each jump followed by its delay slot and then by its target, and traps  *)
(* that a handler can return from.                                         *)
(*                                                                         *)
(* npc is the address of the next instruction to execute and nnpc that of  *)
(* the one after it.  A trap may only be taken where resuming at epc = npc *)
(* continues the program, which is not the case in a delay slot, and only  *)
(* for a reason the instruction at npc gives.  An instruction trapped at   *)
(* npc has had no effect; every instruction before it has had its effect.  *)
(***************************************************************************)
EXTENDS Integers

CONSTANTS NAddr, BeginPC, Code, Unmapped

VARIABLES npc, nnpc, epc, ebase, cause

vars == <<npc, nnpc, epc, ebase, cause>>

After(a) == (a + 1) % NAddr

Init ==
  /\ npc = BeginPC /\ nnpc = After(BeginPC)
  /\ epc = 0 /\ ebase = 0 /\ cause = "int"

Successors(i) ==
  CASE i.op \in {"j", "jal", "jr", "jalr"} -> {i.tgt}
    [] i.op \in {"br", "brlink"} -> {i.tgt, After(nnpc)}
    [] i.op = "eret" -> {epc}
    [] i.op = "syscall" -> {}
    [] OTHER -> {After(nnpc)}

Execute ==
  /\ npc \notin Unmapped
  /\ npc' = nnpc
  /\ \E i \in Code[npc] : nnpc' \in Successors(i)
  /\ UNCHANGED <<epc, ebase, cause>>

\* mtc0 to EPC or EBASE takes effect just before it is counted as executed.
WriteC0 ==
  /\ \E i \in Code[npc] :
       /\ i.op = "mtc0"
       /\ \/ i.c0 = "EPC" /\ epc' = i.tgt /\ UNCHANGED ebase
          \/ i.c0 = "EBASE" /\ ebase' = i.tgt /\ UNCHANGED epc
  /\ UNCHANGED <<npc, nnpc, cause>>

Has(ops) == npc \notin Unmapped /\ \E i \in Code[npc] : i.op \in ops

Reason(c) ==
  \/ c = "int"
  \/ c = "syscall" /\ Has({"syscall"})
  \/ c = "TLBL" /\ (npc \in Unmapped \/ Has({"lw", "lb"}))
  \/ c = "TLBS" /\ Has({"sw", "sb"})

Trap ==
  /\ nnpc = After(npc)
  /\ \E c \in {"int", "syscall", "TLBL", "TLBS"} : Reason(c) /\ cause' = c
  /\ epc' = npc
  /\ npc' = ebase /\ nnpc' = After(ebase)
  /\ UNCHANGED ebase

Next == Execute \/ WriteC0 \/ Trap

Spec == Init /\ [][Next]_vars

=============================================================================
