-------------------------------- MODULE MCCPU --------------------------------
(***************************************************************************)
(* Programs and value sets for model checking CPU.  Code gives each word   *)
(* the instructions it may hold, and TLC tries every combination.          *)
(***************************************************************************)
EXTENDS CPU

I(op, ra, rb, rd) ==
  [op |-> op, ra |-> ra, rb |-> rb, rd |-> rd, c0 |-> "other", tgt |-> 0]
JumpTo(op, ra, t) == [I(op, ra, 0, 0) EXCEPT !.tgt = t]
MTC0(r, c, v) == [I("mtc0", r, 0, 0) EXCEPT !.c0 = c, !.tgt = v]
Nop == I("shift", 0, 0, 0)

\* One data word, one byte position and one byte: data does not matter here.
OneWord == {"w"}
SRNone == {[ie |-> FALSE, exl |-> FALSE, im |-> {}]}
OneValue == {[p \in {3} |-> 0]}
AllRam == [w \in OneWord |-> "ram"]

-----------------------------------------------------------------------------
(* No traps: every kind of instruction, in every order, with every data     *)
(* dependency over $1, $2 and $0.  Word 2 jumps, word 3 is its delay slot.  *)

Work ==
  {I("alu", 1, 2, 1), I("alui", 1, 0, 2), I("lui", 0, 0, 1),
   I("lw", 2, 0, 1), I("lb", 0, 0, 2), I("sw", 1, 2, 0), I("sb", 2, 1, 0),
   I("mult", 1, 2, 0), I("mflohi", 0, 0, 2), I("mfc0", 0, 0, 1),
   I("mtlo", 2, 0, 0), MTC0(1, "other", 0), I("tlbwi", 0, 0, 0), Nop}

Jumps == {JumpTo("j", 0, 5), JumpTo("jal", 0, 5), JumpTo("jr", 1, 5),
          JumpTo("jalr", 2, 5), [I("br", 1, 2, 0) EXCEPT !.tgt = 5]}

CodeNoTraps == [a \in 0 .. 5 |-> IF a = 2 THEN Jumps ELSE Work]

-----------------------------------------------------------------------------
(* Traps and returns.  Words 0 to 2 are the handler (it returns to EPC or   *)
(* moves EPC on first), 3 and up the program.  It keeps CPU!TrapsInOrder    *)
(* and CPU!MissesInOrder: no instruction waits for a register, a load or    *)
(* store is not in a delay slot and is not followed by a trapping word, and *)
(* the word after a syscall or after the unmapped word 11 may be annulled.  *)
(* README.md says what happens outside these conventions.                   *)

Handler(returns) ==
  [a \in 0 .. 2 |->
     CASE a = 0 -> {I("mfc0", 0, 0, 1)} \cup {MTC0(3, "EPC", t) : t \in returns}
       [] a = 1 -> {I("eret", 0, 0, 0)}
       [] a = 2 -> {Nop, I("alui", 0, 0, 1)}]

Independent == {I("alu", 0, 0, 1), I("mult", 0, 0, 0), MTC0(0, "other", 0), Nop}
Accesses == {I("lw", 0, 0, 2), I("lb", 0, 0, 2), I("sw", 0, 0, 0),
             I("sb", 0, 0, 0)}

CodeTraps ==
  [a \in 0 .. 13 |->
     CASE a <= 2 -> Handler({9, 12})[a]
       [] a \in {3, 4} -> Independent \cup Accesses
       [] a = 5 -> {Nop, JumpTo("j", 0, 7), [I("br", 0, 0, 0) EXCEPT !.tgt = 3]}
       [] a = 8 -> {I("syscall", 0, 0, 0)} \cup Independent
       [] a = 9 -> {Nop, JumpTo("jal", 0, 12), I("alui", 0, 0, 1)}
       [] a = 12 -> {JumpTo("j", 0, 3), JumpTo("jr", 0, 3)}
       [] OTHER -> Independent]

-----------------------------------------------------------------------------
(* Interrupts.  The program enables them, the handler never returns: it     *)
(* falls through to the program, which clears EXL when it writes SR again.  *)

SREnable == {[ie |-> TRUE, exl |-> FALSE, im |-> {"timer", "uart"}],
             [ie |-> TRUE, exl |-> FALSE, im |-> {"uart"}],
             [ie |-> FALSE, exl |-> TRUE, im |-> {"timer"}]}

CodeInterrupts ==
  [a \in 0 .. 6 |->
     IF a = 3 THEN {MTC0(0, "SR", 0), MTC0(1, "COMPARE", 0)}
     ELSE {I("alu", 1, 2, 1), I("lui", 0, 0, 2), I("lw", 2, 0, 1),
           I("sb", 1, 2, 0), I("mult", 1, 2, 0), I("tlbwi", 0, 0, 0)}]

-----------------------------------------------------------------------------
(* A program outside those conventions.  Words 0 to 2 are an inert handler. *)

Inert == {Nop}
Straight(n, special) ==
  [a \in 0 .. n - 1 |-> IF a \in DOMAIN special THEN special[a] ELSE Inert]

\* Interrupts are enabled before a mtc0 that waits for its operand.
CodeInterruptedMtc0 ==
  Straight(8, [a \in {3, 5, 6} |->
    CASE a = 3 -> {MTC0(0, "SR", 0)}
      [] a = 5 -> {I("alui", 0, 0, 1)}
      [] a = 6 -> {MTC0(1, "SR", 0)}])

-----------------------------------------------------------------------------
(* Anything goes: every word may hold every kind of instruction, accesses   *)
(* and fetches may miss, and interrupts come at any time.                   *)

Anything ==
  {I("alu", 1, 2, 1), I("lw", 2, 0, 1), I("sb", 1, 2, 0), I("mult", 1, 2, 0),
   JumpTo("jr", 1, 0), [I("brlink", 1, 0, 0) EXCEPT !.tgt = 1],
   I("syscall", 0, 0, 0), I("eret", 0, 0, 0),
   MTC0(1, "SR", 0), MTC0(1, "EPC", 1)}

CodeAnything == [a \in 0 .. 2 |-> Anything]
SRAny == {[ie |-> TRUE, exl |-> FALSE, im |-> {"uart"}]}

-----------------------------------------------------------------------------
\* The programs of no_traps, traps and interrupts keep the conventions under
\* which the refinement is proved.
ASSUME ProgramsAreOrderly ==
  Code \in {CodeNoTraps, CodeTraps, CodeInterrupts} => Orderly

=============================================================================
