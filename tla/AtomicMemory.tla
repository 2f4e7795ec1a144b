---------------------------- MODULE AtomicMemory ----------------------------
(***************************************************************************)
(* What the memory stage promises: requests arrive one at a time and each  *)
(* is performed in one indivisible step, on the memory and the registers.  *)
(* A store of a byte changes that byte and no other.                       *)
(***************************************************************************)
CONSTANTS MemWord, Reg, Word, ZeroWord, LowPos, Request, NoRequest, IsRam(_)

VARIABLES mem, reg, req

vars == <<mem, reg, req>>

Init ==
  /\ mem = [w \in MemWord |-> ZeroWord]
  /\ reg = [r \in Reg |-> ZeroWord]
  /\ req = NoRequest

Arrive == req = NoRequest /\ req' \in Request /\ UNCHANGED <<mem, reg>>

SetReg(v) == reg' = IF req.rd = 0 THEN reg ELSE [reg EXCEPT ![req.rd] = v]

Loaded(word) ==
  IF req.byte THEN [ZeroWord EXCEPT ![LowPos] = word[req.addr.pos]] ELSE word

Load ==
  /\ req.mem = "read"
  /\ \E word \in IF IsRam(req.addr.word) THEN {mem[req.addr.word]} ELSE Word :
       SetReg(Loaded(word))
  /\ UNCHANGED mem

Store ==
  /\ req.mem \in {"write", "writeb"}
  /\ mem' = IF ~IsRam(req.addr.word) THEN mem
            ELSE IF req.mem = "write"
            THEN [mem EXCEPT ![req.addr.word] = req.data]
            ELSE [mem EXCEPT ![req.addr.word][req.addr.pos] = req.data[LowPos]]
  /\ UNCHANGED reg

Compute == req.mem = "none" /\ SetReg(req.data) /\ UNCHANGED mem

Perform == req # NoRequest /\ (Load \/ Store \/ Compute) /\ req' = NoRequest

Next == Arrive \/ Perform

Spec == Init /\ [][Next]_vars

=============================================================================
