------------------------------ MODULE Console ------------------------------
(***************************************************************************)
(* The Windows terminal (win-term/console.cpp): its menu, the session with *)
(* a machine, the commands of the session and the services it renders to a *)
(* program that G started. A typed line is a record: its words have been   *)
(* told apart and its numbers read (Numerals), its instructions assembled  *)
(* (Assembler). What a command sends before it waits is one step.          *)
(***************************************************************************)
EXTENDS Wire, PageTable, SequencesExt

CONSTANTS Instructions,   \* words that the user types after A
          Lines,          \* lines, sequences of bytes, typed for a program
          Integers32,     \* numbers, as words, typed for a program
          DataStart,      \* 0x80001000: dataSeg when the terminal starts
          DataEnd         \* 0x80080000: where it refuses to allocate

VARIABLES at,             \* what the terminal is in the middle of
          mode,           \* 1: serial port, 2: simulator
          command,        \* the line being obeyed
          addr,           \* the address of the next word
          count,          \* words received, or still to come; in A, the final nop
          prog,           \* words of LOAD still to be sent
          typed,          \* the instructions that A has sent
          dataSeg,        \* where the next block of the program begins
          lineEnd,        \* cin holds the end of the line of an integer
          shown,          \* what was displayed last
          parted          \* why the two sides no longer agree, if they do not

consoleVars == <<at, mode, command, addr, count, prog, typed, tlbEntry, dataSeg,
                 lineEnd, shown, parted>>

Waiting == {"regs", "dump", "stored", "loading", "listen", "call", "cause", "over"}
At == Waiting \union {"off", "top", "greeting", "prompt", "typing", "line", "integer"}

Quit == [name |-> "Q"]
Nothing == [what |-> "nothing", bytes |-> <<>>]
NOP == WordOf(0)
JrRa == [hi |-> 992, lo |-> 8]
Refused == [hi |-> 32768, lo |-> 0]

RegisterLabels_Swapped ==    \* mutant: Index shown as EntryLo1
  <<"t0", "t1", "t2", "t3", "t4", "t5", "t6", "t7", "t8", "t9", "SR", "EPC",
    "Cause", "BadVAddr", "EntryHi", "EntryLo0", "Index", "EntryLo1", "EBase",
    "Count", "Compare">>
RegisterLabels ==
  <<"t0", "t1", "t2", "t3", "t4", "t5", "t6", "t7", "t8", "t9", "SR", "EPC",
    "Cause", "BadVAddr", "EntryHi", "EntryLo0", "EntryLo1", "Index", "EBase",
    "Count", "Compare">>

ConsoleInit ==
  /\ at = "off" /\ mode = 0 /\ command = Quit /\ addr = NOP /\ count = 0
  /\ prog = <<>> /\ typed = <<>> /\ dataSeg = DataStart /\ lineEnd = FALSE
  /\ shown = Nothing /\ parted = "no" /\ PageTableInit


\* The constructors of Console, Controller and Memory, and the menu.
Start ==
  /\ at = "off"
  /\ at' = "top" /\ mode' = 0 /\ dataSeg' = DataStart /\ lineEnd' = FALSE
  /\ parted' = "no" /\ tlbEntry' = [i \in Entry |-> NoEntry]
  /\ UNCHANGED <<command, addr, count, prog, typed, shown, wires>>

\* parseAndRun, and the opening of the port or of the connection: a port
\* that a former session left open cannot be opened again.
Connect(m) ==
  /\ at = "top" /\ port = "free"
  /\ at' = "greeting" /\ mode' = m /\ port' = "open" /\ toHost' = <<>>
  /\ UNCHANGED <<command, addr, count, prog, typed, tlbEntry, dataSeg, lineEnd,
                 shown, parted>>

Greet ==
  /\ at = "greeting"
  /\ TakesFromMachine(4)
  /\ at' = "prompt"
  /\ UNCHANGED <<mode, command, addr, count, prog, typed, tlbEntry, dataSeg,
                 lineEnd, shown, parted, toMachine, port>>

Obeys(line) == command' = line

\* exit(0), at the menu, at the prompt or where the user breaks a wait.
Exit ==
  /\ Obeys(Quit)
  /\ at' = "off" /\ port' = "free" /\ toHost' = <<>>
  /\ UNCHANGED <<mode, addr, count, prog, typed, tlbEntry, dataSeg,
                 lineEnd, shown, parted, toMachine>>

\* A command that returns: to the prompt, or with an error. An error ends
\* a session of the serial port, which nobody closes; the simulator's goes on.
Returns == at' = "prompt" /\ UNCHANGED port
Fails == IF mode = 1 THEN at' = "top" /\ port' = "leaked" ELSE Returns

-----------------------------------------------------------------------------
(* The commands, as kernelRun hands them out.                              *)

\* A line that is no command: empty, or its operands make no sense.
Misread(line) ==
  /\ Obeys(line) /\ Fails
  /\ UNCHANGED <<mode, addr, count, prog, typed, tlbEntry, dataSeg, lineEnd,
                 shown, parted, toMachine, toHost>>

runR(line) ==
  /\ Obeys(line)
  /\ ToMachine(<<82>>)
  /\ at' = "regs" /\ count' = 0
  /\ UNCHANGED <<mode, addr, prog, typed, tlbEntry, dataSeg, lineEnd, shown,
                 parted, toHost, port>>

\* D and U send the same and differ in how a word is displayed. Neither asks
\* visitable, which the code has commented out here.
runD(line, letter) ==
  /\ Obeys(line)
  /\ ToMachine(<<letter>> \o BytesOf(line.addr) \o BytesOf(WordOf(line.num)))
  /\ at' = "dump" /\ addr' = line.addr /\ count' = line.num
  /\ parted' = IF \A i \in 0 .. line.num - 1 :
                     visitable(tlbEntry, Plus(line.addr, 4 * i))
               THEN parted ELSE "unmapped"
  /\ UNCHANGED <<mode, prog, typed, tlbEntry, dataSeg, lineEnd, shown, toHost,
                 port>>

runA(line) ==
  /\ Obeys(line)
  /\ at' = "typing" /\ addr' = line.addr /\ count' = 0 /\ typed' = <<>>
  /\ UNCHANGED <<mode, prog, tlbEntry, dataSeg, lineEnd, shown, parted, wires>>

\* The file is read as words of this computer, whose bytes sendReverseWord
\* turns round.
FileWord(bytes) == FromBytes(bytes)
SendReverse_Straight(word) == BytesOf(word)    \* mutant: sendWord
SendReverse(word) == Reverse(BytesOf(word))

SendA(a, bytes) == ToMachine(<<65>> \o BytesOf(a) \o bytes)

runLoadFile(line) ==
  /\ Obeys(line)
  /\ IF line.file = <<>> THEN at' = "prompt" /\ UNCHANGED <<prog, toMachine>>
     ELSE /\ SendA(line.addr, SendReverse(FileWord(Head(line.file))))
          /\ prog' = Tail(line.file)
          /\ at' = "loading"
  /\ addr' = line.addr
  /\ UNCHANGED <<mode, count, typed, tlbEntry, dataSeg, lineEnd, shown, parted,
                 toHost, port>>

runG(line) ==
  /\ Obeys(line)
  /\ ToMachine(<<71>> \o BytesOf(line.addr))
  /\ at' = "listen"
  /\ UNCHANGED <<mode, addr, count, prog, typed, tlbEntry, dataSeg, lineEnd,
                 shown, parted, toHost, port>>

runViewTLB(line) ==
  /\ Obeys(line)
  /\ UNCHANGED <<at, mode, addr, count, prog, typed, tlbEntry, dataSeg, lineEnd,
                 shown, parted, wires>>

runDelTLB(line) ==
  IF line.index \notin Entry THEN Misread(line)
  ELSE /\ Obeys(line)
       /\ tlbEntry' = delTLBEntry(tlbEntry, line.index)
       /\ ToMachine(<<69, line.index>>)
       /\ UNCHANGED <<at, mode, addr, count, prog, typed, dataSeg, lineEnd,
                      shown, parted, toHost, port>>

Flag(b) == <<IF b THEN 1 ELSE 0>>
AddMessage_NoFlags(i, e) ==    \* mutant: as term.py sends it
  <<84, i>> \o BytesOf(WordOf(e.vpn)) \o BytesOf(WordOf(e.pfn1))
            \o BytesOf(WordOf(e.pfn2))
AddMessage(i, e) ==
  <<84, i>> \o BytesOf(WordOf(e.vpn)) \o BytesOf(WordOf(e.pfn1)) \o Flag(e.v1)
            \o BytesOf(WordOf(e.pfn2)) \o Flag(e.v2)

\* Without an entry of that pair (the table is full, or the address is not
\* translated) the terminal exits.
runAddTLB(line) ==
  LET entries == addTLBEntry(tlbEntry, line.addr, line.target)
      found == WithVPN(entries, VPN2(line.addr))
  IN CASE line.target.lo % 4 # 0 -> Misread(line)
       [] line.target.lo % 4 = 0 /\ found = {} -> Exit
       [] OTHER ->
            /\ Obeys(line)
            /\ tlbEntry' = entries
            /\ ToMachine(AddMessage(Min(found), entries[Min(found)]))
            /\ UNCHANGED <<at, mode, addr, count, prog, typed, dataSeg, lineEnd,
                           shown, parted, toHost, port>>

kernelRun(line) ==
  /\ at = "prompt"
  /\ \/ line.name = "?" /\ Misread(line)
     \/ line.name = "Q" /\ Exit
     \/ line.name = "R" /\ runR(line)
     \/ line.name = "D" /\ runD(line, 68)
     \/ line.name = "U" /\ runD(line, 85)
     \/ line.name = "A" /\ runA(line)
     \/ line.name = "LOAD" /\ runLoadFile(line)
     \/ line.name = "G" /\ runG(line)
     \/ line.name = "VIEWTLB" /\ runViewTLB(line)
     \/ line.name = "DELTLB" /\ runDelTLB(line)
     \/ line.name = "ADDTLB" /\ runAddTLB(line)

-----------------------------------------------------------------------------
(* What a command does with the answers.                                   *)

TakeReg ==
  /\ at = "regs"
  /\ TakesFromMachine(4)
  /\ shown' = [what |-> RegisterLabels[count + 1], bytes |-> SubSeq(toHost, 1, 4)]
  /\ count' = count + 1
  /\ at' = IF count' = 21 THEN "prompt" ELSE "regs"
  /\ UNCHANGED <<mode, command, addr, prog, typed, tlbEntry, dataSeg, lineEnd,
                 parted, toMachine, port>>

TakeWord ==
  /\ at = "dump"
  /\ TakesFromMachine(4)
  /\ shown' = [what |-> "word", bytes |-> SubSeq(toHost, 1, 4)]
  /\ addr' = Plus(addr, 4)
  /\ count' = count - 1
  /\ at' = IF count' = 0 THEN "prompt" ELSE "dump"
  /\ UNCHANGED <<mode, command, prog, typed, tlbEntry, dataSeg, lineEnd, parted,
                 toMachine, port>>

\* A line that does not assemble is asked for again.
TypeInstruction ==
  /\ at = "typing"
  /\ \E word \in Instructions : SendA(addr, BytesOf(word)) /\ typed' = Append(typed, word)
  /\ at' = "stored" /\ lineEnd' = FALSE
  /\ UNCHANGED <<mode, command, addr, count, prog, tlbEntry, dataSeg, shown,
                 parted, toHost, port>>

\* The answer to A must be one zero; behind jr $ra a nop is appended.
TakeStored ==
  /\ at = "stored"
  /\ TakesFromMachine(1)
  /\ parted' = "echo"
  /\ IF Head(toHost) # 0
     THEN Fails /\ UNCHANGED <<addr, count, typed, toMachine>>
     ELSE IF count = 1 THEN Returns /\ UNCHANGED <<addr, count, typed, toMachine>>
     ELSE /\ addr' = Plus(addr, 4)
          /\ IF Last(typed) # JrRa THEN at' = "typing" /\ UNCHANGED <<count, typed, toMachine>>
             ELSE /\ SendA(addr', BytesOf(NOP)) /\ typed' = Append(typed, NOP)
                  /\ count' = 1 /\ at' = "stored"
          /\ UNCHANGED port
  /\ UNCHANGED <<mode, command, prog, tlbEntry, dataSeg, lineEnd, shown>>

TakeLoaded ==
  /\ at = "loading"
  /\ TakesFromMachine(1)
  /\ parted' = "echo"
  /\ IF Head(toHost) # 0
     THEN Fails /\ UNCHANGED <<addr, prog, toMachine>>
     ELSE IF prog = <<>> THEN Returns /\ UNCHANGED <<addr, prog, toMachine>>
     ELSE /\ addr' = Plus(addr, 4)
          /\ SendA(addr', SendReverse(FileWord(Head(prog))))
          /\ prog' = Tail(prog)
          /\ UNCHANGED <<at, port>>
  /\ UNCHANGED <<mode, command, count, typed, tlbEntry, dataSeg, lineEnd, shown>>

-----------------------------------------------------------------------------
(* While a program runs: runG's loop, and runInt.                          *)

Listen ==
  /\ at = "listen"
  /\ TakesFromMachine(1)
  /\ at' = CASE Head(toHost) = 4 -> "prompt" [] Head(toHost) = 7 -> "cause"
             [] Head(toHost) = 2 -> "call" [] OTHER -> "listen"
  /\ shown' = IF Head(toHost) \in {2, 4, 7} THEN shown
              ELSE [what |-> "character", bytes |-> <<Head(toHost)>>]
  /\ UNCHANGED <<mode, command, addr, count, prog, typed, tlbEntry, dataSeg,
                 lineEnd, parted, toMachine, port>>

Calling(n, bytes) ==
  /\ at = "call" /\ toHost # <<>> /\ Head(toHost) = n
  /\ TakesFromMachine(1 + bytes)
  /\ UNCHANGED <<mode, command, addr, count, prog, typed, tlbEntry, port>>

CallAlloc ==
  /\ Calling(1, 4)
  /\ LET size == NumberOf(WordAt(toHost, 2))
     IN IF Less(Plus(dataSeg, size), DataEnd)
        THEN /\ ToMachine(BytesOf(dataSeg))
             /\ dataSeg' = Plus(dataSeg, size)
             /\ at' = "listen" /\ UNCHANGED parted
        ELSE /\ ToMachine(BytesOf(Refused))
             /\ at' = "prompt" /\ parted' = "restart" /\ UNCHANGED dataSeg
  /\ UNCHANGED <<lineEnd, shown>>

CallLine ==
  /\ Calling(2, 0)
  /\ ToMachine(BytesOf(dataSeg))
  /\ at' = "line"
  /\ UNCHANGED <<dataSeg, lineEnd, shown, parted>>

CallInteger ==
  /\ Calling(3, 0)
  /\ at' = "integer"
  /\ UNCHANGED <<dataSeg, lineEnd, shown, parted, toMachine>>

\* printInt and printBool.
CallShow ==
  /\ \E n \in {5, 7} :
       /\ Calling(n, 4)
       /\ shown' = [what |-> IF n = 5 THEN "integer" ELSE "bool",
                    bytes |-> SubSeq(toHost, 2, 5)]
  /\ at' = "listen"
  /\ UNCHANGED <<dataSeg, lineEnd, parted, toMachine>>

CallString ==
  /\ at = "call" /\ toHost # <<>> /\ Head(toHost) = 6
  /\ \E k \in 2 .. Len(toHost) :
       /\ toHost[k] = 0 /\ \A j \in 2 .. k - 1 : toHost[j] # 0
       /\ Calling(6, k - 1)
       /\ shown' = [what |-> "string", bytes |-> SubSeq(toHost, 2, k)]
  /\ at' = "listen"
  /\ UNCHANGED <<dataSeg, lineEnd, parted, toMachine>>

CallHalt ==
  /\ Calling(8, 0)
  /\ at' = "prompt" /\ parted' = "restart"
  /\ UNCHANGED <<dataSeg, lineEnd, shown, toMachine>>

\* stringEqual, which the machine answers itself, and unknown calls.
CallOther ==
  /\ \E n \in {4} \union 9 .. 255 : Calling(n, 0)
  /\ at' = "listen"
  /\ UNCHANGED <<dataSeg, lineEnd, shown, parted, toMachine>>

\* The line goes out in words, and ends within the last of them.
Padded_NoZero(line) ==    \* mutant: a line of four bytes has no zero behind it
  line \o [i \in 1 .. (4 - (Len(line) % 4)) % 4 |-> 0]
Padded(line) == line \o [i \in 1 .. 4 - (Len(line) % 4) |-> 0]

Advanced_Not(a, n) == a    \* mutant: dataSeg stays
Advanced(a, n) == Plus(a, n)

TypeLine ==
  /\ at = "line"
  /\ \E line \in IF lineEnd THEN {<<>>} ELSE Lines :
       /\ ToMachine(Padded(line))
       /\ dataSeg' = Advanced(dataSeg, Len(Padded(line)))
       /\ shown' = [what |-> "typed", bytes |-> line]
  /\ lineEnd' = FALSE
  /\ at' = "listen"
  /\ UNCHANGED <<mode, command, addr, count, prog, typed, tlbEntry, parted,
                 toHost, port>>

TypeInteger ==
  /\ at = "integer"
  /\ \E word \in Integers32 : /\ ToMachine(BytesOf(word))
                              /\ shown' = [what |-> "typed", bytes |-> BytesOf(word)]
  /\ lineEnd' = TRUE
  /\ at' = "listen"
  /\ UNCHANGED <<mode, command, addr, count, prog, typed, tlbEntry, dataSeg,
                 parted, toHost, port>>

TakeCause ==
  /\ at = "cause"
  /\ TakesFromMachine(4)
  /\ shown' = [what |-> "exception", bytes |-> <<(toHost[1] \div 4) % 32>>]
  /\ ToMachine(<<4>>)
  /\ at' = "over" /\ parted' = "exception"
  /\ UNCHANGED <<mode, command, addr, count, prog, typed, tlbEntry, dataSeg,
                 lineEnd, port>>

TakeOver ==
  /\ at = "over"
  /\ TakesFromMachine(4)
  /\ at' = "prompt"
  /\ UNCHANGED <<mode, command, addr, count, prog, typed, tlbEntry, dataSeg,
                 lineEnd, shown, parted, toMachine, port>>

ConsoleStep ==
  \/ Greet \/ TakeReg \/ TakeWord \/ TakeStored \/ TakeLoaded \/ Listen
  \/ CallAlloc \/ CallLine \/ CallInteger \/ CallShow \/ CallString \/ CallHalt
  \/ CallOther \/ TakeCause \/ TakeOver

UserStep == TypeInstruction \/ TypeLine \/ TypeInteger

=============================================================================
