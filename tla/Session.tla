------------------------------ MODULE Session ------------------------------
(***************************************************************************)
(* The Windows terminal and the machine at the two ends of the serial      *)
(* line, and the user between them: he types a command when the machine    *)
(* waits for one, resets the board when its greeting is due, and breaks    *)
(* off what hangs. The board does not run faster or slower than the line   *)
(* except where bytes pile up (Overrun).                                   *)
(***************************************************************************)
EXTENDS Console, Monitor

CONSTANTS Kits,           \* what the user types in a run: a set of lines, and
                          \* a bound on their number: [typed, most]
          MaxEvents,      \* bound: calls, prints and exceptions of programs
          MaxTyped,       \* bound: instructions that he types after one A
          MaxData         \* bound: a program reads lines while dataSeg is below

\* Lines are typed as the terminal can read them. A program sends no byte of its
\* own that the terminal takes for a message, and asks for no more memory than
\* fits behind DataEnd.
TypedWell(line) ==
  /\ line.name \in {"D", "U"} =>
       line.addr \in Word /\ line.num \in Nat \ {0} /\ line.num <= 2147483647
  /\ line.name = "ADDTLB" => line.addr \in Word /\ line.target \in Word
  /\ line.name \in {"A", "LOAD"} => line.addr \in Word
  /\ line.name = "LOAD" => line.file \in Seq([1 .. 4 -> 0 .. 255])

ASSUME SessionAssumption ==
  /\ NEntry \in Nat \ {0} /\ NEntry <= 256
  /\ IsFiniteSet(Addresses) /\ Cardinality(Addresses) < 134217728
  /\ \A k \in DOMAIN Kits : \A line \in Kits[k].typed : TypedWell(line)
  /\ Instructions \subseteq Word
  /\ \A line \in Lines : line \in Seq(Nat \ {0}) /\ Len(line) <= 65535
  /\ \A a \in {DataStart, DataEnd, MaxData} : a \in Word /\ a.hi < 40960
  /\ Less(Refused, DataStart)
  /\ ProgramPrints \cap {2, 4, 7} = {}
  /\ \A call \in ProgramCalls :
       /\ call.v0 \in Nat \ {0} /\ call.v0 < 256 /\ call.a0 \in Nat /\ call.a0 < 16777216
       /\ call.v0 = 6 => call.a0 <= 65535

VARIABLES kit, lines,     \* which set, and how many of them he has typed
          events,         \* what programs have done
          blocks,         \* what the program was given: addresses and sizes
          overrun         \* a byte was lost before the machine took it

ghosts == <<kit, lines, events, blocks, overrun>>
vars == <<consoleVars, monitorVars, wires, ghosts>>

\* The machine waits for more than what is on the line.
AtRest == pc \in Reading /\ Len(toMachine) < Wants[pc]

Init ==
  /\ ConsoleInit /\ MonitorInit /\ WireInit
  /\ kit \in DOMAIN Kits /\ lines = 0 /\ events = 0
  /\ blocks = <<>> /\ overrun = FALSE

MachineSteps ==
  /\ \/ MonitorStep /\ UNCHANGED events
     \/ ProgramStep /\ events < MaxEvents /\ events' = events + 1
     \/ Return /\ UNCHANGED events
  /\ blocks' = IF pc \in {"alloc", "storing"} /\ pc' = "program"
               THEN Append(blocks, [from |-> v0',
                                    size |-> IF pc = "alloc" THEN a0 ELSE 4 * left'])
               ELSE blocks
  /\ UNCHANGED <<consoleVars, kit, lines, overrun>>

ByteLost == Overrun /\ overrun' = TRUE /\ UNCHANGED <<consoleVars, kit, lines, events, blocks>>

TerminalSteps == ConsoleStep /\ UNCHANGED <<monitorVars, ghosts>>

\* Once the sides have parted the user leaves.
UserCommands ==
  /\ AtRest \/ parted # "no"
  /\ \E line \in IF parted = "no" /\ lines < Kits[kit].most
                 THEN Kits[kit].typed ELSE {Quit} :
       kernelRun(line)
  /\ lines' = lines + 1
  /\ UNCHANGED <<monitorVars, kit, events, blocks, overrun>>

UserAnswers ==
  /\ UserStep
  /\ Len(typed') <= MaxTyped + 1 /\ Less(dataSeg, MaxData)
  /\ UNCHANGED <<monitorVars, ghosts>>

UserStarts ==
  /\ AtRest /\ lines < Kits[kit].most /\ Start
  /\ blocks' = <<>> /\ overrun' = FALSE
  /\ UNCHANGED <<monitorVars, kit, lines, events>>

OpensPort == Connect(1) /\ UNCHANGED <<monitorVars, toMachine, ghosts>>

\* The simulator starts when the terminal is connected.
OpensSimulator ==
  Connect(2) /\ Cleared /\ mem' = Contents /\ UNCHANGED ghosts

Reset ==
  /\ at = "greeting" /\ mode = 1 /\ toHost = <<>> /\ pc # "boot"
  /\ Cleared
  /\ UNCHANGED <<consoleVars, mem, toHost, port, ghosts>>

\* At the menu, or where the terminal waits for a machine at rest.
UserBreaks ==
  /\ at = "top" \/ (at \in Waiting \union {"line", "integer", "typing"} /\ AtRest)
  /\ Exit
  /\ UNCHANGED <<monitorVars, ghosts>>

Next ==
  \/ MachineSteps \/ ByteLost \/ TerminalSteps
  \/ UserCommands \/ UserAnswers \/ UserStarts \/ UserBreaks
  \/ OpensPort \/ OpensSimulator \/ Reset

\* The processor and the terminal's process are never suspended for good;
\* the program and the user do as they like.
Fairness ==
  /\ WF_vars(MonitorStep /\ MachineSteps)
  /\ WF_vars(TerminalSteps)

Spec == Init /\ [][Next]_vars /\ Fairness

-----------------------------------------------------------------------------

\* Type invariant of the two sides, the line and the TLB.
TypeOK ==
  /\ at \in At /\ pc \in Pc /\ port \in Port /\ mode \in 0 .. 2
  /\ toMachine \in Seq(0 .. 255) /\ toHost \in Seq(0 .. 255)
  /\ addr \in Word /\ cursor \in Word /\ v0 \in Word /\ dataSeg \in Word
  /\ count \in Nat /\ left \in Nat /\ a0 \in Nat
  /\ \A n \in DOMAIN regs : regs[n] \in Word
  /\ \A p \in Addresses : mem[p] \in Word
  /\ \A i \in Entry : /\ data[i].v0 \in {0, 1} /\ data[i].v1 \in {0, 1}
                      /\ tlbEntry[i].v1 \in BOOLEAN /\ tlbEntry[i].v2 \in BOOLEAN
  /\ shown.bytes \in Seq(0 .. 255)

\* The two sides keep step: when the prompt is back and the machine waits, it
\* waits for a command, and no byte of the last one is left on the line.
\* (console.cpp's counts of what to receive, kernel.s's of what to read.)
InStep ==
  at = "prompt" /\ parted = "no" /\ AtRest =>
    pc = "begin" /\ toMachine = <<>> /\ toHost = <<>>

\* The machine reads every byte of the terminal before the next one is in,
\* unless the terminal has taken the echo of A for its answer.
NoOverrun == pc \notin Reading /\ Len(toMachine) > 1 => parted = "echo"

\* The copy of the TLB from which the terminal chooses the entry to replace
\* is what the machine holds, entry by entry, whenever the line is quiet.
ShadowIsTheTLB ==
  AtRest /\ at \notin {"off", "top", "greeting"} =>
    \A i \in Entry :
      data[i] = [vpn |-> tlbEntry[i].vpn,
                 pfn0 |-> tlbEntry[i].pfn1, v0 |-> IF tlbEntry[i].v1 THEN 1 ELSE 0,
                 pfn1 |-> tlbEntry[i].pfn2, v1 |-> IF tlbEntry[i].v2 THEN 1 ELSE 0]

\* What D, U and R display is what the machine's memory and registers hold,
\* under the right name; so is what a program prints by a system call, as far
\* as it can be compared: nothing that the program said later is on the line.
ShownIsTrue ==
  [][ /\ at = "regs" /\ count' # count => shown'.bytes = BytesOf(regs[shown'.what])
      /\ at = "dump" /\ parted = "no" /\ count' # count =>
           shown'.bytes = BytesOf(Load(addr))
      /\ at = "call" /\ shown' # shown /\ toHost' = <<>> =>
           shown'.bytes = IF shown'.what = "string" THEN StringAt([hi |-> 32768, lo |-> a0])
                          ELSE BytesOf(WordOf(a0)) ]_vars

\* The words that A and LOAD were given: a file holds them most significant
\* byte first.
BigEndian(bytes) == [hi |-> 256 * bytes[1] + bytes[2], lo |-> 256 * bytes[3] + bytes[4]]
Given ==
  IF command.name = "A" THEN typed
  ELSE [k \in 1 .. Len(command.file) - Len(prog) |-> BigEndian(command.file[k])]

\* What A and LOAD have sent is in memory, word for word at the addresses that
\* follow the one typed, whatever the terminal thinks of the answers, if only
\* no byte was lost.
WrittenIsStored ==
  /\ at \in {"prompt", "top"} /\ command.name \in {"A", "LOAD"}
  /\ pc = "begin" /\ AtRest /\ ~overrun
  => \A k \in DOMAIN Given : Load(Plus(command.addr, 4 * (k - 1))) = Given[k]

\* A system call that asks the user returns with his answer: the number in
\* v0, or the line, ended by a zero, at the address in v0.
AnswersArrive ==
  [][ /\ pc = "readint" /\ pc' = "program" => BytesOf(v0') = shown.bytes
      /\ pc = "storing" /\ pc' = "program" => StringAt(v0)' = shown.bytes \o <<0>> ]_vars

\* No two blocks that a program is given, for data or for a line, overlap,
\* as long as the terminal that hands them out runs.
BlocksAreDisjoint ==
  \A i, j \in DOMAIN blocks :
    i < j => ~Less(blocks[j].from, Plus(blocks[i].from, blocks[i].size))

\* A command comes to its end, or the program has the processor; only a dump
\* of addresses that are not mapped, or a lost byte, leaves the terminal
\* waiting.
CommandsEnd ==
  at \in Waiting ~>
    (at \notin Waiting \/ pc = "program" \/ parted = "unmapped" \/ overrun)

\* Where a page that is named by one of its addresses begins, and its frame.
Base(a) == [a EXCEPT !.lo = @ - (@ % 4096)]
FrameAt(entries, p) == IF TLB_bad(entries, p) THEN -1 ELSE PFN(real_addr(entries, p))

\* The pages of a machine are mapped as the user's commands asked (PageMap).
Added == {l.addr : l \in {k \in UNION {Kits[n].typed : n \in DOMAIN Kits} : k.name = "ADDTLB"}}
Pages == {Base(a) : a \in {b \in Added : ~Unmapped(b)}}
Asked ==
  IF command.name = "ADDTLB"
  THEN [name |-> "ADDTLB", page |-> Base(command.addr), frame |-> PFN(command.target)]
  ELSE [name |-> command.name, page |-> ZeroWord, frame |-> 0]
Promise == INSTANCE PageMap WITH
  Page <- Pages, NoFrame <- -1, Pair <- VPN2, asked <- Asked,
  map <- [p \in Pages |-> FrameAt(data, p)]
PagesAsAsked == Promise!Spec

=============================================================================
