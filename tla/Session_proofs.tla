---------------------------- MODULE Session_proofs ----------------------------
(***************************************************************************)
(* Theorems about the session, for every TLB, memory, program and set of   *)
(* lines typed that keep the conventions of SessionAssumption: as long as  *)
(* the sides have not parted in one of the known ways, terminal and        *)
(* monitor are in the same place of the same dialogue.                     *)
(***************************************************************************)
EXTENDS Session, SequenceTheorems, FiniteSetTheorems, WellFoundedInduction, TLAPS

-----------------------------------------------------------------------------
(* What the terminal takes the bytes of a running program for: a state     *)
(* machine over single bytes, of which Listen and the calls do several     *)
(* steps at once.                                                          *)

ReadsOn ==
  [n4 |-> "n3", n3 |-> "n2", n2 |-> "n1", n1 |-> "listen",
   a4 |-> "a3", a3 |-> "a2", a2 |-> "a1"]

\* "n4" has four bytes of a number to come, "a4" of the size of a block, whose
\* most significant byte is zero (SessionAssumption); "halt"
\* and "cause" accept what follows; "alloc", "line", "integer" and "done" are
\* ends: the program says nothing more until it has an answer.
Step(l, b) ==
  CASE l = "listen" -> (CASE b = 2 -> "call" [] b = 4 -> "done" [] b = 7 -> "cause"
                          [] OTHER -> "listen")
    [] l = "call" -> (CASE b = 1 -> "a4" [] b = 2 -> "line" [] b = 3 -> "integer"
                        [] b \in {5, 7} -> "n4" [] b = 6 -> "string" [] b = 8 -> "halt"
                        [] OTHER -> "listen")
    [] l = "string" -> (IF b = 0 THEN "listen" ELSE "string")
    [] l \in {"n4", "n3", "n2", "n1"} -> ReadsOn[l]
    [] l \in {"a4", "a3", "a2"} -> (IF b \in Nat /\ b < 256 THEN ReadsOn[l] ELSE "stuck")
    [] l = "a1" -> (IF b = 0 THEN "alloc" ELSE "stuck")
    [] l \in {"halt", "cause"} -> l
    [] OTHER -> "stuck"

\* The bytes of q take the reader from s to t.
Run(f, q, s) == f[0] = s /\ \A k \in 1 .. Len(q) : f[k] = Step(f[k - 1], q[k])
Reads(q, s, t) == \E f : Run(f, q, s) /\ f[Len(q)] = t

\* Where the machine is when the reader comes to an end.
Ends(t) ==
  CASE t = "listen" -> {"program"}
    [] t = "alloc" -> {"alloc"}
    [] t = "line" -> {"readline"}
    [] t = "integer" -> {"readint"}
    [] t = "halt" -> {"boot", "begin"}
    [] t = "done" -> {"begin"}
    [] t = "cause" -> {"reported"}
    [] OTHER -> {}

\* Reading q from l on, the terminal comes to where the machine is at c.
Says(l, q, c) == \E t : c \in Ends(t) /\ Reads(q, l, t)

-----------------------------------------------------------------------------
(* The dialogue, command by command.                                       *)

IsSeq(q) == \E S : q \in Seq(S)
Queue(q, n) == IsSeq(q) /\ n \in Nat /\ Len(q) = n

\* Word w is sent with byte k of q the first.
Carries(q, k, w) ==
  /\ q[k] = BytesOf(w)[1] /\ q[k + 1] = BytesOf(w)[2]
  /\ q[k + 2] = BytesOf(w)[3] /\ q[k + 3] = BytesOf(w)[4]

\* Words, of which the last and no other has a zero.
ZeroIn(q, k) == 0 \in {q[4 * k - 3], q[4 * k - 2], q[4 * k - 1], q[4 * k]}
InWords(q, m) == Queue(q, 4 * m) /\ \A k \in 1 .. m : ZeroIn(q, k) <=> k = m
IsLine(q) == \E m \in Nat \ {0} : InWords(q, m)

\* The line behind its address.
Answer(p, q) ==
  \E n : /\ Queue(p, 4 + n) /\ Queue(q, n)
         /\ \A i \in 1 .. n : p[4 + i] = q[i]

\* The entry of the TLB that the terminal's stands for.
Image(e) == [vpn |-> e.vpn, pfn0 |-> e.pfn1, v0 |-> IF e.v1 THEN 1 ELSE 0,
             pfn1 |-> e.pfn2, v1 |-> IF e.v2 THEN 1 ELSE 0]
Same == \A i \in Entry : data[i] = Image(tlbEntry[i])
SameBut(i) == \A j \in Entry \ {i} : data[j] = Image(tlbEntry[j])

Quiet == pc = "begin" /\ toMachine = <<>> /\ toHost = <<>> /\ Same

Idle == at \in {"prompt", "typing"} /\ Quiet

Deleting ==
  /\ at = "prompt" /\ toHost = <<>>
  /\ \E i \in Entry :
       /\ SameBut(i) /\ tlbEntry[i] = NoEntry
       /\ \/ pc = "begin" /\ Queue(toMachine, 2) /\ toMachine[1] = 69 /\ toMachine[2] = i
          \/ pc = "deltlb" /\ Queue(toMachine, 1) /\ toMachine[1] = i

\* The arguments of an addtlb message, from byte k on.
EntryAt(q, k, i) ==
  /\ q[k] = i
  /\ Carries(q, k + 1, WordOf(tlbEntry[i].vpn))
  /\ Carries(q, k + 5, WordOf(tlbEntry[i].pfn1)) /\ q[k + 9] = Flag(tlbEntry[i].v1)[1]
  /\ Carries(q, k + 10, WordOf(tlbEntry[i].pfn2)) /\ q[k + 14] = Flag(tlbEntry[i].v2)[1]

Adding ==
  /\ at = "prompt" /\ toHost = <<>>
  /\ \E i \in Entry :
       /\ SameBut(i)
       /\ \/ /\ pc = "begin" /\ Queue(toMachine, 16) /\ toMachine[1] = 84
             /\ EntryAt(toMachine, 2, i)
          \/ pc = "addtlb" /\ Queue(toMachine, 15) /\ EntryAt(toMachine, 1, i)

ShowingRegs ==
  /\ at = "regs" /\ Same /\ count \in Nat /\ count < 21
  /\ \/ /\ pc = "begin" /\ Queue(toMachine, 1) /\ toMachine[1] = 82
        /\ toHost = <<>> /\ count = 0
     \/ pc = "showregs" /\ toMachine = <<>> /\ toHost = <<>> /\ count = 0
     \/ pc = "begin" /\ toMachine = <<>> /\ Queue(toHost, 84 - 4 * count)

Mapped == \A i \in 0 .. count - 1 : visitable(tlbEntry, Plus(addr, 4 * i))
Counted == count \in Nat \ {0} /\ count <= 2147483647
Dumping ==
  /\ at = "dump" /\ Same /\ addr \in Word /\ Counted /\ Mapped
  /\ \/ /\ pc = "begin" /\ Queue(toMachine, 9) /\ toMachine[1] \in {68, 85}
        /\ Carries(toMachine, 2, addr) /\ Carries(toMachine, 6, WordOf(count))
        /\ toHost = <<>>
     \/ /\ pc = "showmem" /\ Queue(toMachine, 8)
        /\ Carries(toMachine, 1, addr) /\ Carries(toMachine, 5, WordOf(count))
        /\ toHost = <<>>
     \/ /\ pc = "loop" /\ toMachine = <<>> /\ left \in Nat \ {0} /\ left <= count
        /\ Queue(toHost, 4 * (count - left)) /\ cursor = Plus(addr, 4 * (count - left))
     \/ pc = "begin" /\ toMachine = <<>> /\ Queue(toHost, 4 * count)

Storing ==
  /\ at \in {"stored", "loading"} /\ Same
  /\ \/ pc = "begin" /\ Queue(toMachine, 9) /\ toMachine[1] = 65 /\ toHost = <<>>
     \/ pc = "assemble" /\ Queue(toMachine, 8) /\ toHost = <<>>
     \/ pc \in {"echo", "begin", "reported"} /\ toMachine = <<>> /\ toHost # <<>>

Going ==
  /\ at = "listen" /\ Same /\ toHost = <<>>
  /\ \/ pc = "begin" /\ Queue(toMachine, 5) /\ toMachine[1] = 71
     \/ pc = "execute" /\ Queue(toMachine, 4)

Running ==
  /\ at \in {"listen", "call", "cause"} /\ Same /\ toMachine = <<>>
  /\ Says(at, toHost, pc)

\* The address of a line comes before the line.
Answering ==
  /\ Same /\ toHost = <<>>
  /\ \/ /\ at = "listen" /\ pc = "alloc" /\ Queue(toMachine, 4)
        /\ \E w \in Word : w # AllocFailed /\ Carries(toMachine, 1, w)
     \/ at = "integer" /\ pc = "readint" /\ toMachine = <<>>
     \/ at = "listen" /\ pc = "readint" /\ Queue(toMachine, 4)
     \/ at = "line" /\ pc = "readline" /\ Queue(toMachine, 4)
     \/ at = "line" /\ pc = "storing" /\ toMachine = <<>>
     \/ at = "listen" /\ pc = "readline"
        /\ \E q : IsLine(q) /\ Answer(toMachine, q)
     \/ at = "listen" /\ pc = "storing" /\ IsLine(toMachine)

Dialogue ==
  \/ Idle \/ Deleting \/ Adding \/ ShowingRegs \/ Dumping \/ Storing
  \/ Going \/ Running \/ Answering

-----------------------------------------------------------------------------
(* The inductive invariant.                                                *)

Away == {"off", "top", "greeting"}

InDialogue == parted = "no" /\ at \notin Away => Dialogue

\* Nothing is sent to a machine that was left in the middle of something, or
\* nothing that it could take for a change of the TLB.
Untouched == Same /\ pc \notin {"deltlb", "addtlb"}
Apart ==
  /\ parted \in {"no", "echo", "unmapped", "restart", "exception"}
  /\ parted = "echo" => at \in {"stored", "loading", "typing", "prompt", "top", "off"}
  /\ parted = "unmapped" =>
       /\ at \in {"dump", "prompt", "off"}
       /\ \/ toMachine = <<>>
          \/ pc = "begin" /\ Queue(toMachine, 9) /\ toMachine[1] \in {68, 85}
          \/ pc = "showmem" /\ Queue(toMachine, 8)
  /\ parted = "restart" =>
       /\ at \in {"prompt", "off"}
       /\ toMachine = <<>> \/ (pc = "alloc" /\ Queue(toMachine, 4))
  /\ parted = "exception" =>
       /\ at \in {"over", "prompt", "off"}
       /\ toMachine = <<>> \/ (Queue(toMachine, 1) /\ toMachine[1] = 4)
  /\ parted \in {"unmapped", "restart", "exception"} => Untouched

\* Before the greeting the machine does nothing, or has just started.
Fresh == toMachine = <<>> /\ Same
Outside ==
  /\ at \notin Away => port = "open"
  /\ at = "off" => port = "free"
  /\ at = "off" /\ parted = "no" => AtRest \/ (pc = "boot" /\ toMachine = <<>>)
  /\ at = "top" /\ parted = "no" => AtRest
  /\ at = "top" /\ port = "free" => parted = "no"
  /\ at = "top" => port \in {"free", "leaked"}
  /\ at \in {"top", "greeting"} /\ port # "leaked" => tlbEntry = [i \in Entry |-> NoEntry]
  /\ at = "greeting" =>
       /\ parted = "no" /\ port = "open"
       /\ \/ AtRest /\ toHost = <<>>
          \/ pc = "boot" /\ toHost = <<>> /\ Fresh
          \/ pc = "begin" /\ toHost = Greeting /\ Fresh

\* Types of what the dialogue carries.
EntryType ==
  {e \in [vpn : Nat, pfn1 : Nat, pfn2 : Nat, v1 : BOOLEAN, v2 : BOOLEAN] :
     e.vpn < 524288 /\ e.pfn1 < 1048576 /\ e.pfn2 < 1048576}
Typed ==
  /\ kit \in DOMAIN Kits
  /\ IsSeq(toMachine) /\ IsSeq(toHost)
  /\ data = [i \in Entry |-> data[i]] /\ tlbEntry \in [Entry -> EntryType]
  /\ dataSeg \in Word /\ dataSeg.hi < 45000 /\ Less(Refused, dataSeg)

Inv == Typed /\ Outside /\ Apart /\ InDialogue

-----------------------------------------------------------------------------
(* Queues of bytes, without the sets their bytes come from.                *)

-----------------------------------------------------------------------------
(* Queues. *)

\* A sequence of anything: its length, its elements, what makes two equal.
LEMMA SeqIs ==
  ASSUME NEW q, IsSeq(q)
  PROVE  /\ Len(q) \in Nat /\ DOMAIN q = 1 .. Len(q) /\ (q = <<>> <=> Len(q) = 0)
         /\ q = [i \in 1 .. Len(q) |-> q[i]]
<1>1. PICK S : q \in Seq(S)
  BY DEF IsSeq
<1> QED
  BY <1>1, LenProperties, EmptySeq

\* Queues with the same bytes are the same.
LEMMA SeqsEqual ==
  ASSUME NEW q, NEW r, IsSeq(q), IsSeq(r), Len(q) = Len(r), \A i \in 1 .. Len(q) : q[i] = r[i]
  PROVE  q = r
<1>1. PICK S, T : q \in Seq(S) /\ r \in Seq(T)
  BY DEF IsSeq
<1>2. q \in Seq(S \cup T) /\ r \in Seq(S \cup T)
  BY <1>1, SeqMonotonic
<1> QED
  BY <1>2, SeqEqual

\* One sequence behind another.
LEMMA Joined ==
  ASSUME NEW q, NEW r, IsSeq(q), IsSeq(r)
  PROVE  /\ IsSeq(q \o r) /\ Len(q \o r) = Len(q) + Len(r)
         /\ \A i \in 1 .. Len(q) : (q \o r)[i] = q[i]
         /\ \A i \in 1 .. Len(r) : (q \o r)[Len(q) + i] = r[i]
<1>1. PICK S, T : q \in Seq(S) /\ r \in Seq(T)
  BY DEF IsSeq
<1>2. q \in Seq(S \cup T) /\ r \in Seq(S \cup T)
  BY <1>1, SeqMonotonic
<1>3. /\ q \o r \in Seq(S \cup T) /\ Len(q \o r) = Len(q) + Len(r)
      /\ \A i \in 1 .. Len(q) + Len(r) :
            (q \o r)[i] = IF i <= Len(q) THEN q[i] ELSE r[i - Len(q)]
  BY <1>2, ConcatProperties
<1>4. Len(q) \in Nat /\ Len(r) \in Nat
  BY SeqIs
<1>5. ASSUME NEW i \in 1 .. Len(r) PROVE (q \o r)[Len(q) + i] = r[i]
  <2>1. Len(q) + i \in 1 .. Len(q) + Len(r) /\ ~(Len(q) + i <= Len(q)) /\ Len(q) + i - Len(q) = i
    BY <1>4
  <2> QED
    BY <1>3, <2>1
<1> QED
  BY <1>3, <1>4, <1>5 DEF IsSeq

\* Joining the empty queue changes nothing.
LEMMA JoinedToNothing ==
  ASSUME NEW r, IsSeq(r)
  PROVE  <<>> \o r = r /\ r \o <<>> = r
  BY ConcatEmptySeq DEF IsSeq

\* The empty queue.
LEMMA Nil == IsSeq(<<>>) /\ Len(<<>>) = 0
  BY EmptySeq DEF IsSeq

\* What is left of a sequence when n of its elements are taken.
LEMMA Rest ==
  ASSUME NEW q, IsSeq(q), NEW n \in Nat, n <= Len(q)
  PROVE  /\ IsSeq(SubSeq(q, n + 1, Len(q))) /\ Len(SubSeq(q, n + 1, Len(q))) = Len(q) - n
         /\ \A i \in 1 .. Len(q) - n : SubSeq(q, n + 1, Len(q))[i] = q[n + i]
         /\ Len(q) = n <=> SubSeq(q, n + 1, Len(q)) = <<>>
         /\ n = 0 => SubSeq(q, n + 1, Len(q)) = q
<1> DEFINE r == SubSeq(q, n + 1, Len(q))
<1>0. Len(q) \in Nat
  BY SeqIs
<1>1. PICK S : q \in Seq(S)
  BY DEF IsSeq
<1>2. \A i \in n + 1 .. Len(q) : q[i] \in S
  BY <1>0, <1>1, ElementOfSeq
<1>3. n + 1 \in Int /\ Len(q) \in Int
  BY <1>0
<1>4. /\ r \in Seq(S) /\ Len(r) = IF n + 1 <= Len(q) THEN Len(q) - (n + 1) + 1 ELSE 0
      /\ \A i \in 1 .. Len(q) - (n + 1) + 1 : r[i] = q[n + 1 + i - 1]
  BY <1>2, <1>3, SubSeqProperties
<1>5. IsSeq(r) /\ Len(r) = Len(q) - n
  BY <1>0, <1>4 DEF IsSeq
<1>6. ASSUME NEW i \in 1 .. Len(q) - n PROVE r[i] = q[n + i]
  <2>1. i \in 1 .. Len(q) - (n + 1) + 1 /\ n + 1 + i - 1 = n + i
    BY <1>0
  <2> QED
    BY <1>4, <2>1
<1>8. ASSUME n = 0 PROVE r = q
  BY <1>0, <1>1, <1>8, SubSeqFull
<1> HIDE DEF r
<1>7. Len(q) = n <=> r = <<>>
  <2>1. r = <<>> <=> Len(r) = 0
    BY <1>5, SeqIs
  <2> QED
    BY <1>0, <1>5, <2>1
<1> QED
  BY <1>5, <1>6, <1>7, <1>8 DEF r

\* The first four of a sequence.
LEMMA Part ==
  ASSUME NEW q, IsSeq(q), NEW n \in Nat, NEW m \in Nat, 0 < n, n + m <= Len(q) + 1
  PROVE  /\ IsSeq(SubSeq(q, n, n + m - 1)) /\ Len(SubSeq(q, n, n + m - 1)) = m
         /\ \A i \in 1 .. m : SubSeq(q, n, n + m - 1)[i] = q[n + i - 1]
<1>0. Len(q) \in Nat
  BY SeqIs
<1>1. PICK S : q \in Seq(S)
  BY DEF IsSeq
<1>2. \A i \in n .. n + m - 1 : q[i] \in S
  BY <1>0, <1>1, ElementOfSeq
<1> DEFINE r == SubSeq(q, n, n + m - 1)
<1>3. /\ r \in Seq(S) /\ Len(r) = IF n <= n + m - 1 THEN n + m - 1 - n + 1 ELSE 0
      /\ \A i \in 1 .. n + m - 1 - n + 1 : r[i] = q[n + i - 1]
  BY <1>2, SubSeqProperties
<1> QED
  BY <1>3 DEF IsSeq

\* The same for queues of known length, which is how they are spoken of below.
LEMMA QueueOf ==
  ASSUME NEW q, IsSeq(q)
  PROVE  Queue(q, Len(q))
  BY SeqIs DEF Queue

\* What a queue of n bytes is.
LEMMA QueueType ==
  ASSUME NEW q, NEW n, Queue(q, n)
  PROVE  IsSeq(q) /\ n \in Nat
  BY DEF Queue

\* A queue has one length.
LEMMA OneLength ==
  ASSUME NEW q, NEW n, NEW m, Queue(q, n), Queue(q, m)
  PROVE  n = m
  BY DEF Queue

\* Only the empty queue has no byte.
LEMMA QueueEmpty ==
  ASSUME NEW q, IsSeq(q)
  PROVE  Queue(q, 0) <=> q = <<>>
  BY SeqIs DEF Queue

\* The empty queue has no byte.
LEMMA NilQueue == Queue(<<>>, 0)
  BY Nil DEF Queue

\* Queues of one length with the same bytes are the same.
LEMMA QueuesEqual ==
  ASSUME NEW q, NEW r, NEW n, Queue(q, n), Queue(r, n), \A i \in 1 .. n : q[i] = r[i]
  PROVE  q = r
  BY SeqsEqual DEF Queue

\* The guards of the reads ask for a number of bytes.
LEMMA QueueAtLeast ==
  ASSUME NEW q, NEW n, Queue(q, n), NEW k \in Nat
  PROVE  (Len(q) >= k) = (k <= n)
  BY DEF Queue

\* The bytes of r behind those of q.
Behind(p, q, n, r, m) ==
  /\ Queue(p, n + m)
  /\ \A i \in 1 .. n : p[i] = q[i]
  /\ \A i \in n + 1 .. n + m : p[i] = r[i - n]

\* Sending: the new bytes come behind the old.
LEMMA QueueJoin ==
  ASSUME NEW q, NEW r, NEW n, NEW m, Queue(q, n), Queue(r, m)
  PROVE  Behind(q \o r, q, n, r, m)
<1> DEFINE p == q \o r
<1>1. PICK S, T : q \in Seq(S) /\ r \in Seq(T)
  BY DEF Queue, IsSeq
<1>2. q \in Seq(S \cup T) /\ r \in Seq(S \cup T)
  BY <1>1, SeqMonotonic
<1>3. /\ p \in Seq(S \cup T) /\ Len(p) = Len(q) + Len(r)
      /\ \A i \in 1 .. Len(q) + Len(r) : p[i] = IF i <= Len(q) THEN q[i] ELSE r[i - Len(q)]
  BY <1>2, ConcatProperties
<1> HIDE DEF p
<1>4. n \in Nat /\ m \in Nat /\ Len(q) = n /\ Len(r) = m
  BY DEF Queue
<1>5. Queue(p, n + m)
  BY <1>3, <1>4 DEF Queue, IsSeq
<1>6. \A i \in 1 .. n + m : p[i] = IF i <= n THEN q[i] ELSE r[i - n]
  BY <1>3, <1>4
<1>7. \A i \in 1 .. n : p[i] = q[i]
  BY <1>4, <1>6
<1>8. \A i \in n + 1 .. n + m : p[i] = r[i - n]
  BY <1>4, <1>6
<1> QED
  BY <1>5, <1>7, <1>8 DEF Behind, p

\* The bytes of q behind the first k.
Left(p, q, n, k) ==
  Queue(p, n - k) /\ \A i \in 1 .. n - k : p[i] = q[k + i]

\* Receiving: the bytes behind those taken are left.
LEMMA QueueRest ==
  ASSUME NEW q, NEW n, Queue(q, n), NEW k \in Nat, k <= n
  PROVE  Left(SubSeq(q, k + 1, Len(q)), q, n, k)
<1> DEFINE p == SubSeq(q, k + 1, Len(q))
<1>1. IsSeq(q) /\ n \in Nat /\ Len(q) = n
  BY DEF Queue
<1>2. IsSeq(p) /\ Len(p) = Len(q) - k /\ \A i \in 1 .. Len(q) - k : p[i] = q[k + i]
  BY <1>1, Rest
<1> HIDE DEF p
<1>3. Queue(p, n - k) /\ \A i \in 1 .. n - k : p[i] = q[k + i]
  BY <1>1, <1>2 DEF Queue
<1> QED
  BY <1>3 DEF Left, p

\* A part from the middle of a queue.
LEMMA QueuePart ==
  ASSUME NEW q, NEW n, Queue(q, n), NEW k \in Nat, NEW m \in Nat, 0 < k, k + m <= n + 1
  PROVE  /\ Queue(SubSeq(q, k, k + m - 1), m)
         /\ \A i \in 1 .. m : SubSeq(q, k, k + m - 1)[i] = q[k + i - 1]
<1>1. IsSeq(q) /\ n \in Nat /\ k + m <= Len(q) + 1
  BY DEF Queue
<1> QED
  BY <1>1, Part DEF Queue

\* A function from 1 .. n.
LEMMA QueueFunction ==
  ASSUME NEW n \in Nat, NEW f, f = [i \in 1 .. n |-> f[i]]
  PROVE  Queue(f, n)
<1> DEFINE S == {f[i] : i \in 1 .. n}
<1>1. f \in [1 .. n -> S]
  OBVIOUS
<1>2. f \in Seq(S)
  BY <1>1, SeqDef
<1>3. Len(f) \in Nat /\ DOMAIN f = 1 .. Len(f) /\ DOMAIN f = 1 .. n
  BY <1>1, <1>2, LenProperties
<1>4. Len(f) = n
  BY <1>3
<1> QED
  BY <1>2, <1>4 DEF Queue, IsSeq

\* A message of one byte.
LEMMA QueueOne ==
  ASSUME NEW x
  PROVE  Queue(<<x>>, 1) /\ <<x>>[1] = x
<1>1. <<x>> \in Seq({x})
  OBVIOUS
<1>2. IsSeq(<<x>>)
  BY <1>1 DEF IsSeq
<1> QED
  BY <1>2 DEF Queue

\* A message of two bytes.
LEMMA QueueTwo ==
  ASSUME NEW x, NEW y
  PROVE  Queue(<<x, y>>, 2) /\ <<x, y>>[1] = x /\ <<x, y>>[2] = y
<1>1. <<x, y>> \in Seq({x, y})
  OBVIOUS
<1>2. IsSeq(<<x, y>>)
  BY <1>1 DEF IsSeq
<1> QED
  BY <1>2 DEF Queue

-----------------------------------------------------------------------------
(* Induction over the bytes of a queue, and the reader.                    *)

-----------------------------------------------------------------------------
(* What the reader makes of a queue.                                       *)

\* A set of numbers has a least element.
LEMMA LeastNat ==
  ASSUME NEW T \in SUBSET Nat, T # {}
  PROVE  \E n \in T : \A m \in T : ~(m < n)
<1>1. IsWellFoundedOn(OpToRel(<, Nat), Nat)
  BY NatLessThanWellFounded
<1>2. \E n \in T : \A m \in T : ~(<<m, n>> \in OpToRel(<, Nat))
  BY <1>1, WFMin
<1> QED
  BY <1>2 DEF OpToRel

\* Induction, over a set of numbers.
LEMMA SetInduction ==
  ASSUME NEW T, 0 \in T, \A n \in Nat : n \in T => n + 1 \in T
  PROVE  Nat \subseteq T
<1>1. SUFFICES ASSUME Nat \ T # {} PROVE FALSE
  OBVIOUS
<1>2. PICK n \in Nat \ T : \A m \in Nat \ T : ~(m < n)
  BY <1>1, LeastNat
<1>3. n # 0 /\ n - 1 \in Nat
  BY <1>2
<1>4. n - 1 \in T
  BY <1>2, <1>3
<1> QED
  BY <1>2, <1>3, <1>4

\* An empty queue leaves the reader where it is.
LEMMA ReadsNothing ==
  ASSUME NEW s, NEW t
  PROVE  Reads(<<>>, s, t) <=> s = t
<1>1. ASSUME s = t PROVE Reads(<<>>, s, t)
  <2> DEFINE f == [k \in 0 .. 0 |-> s]
  <2>1. f[0] = s /\ 1 .. 0 = {}
    OBVIOUS
  <2> HIDE DEF f
  <2>2. Len(<<>>) = 0
    BY Nil
  <2>3. Run(f, <<>>, s) /\ f[Len(<<>>)] = t
    BY <1>1, <2>1, <2>2 DEF Run
  <2> QED
    BY <2>3 DEF Reads
<1>2. ASSUME Reads(<<>>, s, t) PROVE s = t
  BY <1>2, Nil DEF Reads, Run
<1> QED
  BY <1>1, <1>2

\* Behind n bytes it reads on from where they have taken it.
LEMMA ReadsRest ==
  ASSUME NEW q, IsSeq(q), NEW f, NEW s, Run(f, q, s), NEW n \in Nat, n <= Len(q)
  PROVE  Reads(SubSeq(q, n + 1, Len(q)), f[n], f[Len(q)])
<1> DEFINE r == SubSeq(q, n + 1, Len(q))
           g == [k \in 0 .. Len(q) - n |-> f[n + k]]
<1>0. Len(q) \in Nat
  BY SeqIs
<1>1. Len(r) = Len(q) - n /\ \A i \in 1 .. Len(q) - n : r[i] = q[n + i]
  BY Rest
<1> HIDE DEF r
<1>2. g[0] = f[n] /\ g[Len(r)] = f[Len(q)]
  BY <1>0, <1>1
<1>3. ASSUME NEW k \in 1 .. Len(r) PROVE g[k] = Step(g[k - 1], r[k])
  <2>1. /\ k \in 0 .. Len(q) - n /\ k - 1 \in 0 .. Len(q) - n /\ k \in 1 .. Len(q) - n
        /\ n + (k - 1) = n + k - 1 /\ n + k \in 1 .. Len(q)
    BY <1>0, <1>1
  <2>2. g[k] = f[n + k] /\ g[k - 1] = f[n + k - 1] /\ r[k] = q[n + k]
    BY <1>1, <2>1
  <2>3. f[n + k] = Step(f[n + k - 1], q[n + k])
    BY <2>1 DEF Run
  <2> QED
    BY <2>2, <2>3
<1> HIDE DEF g
<1>4. Run(g, r, f[n])
  BY <1>2, <1>3 DEF Run
<1> QED
  BY <1>2, <1>4 DEF Reads, r

\* One byte at a time.
LEMMA ReadsByte ==
  ASSUME NEW q, IsSeq(q), Len(q) >= 1, NEW s, NEW t, Reads(q, s, t)
  PROVE  Reads(SubSeq(q, 2, Len(q)), Step(s, q[1]), t)
<1>1. PICK f : Run(f, q, s) /\ f[Len(q)] = t
  BY DEF Reads
<1>2. Len(q) \in Nat
  BY SeqIs
<1>3. Reads(SubSeq(q, 1 + 1, Len(q)), f[1], f[Len(q)])
  BY <1>1, <1>2, ReadsRest
<1>4. f[1] = Step(s, q[1])
  BY <1>1, <1>2 DEF Run
<1> QED
  BY <1>1, <1>3, <1>4

\* What is said behind q is read from where q leads.
LEMMA ReadsBehind ==
  ASSUME NEW q, NEW r, IsSeq(q), IsSeq(r), NEW s, NEW t, NEW u,
         Reads(q, s, t), Reads(r, t, u)
  PROVE  Reads(q \o r, s, u)
<1>1. PICK f : Run(f, q, s) /\ f[Len(q)] = t
  BY DEF Reads
<1>2. PICK g : Run(g, r, t) /\ g[Len(r)] = u
  BY DEF Reads
<1> DEFINE n == Len(q)
           m == Len(r)
           p == q \o r
           h == [k \in 0 .. n + m |-> IF k <= n THEN f[k] ELSE g[k - n]]
<1>3. n \in Nat /\ m \in Nat
  BY SeqIs
<1>4. Len(p) = n + m /\ (\A i \in 1 .. n : p[i] = q[i]) /\ \A i \in 1 .. m : p[n + i] = r[i]
  BY Joined
<1> HIDE DEF p
<1>5. f[0] = s /\ g[0] = t /\ (\A k \in 1 .. n : f[k] = Step(f[k - 1], q[k]))
      /\ \A k \in 1 .. m : g[k] = Step(g[k - 1], r[k])
  BY <1>1, <1>2 DEF Run
<1> HIDE DEF n, m
<1>6. h[0] = s /\ h[n + m] = u
  <2>1. CASE m = 0
    BY <1>1, <1>2, <1>3, <1>5, <2>1 DEF n, m
  <2>2. CASE m # 0
    <3>1. ~(n + m <= n) /\ n + m - n = m /\ n + m \in 0 .. n + m /\ 0 <= n /\ 0 \in 0 .. n + m
      BY <1>3, <2>2
    <3>2. h[0] = f[0] /\ h[n + m] = g[m]
      BY <1>3, <3>1
    <3>3. g[m] = u
      BY <1>2 DEF m
    <3> QED
      BY <1>5, <3>2, <3>3
  <2> QED
    BY <2>1, <2>2
<1>7. ASSUME NEW k \in 1 .. n + m PROVE h[k] = Step(h[k - 1], p[k])
  <2>0. k \in 0 .. n + m /\ k - 1 \in 0 .. n + m
    BY <1>3
  <2>1. CASE k <= n
    <3>1. k \in 1 .. n /\ k - 1 <= n
      BY <1>3, <2>1
    <3> QED
      BY <1>4, <1>5, <2>0, <2>1, <3>1
  <2>2. CASE ~(k <= n)
    <3>1. k - n \in 1 .. m /\ n + (k - n) = k
      BY <1>3, <2>2
    <3>2. p[k] = r[k - n] /\ h[k] = g[k - n] /\ g[k - n] = Step(g[k - n - 1], r[k - n])
      BY <1>4, <1>5, <2>0, <2>2, <3>1
    <3>3. h[k - 1] = g[k - n - 1]
      <4>1. CASE k - 1 <= n
        <5>1. k - 1 = n /\ k - n - 1 = 0
          BY <1>3, <2>2, <4>1
        <5> QED
          BY <1>1, <1>5, <2>0, <4>1, <5>1 DEF n
      <4>2. CASE ~(k - 1 <= n)
        <5>1. k - 1 - n = k - n - 1
          BY <1>3
        <5> QED
          BY <2>0, <4>2, <5>1
      <4> QED
        BY <4>1, <4>2
    <3> QED
      BY <3>2, <3>3
  <2> QED
    BY <2>1, <2>2
<1> HIDE DEF h
<1>8. Run(h, p, s) /\ h[Len(p)] = u
  BY <1>4, <1>6, <1>7 DEF Run
<1>9. Reads(p, s, u)
  BY <1>8 DEF Reads
<1> QED
  BY <1>9 DEF p

\* States that nothing leads away from.
LEMMA Absorbed ==
  ASSUME NEW q, IsSeq(q), NEW l \in {"halt", "cause", "stuck"}, NEW t
  PROVE  Reads(q, l, t) <=> t = l
<1>0. Len(q) \in Nat
  BY SeqIs
<1>1. \A b : Step(l, b) = l
  BY DEF Step, ReadsOn
<1>2. ASSUME t = l PROVE Reads(q, l, t)
  <2> DEFINE f == [k \in 0 .. Len(q) |-> l]
  <2>1. f[0] = l /\ f[Len(q)] = l /\ \A k \in 1 .. Len(q) : f[k] = l /\ f[k - 1] = l
    BY <1>0
  <2> HIDE DEF f
  <2> QED
    BY <1>1, <1>2, <2>1 DEF Reads, Run
<1>3. ASSUME Reads(q, l, t) PROVE t = l
  <2>1. PICK f : Run(f, q, l) /\ f[Len(q)] = t
    BY <1>3 DEF Reads
  <2> DEFINE T == {n \in Nat : n <= Len(q) => f[n] = l}
  <2>2. 0 \in T
    BY <2>1 DEF Run
  <2>3. ASSUME NEW n \in Nat, n \in T PROVE n + 1 \in T
    <3>1. SUFFICES ASSUME n + 1 <= Len(q) PROVE f[n + 1] = l
      OBVIOUS
    <3>2. n + 1 \in 1 .. Len(q) /\ n + 1 - 1 = n /\ n <= Len(q)
      BY <1>0, <3>1
    <3>3. f[n + 1] = Step(f[n], q[n + 1])
      BY <2>1, <3>2 DEF Run
    <3> QED
      BY <1>1, <2>3, <3>2, <3>3
  <2> HIDE DEF T
  <2>4. Nat \subseteq T
    BY <2>2, <2>3, SetInduction
  <2> QED
    BY <1>0, <2>1, <2>4 DEF T
<1> QED
  BY <1>2, <1>3

\* States behind which nothing may follow.
LEMMA NothingFollows ==
  ASSUME NEW q, IsSeq(q), NEW l \in {"alloc", "line", "integer", "done"}, NEW t,
         Reads(q, l, t), t # "stuck"
  PROVE  q = <<>> /\ t = l
<1>0. Len(q) \in Nat /\ (q = <<>> <=> Len(q) = 0)
  BY SeqIs
<1>1. CASE Len(q) = 0
  BY <1>0, <1>1, ReadsNothing
<1>2. CASE Len(q) # 0
  <2>1. Step(l, q[1]) = "stuck"
    BY DEF Step, ReadsOn
  <2>2. IsSeq(SubSeq(q, 2, Len(q))) /\ Reads(SubSeq(q, 2, Len(q)), "stuck", t)
    <3>1. IsSeq(SubSeq(q, 1 + 1, Len(q)))
      BY <1>0, <1>2, Rest
    <3> QED
      BY <1>0, <1>2, <2>1, <3>1, ReadsByte
  <2> QED
    BY <2>2, Absorbed
<1> QED
  BY <1>1, <1>2

\* The four bytes of a word are a sequence of four.
LEMMA QueueWord ==
  ASSUME NEW w
  PROVE  Queue(BytesOf(w), 4)
<1>1. BytesOf(w) \in Seq({w.lo % 256, w.lo \div 256, w.hi % 256, w.hi \div 256})
  BY DEF BytesOf
<1>2. IsSeq(BytesOf(w))
  BY <1>1 DEF IsSeq
<1> QED
  BY <1>2 DEF Queue, BytesOf

\* A number is read to its end, and so is a size below 2^24.
LEMMA ReadsWord ==
  ASSUME NEW q, Queue(q, 4)
  PROVE  Reads(q, "n4", "listen")
<1>0. Len(q) = 4
  BY DEF Queue
<1>1. \A b : /\ Step("n4", b) = "n3" /\ Step("n3", b) = "n2" /\ Step("n2", b) = "n1"
             /\ Step("n1", b) = "listen"
  BY DEF Step, ReadsOn
<1> DEFINE f == [k \in 0 .. 4 |-> IF k = 0 THEN "n4" ELSE IF k = 1 THEN "n3"
                   ELSE IF k = 2 THEN "n2" ELSE IF k = 3 THEN "n1" ELSE "listen"]
<1>2. f[0] = "n4" /\ f[1] = "n3" /\ f[2] = "n2" /\ f[3] = "n1" /\ f[4] = "listen"
  OBVIOUS
<1> HIDE DEF f
<1>3. \A k \in 1 .. 4 : k = 1 \/ k = 2 \/ k = 3 \/ k = 4
  OBVIOUS
<1>4. Run(f, q, "n4")
  BY <1>0, <1>1, <1>2, <1>3 DEF Run
<1> QED
  BY <1>0, <1>2, <1>4 DEF Reads

\* The four bytes of a size that is below 2^24 lead to the end of an allocation.
LEMMA ReadsSize ==
  ASSUME NEW q, Queue(q, 4), q[4] = 0,
         \A i \in 1 .. 3 : q[i] \in Nat /\ q[i] < 256
  PROVE  Reads(q, "a4", "alloc")
<1>0. Len(q) = 4
  BY DEF Queue
<1>1. \A b \in Nat : b < 256 =>
        Step("a4", b) = "a3" /\ Step("a3", b) = "a2" /\ Step("a2", b) = "a1"
  BY DEF Step, ReadsOn
<1>2. Step("a1", 0) = "alloc"
  BY DEF Step
<1> DEFINE f == [k \in 0 .. 4 |-> IF k = 0 THEN "a4" ELSE IF k = 1 THEN "a3"
                   ELSE IF k = 2 THEN "a2" ELSE IF k = 3 THEN "a1" ELSE "alloc"]
<1>3. f[0] = "a4" /\ f[1] = "a3" /\ f[2] = "a2" /\ f[3] = "a1" /\ f[4] = "alloc"
  OBVIOUS
<1> HIDE DEF f
<1>4. q[1] \in Nat /\ q[2] \in Nat /\ q[3] \in Nat /\ q[1] < 256 /\ q[2] < 256 /\ q[3] < 256
  OBVIOUS
<1>5. \A k \in 1 .. 4 : k = 1 \/ k = 2 \/ k = 3 \/ k = 4
  OBVIOUS
<1>6. ASSUME NEW k \in 1 .. 4 PROVE f[k] = Step(f[k - 1], q[k])
  <2>1. CASE k = 1
    BY <1>1, <1>3, <1>4, <2>1
  <2>2. CASE k = 2
    BY <1>1, <1>3, <1>4, <2>2
  <2>3. CASE k = 3
    BY <1>1, <1>3, <1>4, <2>3
  <2>4. CASE k = 4
    BY <1>2, <1>3, <2>4
  <2> QED
    BY <1>5, <2>1, <2>2, <2>3, <2>4
<1>7. Run(f, q, "a4")
  BY <1>0, <1>3, <1>6 DEF Run
<1> QED
  BY <1>0, <1>3, <1>7 DEF Reads

\* Of a size that was read the most significant byte is zero.
LEMMA SizeRead ==
  ASSUME NEW q, IsSeq(q), Len(q) >= 5, q[1] = 1, NEW t, Reads(q, "call", t), t # "stuck"
  PROVE  /\ Queue(q, 5) /\ t = "alloc"
         /\ q[2] \in Nat /\ q[3] \in Nat /\ q[4] \in Nat /\ q[2] < 256 /\ q[3] < 256 /\ q[4] < 256
         /\ q[5] = 0
<1>0. Len(q) \in Nat
  BY SeqIs
<1>1. PICK f : Run(f, q, "call") /\ f[Len(q)] = t
  BY DEF Reads
<1>2. /\ f[1] = Step("call", q[1]) /\ f[2] = Step(f[1], q[2]) /\ f[3] = Step(f[2], q[3])
      /\ f[4] = Step(f[3], q[4]) /\ f[5] = Step(f[4], q[5])
  BY <1>0, <1>1 DEF Run
<1>3. Reads(SubSeq(q, 5 + 1, Len(q)), f[5], t) /\ IsSeq(SubSeq(q, 5 + 1, Len(q)))
      /\ (Len(q) = 5 <=> SubSeq(q, 5 + 1, Len(q)) = <<>>)
  BY <1>0, <1>1, ReadsRest, Rest
<1>4. f[5] # "stuck"
  BY <1>3, Absorbed
<1>5. \A b : Step("stuck", b) = "stuck"
  BY DEF Step, ReadsOn
<1>6. f[1] = "a4"
  <2>1. Step("call", 1) = "a4"
    BY SMT DEF Step
  <2> QED
    BY <1>2, <2>1
<1>7. q[2] \in Nat /\ q[2] < 256 /\ f[2] = "a3"
  <2>1. Step("a4", q[2]) = IF q[2] \in Nat /\ q[2] < 256 THEN "a3" ELSE "stuck"
    BY DEF Step, ReadsOn
  <2> QED
    BY <1>2, <1>4, <1>5, <1>6, <2>1
<1>8. q[3] \in Nat /\ q[3] < 256 /\ f[3] = "a2"
  <2>1. Step("a3", q[3]) = IF q[3] \in Nat /\ q[3] < 256 THEN "a2" ELSE "stuck"
    BY DEF Step, ReadsOn
  <2> QED
    BY <1>2, <1>4, <1>5, <1>7, <2>1
<1>9. q[4] \in Nat /\ q[4] < 256 /\ f[4] = "a1"
  <2>1. Step("a2", q[4]) = IF q[4] \in Nat /\ q[4] < 256 THEN "a1" ELSE "stuck"
    BY DEF Step, ReadsOn
  <2> QED
    BY <1>2, <1>4, <1>5, <1>8, <2>1
<1>10. q[5] = 0 /\ f[5] = "alloc"
  <2>1. Step("a1", q[5]) = IF q[5] = 0 THEN "alloc" ELSE "stuck"
    BY DEF Step
  <2> QED
    BY <1>2, <1>4, <1>9, <2>1
<1>11. Len(q) = 5 /\ t = "alloc"
  BY <1>3, <1>10, NothingFollows
<1>12. Queue(q, 5)
  BY <1>11 DEF Queue
<1> QED
  BY <1>7, <1>8, <1>9, <1>10, <1>11, <1>12

\* So is a string with a zero at its end and none before.
LEMMA ReadsString ==
  ASSUME NEW q, IsSeq(q), Len(q) # 0, q[Len(q)] = 0,
         \A i \in 1 .. Len(q) - 1 : q[i] # 0
  PROVE  Reads(q, "string", "listen")
<1>0. Len(q) \in Nat
  BY SeqIs
<1> DEFINE f == [k \in 0 .. Len(q) |-> IF k = Len(q) THEN "listen" ELSE "string"]
<1>1. f[0] = "string" /\ f[Len(q)] = "listen"
  BY <1>0
<1>2. ASSUME NEW k \in 1 .. Len(q) PROVE f[k] = Step(f[k - 1], q[k])
  <2>1. k - 1 # Len(q) /\ k - 1 \in 0 .. Len(q) /\ k \in 0 .. Len(q) /\ (k = Len(q) \/ k \in 1 .. Len(q) - 1)
    BY <1>0
  <2>2. f[k - 1] = "string" /\ f[k] = IF k = Len(q) THEN "listen" ELSE "string"
    BY <2>1
  <2>3. Step("string", q[k]) = IF q[k] = 0 THEN "listen" ELSE "string"
    BY DEF Step, ReadsOn
  <2> HIDE DEF f
  <2> QED
    BY <2>1, <2>2, <2>3
<1> HIDE DEF f
<1> QED
  BY <1>1, <1>2 DEF Reads, Run

-----------------------------------------------------------------------------
(* Words and their bytes.                                                  *)

-----------------------------------------------------------------------------
(* Words.                                                                  *)

\* A word is its halves.
LEMMA Halves ==
  ASSUME NEW w \in Word
  PROVE  /\ w.hi \in Nat /\ w.hi < 65536 /\ w.lo \in Nat /\ w.lo < 65536
         /\ w = [hi |-> w.hi, lo |-> w.lo]
         /\ \A v \in Word : v = w <=> v.hi = w.hi /\ v.lo = w.lo
  BY DEF Word, Halfword

\* A word comes out of its bytes.
LEMMA OutOfBytes ==
  ASSUME NEW w \in Word
  PROVE  FromBytes(BytesOf(w)) = w
<1>1. /\ BytesOf(w)[1] = w.lo % 256 /\ BytesOf(w)[2] = w.lo \div 256
      /\ BytesOf(w)[3] = w.hi % 256 /\ BytesOf(w)[4] = w.hi \div 256
  BY DEF BytesOf
<1>2. \A x \in Nat : 256 * (x \div 256) + (x % 256) = x
  OBVIOUS
<1>3. /\ 256 * BytesOf(w)[4] + BytesOf(w)[3] = w.hi
      /\ 256 * BytesOf(w)[2] + BytesOf(w)[1] = w.lo
  BY <1>1, <1>2, Halves
<1> QED
  BY <1>3, Halves DEF FromBytes

\* The bytes of a word are bytes.
LEMMA ByteRange ==
  ASSUME NEW w \in Word, NEW k \in 1 .. 4
  PROVE  BytesOf(w)[k] \in Nat /\ BytesOf(w)[k] < 256
<1>1. /\ BytesOf(w)[1] = w.lo % 256 /\ BytesOf(w)[2] = w.lo \div 256
      /\ BytesOf(w)[3] = w.hi % 256 /\ BytesOf(w)[4] = w.hi \div 256
  BY DEF BytesOf
<1>2. \A x \in Nat : x < 65536 => /\ x % 256 \in Nat /\ x % 256 < 256
                                /\ x \div 256 \in Nat /\ x \div 256 < 256
  OBVIOUS
<1>3. k = 1 \/ k = 2 \/ k = 3 \/ k = 4
  OBVIOUS
<1> QED
  BY <1>1, <1>2, <1>3, Halves

\* It is read where it was sent.
LEMMA WordIsRead ==
  ASSUME NEW q, NEW n, Queue(q, n), NEW k \in Nat, 0 < k, k + 3 <= n,
         NEW w \in Word, Carries(q, k, w)
  PROVE  WordAt(q, k) = w
<1>1. n \in Nat
  BY QueueType
<1> DEFINE r == SubSeq(q, k, k + 4 - 1)
<1>2. r[1] = q[k] /\ r[2] = q[k + 1] /\ r[3] = q[k + 2] /\ r[4] = q[k + 3]
  <2>1. k + 4 <= n + 1
    BY <1>1
  <2>2. \A i \in 1 .. 4 : r[i] = q[k + i - 1]
    BY <2>1, QueuePart
  <2> HIDE DEF r
  <2> QED
    BY <2>2
<1>3. WordAt(q, k) = FromBytes(r)
  <2>1. k + 4 - 1 = k + 3
    OBVIOUS
  <2> QED
    BY <2>1 DEF WordAt
<1> HIDE DEF r
<1>4. FromBytes(r) = FromBytes(BytesOf(w))
  BY <1>2 DEF FromBytes, Carries
<1> QED
  BY <1>3, <1>4, OutOfBytes

\* Numbers in words.
LEMMA NumberIsRead ==
  ASSUME NEW n \in Nat, n <= 2147483647
  PROVE  WordOf(n) \in Word /\ NumberOf(WordOf(n)) = n
<1> DEFINE x == n \div 65536
           y == n % 65536
<1>1. /\ x \in Nat /\ x < 65536 /\ y \in Nat /\ y < 65536 /\ 65536 * x + y = n
  BY SMT
<1>2. WordOf(n) = [hi |-> x, lo |-> y]
  BY DEF WordOf
<1> HIDE DEF x, y
<1>3. WordOf(n).hi = x /\ WordOf(n).lo = y /\ WordOf(n) \in Word
  BY <1>1, <1>2, SMT DEF Word, Halfword
<1> QED
  BY <1>1, <1>3, SMT DEF NumberOf

\* Addition.
LEMMA PlusType ==
  ASSUME NEW w \in Word, NEW n \in Nat
  PROVE  Plus(w, n) \in Word
<1>1. (w.lo + n) % 65536 \in Nat /\ (w.lo + n) % 65536 < 65536
  BY Halves
<1>2. /\ (w.hi + ((w.lo + n) \div 65536)) % 65536 \in Nat
      /\ (w.hi + ((w.lo + n) \div 65536)) % 65536 < 65536
  <2>1. (w.lo + n) \div 65536 \in Nat
    BY Halves
  <2> QED
    BY <2>1, Halves
<1> QED
  BY <1>1, <1>2 DEF Plus, Word, Halfword

\* Adding nothing.
LEMMA PlusZero ==
  ASSUME NEW w \in Word
  PROVE  Plus(w, 0) = w
<1>1. (w.lo + 0) % 65536 = w.lo /\ (w.lo + 0) \div 65536 = 0
  BY Halves
<1>2. (w.hi + 0) % 65536 = w.hi
  BY Halves
<1> QED
  BY <1>1, <1>2, Halves DEF Plus

\* Adding twice is adding the sum, modulo 2^32.
LEMMA PlusPlus ==
  ASSUME NEW w \in Word, NEW m \in Nat, NEW n \in Nat
  PROVE  Plus(Plus(w, m), n) = Plus(w, m + n)
<1> DEFINE a == w.lo + m
           b == (a % 65536) + n
           c == (w.hi + a \div 65536) % 65536
<1>0. w.hi \in Nat /\ w.lo \in Nat
  BY Halves
<1>1. a \in Nat /\ a \div 65536 \in Nat /\ a % 65536 \in Nat /\ a = 65536 * (a \div 65536) + (a % 65536)
  BY <1>0
<1>2. Plus(w, m) = [hi |-> c, lo |-> a % 65536]
  BY DEF Plus
<1>3. Plus(Plus(w, m), n) = [hi |-> (c + b \div 65536) % 65536, lo |-> b % 65536]
  BY <1>2 DEF Plus
<1>4. a + n = 65536 * (a \div 65536) + b
  BY <1>1
<1>5. (a + n) % 65536 = b % 65536 /\ (a + n) \div 65536 = (a \div 65536) + b \div 65536
  <2> DEFINE x == a \div 65536
  <2>1. x \in Nat /\ b \in Nat
    BY <1>1
  <2> HIDE DEF x, b
  <2>2. (65536 * x + b) % 65536 = b % 65536 /\ (65536 * x + b) \div 65536 = x + b \div 65536
    BY <2>1
  <2> QED
    BY <2>2, <1>4 DEF x
<1>6. (w.hi + (a + n) \div 65536) % 65536 = (c + b \div 65536) % 65536
  <2> DEFINE x == w.hi + a \div 65536
             y == b \div 65536
  <2>1. x \in Nat /\ b \in Nat
    BY <1>0, <1>1
  <2>2. y \in Nat
    BY <2>1
  <2> HIDE DEF x, y
  <2>3. (x + y) % 65536 = ((x % 65536) + y) % 65536
    BY <2>1, <2>2
  <2>4. w.hi + (a \div 65536 + b \div 65536) = x + y
    BY <1>0, <1>1, <2>2 DEF x, y
  <2> QED
    BY <1>5, <2>3, <2>4 DEF x, y
<1>7. w.lo + (m + n) = a + n
  BY <1>0
<1> QED
  BY <1>3, <1>5, <1>6, <1>7 DEF Plus

\* A number below 2^28 does not carry a word below 0xE0000000 round to zero.
LEMMA PlusForward ==
  ASSUME NEW w \in Word, w.hi < 50000, NEW n \in Nat, n < 16777216 + 65536
  PROVE  /\ w.hi <= Plus(w, n).hi /\ Plus(w, n).hi <= w.hi + n \div 65536 + 1
         /\ \A v \in Word : Less(v, w) => Less(v, Plus(w, n))
<1> DEFINE s == w.lo + n
           c == s \div 65536
<1>1. w.hi \in Nat /\ w.lo \in Nat /\ w.hi < 65536 /\ w.lo < 65536
  BY Halves
<1>2. c \in Nat /\ c <= 258 /\ c <= n \div 65536 + 1 /\ s % 65536 \in Nat /\ s % 65536 < 65536
      /\ s = 65536 * c + (s % 65536)
  BY <1>1
<1>3. Plus(w, n).hi = (w.hi + c) % 65536 /\ Plus(w, n).lo = s % 65536
  BY DEF Plus
<1>6. w.lo <= s
  BY <1>1
<1> HIDE DEF c
<1>4. (w.hi + c) % 65536 = w.hi + c
  <2>1. w.hi + c \in Nat /\ w.hi + c < 65536
    BY <1>1, <1>2
  <2> QED
    BY <2>1
<1> HIDE DEF s
<1>5. ASSUME NEW v \in Word, Less(v, w) PROVE Less(v, Plus(w, n))
  <2>1. v.hi \in Nat /\ v.lo \in Nat /\ v.hi < 65536 /\ v.lo < 65536
    BY Halves
  <2>2. c = 0 => s % 65536 >= w.lo
    BY <1>1, <1>2, <1>6
  <2> QED
    BY <1>1, <1>2, <1>3, <1>4, <1>5, <2>1, <2>2 DEF Less
<1> QED
  BY <1>1, <1>2, <1>3, <1>4, <1>5

-----------------------------------------------------------------------------
(* Words inside messages.                                                  *)

-----------------------------------------------------------------------------
(* Messages.                                                               *)

\* The bytes of a word carry it.
LEMMA OwnBytes ==
  ASSUME NEW w
  PROVE  Carries(BytesOf(w), 1, w)
  BY DEF Carries

\* A word is still in the longer queue, and in what is left behind a letter.
LEMMA CarriedBehind ==
  ASSUME NEW q, NEW p, NEW n, NEW r, NEW m, Behind(p, q, n, r, m), n \in Nat, m \in Nat,
         NEW k \in Nat, 0 < k, NEW w
  PROVE  /\ Carries(q, k, w) /\ k + 3 <= n => Carries(p, k, w)
         /\ Carries(r, k, w) /\ k + 3 <= m => Carries(p, n + k, w)
<1>1. ASSUME Carries(q, k, w), k + 3 <= n PROVE Carries(p, k, w)
  <2>1. p[k] = q[k] /\ p[k + 1] = q[k + 1] /\ p[k + 2] = q[k + 2] /\ p[k + 3] = q[k + 3]
    BY <1>1 DEF Behind
  <2> QED
    BY <1>1, <2>1 DEF Carries
<1>2. ASSUME Carries(r, k, w), k + 3 <= m PROVE Carries(p, n + k, w)
  <2>1. ASSUME NEW j \in {0, 1, 2, 3} PROVE p[n + k + j] = r[k + j]
    <3>1. n + k + j \in n + 1 .. n + m /\ n + k + j - n = k + j
      BY <1>2
    <3> QED
      BY <3>1 DEF Behind
  <2>2. /\ p[n + k] = r[k] /\ p[n + k + 1] = r[k + 1]
        /\ p[n + k + 2] = r[k + 2] /\ p[n + k + 3] = r[k + 3]
    <3>1. n + k + 0 = n + k /\ k + 0 = k
      OBVIOUS
    <3> QED
      BY <2>1, <3>1
  <2> QED
    BY <1>2, <2>2 DEF Carries
<1> QED
  BY <1>1, <1>2

\* A word that was not taken is still carried.
LEMMA CarriedOn ==
  ASSUME NEW q, NEW p, NEW n, NEW j, Left(p, q, n, j), n \in Nat, j \in Nat,
         NEW k \in Nat, 0 < k, j + k + 3 <= n, NEW w, Carries(q, j + k, w)
  PROVE  Carries(p, k, w)
<1>1. ASSUME NEW i \in {0, 1, 2, 3} PROVE p[k + i] = q[j + k + i]
  <2>1. k + i \in 1 .. n - j /\ j + (k + i) = j + k + i
    OBVIOUS
  <2> QED
    BY <2>1 DEF Left
<1>2. /\ p[k] = q[j + k] /\ p[k + 1] = q[j + k + 1]
      /\ p[k + 2] = q[j + k + 2] /\ p[k + 3] = q[j + k + 3]
  <2>1. k + 0 = k /\ j + k + 0 = j + k
    OBVIOUS
  <2> QED
    BY <1>1, <2>1
<1> QED
  BY <1>2 DEF Carries

\* A letter and a word; a letter and two words.
LEMMA LetterAndWord ==
  ASSUME NEW letter, NEW w, NEW m, m = <<letter>> \o BytesOf(w)
  PROVE  Queue(m, 5) /\ m[1] = letter /\ Carries(m, 2, w)
<1> DEFINE l == <<letter>>
<1>1. Queue(l, 1) /\ l[1] = letter
  BY QueueOne
<1> HIDE DEF l
<1>2. m = l \o BytesOf(w)
  BY DEF l
<1>3. Behind(m, l, 1, BytesOf(w), 4)
  BY <1>1, <1>2, QueueWord, QueueJoin
<1>4. Carries(m, 1 + 1, w)
  BY <1>3, OwnBytes, CarriedBehind
<1>5. Queue(m, 1 + 4) /\ m[1] = l[1]
  BY <1>3 DEF Behind
<1> QED
  BY <1>1, <1>4, <1>5

\* The message of a letter and two words, of D, U and A.
LEMMA LetterAndWords ==
  ASSUME NEW letter, NEW w, NEW v, NEW m, m = <<letter>> \o BytesOf(w) \o BytesOf(v)
  PROVE  /\ Queue(m, 9) /\ m[1] = letter
         /\ Carries(m, 2, w) /\ Carries(m, 6, v)
<1> DEFINE l == <<letter>> \o BytesOf(w)
<1>1. Queue(l, 5) /\ l[1] = letter /\ Carries(l, 2, w)
  BY LetterAndWord
<1> HIDE DEF l
<1>2. m = l \o BytesOf(v)
  BY DEF l
<1>3. Behind(m, l, 5, BytesOf(v), 4)
  BY <1>1, <1>2, QueueWord, QueueJoin
<1>4. Carries(m, 2, w) /\ Carries(m, 5 + 1, v)
  BY <1>1, <1>3, OwnBytes, CarriedBehind
<1>5. Queue(m, 5 + 4) /\ m[1] = l[1]
  BY <1>3 DEF Behind
<1> QED
  BY <1>1, <1>4, <1>5

\* A sends four bytes behind the address.
LEMMA StoreMessage ==
  ASSUME NEW letter, NEW a, NEW bytes, Queue(bytes, 4), NEW m, m = <<letter>> \o BytesOf(a) \o bytes
  PROVE  Queue(m, 9) /\ m[1] = letter
<1> DEFINE l == <<letter>> \o BytesOf(a)
<1>1. Queue(l, 5) /\ l[1] = letter
  BY LetterAndWord
<1>2. m = l \o bytes
  OBVIOUS
<1> HIDE DEF l
<1>3. Behind(m, l, 5, bytes, 4)
  <2>1. Behind(l \o bytes, l, 5, bytes, 4)
    BY <1>1, QueueJoin
  <2> QED
    BY <1>2, <2>1
<1>4. Queue(m, 5 + 4) /\ m[1] = l[1]
  BY <1>3 DEF Behind
<1> QED
  BY <1>1, <1>4

\* The message of T: the number of the entry and its fields.
LEMMA AddMessageIs ==
  ASSUME NEW i, NEW e, NEW m, m = AddMessage(i, e)
  PROVE  /\ Queue(m, 16) /\ m[1] = 84 /\ m[2] = i
         /\ Carries(m, 3, WordOf(e.vpn))
         /\ Carries(m, 7, WordOf(e.pfn1)) /\ m[11] = Flag(e.v1)[1]
         /\ Carries(m, 12, WordOf(e.pfn2)) /\ m[16] = Flag(e.v2)[1]
<1> DEFINE p0 == <<84, i>>
           p1 == p0 \o BytesOf(WordOf(e.vpn))
           p2 == p1 \o BytesOf(WordOf(e.pfn1))
           p3 == p2 \o Flag(e.v1)
           p4 == p3 \o BytesOf(WordOf(e.pfn2))
<1>0. \A b : Queue(Flag(b), 1)
  BY QueueOne DEF Flag
<1>1. Queue(p0, 2) /\ p0[1] = 84 /\ p0[2] = i
  BY QueueTwo
<1>2. m = p4 \o Flag(e.v2)
  BY DEF AddMessage
<1> HIDE DEF p0
<1>3. Behind(p1, p0, 2, BytesOf(WordOf(e.vpn)), 4)
  BY <1>1, QueueWord, QueueJoin
<1> HIDE DEF p1
<1>4. Queue(p1, 6) /\ p1[1] = 84 /\ p1[2] = i /\ Carries(p1, 2 + 1, WordOf(e.vpn))
  <2>1. Queue(p1, 2 + 4) /\ p1[1] = p0[1] /\ p1[2] = p0[2]
    BY <1>3 DEF Behind
  <2>2. Carries(p1, 2 + 1, WordOf(e.vpn))
    BY <1>3, OwnBytes, CarriedBehind
  <2> QED
    BY <1>1, <2>1, <2>2
<1>5. Behind(p2, p1, 6, BytesOf(WordOf(e.pfn1)), 4)
  BY <1>4, QueueWord, QueueJoin
<1> HIDE DEF p2
<1>6. /\ Queue(p2, 10) /\ p2[1] = 84 /\ p2[2] = i
      /\ Carries(p2, 3, WordOf(e.vpn)) /\ Carries(p2, 6 + 1, WordOf(e.pfn1))
  <2>1. Queue(p2, 6 + 4) /\ p2[1] = p1[1] /\ p2[2] = p1[2]
    BY <1>5 DEF Behind
  <2>2. Carries(p2, 3, WordOf(e.vpn)) /\ Carries(p2, 6 + 1, WordOf(e.pfn1))
    BY <1>4, <1>5, OwnBytes, CarriedBehind
  <2> QED
    BY <1>4, <2>1, <2>2
<1>7. Behind(p3, p2, 10, Flag(e.v1), 1)
  BY <1>0, <1>6, QueueJoin
<1> HIDE DEF p3
<1>8. /\ Queue(p3, 11) /\ p3[1] = 84 /\ p3[2] = i
      /\ Carries(p3, 3, WordOf(e.vpn)) /\ Carries(p3, 7, WordOf(e.pfn1))
      /\ p3[11] = Flag(e.v1)[1]
  <2>1. Queue(p3, 10 + 1) /\ p3[1] = p2[1] /\ p3[2] = p2[2]
    BY <1>7 DEF Behind
  <2>2. Carries(p3, 3, WordOf(e.vpn)) /\ Carries(p3, 7, WordOf(e.pfn1))
    BY <1>6, <1>7, CarriedBehind
  <2>3. p3[11] = Flag(e.v1)[11 - 10]
    BY <1>7 DEF Behind
  <2> QED
    BY <1>6, <2>1, <2>2, <2>3
<1>9. Behind(p4, p3, 11, BytesOf(WordOf(e.pfn2)), 4)
  BY <1>8, QueueWord, QueueJoin
<1> HIDE DEF p4
<1>10. /\ Queue(p4, 15) /\ p4[1] = 84 /\ p4[2] = i
       /\ Carries(p4, 3, WordOf(e.vpn)) /\ Carries(p4, 7, WordOf(e.pfn1))
       /\ p4[11] = Flag(e.v1)[1] /\ Carries(p4, 11 + 1, WordOf(e.pfn2))
  <2>1. Queue(p4, 11 + 4) /\ p4[1] = p3[1] /\ p4[2] = p3[2] /\ p4[11] = p3[11]
    BY <1>9 DEF Behind
  <2>2. /\ Carries(p4, 3, WordOf(e.vpn)) /\ Carries(p4, 7, WordOf(e.pfn1))
        /\ Carries(p4, 11 + 1, WordOf(e.pfn2))
    BY <1>8, <1>9, OwnBytes, CarriedBehind
  <2> QED
    BY <1>8, <2>1, <2>2
<1>11. Behind(m, p4, 15, Flag(e.v2), 1)
  BY <1>0, <1>2, <1>10, QueueJoin
<1>12. /\ Queue(m, 15 + 1) /\ m[1] = p4[1] /\ m[2] = p4[2] /\ m[11] = p4[11]
       /\ m[16] = Flag(e.v2)[16 - 15]
  BY <1>11 DEF Behind
<1>13. /\ Carries(m, 3, WordOf(e.vpn)) /\ Carries(m, 7, WordOf(e.pfn1))
       /\ Carries(m, 12, WordOf(e.pfn2))
  BY <1>10, <1>11, CarriedBehind
<1> QED
  BY <1>10, <1>12, <1>13

\* The handler that kernel.s calls for each letter.
LEMMA Letters ==
  /\ Handler(82) = "showregs" /\ Handler(68) = "showmem" /\ Handler(85) = "showmem"
  /\ Handler(65) = "assemble" /\ Handler(71) = "execute" /\ Handler(69) = "deltlb"
  /\ Handler(84) = "addtlb"
  BY DEF Handler

\* The bytes each handler of the monitor waits for.
LEMMA Waits ==
  /\ Reading = {"begin", "showmem", "assemble", "execute", "deltlb", "addtlb", "alloc",
                "readline", "storing", "readint", "reported"}
  /\ Wants["begin"] = 1 /\ Wants["showmem"] = 8 /\ Wants["assemble"] = 8
  /\ Wants["execute"] = 4 /\ Wants["deltlb"] = 1 /\ Wants["addtlb"] = 15
  /\ Wants["alloc"] = 4 /\ Wants["readline"] = 4 /\ Wants["storing"] = 4
  /\ Wants["readint"] = 4 /\ Wants["reported"] = 1
  BY DEF Reading, Wants

-----------------------------------------------------------------------------
(* The TLB of the machine as the image of the terminal's.                  *)

-----------------------------------------------------------------------------
(* Entries of the TLB and of the terminal's copy.                          *)

\* The least of some naturals is one of them.
LEMMA MinIs ==
  ASSUME NEW S \in SUBSET Nat, S # {}
  PROVE  Min(S) \in S /\ \A k \in S : Min(S) <= k
<1>1. PICK n \in S : \A m \in S : ~(m < n)
  BY LeastNat
<1>2. n \in S /\ \A m \in S : n =< m
  BY <1>1
<1> QED
  BY <1>2, Zenon DEF Min

\* The numbers of the entries, which an index modulo their number leaves alone.
LEMMA Entries ==
  /\ NEntry \in Nat \ {0} /\ Entry \subseteq Nat
  /\ \A i \in Entry : i % NEntry = i
<1>1. NEntry \in Nat \ {0}
  BY SessionAssumption
<1> QED
  BY <1>1 DEF Entry

\* The width of a pair of pages and of a frame.
LEMMA PageRange ==
  ASSUME NEW w \in Word
  PROVE  /\ VPN2(w) \in Nat /\ VPN2(w) < 524288
         /\ PFN(w) \in Nat /\ PFN(w) < 1048576
<1>1. w.hi \in Nat /\ w.hi < 65536 /\ w.lo \in Nat /\ w.lo < 65536
  BY Halves
<1>2. w.lo \div 8192 \in Nat /\ w.lo \div 8192 < 8 /\ w.lo \div 4096 \in Nat /\ w.lo \div 4096 < 16
  BY <1>1
<1> QED
  BY <1>1, <1>2, SMT DEF VPN2, PFN

\* The entry of a terminal that has none is an entry.
LEMMA NoEntryType == NoEntry \in EntryType
  BY SMT DEF NoEntry, EntryType

\* The words that addtlb makes of a page number.
LEMMA PairOfWord ==
  ASSUME NEW n \in Nat, n < 524288
  PROVE  VPN2(Sll(WordOf(n), 8192)) = n
<1> DEFINE h == n \div 65536
           l == n % 65536
           a == l \div 8
           b == l % 8
<1>1. h \in Nat /\ h < 8 /\ l \in Nat /\ l < 65536 /\ n = 65536 * h + l
  BY SMT
<1> HIDE DEF h, l
<1>2. a \in Nat /\ a < 8192 /\ b \in Nat /\ b < 8 /\ l = 8 * a + b
  BY <1>1, SMT
<1> HIDE DEF a, b
<1>3. WordOf(n) = [hi |-> h, lo |-> l]
  BY DEF WordOf, h, l
<1>4. (l * 8192) \div 65536 = a /\ (l * 8192) % 65536 = 8192 * b
  <2>1. l * 8192 = 65536 * a + 8192 * b /\ 8192 * b < 65536 /\ 8192 * b \in Nat
    BY <1>2, SMT
  <2> QED
    BY <1>2, <2>1, SMT
<1>5. (h * 8192 + a) % 65536 = h * 8192 + a
  BY <1>1, <1>2, SMT
<1>6. Sll(WordOf(n), 8192) = [hi |-> h * 8192 + a, lo |-> 8192 * b]
  BY <1>3, <1>4, <1>5 DEF Sll
<1>7. (8192 * b) \div 8192 = b
  BY <1>2, SMT
<1>8. VPN2(Sll(WordOf(n), 8192)) = 8 * (h * 8192 + a) + b
  BY <1>6, <1>7 DEF VPN2
<1> QED
  BY <1>1, <1>2, <1>8, SMT

\* The frame and the flag the monitor finds in the word it composed of them.
LEMMA FrameOfWord ==
  ASSUME NEW n \in Nat, n < 1048576, NEW f \in {0, 1}, NEW w, w = EntryLo(WordOf(n), f)
  PROVE  1024 * (w.hi % 1024) + w.lo \div 64 = n /\ (w.lo \div 2) % 2 = f
<1> DEFINE h == n \div 65536
           l == n % 65536
           a == l \div 1024
           b == l % 1024
<1>1. h \in Nat /\ h < 16 /\ l \in Nat /\ l < 65536 /\ n = 65536 * h + l
  BY SMT
<1> HIDE DEF h, l
<1>2. a \in Nat /\ a < 64 /\ b \in Nat /\ b < 1024 /\ l = 1024 * a + b
  BY <1>1, SMT
<1> HIDE DEF a, b
<1>3. WordOf(n) = [hi |-> h, lo |-> l]
  BY DEF WordOf, h, l
<1>4. (l * 64) \div 65536 = a /\ (l * 64) % 65536 = 64 * b
  <2>1. l * 64 = 65536 * a + 64 * b /\ 64 * b < 65536 /\ 64 * b \in Nat
    BY <1>2, SMT
  <2> QED
    BY <1>2, <2>1, SMT
<1>5. (h * 64 + a) % 65536 = h * 64 + a /\ h * 64 + a \in Nat /\ h * 64 + a < 1024
  BY <1>1, <1>2, SMT
<1>6. Sll(WordOf(n), 64) = [hi |-> h * 64 + a, lo |-> 64 * b]
  BY <1>3, <1>4, <1>5 DEF Sll
<1>7. 64 * b + 2 * f < 65536 /\ 64 * b + 2 * f \in Nat
  BY <1>2, SMT
<1>8. (64 * b + 2 * f) % 65536 = 64 * b + 2 * f /\ (64 * b + 2 * f) \div 65536 = 0
  BY <1>7, SMT
<1>9. w = [hi |-> (h * 64 + a + 0) % 65536, lo |-> 64 * b + 2 * f]
  BY <1>6, <1>8 DEF EntryLo, Plus
<1>10. w.hi = h * 64 + a /\ w.lo = 64 * b + 2 * f
  BY <1>5, <1>9
<1>11. (h * 64 + a) % 1024 = h * 64 + a
  BY <1>5, SMT
<1>12. (64 * b + 2 * f) \div 64 = b /\ ((64 * b + 2 * f) \div 2) % 2 = f
  <2>1. CASE f = 0
    BY <1>2, <2>1, SMT
  <2>2. CASE f = 1
    BY <1>2, <2>2, SMT
  <2> QED
    BY <2>1, <2>2
<1>13. 1024 * (h * 64 + a) + b = n
  BY <1>1, <1>2, SMT
<1> QED
  BY <1>10, <1>11, <1>12, <1>13

\* What tlbwi takes out of the message of an entry is its image.
LEMMA EntryIsImage ==
  ASSUME NEW e \in EntryType
  PROVE  set_entry(Sll(WordOf(e.vpn), 8192), EntryLo(WordOf(e.pfn1), Flag(e.v1)[1]),
                   EntryLo(WordOf(e.pfn2), Flag(e.v2)[1])) = Image(e)
<1>1. /\ e.vpn \in Nat /\ e.vpn < 524288 /\ e.pfn1 \in Nat /\ e.pfn1 < 1048576
      /\ e.pfn2 \in Nat /\ e.pfn2 < 1048576
  BY SMT DEF EntryType
<1>2. Flag(e.v1)[1] = (IF e.v1 THEN 1 ELSE 0) /\ Flag(e.v2)[1] = (IF e.v2 THEN 1 ELSE 0)
  BY DEF Flag
<1>3. Flag(e.v1)[1] \in {0, 1} /\ Flag(e.v2)[1] \in {0, 1}
  BY <1>2
<1> DEFINE hi == Sll(WordOf(e.vpn), 8192)
           lo0 == EntryLo(WordOf(e.pfn1), Flag(e.v1)[1])
           lo1 == EntryLo(WordOf(e.pfn2), Flag(e.v2)[1])
<1>4. VPN2(hi) = e.vpn
  BY <1>1, PairOfWord
<1>5. 1024 * (lo0.hi % 1024) + lo0.lo \div 64 = e.pfn1 /\ (lo0.lo \div 2) % 2 = Flag(e.v1)[1]
  BY <1>1, <1>3, FrameOfWord
<1>6. 1024 * (lo1.hi % 1024) + lo1.lo \div 64 = e.pfn2 /\ (lo1.lo \div 2) % 2 = Flag(e.v2)[1]
  BY <1>1, <1>3, FrameOfWord
<1> HIDE DEF hi, lo0, lo1
<1>7. set_entry(hi, lo0, lo1) = Image(e)
  BY <1>2, <1>4, <1>5, <1>6 DEF set_entry, Image
<1> QED
  BY <1>7 DEF hi, lo0, lo1

\* The entry the monitor deletes is the one the terminal clears.
LEMMA ZeroIsImage ==
  set_entry(ZeroWord, ZeroWord, ZeroWord) = Image(NoEntry) /\ Zero = Image(NoEntry)
<1>1. ZeroWord = [hi |-> 0, lo |-> 0]
  BY DEF ZeroWord, WordOf
<1>2. 0 \div 8192 = 0 /\ 0 % 1024 = 0 /\ 0 \div 64 = 0 /\ 0 \div 2 = 0 /\ 0 % 2 = 0
  OBVIOUS
<1> QED
  BY <1>1, <1>2 DEF set_entry, Image, NoEntry, Zero, VPN2

\* Where the terminal reads, the machine does not miss.
LEMMA NoMiss ==
  ASSUME Same, NEW w, visitable(tlbEntry, w)
  PROVE  ~TLB_bad(data, w)
<1>1. SUFFICES ASSUME ~Unmapped(w) PROVE Hits(data, w) # {}
  BY DEF TLB_bad
<1> DEFINE S == WithVPN(tlbEntry, VPN2(w))
           i == Min(S)
           e == tlbEntry[i]
<1>2. S # {} /\ IF Odd(w) = 0 THEN e.v1 ELSE e.v2
  BY <1>1 DEF visitable
<1>3. S \subseteq Entry /\ \A j \in S : tlbEntry[j].vpn = VPN2(w)
  BY DEF WithVPN
<1>4. i \in S
  BY <1>2, <1>3, Entries, MinIs
<1> HIDE DEF i, S
<1>5. i \in Entry /\ e.vpn = VPN2(w) /\ data[i] = Image(e)
  BY <1>3, <1>4 DEF Same
<1>6. data[i].vpn = VPN2(w) /\ IF Odd(w) = 0 THEN data[i].v0 = 1 ELSE data[i].v1 = 1
  BY <1>2, <1>5 DEF Image
<1>7. i \in Hits(data, w)
  BY <1>5, <1>6 DEF Hits
<1> QED
  BY <1>7

\* An addtlb changes one entry, the first one of the pair.
LEMMA OneEntryAdded ==
  ASSUME NEW entries \in [Entry -> EntryType], NEW a \in Word, NEW target \in Word,
         NEW new, new = addTLBEntry(entries, a, target), WithVPN(new, VPN2(a)) # {}
  PROVE  /\ new \in [Entry -> EntryType]
         /\ Min(WithVPN(new, VPN2(a))) \in Entry
         /\ \A j \in Entry \ {Min(WithVPN(new, VPN2(a)))} : new[j] = entries[j]
<1> DEFINE v == VPN2(a)
           S == WithVPN(entries, v)
           F == Free(entries)
           half(i) == Half([entries[i] EXCEPT !.vpn = v], Odd(a), PFN(target))
           set(i) == [entries EXCEPT ![i] = half(i)]
<1>1. WithVPN(new, v) \subseteq Entry /\ S \subseteq Entry /\ F \subseteq Entry
  BY DEF WithVPN, Free
<1>2. Min(WithVPN(new, v)) \in Entry
  BY <1>1, Entries, MinIs
<1>3. ASSUME NEW i \in Entry PROVE half(i) \in EntryType /\ half(i).vpn = v
  <2>1. /\ entries[i] \in EntryType /\ v \in Nat /\ v < 524288
        /\ PFN(target) \in Nat /\ PFN(target) < 1048576
    BY PageRange
  <2> DEFINE f == [entries[i] EXCEPT !.vpn = v]
  <2>2. f \in EntryType /\ f.vpn = v
    <3> DEFINE e == entries[i]
    <3>1. /\ e \in [vpn : Nat, pfn1 : Nat, pfn2 : Nat, v1 : BOOLEAN, v2 : BOOLEAN]
          /\ e.pfn1 < 1048576 /\ e.pfn2 < 1048576
      BY <2>1, SMT DEF EntryType
    <3> HIDE DEF e, v
    <3>2. /\ [e EXCEPT !.vpn = v] \in [vpn : Nat, pfn1 : Nat, pfn2 : Nat, v1 : BOOLEAN, v2 : BOOLEAN]
          /\ [e EXCEPT !.vpn = v].vpn = v /\ [e EXCEPT !.vpn = v].pfn1 = e.pfn1
          /\ [e EXCEPT !.vpn = v].pfn2 = e.pfn2
      BY <2>1, <3>1, SMT
    <3> QED
      BY <2>1, <3>1, <3>2, SMT DEF EntryType, e
  <2> DEFINE p == PFN(target)
             g == IF Odd(a) = 0 THEN [f EXCEPT !.v1 = TRUE, !.pfn1 = p]
                  ELSE [f EXCEPT !.v2 = TRUE, !.pfn2 = p]
  <2>3. half(i) = g
    BY DEF Half
  <2> HIDE DEF f, v, p
  <2>4. p \in Nat /\ p < 1048576
    BY <2>1 DEF p
  <2>5. /\ f \in [vpn : Nat, pfn1 : Nat, pfn2 : Nat, v1 : BOOLEAN, v2 : BOOLEAN]
        /\ f.vpn < 524288 /\ f.pfn1 < 1048576 /\ f.pfn2 < 1048576
    BY <2>2, SMT DEF EntryType
  <2>8. f \in [vpn : Nat, pfn1 : Nat, pfn2 : Nat, v1 : BOOLEAN, v2 : BOOLEAN]
    BY <2>5
  <2>6. /\ g \in [vpn : Nat, pfn1 : Nat, pfn2 : Nat, v1 : BOOLEAN, v2 : BOOLEAN]
        /\ g.vpn = f.vpn /\ g.pfn1 < 1048576 /\ g.pfn2 < 1048576
    <3>1. CASE Odd(a) = 0
      <4>1. g = [f EXCEPT !.v1 = TRUE, !.pfn1 = p]
        BY <3>1
      <4>2. g = [vpn |-> f.vpn, pfn1 |-> p, pfn2 |-> f.pfn2, v1 |-> TRUE, v2 |-> f.v2]
        BY <2>8, <4>1
      <4>3. f.vpn \in Nat /\ f.pfn2 \in Nat /\ f.v2 \in BOOLEAN
        BY <2>8
      <4> HIDE DEF g
      <4> QED
        BY <2>4, <2>5, <4>2, <4>3
    <3>2. CASE Odd(a) # 0
      <4>1. g = [f EXCEPT !.v2 = TRUE, !.pfn2 = p]
        BY <3>2
      <4>2. g = [vpn |-> f.vpn, pfn1 |-> f.pfn1, pfn2 |-> p, v1 |-> f.v1, v2 |-> TRUE]
        BY <2>8, <4>1
      <4>3. f.vpn \in Nat /\ f.pfn1 \in Nat /\ f.v1 \in BOOLEAN
        BY <2>8
      <4> HIDE DEF g
      <4> QED
        BY <2>4, <2>5, <4>2, <4>3
    <3> QED
      BY <3>1, <3>2
  <2> HIDE DEF g
  <2>7. g \in EntryType /\ g.vpn = v
    BY <2>2, <2>5, <2>6, SMT DEF EntryType
  <2> QED
    BY <2>3, <2>7
<1>4. ASSUME NEW i \in Entry
      PROVE  /\ set(i) \in [Entry -> EntryType] /\ set(i)[i].vpn = v
             /\ \A j \in Entry \ {i} : set(i)[j] = entries[j]
  <2> HIDE DEF half
  <2> QED
    BY <1>3
<1>5. CASE new = entries
  BY <1>2, <1>5
<1>6. CASE S # {} /\ new = set(Min(S))
  <2>1. Min(S) \in S /\ Min(S) \in Entry
    BY <1>1, <1>6, Entries, MinIs
  <2>2. WithVPN(new, v) = S
    <3>1. \A j \in Entry : new[j].vpn = v <=> entries[j].vpn = v
      <4>1. entries[Min(S)].vpn = v
        BY <2>1 DEF WithVPN
      <4> HIDE DEF S, v, set
      <4> QED
        BY <1>4, <1>6, <2>1, <4>1
    <3> QED
      BY <3>1 DEF WithVPN
  <2> HIDE DEF S, set
  <2> QED
    BY <1>2, <1>4, <1>6, <2>1, <2>2
<1>7. CASE S = {} /\ F # {} /\ new = set(Min(F))
  <2> DEFINE i == Min(F)
  <2>1. i \in Entry
    BY <1>1, <1>7, Entries, MinIs
  <2> HIDE DEF i
  <2>2. \A j \in Entry : new[j].vpn = v <=> j = i
    <3>1. \A j \in Entry : entries[j].vpn # v
      BY <1>7 DEF WithVPN
    <3> HIDE DEF S, v, set
    <3> QED
      BY <1>4, <1>7, <2>1, <3>1 DEF i
  <2>3. WithVPN(new, v) = {i}
    BY <2>1, <2>2 DEF WithVPN
  <2>4. Min({i}) = i
    BY <2>1, Entries, MinIs
  <2>5. new = set(i) /\ Min(WithVPN(new, v)) = i
    BY <1>7, <2>3, <2>4 DEF i
  <2> HIDE DEF set
  <2> QED
    BY <1>4, <2>1, <2>5
<1>8. new = entries \/ (S # {} /\ new = set(Min(S))) \/ (S = {} /\ F # {} /\ new = set(Min(F)))
  <2>1. CASE Unmapped(a)
    BY <2>1 DEF addTLBEntry
  <2>2. CASE ~Unmapped(a) /\ S # {}
    BY <2>2 DEF addTLBEntry
  <2>3. CASE ~Unmapped(a) /\ S = {} /\ F # {}
    BY <2>3 DEF addTLBEntry
  <2>4. CASE ~Unmapped(a) /\ S = {} /\ F = {}
    BY <2>4 DEF addTLBEntry
  <2> QED
    BY <2>1, <2>2, <2>3, <2>4
<1> HIDE DEF set, S, F
<1> QED
  BY <1>5, <1>6, <1>7, <1>8

-----------------------------------------------------------------------------
(* Lines, which go to the program in words.                                *)

-----------------------------------------------------------------------------
(* Lines.                                                                  *)

\* The bytes the terminal looks for a zero in.
LEMMA ZeroInFour ==
  ASSUME NEW q, NEW n, Queue(q, n), 4 <= n
  PROVE  Range(SubSeq(q, 1, 4)) = {q[1], q[2], q[3], q[4]}
<1> DEFINE r == SubSeq(q, 1, 1 + 4 - 1)
<1>1. n \in Nat
  BY QueueType
<1>2. Queue(r, 4) /\ \A i \in 1 .. 4 : r[i] = q[1 + i - 1]
  BY <1>1, QueuePart
<1>3. r = SubSeq(q, 1, 4)
  OBVIOUS
<1> HIDE DEF r
<1>4. r[1] = q[1] /\ r[2] = q[2] /\ r[3] = q[3] /\ r[4] = q[4]
  BY <1>2
<1>5. IsSeq(r) /\ Len(r) = 4
  BY <1>2 DEF Queue
<1>6. DOMAIN r = 1 .. 4
  BY <1>5, SeqIs
<1>7. Range(r) = {r[1], r[2], r[3], r[4]}
  <2>1. 1 .. 4 = {1, 2, 3, 4}
    OBVIOUS
  <2>2. Range(r) = {r[x] : x \in {1, 2, 3, 4}}
    BY <1>6, <2>1 DEF Range
  <2> QED
    BY <2>2
<1> QED
  BY <1>3, <1>4, <1>7

\* A line is sent in whole words and ends within the last of them.
LEMMA PaddedLine ==
  ASSUME NEW line \in Seq(Nat \ {0})
  PROVE  \E m \in Nat \ {0} : InWords(Padded(line), m) /\ 4 * m <= Len(line) + 4
<1> DEFINE n == Len(line)
           r == n % 4
           d == n \div 4
           pad == [i \in 1 .. 4 - r |-> 0]
           p == Padded(line)
<1>1. Queue(line, n) /\ n \in Nat /\ \A i \in 1 .. n : line[i] # 0
  <2>1. n \in Nat /\ \A i \in 1 .. n : line[i] \in Nat \ {0}
    BY ElementOfSeq, LenProperties
  <2> QED
    BY <2>1 DEF Queue, IsSeq
<1> HIDE DEF n
<1>2. r \in Nat /\ r < 4 /\ d \in Nat /\ n = 4 * d + r
  BY <1>1
<1>3. p = line \o pad
  BY DEF Padded, n
<1> HIDE DEF r, d, p
<1>4. Queue(pad, 4 - r) /\ \A i \in 1 .. 4 - r : pad[i] = 0
  <2>1. 4 - r \in Nat /\ pad = [i \in 1 .. 4 - r |-> pad[i]]
    BY <1>2
  <2>2. \A i \in 1 .. 4 - r : pad[i] = 0
    OBVIOUS
  <2> HIDE DEF pad
  <2> QED
    BY <2>1, <2>2, QueueFunction
<1> HIDE DEF pad
<1>5. Behind(p, line, n, pad, 4 - r)
  BY <1>1, <1>3, <1>4, QueueJoin
<1>6. Queue(p, n + (4 - r)) /\ (\A i \in 1 .. n : p[i] = line[i])
      /\ \A i \in n + 1 .. n + (4 - r) : p[i] = pad[i - n]
  BY <1>5 DEF Behind
<1>7. Queue(p, 4 * (d + 1)) /\ d + 1 \in Nat \ {0} /\ 4 * (d + 1) <= n + 4
  <2>1. n + (4 - r) = 4 * (d + 1)
    BY <1>2
  <2> QED
    BY <1>2, <1>6, <2>1
<1>8. \A i \in 1 .. n : p[i] # 0
  BY <1>1, <1>6
<1>9. p[4 * (d + 1)] = 0
  <2>1. /\ 4 * (d + 1) \in n + 1 .. n + (4 - r) /\ 4 * (d + 1) - n = 4 - r
        /\ 4 - r \in 1 .. 4 - r
    BY <1>1, <1>2
  <2> QED
    BY <1>4, <1>6, <2>1
<1>10. ZeroIn(p, d + 1)
  BY <1>9 DEF ZeroIn
<1>11. ASSUME NEW k \in 1 .. d + 1, k # d + 1 PROVE ~ZeroIn(p, k)
  <2>1. /\ 4 * k - 3 \in 1 .. n /\ 4 * k - 2 \in 1 .. n /\ 4 * k - 1 \in 1 .. n /\ 4 * k \in 1 .. n
    BY <1>1, <1>2, <1>11
  <2>2. p[4 * k - 3] # 0 /\ p[4 * k - 2] # 0 /\ p[4 * k - 1] # 0 /\ p[4 * k] # 0
    BY <1>8, <2>1
  <2> QED
    BY <2>2 DEF ZeroIn
<1>12. InWords(p, d + 1)
  BY <1>7, <1>10, <1>11 DEF InWords
<1> QED
  BY <1>7, <1>12 DEF p, n

\* The machine stores a word of it; the one with a zero is the last.
LEMMA LineGoes ==
  ASSUME NEW q, IsLine(q), NEW p, p = SubSeq(q, 5, Len(q))
  PROVE  IF 0 \in {q[1], q[2], q[3], q[4]} THEN p = <<>> ELSE IsLine(p)
<1>1. PICK m \in Nat \ {0} : InWords(q, m)
  BY DEF IsLine
<1>2. Queue(q, 4 * m) /\ \A k \in 1 .. m : ZeroIn(q, k) <=> k = m
  BY <1>1 DEF InWords
<1>3. Left(p, q, 4 * m, 4)
  <2>1. 4 <= 4 * m /\ 4 + 1 = 5
    BY <1>1
  <2>2. Left(SubSeq(q, 4 + 1, Len(q)), q, 4 * m, 4)
    BY <1>2, <2>1, QueueRest
  <2> QED
    BY <2>1, <2>2
<1>4. Queue(p, 4 * m - 4) /\ \A i \in 1 .. 4 * m - 4 : p[i] = q[4 + i]
  BY <1>3 DEF Left
<1>5. 0 \in {q[1], q[2], q[3], q[4]} <=> m = 1
  <2>1. ZeroIn(q, 1) <=> 0 \in {q[1], q[2], q[3], q[4]}
    BY DEF ZeroIn
  <2>2. ZeroIn(q, 1) <=> 1 = m
    BY <1>1, <1>2
  <2> QED
    BY <2>1, <2>2
<1>6. ASSUME m = 1 PROVE p = <<>>
  <2>1. 4 * m - 4 = 0
    BY <1>6
  <2>2. Queue(p, 0)
    BY <1>4, <2>1
  <2> QED
    BY <2>2, QueueType, QueueEmpty
<1>7. ASSUME m # 1 PROVE IsLine(p)
  <2>1. m - 1 \in Nat \ {0} /\ 4 * (m - 1) = 4 * m - 4
    BY <1>1, <1>7
  <2>2. Queue(p, 4 * (m - 1))
    BY <1>4, <2>1
  <2>3. ASSUME NEW k \in 1 .. m - 1 PROVE ZeroIn(p, k) <=> k = m - 1
    <3>1. /\ 4 * k - 3 \in 1 .. 4 * m - 4 /\ 4 * k - 2 \in 1 .. 4 * m - 4
          /\ 4 * k - 1 \in 1 .. 4 * m - 4 /\ 4 * k \in 1 .. 4 * m - 4
          /\ 4 + (4 * k - 3) = 4 * (k + 1) - 3 /\ 4 + (4 * k - 2) = 4 * (k + 1) - 2
          /\ 4 + (4 * k - 1) = 4 * (k + 1) - 1 /\ 4 + 4 * k = 4 * (k + 1)
      BY <1>1
    <3>2. /\ p[4 * k - 3] = q[4 * (k + 1) - 3] /\ p[4 * k - 2] = q[4 * (k + 1) - 2]
          /\ p[4 * k - 1] = q[4 * (k + 1) - 1] /\ p[4 * k] = q[4 * (k + 1)]
      BY <1>4, <3>1
    <3>3. ZeroIn(p, k) <=> ZeroIn(q, k + 1)
      BY <3>2 DEF ZeroIn
    <3>4. k + 1 \in 1 .. m
      BY <1>1
    <3>5. ZeroIn(q, k + 1) <=> k + 1 = m
      BY <1>2, <3>4
    <3>6. k + 1 = m <=> k = m - 1
      BY <1>1
    <3> QED
      BY <3>3, <3>5, <3>6
  <2>4. InWords(p, m - 1)
    BY <2>2, <2>3 DEF InWords
  <2> QED
    BY <2>1, <2>4 DEF IsLine
<1> QED
  BY <1>5, <1>6, <1>7

\* A line has at least the four bytes of a word.
LEMMA LineIsQueue ==
  ASSUME NEW q, IsLine(q)
  PROVE  IsSeq(q) /\ \E n \in Nat : Queue(q, n) /\ 4 <= n
<1>1. PICK m \in Nat \ {0} : Queue(q, 4 * m)
  BY DEF IsLine, InWords
<1>2. 4 * m \in Nat /\ 4 <= 4 * m
  BY <1>1
<1> QED
  BY <1>1, <1>2, QueueType

-----------------------------------------------------------------------------
(* Strings, which come from the memory of the machine.                     *)

-----------------------------------------------------------------------------
(* Strings.                                                                *)

\* Bytes of as many words as there are.
LEMMA AllBytes ==
  ASSUME NEW words, NEW n, Queue(words, n)
  PROVE  /\ Queue(BytesOfAll(words), 4 * n)
         /\ \A i \in 1 .. n : BytesOfAll(words)[4 * (i - 1) + 1] = BytesOf(words[i])[1]
<1>1. n \in Nat /\ Len(words) = n
  BY DEF Queue
<1> DEFINE b == BytesOfAll(words)
<1>2. b = [k \in 1 .. 4 * n |-> BytesOf(words[((k - 1) \div 4) + 1])[((k - 1) % 4) + 1]]
  BY <1>1 DEF BytesOfAll
<1> HIDE DEF b
<1>3. b = [k \in 1 .. 4 * n |-> b[k]] /\ 4 * n \in Nat
  BY <1>1, <1>2
<1>4. ASSUME NEW i \in 1 .. n PROVE b[4 * (i - 1) + 1] = BytesOf(words[i])[1]
  <2> DEFINE k == 4 * (i - 1) + 1
  <2>1. k \in 1 .. 4 * n /\ (k - 1) \div 4 = i - 1 /\ (k - 1) % 4 = 0 /\ (i - 1) + 1 = i
    BY <1>1
  <2> HIDE DEF k
  <2>2. b[k] = BytesOf(words[((k - 1) \div 4) + 1])[((k - 1) % 4) + 1]
    BY <1>2, <2>1
  <2>3. ((k - 1) \div 4) + 1 = i /\ ((k - 1) % 4) + 1 = 1
    BY <2>1
  <2>4. b[k] = BytesOf(words[i])[1]
    BY <2>2, <2>3
  <2> QED
    BY <2>4 DEF k
<1>5. Queue(b, 4 * n)
  BY <1>3, QueueFunction
<1> QED
  BY <1>4, <1>5 DEF b

\* The first bytes of a queue.
LEMMA QueueFront ==
  ASSUME NEW q, NEW n, Queue(q, n), NEW m \in Nat, m <= n
  PROVE  Queue(SubSeq(q, 1, m), m) /\ \A i \in 1 .. m : SubSeq(q, 1, m)[i] = q[i]
<1>0. n \in Nat /\ Len(q) = n
  BY DEF Queue
<1>1. PICK S : q \in Seq(S)
  BY DEF Queue, IsSeq
<1>2. \A i \in 1 .. m : q[i] \in S
  BY <1>0, <1>1, ElementOfSeq
<1> DEFINE r == SubSeq(q, 1, m)
<1>3. /\ r \in Seq(S) /\ Len(r) = IF 1 <= m THEN m - 1 + 1 ELSE 0
      /\ \A i \in 1 .. m - 1 + 1 : r[i] = q[1 + i - 1]
  BY <1>2, SubSeqProperties
<1> HIDE DEF r
<1>4. Len(r) = m /\ \A i \in 1 .. m : r[i] = q[i]
  BY <1>3
<1>5. Queue(r, m)
  BY <1>3, <1>4 DEF Queue, IsSeq
<1> QED
  BY <1>4, <1>5 DEF r

\* Of more numbers than there are values two have the same.
LEMMA PigeonHole ==
  ASSUME NEW n \in Nat, NEW T, IsFiniteSet(T), Cardinality(T) < n, NEW f \in [1 .. n -> T]
  PROVE  \E x, y \in 1 .. n : x # y /\ f[x] = f[y]
<1> DEFINE S == 1 .. n
<1>1. IsFiniteSet(S) /\ Cardinality(S) = n
  <2>1. IsFiniteSet(S) /\ Cardinality(S) = IF 1 > n THEN 0 ELSE n - 1 + 1
    <3>1. 1 \in Int /\ n \in Int
      OBVIOUS
    <3> QED
      BY <3>1, FS_Interval, Zenon
  <2> QED
    BY <2>1
<1>2. f \in [S -> T]
  OBVIOUS
<1> HIDE DEF S
<1>3. \E x, y \in S : x # y /\ f[x] = f[y]
  BY <1>1, <1>2, FS_PigeonHole
<1> QED
  BY <1>3 DEF S

\* The first zero of a queue that has one, and the queue up to it.
LEMMA FirstZero ==
  ASSUME NEW q, NEW n, Queue(q, n), NEW j \in 1 .. n, q[j] = 0
  PROVE  \E k \in DOMAIN q : q[k] = 0 /\ \A i \in 1 .. k - 1 : q[i] # 0
<1>1. n \in Nat /\ DOMAIN q = 1 .. n
  BY SeqIs DEF Queue
<1> DEFINE T == {k \in 1 .. n : q[k] = 0}
<1>2. PICK k \in T : \A m \in T : ~(m < k)
  <2>1. T \in SUBSET Nat /\ j \in T
    BY <1>1
  <2> HIDE DEF T
  <2> QED
    BY <2>1, LeastNat
<1>3. ASSUME NEW i \in 1 .. k - 1, q[i] = 0 PROVE FALSE
  BY <1>1, <1>2, <1>3
<1> QED
  BY <1>1, <1>2, <1>3

\* The zero that ends a string is the first one.
LEMMA ZeroChosen ==
  ASSUME NEW q, NEW z, z = CHOOSE k \in DOMAIN q : q[k] = 0 /\ \A j \in 1 .. k - 1 : q[j] # 0,
         \E k \in DOMAIN q : q[k] = 0 /\ \A j \in 1 .. k - 1 : q[j] # 0
  PROVE  z \in DOMAIN q /\ q[z] = 0 /\ \A j \in 1 .. z - 1 : q[j] # 0
  BY Zenon

\* The last byte and no other is zero.
Zeroed(r) ==
  IsSeq(r) /\ Len(r) # 0 /\ r[Len(r)] = 0 /\ \A i \in 1 .. Len(r) - 1 : r[i] # 0

\* A string up to its zero holds no other.
LEMMA UpToZero ==
  ASSUME NEW q, NEW n, Queue(q, n), NEW z \in DOMAIN q, q[z] = 0, \A i \in 1 .. z - 1 : q[i] # 0,
         NEW r, r = SubSeq(q, 1, z)
  PROVE  Zeroed(r)
<1>1. n \in Nat /\ DOMAIN q = 1 .. n
  BY SeqIs DEF Queue
<1>2. z \in Nat /\ 0 < z /\ z <= n
  BY <1>1
<1>3. Queue(r, z) /\ \A i \in 1 .. z : r[i] = q[i]
  BY <1>2, QueueFront
<1>4. IsSeq(r) /\ Len(r) = z
  BY <1>3 DEF Queue
<1>5. r[z] = 0 /\ \A i \in 1 .. z - 1 : r[i] # 0
  BY <1>2, <1>3
<1> QED
  BY <1>2, <1>4, <1>5 DEF Zeroed

\* Beyond the words that are followed memory holds zeros, so that every
\* string of the program ends.
LEMMA WordsDiffer ==
  ASSUME NEW a \in Nat, a < 65536, NEW i \in Nat, NEW j \in Nat,
         i < 536870912, j < 536870912, NEW w, NEW v,
         w = Plus([hi |-> 32768, lo |-> a], i), v = Plus([hi |-> 32768, lo |-> a], j),
         real_addr(data, w) = real_addr(data, v)
  PROVE  i = j
<1>1. ASSUME NEW k \in Nat, k < 536870912, NEW u, u = Plus([hi |-> 32768, lo |-> a], k)
      PROVE  /\ real_addr(data, u).hi = (a + k) \div 65536
             /\ real_addr(data, u).lo = (a + k) % 65536
  <2> DEFINE c == (a + k) \div 65536
  <2>1. c \in Nat /\ c <= 8192
    BY <1>1, SMT
  <2>2. u = [hi |-> (32768 + c) % 65536, lo |-> (a + k) % 65536]
    BY <1>1 DEF Plus
  <2> HIDE DEF c
  <2>3. (32768 + c) % 65536 = 32768 + c
    BY <2>1, SMT
  <2>4. (32768 + c) \div 8192 \in {4, 5} /\ (32768 + c) % 16384 = c
    BY <2>1, SMT
  <2>5. u.hi = 32768 + c /\ Unmapped(u)
    BY <2>2, <2>3, <2>4 DEF Unmapped
  <2>6. real_addr(data, u) = [u EXCEPT !.hi = @ % 16384]
    BY <2>5 DEF real_addr
  <2>7. [u EXCEPT !.hi = @ % 16384] = [hi |-> c, lo |-> (a + k) % 65536]
    BY <2>2, <2>3, <2>4
  <2> QED
    BY <2>6, <2>7 DEF c
<1> DEFINE x == (a + i) \div 65536
           y == (a + j) \div 65536
           p == (a + i) % 65536
           r == (a + j) % 65536
<1>2. /\ real_addr(data, w).hi = x /\ real_addr(data, w).lo = p
      /\ real_addr(data, v).hi = y /\ real_addr(data, v).lo = r
  BY <1>1
<1>3. a + i = 65536 * x + p /\ a + j = 65536 * y + r
  BY SMT
<1> HIDE DEF x, y, p, r
<1>5. x = y /\ p = r
  BY <1>2
<1>6. a + i = a + j
  BY <1>3, <1>5
<1> QED
  BY <1>6

\* A string that the kernel prints ends: the reader comes back to where it was.
LEMMA StringEnds ==
  ASSUME NEW a \in Nat, a < 65536, NEW r, r = StringAt([hi |-> 32768, lo |-> a])
  PROVE  IsSeq(r) /\ Reads(r, "string", "listen") /\ Zeroed(r)
<1> DEFINE N == Cardinality(Addresses) + 1
           at0 == [hi |-> 32768, lo |-> a]
           real(i) == real_addr(data, Plus(at0, 4 * (i - 1)))
           words == [i \in 1 .. N |-> Load(Plus(at0, 4 * (i - 1)))]
           bytes == BytesOfAll(words)
           z == CHOOSE k \in DOMAIN bytes : bytes[k] = 0 /\ \A j \in 1 .. k - 1 : bytes[j] # 0
<1>1. IsFiniteSet(Addresses) /\ Cardinality(Addresses) \in Nat /\ Cardinality(Addresses) < 134217728
  BY SessionAssumption, FS_CardinalityType
<1>2. N \in Nat /\ N <= 134217728
  BY <1>1, SMT
<1>3. Cardinality(Addresses) < N
  BY <1>1
<1>4. r = SubSeq(bytes, 1, z)
  BY DEF StringAt
<1> HIDE DEF N, at0
<1>5. PICK i \in 1 .. N : real(i) \notin Addresses
  <2>1. SUFFICES ASSUME \A i \in 1 .. N : real(i) \in Addresses PROVE FALSE
    OBVIOUS
  <2> DEFINE f == [i \in 1 .. N |-> real(i)]
  <2>2. f \in [1 .. N -> Addresses]
    BY <2>1
  <2>5. \A x \in 1 .. N : f[x] = real(x)
    OBVIOUS
  <2> HIDE DEF f, real
  <2>4. PICK x, y \in 1 .. N : x # y /\ f[x] = f[y]
    BY <1>1, <1>2, <1>3, <2>2, PigeonHole
  <2>6. real(x) = real(y)
    BY <2>4, <2>5
  <2>7. 4 * (x - 1) \in Nat /\ 4 * (y - 1) \in Nat /\ 4 * (x - 1) < 536870912 /\ 4 * (y - 1) < 536870912
    BY <1>2, SMT
  <2>8. 4 * (x - 1) = 4 * (y - 1)
    BY <2>6, <2>7, WordsDiffer DEF real, at0
  <2>9. x = y
    BY <1>2, <2>8
  <2> QED
    BY <2>4, <2>9
<1>6. words[i] = ZeroWord
  BY <1>5 DEF Load
<1>7. Queue(words, N)
  <2>1. words = [k \in 1 .. N |-> words[k]]
    OBVIOUS
  <2> HIDE DEF words
  <2> QED
    BY <1>2, <2>1, QueueFunction
<1> HIDE DEF words, real
<1>8. Queue(bytes, 4 * N) /\ bytes[4 * (i - 1) + 1] = BytesOf(words[i])[1]
  BY <1>7, AllBytes
<1> HIDE DEF bytes
<1> DEFINE k == 4 * (i - 1) + 1
           M == 4 * N
<1>9. k \in 1 .. M /\ Queue(bytes, M) /\ bytes[k] = 0
  <2>1. BytesOf(ZeroWord)[1] = 0
    BY DEF BytesOf, ZeroWord, WordOf
  <2> QED
    BY <1>2, <1>6, <1>8, <2>1
<1> HIDE DEF k, M
<1>10. \E j \in DOMAIN bytes : bytes[j] = 0 /\ \A m \in 1 .. j - 1 : bytes[m] # 0
  BY <1>9, FirstZero
<1>11. z \in DOMAIN bytes /\ bytes[z] = 0 /\ \A j \in 1 .. z - 1 : bytes[j] # 0
  BY <1>10, ZeroChosen
<1> HIDE DEF z
<1>12. Zeroed(r)
  BY <1>4, <1>9, <1>11, UpToZero
<1> QED
  BY <1>12, ReadsString DEF Zeroed

-----------------------------------------------------------------------------
(* What the calls of a program send.                                       *)

-----------------------------------------------------------------------------
(* What a program says, and the blocks it is given.                        *)

\* Reading one byte.
LEMMA ReadsOne ==
  ASSUME NEW x, NEW l
  PROVE  Reads(<<x>>, l, Step(l, x))
<1> DEFINE q == <<x>>
           f == [k \in 0 .. 1 |-> IF k = 0 THEN l ELSE Step(l, x)]
<1>1. Len(q) = 1 /\ q[1] = x
  BY QueueOne DEF Queue
<1>2. f[0] = l /\ f[1] = Step(l, x)
  OBVIOUS
<1> HIDE DEF q, f
<1>3. Run(f, q, l)
  <2>1. ASSUME NEW k \in 1 .. 1 PROVE f[k] = Step(f[k - 1], q[k])
    <3>1. k = 1
      OBVIOUS
    <3> QED
      BY <1>1, <1>2, <3>1
  <2> QED
    BY <1>1, <1>2, <2>1 DEF Run
<1> QED
  BY <1>1, <1>2, <1>3 DEF Reads, q

\* Reading two bytes.
LEMMA ReadsTwo ==
  ASSUME NEW x, NEW y, NEW l
  PROVE  Reads(<<x, y>>, l, Step(Step(l, x), y))
<1> DEFINE q == <<x, y>>
           f == [k \in 0 .. 2 |-> IF k = 0 THEN l ELSE IF k = 1 THEN Step(l, x)
                                  ELSE Step(Step(l, x), y)]
<1>1. Len(q) = 2 /\ q[1] = x /\ q[2] = y
  BY QueueTwo DEF Queue
<1>2. f[0] = l /\ f[1] = Step(l, x) /\ f[2] = Step(Step(l, x), y)
  OBVIOUS
<1> HIDE DEF q, f
<1>3. Run(f, q, l)
  <2>1. ASSUME NEW k \in 1 .. 2 PROVE f[k] = Step(f[k - 1], q[k])
    <3>1. k = 1 \/ k = 2
      OBVIOUS
    <3> QED
      BY <1>1, <1>2, <3>1
  <2> QED
    BY <1>1, <1>2, <2>1 DEF Run
<1> QED
  BY <1>1, <1>2, <1>3 DEF Reads, q

\* The commands that console.cpp knows while a program runs.
LEMMA FromListen ==
  /\ Step("listen", 2) = "call" /\ Step("listen", 4) = "done" /\ Step("listen", 7) = "cause"
  /\ \A b : b \notin {2, 4, 7} => Step("listen", b) = "listen"
  BY SMT DEF Step

\* The numbers of the calls that the terminal serves.
LEMMA FromCall ==
  /\ Step("call", 1) = "a4" /\ Step("call", 2) = "line" /\ Step("call", 3) = "integer"
  /\ Step("call", 5) = "n4" /\ Step("call", 7) = "n4"
  /\ Step("call", 6) = "string" /\ Step("call", 8) = "halt"
  /\ \A b : b \notin {1, 2, 3, 5, 6, 7, 8} => Step("call", b) = "listen"
  BY SMT DEF Step

\* The places of the machine at the ends of the reader.
LEMMA EndsAre ==
  /\ Ends("listen") = {"program"} /\ Ends("alloc") = {"alloc"} /\ Ends("line") = {"readline"}
  /\ Ends("integer") = {"readint"} /\ Ends("halt") = {"boot", "begin"}
  /\ Ends("done") = {"begin"} /\ Ends("cause") = {"reported"}
  /\ Ends("stuck") = {}
  BY DEF Ends

\* The place where a call leaves the machine.
LEMMA WaitsOf ==
  /\ CallWaits(1) = "alloc" /\ CallWaits(2) = "readline" /\ CallWaits(3) = "readint"
  /\ CallWaits(8) = "boot" /\ \A n : n \notin {1, 2, 3, 8} => CallWaits(n) = "program"
  BY SMT DEF CallWaits

\* Reading on behind what was read.
LEMMA SaysBehind ==
  ASSUME NEW q, NEW r, IsSeq(q), IsSeq(r), NEW l, NEW k, NEW c, Reads(q, l, k), Says(k, r, c)
  PROVE  Says(l, q \o r, c)
<1>1. PICK t : c \in Ends(t) /\ Reads(r, k, t)
  BY DEF Says
<1>2. Reads(q \o r, l, t)
  BY <1>1, ReadsBehind
<1> QED
  BY <1>1, <1>2 DEF Says

\* A system call is read to the place where the program waits.
LEMMA CallIsRead ==
  ASSUME NEW call \in ProgramCalls, NEW m, m = <<2, call.v0>> \o CallSends(call)
  PROVE  IsSeq(m) /\ Says("listen", m, CallWaits(call.v0))
<1> DEFINE n == call.v0
           p == <<2, n>>
           r == CallSends(call)
           s == Step("call", n)
<1>1. /\ n \in Nat \ {0} /\ n < 256 /\ call.a0 \in Nat /\ call.a0 < 16777216
      /\ n = 6 => call.a0 <= 65535
  BY SessionAssumption
<1>2. IsSeq(p) /\ Reads(p, "listen", s)
  <2>1. Reads(p, "listen", Step(Step("listen", 2), n))
    BY ReadsTwo
  <2>2. IsSeq(p)
    BY QueueTwo DEF Queue
  <2> QED
    BY <2>1, <2>2, FromListen
<1>3. m = p \o r
  OBVIOUS
<1> HIDE DEF p
<1>4. ASSUME IsSeq(r), Says(s, r, CallWaits(n)) PROVE IsSeq(m) /\ Says("listen", m, CallWaits(n))
  <2> HIDE DEF r, s, n
  <2>1. IsSeq(p \o r) /\ Says("listen", p \o r, CallWaits(n))
    BY <1>2, <1>4, SaysBehind, Joined
  <2> QED
    BY <1>3, <2>1, Zenon
<1>5. CASE n = 1
  <2> DEFINE w == WordOf(call.a0)
             b == BytesOf(w)
  <2>1. r = b
    BY <1>5 DEF CallSends
  <2>2. w \in Word
    BY <1>1, NumberIsRead
  <2>3. w.hi < 256 /\ w.hi \in Nat
    BY <1>1, SMT DEF WordOf
  <2>4. b[4] = 0
    <3>1. b[4] = w.hi \div 256
      BY DEF BytesOf
    <3>2. \A x \in Nat : x < 256 => x \div 256 = 0
      OBVIOUS
    <3> QED
      BY <2>3, <3>1, <3>2
  <2> HIDE DEF w, r
  <2>5. \A i \in 1 .. 3 : b[i] \in Nat /\ b[i] < 256
    BY <2>2, ByteRange
  <2>6. Queue(b, 4)
    BY QueueWord
  <2> HIDE DEF b
  <2>7. Reads(b, "a4", "alloc") /\ IsSeq(b)
    BY <2>4, <2>5, <2>6, ReadsSize, QueueType
  <2>8. s = "a4" /\ CallWaits(n) \in Ends("alloc")
    BY <1>5, FromCall, EndsAre, WaitsOf
  <2> HIDE DEF s
  <2>9. Says(s, r, CallWaits(n)) /\ IsSeq(r)
    BY <2>1, <2>7, <2>8 DEF Says
  <2> QED
    BY <1>4, <2>9
<1>6. CASE n \in {5, 7}
  <2> DEFINE b == BytesOf(WordOf(call.a0))
  <2>1. r = b
    BY <1>6 DEF CallSends
  <2>2. Queue(b, 4)
    BY QueueWord
  <2> HIDE DEF b, r
  <2>3. Reads(b, "n4", "listen") /\ IsSeq(b)
    BY <2>2, ReadsWord, QueueType
  <2>4. s = "n4" /\ CallWaits(n) \in Ends("listen")
    BY <1>6, FromCall, EndsAre, WaitsOf
  <2> HIDE DEF s
  <2>9. Says(s, r, CallWaits(n)) /\ IsSeq(r)
    BY <2>1, <2>3, <2>4 DEF Says
  <2> QED
    BY <1>4, <2>9
<1>7. CASE n = 6
  <2> DEFINE b == StringAt([hi |-> 32768, lo |-> call.a0])
  <2>1. r = b
    BY <1>7 DEF CallSends
  <2>2. call.a0 < 65536
    BY <1>1, <1>7
  <2> HIDE DEF r
  <2>3. Reads(b, "string", "listen") /\ IsSeq(b)
    BY <1>1, <2>2, StringEnds
  <2>4. s = "string" /\ CallWaits(n) \in Ends("listen")
    BY <1>7, FromCall, EndsAre, WaitsOf
  <2> HIDE DEF s, b
  <2>9. Says(s, r, CallWaits(n)) /\ IsSeq(r)
    BY <2>1, <2>3, <2>4 DEF Says
  <2> QED
    BY <1>4, <2>9
<1>8. CASE n \notin {1, 5, 6, 7}
  <2>1. r = <<>>
    BY <1>8, SMT DEF CallSends
  <2>2. IsSeq(r) /\ Reads(r, s, s)
    BY <2>1, Nil, ReadsNothing
  <2>3. CallWaits(n) \in Ends(s)
    <3>1. CASE n = 2
      BY <3>1, FromCall, EndsAre, WaitsOf
    <3>2. CASE n = 3
      BY <3>2, FromCall, EndsAre, WaitsOf
    <3>3. CASE n = 8
      BY <3>3, FromCall, EndsAre, WaitsOf
    <3>4. CASE n \notin {2, 3, 8}
      <4>1. s = "listen" /\ CallWaits(n) = "program"
        BY <1>8, <3>4, FromCall, WaitsOf
      <4> QED
        BY <4>1, EndsAre
    <3> QED
      BY <3>1, <3>2, <3>3, <3>4
  <2> HIDE DEF s, r
  <2>9. Says(s, r, CallWaits(n)) /\ IsSeq(r)
    BY <2>2, <2>3 DEF Says
  <2> QED
    BY <1>4, <2>9
<1> QED
  BY <1>5, <1>6, <1>7, <1>8

\* The data segment stays where it can be told from a refusal.
SegmentOK(w) == w \in Word /\ w.hi < 45000 /\ Less(Refused, w)

\* The data segment grows by a size without meeting the end of memory.
LEMMA SegmentGrows ==
  ASSUME NEW w, SegmentOK(w), NEW n \in Nat, n < 16777216 + 65536
  PROVE  LET v == Plus(w, n) IN v.hi < 45000 => SegmentOK(v)
<1>1. Plus(w, n) \in Word
  BY PlusType DEF SegmentOK
<1>2. Refused \in Word
  BY SMT DEF Refused, Word, Halfword
<1>3. Less(Refused, Plus(w, n))
  <2>1. w.hi < 50000 /\ w \in Word /\ Less(Refused, w)
    BY Halves, SMT DEF SegmentOK
  <2> QED
    BY <1>2, <2>1, PlusForward
<1> QED
  BY <1>1, <1>3 DEF SegmentOK

\* The number that follows a request for memory.
LEMMA SizeIs ==
  ASSUME NEW q, NEW n, Queue(q, n), 5 <= n,
         q[2] \in Nat, q[3] \in Nat, q[4] \in Nat, q[2] < 256, q[3] < 256, q[4] < 256, q[5] = 0,
         NEW size, size = NumberOf(WordAt(q, 2))
  PROVE  size \in Nat /\ size < 16777216
<1>1. n \in Nat
  BY QueueType
<1> DEFINE r == SubSeq(q, 2, 2 + 4 - 1)
<1>2. \A i \in 1 .. 4 : r[i] = q[2 + i - 1]
  BY <1>1, QueuePart
<1>3. WordAt(q, 2) = FromBytes(r)
  BY DEF WordAt
<1> HIDE DEF r
<1>4. r[1] = q[2] /\ r[2] = q[3] /\ r[3] = q[4] /\ r[4] = 0
  BY <1>2
<1>5. WordAt(q, 2) = [hi |-> 256 * 0 + q[4], lo |-> 256 * q[3] + q[2]]
  BY <1>3, <1>4 DEF FromBytes
<1>6. size = 65536 * (256 * 0 + q[4]) + (256 * q[3] + q[2])
  BY <1>5 DEF NumberOf
<1> QED
  BY <1>6, SMT

-----------------------------------------------------------------------------
(* The machine's steps, place by place.                                    *)

-----------------------------------------------------------------------------
(* What a step of the machine does, from each of its places.               *)

\* Each step of the machine belongs to one place.
LEMMA Guards ==
  /\ Boot => pc = "boot"
  /\ Begin => pc = "begin"
  /\ ShowRegs => pc = "showregs"
  /\ ShowMem => pc = "showmem"
  /\ ShowWord => pc = "loop"
  /\ Assemble => pc = "assemble"
  /\ Echo => pc = "echo"
  /\ Execute => pc = "execute"
  /\ DelTLB => pc = "deltlb"
  /\ AddTLB => pc = "addtlb"
  /\ Reported => pc = "reported"
  /\ Alloc => pc = "alloc"
  /\ ReadInt => pc = "readint"
  /\ ReadLine => pc = "readline"
  /\ StoreLine => pc = "storing"
  /\ (Putc \/ Fault \/ Syscall \/ Return) => pc = "program"
  BY DEF Boot, Begin, ShowRegs, ShowMem, ShowWord, Assemble, Echo, Execute, DelTLB, AddTLB,
         Reported, Alloc, ReadInt, ReadLine, StoreLine, Putc, Fault, Syscall, Return, ProgramRuns

\* At each place the machine takes the step of that place.
LEMMA ByPlace ==
  ASSUME MachineSteps
  PROVE  /\ pc = "boot" => Boot
         /\ pc = "begin" => Begin
         /\ pc = "showregs" => ShowRegs
         /\ pc = "showmem" => ShowMem
         /\ pc = "loop" => ShowWord
         /\ pc = "assemble" => Assemble
         /\ pc = "echo" => Echo
         /\ pc = "execute" => Execute
         /\ pc = "deltlb" => DelTLB
         /\ pc = "addtlb" => AddTLB
         /\ pc = "reported" => Reported
         /\ pc = "alloc" => Alloc
         /\ pc = "readint" => ReadInt
         /\ pc = "readline" => ReadLine
         /\ pc = "storing" => StoreLine
         /\ pc = "program" => Putc \/ Fault \/ Syscall \/ Return
         /\ pc \in Pc
<1>1. \/ Boot \/ Begin \/ ShowRegs \/ ShowMem \/ ShowWord \/ Assemble \/ Echo
      \/ Execute \/ DelTLB \/ AddTLB \/ Reported \/ Alloc \/ ReadInt
      \/ ReadLine \/ StoreLine \/ Putc \/ Fault \/ Syscall \/ Return
  BY DEF MachineSteps, MonitorStep, ProgramStep
<1>2. pc \in Pc
  BY <1>1, Guards, Waits, SMT DEF Pc
<1> QED
  BY <1>1, <1>2, Guards, SMT

\* It takes what it waits for, or nothing; it changes nothing of the terminal.
LEMMA MachineTakes ==
  ASSUME MachineSteps
  PROVE  IF pc \in Reading THEN TakesFromHost(Wants[pc]) ELSE toMachine' = toMachine
<1>1. /\ Begin \/ ShowMem \/ Assemble \/ Execute \/ DelTLB \/ AddTLB \/ Reported
         \/ Alloc \/ ReadInt \/ ReadLine \/ StoreLine => TakesFromHost(Wants[pc])
  BY DEF Begin, ShowMem, Assemble, Execute, DelTLB, AddTLB, Reported, Alloc, ReadInt, ReadLine,
         StoreLine
<1>2. /\ Boot \/ ShowRegs \/ ShowWord \/ Echo \/ Putc \/ Fault \/ Syscall \/ Return
         => toMachine' = toMachine
  BY DEF Boot, ShowRegs, ShowWord, Echo, Putc, Fault, Syscall, Return
<1> QED
  BY <1>1, <1>2, ByPlace, Waits, SMT DEF Pc

\* What the machine never touches: the state of the terminal.
LEMMA MachineFrame ==
  ASSUME MachineSteps
  PROVE  /\ at' = at /\ parted' = parted /\ tlbEntry' = tlbEntry /\ dataSeg' = dataSeg
         /\ count' = count /\ addr' = addr /\ port' = port /\ kit' = kit
         /\ pc \notin {"deltlb", "addtlb"} => data' = data
<1>0. \/ Boot \/ Begin \/ ShowRegs \/ ShowMem \/ ShowWord \/ Assemble \/ Echo
      \/ Execute \/ DelTLB \/ AddTLB \/ Reported \/ Alloc \/ ReadInt
      \/ ReadLine \/ StoreLine \/ Putc \/ Fault \/ Syscall \/ Return
  BY DEF MachineSteps, MonitorStep, ProgramStep
<1>1. port' = port
  BY <1>0 DEF Boot, Begin, ShowRegs, ShowMem, ShowWord, Assemble, Echo, Execute, DelTLB, AddTLB,
       Reported, Alloc, ReadInt, ReadLine, StoreLine, Putc, Fault, Syscall, Return
<1>2. Boot \/ Begin \/ ShowRegs \/ ShowMem \/ ShowWord \/ Assemble \/ Echo \/ Execute
      \/ Reported \/ Alloc \/ ReadInt \/ ReadLine \/ StoreLine
      \/ Putc \/ Fault \/ Syscall \/ Return
      => data' = data
  BY DEF Boot, Begin, ShowRegs, ShowMem, ShowWord, Assemble, Echo, Execute,
         Reported, Alloc, ReadInt, ReadLine, StoreLine, Putc, Fault, Syscall, Return, monitorVars
<1>3. pc \notin {"deltlb", "addtlb"} => data' = data
  BY <1>0, <1>2, Guards
<1> QED
  BY <1>1, <1>3 DEF MachineSteps, consoleVars

\* What it says goes behind what it has said.
LEMMA Said ==
  ASSUME NEW x, IsSeq(x), IsSeq(toHost), ToHost(x)
  PROVE  IsSeq(toHost') /\ (port = "open" => toHost' = toHost \o x)
<1>1. IsSeq(toHost \o x)
  BY Joined
<1> QED
  BY <1>1 DEF ToHost

\* Taking n bytes of a queue.
LEMMA Taken ==
  ASSUME NEW n \in Nat, NEW m, Queue(toMachine, m), TakesFromHost(n)
  PROVE  n <= m /\ Left(toMachine', toMachine, m, n) /\ IsSeq(toMachine')
<1>1. n <= m
  BY QueueAtLeast DEF TakesFromHost
<1>2. Left(toMachine', toMachine, m, n)
  BY <1>1, QueueRest DEF TakesFromHost
<1> QED
  BY <1>1, <1>2, QueueType DEF Left

\* A read of the terminal leaves the bytes behind.
LEMMA Received ==
  ASSUME NEW n \in Nat, NEW m, Queue(toHost, m), TakesFromMachine(n)
  PROVE  n <= m /\ Left(toHost', toHost, m, n) /\ IsSeq(toHost')
<1>1. n <= m
  BY QueueAtLeast DEF TakesFromMachine
<1>2. Left(toHost', toHost, m, n)
  BY <1>1, QueueRest DEF TakesFromMachine
<1> QED
  BY <1>1, <1>2, QueueType DEF Left

\* How many bytes are left.
LEMMA LeftQueue ==
  ASSUME NEW p, NEW q, NEW n, NEW k, Left(p, q, n, k), NEW m, m = n - k
  PROVE  Queue(p, m) /\ (m = 0 => p = <<>>)
<1>1. Queue(p, m)
  BY DEF Left
<1> QED
  BY <1>1, QueueType, QueueEmpty

\* Nothing is taken from nothing.
LEMMA NothingTaken ==
  ASSUME MachineSteps, toMachine = <<>>
  PROVE  pc \notin Reading /\ toMachine' = <<>>
<1>1. ASSUME NEW n \in Nat, TakesFromHost(n), 0 < n PROVE FALSE
  <2>1. Queue(toMachine, 0)
    BY NilQueue
  <2>2. n <= 0
    BY <1>1, <2>1, Taken
  <2> QED
    BY <1>1, <2>2
<1>2. pc \in Reading => Wants[pc] \in Nat /\ 0 < Wants[pc]
  BY Waits, SMT
<1> QED
  BY <1>1, <1>2, MachineTakes

-----------------------------------------------------------------------------
(* The machine's steps in the dialogue.                                    *)

-----------------------------------------------------------------------------
(* The dialogue goes on with every step of the machine.                    *)

\* At the prompt the monitor waits for a letter, and nothing is on its way.
LEMMA IdleWaits ==
  ASSUME Idle, MachineSteps
  PROVE  FALSE
  BY NothingTaken, Waits DEF Idle, Quiet

\* A command's letter is taken.
LEMMA LetterTaken ==
  ASSUME MachineSteps, pc = "begin", NEW n \in Nat, Queue(toMachine, n + 1), NEW c, toMachine[1] = c
  PROVE  /\ pc' = Handler(c) /\ toHost' = toHost /\ data' = data
         /\ Left(toMachine', toMachine, n + 1, 1) /\ Queue(toMachine', n)
<1>1. Begin
  BY ByPlace
<1>2. TakesFromHost(1) /\ pc' = Handler(c) /\ toHost' = toHost /\ data' = data
  BY <1>1, Waits DEF Begin
<1>3. Left(toMachine', toMachine, n + 1, 1)
  BY <1>2, Taken
<1>4. n = n + 1 - 1
  OBVIOUS
<1> QED
  BY <1>2, <1>3, <1>4, LeftQueue

\* The monitor takes E and the number of the entry and clears it.
LEMMA DeletingMoves ==
  ASSUME Typed, MachineSteps, Deleting
  PROVE  Dialogue'
<1>1. PICK i \in Entry :
        /\ SameBut(i) /\ tlbEntry[i] = NoEntry
        /\ \/ pc = "begin" /\ Queue(toMachine, 2) /\ toMachine[1] = 69 /\ toMachine[2] = i
           \/ pc = "deltlb" /\ Queue(toMachine, 1) /\ toMachine[1] = i
  BY DEF Deleting
<1>2. at = "prompt" /\ toHost = <<>> /\ at' = "prompt" /\ tlbEntry' = tlbEntry
  BY MachineFrame DEF Deleting
<1>3. CASE pc = "begin" /\ Queue(toMachine, 2) /\ toMachine[1] = 69 /\ toMachine[2] = i
  <2>1. /\ pc' = Handler(69) /\ toHost' = toHost /\ data' = data
        /\ Left(toMachine', toMachine, 1 + 1, 1) /\ Queue(toMachine', 1)
    BY <1>3, LetterTaken
  <2>2. toMachine'[1] = i
    BY <1>3, <2>1 DEF Left
  <2>3. SameBut(i)' /\ tlbEntry'[i] = NoEntry
    BY <1>1, <1>2, <2>1 DEF SameBut
  <2>4. Deleting'
    BY <1>2, <2>1, <2>2, <2>3, Letters DEF Deleting
  <2> QED
    BY <2>4 DEF Dialogue
<1>4. CASE pc = "deltlb" /\ Queue(toMachine, 1) /\ toMachine[1] = i
  <2>1. DelTLB
    BY <1>4, ByPlace
  <2>2. TakesFromHost(1) /\ pc' = "begin" /\ toHost' = <<>>
    BY <1>2, <1>4, <2>1, Waits DEF DelTLB
  <2>3. toMachine' = <<>>
    <3>1. Left(toMachine', toMachine, 1, 1) /\ 0 = 1 - 1
      BY <1>4, <2>2, Taken
    <3> QED
      BY <3>1, LeftQueue
  <2>4. data' = [data EXCEPT ![i] = Image(NoEntry)]
    BY <1>4, <2>1, Entries, ZeroIsImage DEF DelTLB, Tlbwi
  <2>5. Same'
    <3>1. data = [j \in Entry |-> data[j]]
      BY DEF Typed
    <3>2. \A j \in Entry : data'[j] = IF j = i THEN Image(NoEntry) ELSE data[j]
      BY <2>4, <3>1
    <3> QED
      BY <1>1, <1>2, <3>2 DEF Same, SameBut
  <2>6. Idle'
    BY <1>2, <2>2, <2>3, <2>5 DEF Idle, Quiet
  <2> QED
    BY <2>6 DEF Dialogue
<1> QED
  BY <1>1, <1>3, <1>4

\* The monitor takes T and the entry, and writes the image of the terminal's.
LEMMA AddingMoves ==
  ASSUME Typed, MachineSteps, Adding
  PROVE  Dialogue'
<1>1. PICK i \in Entry :
        /\ SameBut(i)
        /\ \/ pc = "begin" /\ Queue(toMachine, 16) /\ toMachine[1] = 84 /\ EntryAt(toMachine, 2, i)
           \/ pc = "addtlb" /\ Queue(toMachine, 15) /\ EntryAt(toMachine, 1, i)
  BY DEF Adding
<1>2. at = "prompt" /\ toHost = <<>> /\ at' = "prompt" /\ tlbEntry' = tlbEntry
  BY MachineFrame DEF Adding
<1> DEFINE e == tlbEntry[i]
<1>3. CASE pc = "begin" /\ Queue(toMachine, 16) /\ toMachine[1] = 84 /\ EntryAt(toMachine, 2, i)
  <2>1. /\ pc' = Handler(84) /\ toHost' = toHost /\ data' = data
        /\ Left(toMachine', toMachine, 15 + 1, 1) /\ Queue(toMachine', 15)
    BY <1>3, LetterTaken
  <2>2. /\ toMachine[2] = i /\ Carries(toMachine, 1 + 2, WordOf(e.vpn))
        /\ Carries(toMachine, 1 + 6, WordOf(e.pfn1)) /\ toMachine[11] = Flag(e.v1)[1]
        /\ Carries(toMachine, 1 + 11, WordOf(e.pfn2)) /\ toMachine[16] = Flag(e.v2)[1]
    BY <1>3 DEF EntryAt
  <2>3. toMachine'[1] = toMachine[2] /\ toMachine'[10] = toMachine[11] /\ toMachine'[15] = toMachine[16]
    BY <2>1 DEF Left
  <2>4. /\ Carries(toMachine', 2, WordOf(e.vpn)) /\ Carries(toMachine', 6, WordOf(e.pfn1))
        /\ Carries(toMachine', 11, WordOf(e.pfn2))
    <3> HIDE DEF e
    <3> QED
      BY <2>1, <2>2, CarriedOn
  <2>5. EntryAt(toMachine, 1, i)'
    BY <1>2, <2>2, <2>3, <2>4 DEF EntryAt
  <2>6. SameBut(i)'
    BY <1>1, <1>2, <2>1 DEF SameBut
  <2>7. Adding'
    BY <1>2, <2>1, <2>5, <2>6, Letters DEF Adding
  <2> QED
    BY <2>7 DEF Dialogue
<1>4. CASE pc = "addtlb" /\ Queue(toMachine, 15) /\ EntryAt(toMachine, 1, i)
  <2>1. AddTLB
    BY <1>4, ByPlace
  <2>2. TakesFromHost(15) /\ pc' = "begin" /\ toHost' = <<>>
    BY <1>2, <1>4, <2>1, Waits DEF AddTLB
  <2>3. toMachine' = <<>>
    <3>1. Left(toMachine', toMachine, 15, 15) /\ 0 = 15 - 15
      BY <1>4, <2>2, Taken
    <3> QED
      BY <3>1, LeftQueue
  <2>4. e \in EntryType
    BY DEF Typed
  <2>5. WordOf(e.vpn) \in Word /\ WordOf(e.pfn1) \in Word /\ WordOf(e.pfn2) \in Word
    <3>1. /\ e.vpn \in Nat /\ e.vpn <= 2147483647 /\ e.pfn1 \in Nat /\ e.pfn1 <= 2147483647
          /\ e.pfn2 \in Nat /\ e.pfn2 <= 2147483647
      BY <2>4, SMT DEF EntryType
    <3> QED
      BY <3>1, NumberIsRead
  <2>6. /\ toMachine[1] = i /\ Carries(toMachine, 2, WordOf(e.vpn))
        /\ Carries(toMachine, 6, WordOf(e.pfn1)) /\ toMachine[10] = Flag(e.v1)[1]
        /\ Carries(toMachine, 11, WordOf(e.pfn2)) /\ toMachine[15] = Flag(e.v2)[1]
    BY <1>4 DEF EntryAt
  <2>7. /\ WordAt(toMachine, 2) = WordOf(e.vpn) /\ WordAt(toMachine, 6) = WordOf(e.pfn1)
        /\ WordAt(toMachine, 11) = WordOf(e.pfn2)
    <3> HIDE DEF e
    <3> QED
      BY <1>4, <2>5, <2>6, WordIsRead
  <2> DEFINE new == set_entry(Sll(WordAt(toMachine, 2), 8192),
                               EntryLo(WordAt(toMachine, 6), toMachine[10]),
                               EntryLo(WordAt(toMachine, 11), toMachine[15]))
             k == toMachine[1] % NEntry
  <2>8. data' = [data EXCEPT ![k] = new]
    BY <2>1 DEF AddTLB, Tlbwi
  <2>9. data' = [data EXCEPT ![i] = Image(e)]
    <3>1. new = Image(e)
      BY <2>4, <2>6, <2>7, EntryIsImage
    <3>2. k = i
      BY <2>6, Entries
    <3> HIDE DEF new, k, e
    <3> QED
      BY <2>8, <3>1, <3>2
  <2>10. Same'
    <3>1. data = [j \in Entry |-> data[j]]
      BY DEF Typed
    <3>2. \A j \in Entry : data'[j] = IF j = i THEN Image(e) ELSE data[j]
      BY <2>9, <3>1
    <3> QED
      BY <1>1, <1>2, <3>2 DEF Same, SameBut
  <2>11. Idle'
    BY <1>2, <2>2, <2>3, <2>10 DEF Idle, Quiet
  <2> QED
    BY <2>11 DEF Dialogue
<1> QED
  BY <1>1, <1>3, <1>4

\* The monitor takes R and sends the registers.
LEMMA ShowingRegsMoves ==
  ASSUME Typed, MachineSteps, ShowingRegs, port = "open"
  PROVE  Dialogue'
<1>1. at' = "regs" /\ count' = count /\ count \in Nat /\ count < 21
  BY MachineFrame DEF ShowingRegs
<1>2. pc \in {"begin", "showregs"}
  BY DEF ShowingRegs
<1>3. Same'
  BY <1>2, MachineFrame DEF ShowingRegs, Same
<1>4. CASE pc = "begin" /\ Queue(toMachine, 1) /\ toMachine[1] = 82 /\ toHost = <<>> /\ count = 0
  <2>1. pc' = Handler(82) /\ toHost' = toHost /\ Queue(toMachine', 0)
    <3>1. Queue(toMachine, 0 + 1)
      BY <1>4
    <3> QED
      BY <1>4, <3>1, LetterTaken
  <2>2. toMachine' = <<>>
    BY <2>1, QueueType, QueueEmpty
  <2>3. ShowingRegs'
    BY <1>1, <1>3, <1>4, <2>1, <2>2, Letters DEF ShowingRegs
  <2> QED
    BY <2>3 DEF Dialogue
<1>5. CASE pc = "showregs" /\ toMachine = <<>> /\ toHost = <<>> /\ count = 0
  <2> DEFINE words == [i \in 1 .. 21 |-> regs[RegisterOrder[i]]]
             b == BytesOfAll(words)
  <2>1. ToHost(b) /\ pc' = "begin" /\ toMachine' = <<>>
    BY <1>5, ByPlace DEF ShowRegs
  <2>2. Queue(b, 84)
    <3>1. Queue(words, 21)
      <4>1. words = [i \in 1 .. 21 |-> words[i]]
        OBVIOUS
      <4> HIDE DEF words
      <4> QED
        BY <4>1, QueueFunction
    <3> HIDE DEF words
    <3>2. Queue(b, 4 * 21)
      BY <3>1, AllBytes
    <3> QED
      BY <3>2
  <2> HIDE DEF b
  <2>3. toHost' = b
    <3>1. toHost' = <<>> \o b
      BY <1>5, <2>1 DEF ToHost
    <3> QED
      BY <2>2, <3>1, JoinedToNothing, QueueType
  <2>4. Queue(toHost', 84 - 4 * count')
    BY <1>1, <1>5, <2>2, <2>3
  <2>5. ShowingRegs'
    BY <1>1, <1>3, <2>1, <2>4 DEF ShowingRegs
  <2> QED
    BY <2>5 DEF Dialogue
<1>6. CASE pc = "begin" /\ toMachine = <<>>
  BY <1>6, NothingTaken, Waits
<1> QED
  BY <1>4, <1>5, <1>6 DEF ShowingRegs

\* Taking all there is leaves nothing.
LEMMA AllTaken ==
  ASSUME NEW n \in Nat, Queue(toMachine, n), TakesFromHost(n)
  PROVE  toMachine' = <<>>
<1>1. Left(toMachine', toMachine, n, n) /\ 0 = n - n
  BY Taken
<1> QED
  BY <1>1, LeftQueue

\* The monitor takes D or U and sends the words asked for, one by one.
LEMMA DumpingMoves ==
  ASSUME Typed, MachineSteps, Dumping, port = "open"
  PROVE  Dialogue'
<1>0. /\ at' = "dump" /\ count' = count /\ addr' = addr /\ tlbEntry' = tlbEntry
      /\ Counted /\ addr \in Word /\ Same
  BY MachineFrame DEF Dumping
<1>1. /\ at' = "dump" /\ count' = count /\ addr' = addr /\ tlbEntry' = tlbEntry
      /\ count \in Nat \ {0} /\ addr \in Word /\ Same /\ Counted'
  BY <1>0 DEF Counted
<1>2. data' = data
  BY MachineFrame DEF Dumping
<1>3. Mapped
  BY DEF Dumping
<1>4. Same' /\ Mapped'
  BY <1>1, <1>2, <1>3 DEF Same, Mapped
<1> DEFINE
     Asked1 == /\ pc = "begin" /\ Queue(toMachine, 9) /\ toMachine[1] \in {68, 85}
               /\ Carries(toMachine, 2, addr) /\ Carries(toMachine, 6, WordOf(count))
               /\ toHost = <<>>
     Asked2 == /\ pc = "showmem" /\ Queue(toMachine, 8)
               /\ Carries(toMachine, 1, addr) /\ Carries(toMachine, 5, WordOf(count))
               /\ toHost = <<>>
     Sending == /\ pc = "loop" /\ toMachine = <<>> /\ left \in Nat \ {0} /\ left <= count
                /\ Queue(toHost, 4 * (count - left)) /\ cursor = Plus(addr, 4 * (count - left))
     Sent == pc = "begin" /\ toMachine = <<>> /\ Queue(toHost, 4 * count)
<1>5. Asked1 \/ Asked2 \/ Sending \/ Sent
  BY DEF Dumping
<1>6. SUFFICES Asked2' \/ Sending' \/ Sent'
  <2>1. Dumping'
    BY <1>1, <1>4, <1>6 DEF Dumping
  <2> QED
    BY <2>1 DEF Dialogue
<1>7. CASE Asked1
  <2>1. /\ pc' = Handler(toMachine[1]) /\ toHost' = toHost
        /\ Left(toMachine', toMachine, 8 + 1, 1) /\ Queue(toMachine', 8)
    BY <1>7, LetterTaken
  <2>2. pc' = "showmem"
    BY <1>7, <2>1, Letters
  <2>3. Carries(toMachine, 1 + 1, addr) /\ Carries(toMachine, 1 + 5, WordOf(count))
    BY <1>7
  <2>4. Carries(toMachine', 1, addr) /\ Carries(toMachine', 5, WordOf(count))
    BY <2>1, <2>3, CarriedOn
  <2> QED
    BY <1>1, <1>7, <2>1, <2>2, <2>4
<1>8. CASE Asked2
  <2>1. ShowMem
    BY <1>8, ByPlace
  <2>2. /\ TakesFromHost(8) /\ pc' = "loop" /\ toHost' = <<>>
        /\ cursor' = WordAt(toMachine, 1) /\ left' = NumberOf(WordAt(toMachine, 5))
    BY <1>8, <2>1, Waits DEF ShowMem
  <2>3. toMachine' = <<>>
    BY <1>8, <2>2, AllTaken
  <2>4. WordOf(count) \in Word /\ NumberOf(WordOf(count)) = count
    BY <1>0, NumberIsRead DEF Counted
  <2>5. WordAt(toMachine, 1) = addr /\ WordAt(toMachine, 5) = WordOf(count)
    BY <1>1, <1>8, <2>4, WordIsRead
  <2>6. cursor' = addr /\ left' = count
    BY <2>2, <2>4, <2>5
  <2>7. 4 * (count' - left') = 0 /\ left' <= count'
    BY <1>1, <2>6
  <2>9. Queue(toHost', 4 * (count' - left')) /\ cursor' = Plus(addr', 4 * (count' - left'))
    BY <1>1, <2>2, <2>6, <2>7, PlusZero, NilQueue
  <2>8. Sending'
    BY <1>1, <2>2, <2>3, <2>6, <2>7, <2>9
  <2> QED
    BY <2>8
<1>9. CASE Sending
  <2>1. ShowWord
    BY <1>9, ByPlace
  <2> DEFINE k == count - left
  <2>2. k \in 0 .. count - 1 /\ cursor = Plus(addr, 4 * k) /\ 4 * k \in Nat
    BY <1>1, <1>9
  <2>3. ~TLB_bad(data, cursor)
    BY <1>1, <1>3, <2>2, NoMiss DEF Mapped
  <2>4. /\ ToHost(BytesOf(Load(cursor))) /\ toMachine' = toMachine
        /\ cursor' = Plus(cursor, 4) /\ left' = left - 1
        /\ pc' = IF left' = 0 THEN "begin" ELSE "loop"
    BY <2>1, <2>3 DEF ShowWord, LoopEnds
  <2>5. cursor' = Plus(addr, 4 * (count - left'))
    <3>1. 4 * k + 4 = 4 * (count - left') /\ 4 \in Nat
      BY <1>1, <1>9, <2>2, <2>4
    <3> HIDE DEF k
    <3> QED
      BY <1>1, <2>2, <2>4, <3>1, PlusPlus
  <2>6. Queue(toHost', 4 * (count - left'))
    <3> DEFINE b == BytesOf(Load(cursor))
               n == 4 * k
    <3>1. toHost' = toHost \o b /\ Queue(b, 4)
      BY <2>4, QueueWord DEF ToHost
    <3>2. Queue(toHost, n)
      BY <1>9
    <3>3. n + 4 = 4 * (count - left')
      BY <1>1, <1>9, <2>4
    <3> HIDE DEF b, n
    <3>4. Behind(toHost', toHost, n, b, 4)
      BY <3>1, <3>2, QueueJoin
    <3>5. Queue(toHost', n + 4)
      BY <3>4 DEF Behind
    <3> QED
      BY <3>3, <3>5
  <2>7. CASE left' = 0
    <3>1. count - left' = count
      BY <1>1, <2>7
    <3>2. Sent'
      BY <1>1, <1>9, <2>4, <2>6, <2>7, <3>1
    <3> QED
      BY <3>2
  <2>8. CASE left' # 0
    <3>1. left' \in Nat \ {0} /\ left' <= count
      BY <1>1, <1>9, <2>4, <2>8
    <3>2. Sending'
      BY <1>1, <1>9, <2>4, <2>5, <2>6, <2>8, <3>1
    <3> QED
      BY <3>2
  <2> QED
    BY <2>7, <2>8
<1>10. CASE Sent
  BY <1>10, NothingTaken, Waits
<1> QED
  BY <1>5, <1>7, <1>8, <1>9, <1>10

\* What it says when it has said nothing yet.
LEMMA FirstSaid ==
  ASSUME NEW x, NEW n, Queue(x, n), n # 0, toHost = <<>>, port = "open", ToHost(x)
  PROVE  toHost' = x /\ toHost' # <<>>
<1>1. IsSeq(x) /\ n \in Nat
  BY QueueType
<1>2. toHost' = x
  <2>1. toHost' = <<>> \o x
    BY DEF ToHost
  <2> QED
    BY <1>1, <2>1, JoinedToNothing
<1>3. x # <<>>
  BY <1>1, QueueEmpty, OneLength
<1> QED
  BY <1>2, <1>3

\* The monitor takes A, writes and sends the word back.
LEMMA StoringMoves ==
  ASSUME Typed, MachineSteps, Storing, port = "open"
  PROVE  Dialogue'
<1>1. at \in {"stored", "loading"} /\ at' = at /\ Same'
  <2>1. pc \in {"begin", "assemble", "echo", "reported"}
    BY DEF Storing
  <2> QED
    BY <2>1, MachineFrame DEF Storing, Same
<1> DEFINE Begun == pc = "assemble" /\ Queue(toMachine, 8) /\ toHost = <<>>
           Answered == pc \in {"echo", "begin", "reported"} /\ toMachine = <<>> /\ toHost # <<>>
<1>2. SUFFICES Begun' \/ Answered'
  <2>1. Storing'
    BY <1>1, <1>2 DEF Storing
  <2> QED
    BY <2>1 DEF Dialogue
<1>3. CASE pc = "begin" /\ Queue(toMachine, 9) /\ toMachine[1] = 65 /\ toHost = <<>>
  <2>1. pc' = Handler(65) /\ toHost' = toHost /\ Queue(toMachine', 8)
    <3>1. Queue(toMachine, 8 + 1)
      BY <1>3
    <3> QED
      BY <1>3, <3>1, LetterTaken
  <2> QED
    BY <1>3, <2>1, Letters
<1>4. CASE Begun
  <2>1. Assemble
    BY <1>4, ByPlace
  <2>2. toMachine' = <<>>
    BY <1>4, <2>1, AllTaken, Waits DEF Assemble
  <2> DEFINE a == WordAt(toMachine, 1)
             w == WordAt(toMachine, 5)
             x == <<7>> \o BytesOf(regs'["Cause"]) \o BytesOf(regs'["EPC"])
             y == <<BytesOf(w)[1]>>
  <2>3. \/ ToHost(x) /\ pc' = "reported"
        \/ ToHost(y) /\ pc' = "echo"
    BY <2>1 DEF Assemble, Reports
  <2>4. Queue(x, 9) /\ Queue(y, 1)
    <3>1. \A v, u : Queue(<<7>> \o BytesOf(v) \o BytesOf(u), 9)
      BY LetterAndWords
    <3> QED
      BY <3>1, QueueOne
  <2> HIDE DEF x, y
  <2>5. toHost' # <<>>
    BY <1>4, <2>3, <2>4, FirstSaid
  <2> QED
    BY <2>2, <2>3, <2>5
<1>5. CASE pc = "echo" /\ toMachine = <<>> /\ toHost # <<>>
  <2> DEFINE x == Tail(BytesOf(cursor))
  <2>1. ToHost(x) /\ pc' = "begin" /\ toMachine' = <<>>
    BY <1>5, ByPlace DEF Echo
  <2>2. IsSeq(x)
    <3>1. PICK S : BytesOf(cursor) \in Seq(S)
      BY QueueWord DEF Queue, IsSeq
    <3>2. BytesOf(cursor) # <<>>
      BY QueueWord, QueueEmpty, OneLength, QueueType
    <3> QED
      BY <3>1, <3>2, HeadTailProperties DEF IsSeq
  <2>3. toHost' = toHost \o x
    BY <2>1 DEF ToHost
  <2> HIDE DEF x
  <2>4. toHost' # <<>>
    <3>1. IsSeq(toHost)
      BY DEF Typed
    <3>2. Len(toHost) \in Nat /\ Len(toHost) # 0 /\ Len(x) \in Nat
      BY <1>5, <2>2, <3>1, SeqIs
    <3>3. Len(toHost') = Len(toHost) + Len(x)
      BY <2>2, <2>3, <3>1, Joined
    <3>4. Len(toHost') # 0
      BY <3>2, <3>3
    <3> QED
      BY <3>4, Nil
  <2> QED
    BY <2>1, <2>4
<1>6. CASE pc \in {"begin", "reported"} /\ toMachine = <<>>
  BY <1>6, NothingTaken, Waits
<1> QED
  BY <1>3, <1>4, <1>5, <1>6 DEF Storing

\* The monitor takes G and runs the program.
LEMMA GoingMoves ==
  ASSUME Typed, MachineSteps, Going
  PROVE  Dialogue'
<1>1. at = "listen" /\ at' = "listen" /\ toHost = <<>> /\ Same'
  <2>1. pc \in {"begin", "execute"}
    BY DEF Going
  <2> QED
    BY <2>1, MachineFrame DEF Going, Same
<1>2. CASE pc = "begin" /\ Queue(toMachine, 5) /\ toMachine[1] = 71
  <2>1. pc' = Handler(71) /\ toHost' = toHost /\ Queue(toMachine', 4)
    <3>1. Queue(toMachine, 4 + 1)
      BY <1>2
    <3> QED
      BY <1>2, <3>1, LetterTaken
  <2>2. Going'
    BY <1>1, <2>1, Letters DEF Going
  <2> QED
    BY <2>2 DEF Dialogue
<1>3. CASE pc = "execute" /\ Queue(toMachine, 4)
  <2>1. Execute
    BY <1>3, ByPlace
  <2>2. toMachine' = <<>> /\ pc' = "program" /\ toHost' = <<>>
    BY <1>1, <1>3, <2>1, AllTaken, Waits DEF Execute
  <2>3. Says("listen", <<>>, "program")
    BY ReadsNothing, EndsAre DEF Says
  <2>4. Running'
    BY <1>1, <2>2, <2>3 DEF Running
  <2> QED
    BY <2>4 DEF Dialogue
<1> QED
  BY <1>2, <1>3 DEF Going

\* What a running program sends is read to where the program then is.
LEMMA RunningMoves ==
  ASSUME Typed, MachineSteps, Running, port = "open"
  PROVE  Dialogue'
<1>1. /\ at \in {"listen", "call", "cause"} /\ at' = at /\ toMachine = <<>> /\ toMachine' = <<>>
      /\ pc \notin Reading
  BY MachineFrame, NothingTaken DEF Running
<1>2. PICK t : pc \in Ends(t) /\ Reads(toHost, at, t)
  BY DEF Running, Says
<1>3. \/ pc = "program" /\ t = "listen"
      \/ pc = "boot" /\ t = "halt"
  BY <1>1, <1>2, Waits DEF Ends
<1>4. Same'
  BY <1>3, MachineFrame DEF Running, Same
<1>5. SUFFICES Says(at, toHost', pc')
  <2>1. Running'
    BY <1>1, <1>4, <1>5 DEF Running
  <2> QED
    BY <2>1 DEF Dialogue
<1>6. ASSUME NEW x, IsSeq(x), Says(t, x, pc'), ToHost(x) PROVE Says(at, toHost', pc')
  <2>1. IsSeq(toHost) /\ toHost' = toHost \o x
    BY <1>6 DEF Typed, ToHost
  <2> QED
    BY <1>2, <1>6, <2>1, SaysBehind
<1>7. ASSUME NEW x, IsSeq(x), NEW s, Reads(x, t, s), pc' \in Ends(s), ToHost(x)
      PROVE  Says(at, toHost', pc')
  BY <1>6, <1>7 DEF Says
<1>8. CASE pc = "boot" /\ t = "halt"
  <2>1. ToHost(Greeting) /\ pc' = "begin"
    BY <1>8, ByPlace DEF Boot
  <2>2. IsSeq(Greeting)
    <3>1. Greeting \in Seq({79, 75, 10, 13})
      BY DEF Greeting
    <3> QED
      BY <3>1 DEF IsSeq
  <2>3. Reads(Greeting, "halt", "halt")
    BY <2>2, Absorbed
  <2> QED
    BY <1>7, <1>8, <2>1, <2>2, <2>3, EndsAre
<1>9. CASE pc = "program" /\ t = "listen"
  <2>1. CASE Return
    <3>1. ToHost(<<4>>) /\ pc' = "begin"
      BY <2>1 DEF Return
    <3>2. Reads(<<4>>, "listen", "done") /\ IsSeq(<<4>>)
      BY ReadsOne, FromListen, QueueOne, QueueType
    <3> QED
      BY <1>7, <1>9, <3>1, <3>2, EndsAre
  <2>2. CASE Putc
    <3>1. PICK b \in ProgramPrints : ToHost(<<b>>)
      BY <2>2 DEF Putc
    <3>2. pc' = pc
      BY <2>2 DEF Putc, monitorVars
    <3>3. b \notin {2, 4, 7}
      BY SessionAssumption
    <3>4. Reads(<<b>>, "listen", "listen") /\ IsSeq(<<b>>)
      BY <3>3, ReadsOne, FromListen, QueueOne, QueueType
    <3> QED
      BY <1>7, <1>9, <3>1, <3>2, <3>4, EndsAre
  <2>3. CASE Fault
    <3> DEFINE x == <<7>>
               y == BytesOf(regs'["Cause"])
               z == BytesOf(regs'["EPC"])
    <3>1. ToHost(x \o y \o z) /\ pc' = "reported"
      BY <2>3 DEF Fault, Reports
    <3>2. Reads(x, "listen", "cause") /\ IsSeq(x)
      BY ReadsOne, FromListen, QueueOne, QueueType
    <3>3. IsSeq(y) /\ IsSeq(z)
      BY QueueWord, QueueType
    <3> HIDE DEF x, y, z
    <3>4. Reads(y, "cause", "cause") /\ Reads(z, "cause", "cause")
      BY <3>3, Absorbed
    <3>5. Reads(x \o y, "listen", "cause") /\ IsSeq(x \o y)
      BY <3>2, <3>3, <3>4, ReadsBehind, Joined
    <3>6. Reads((x \o y) \o z, "listen", "cause") /\ IsSeq((x \o y) \o z)
      BY <3>3, <3>4, <3>5, ReadsBehind, Joined
    <3> QED
      BY <1>7, <1>9, <3>1, <3>6, EndsAre
  <2>4. CASE Syscall
    <3>1. PICK call \in ProgramCalls :
            ToHost(<<2, call.v0>> \o CallSends(call)) /\ pc' = CallWaits(call.v0)
      BY <2>4 DEF Syscall
    <3> DEFINE m == <<2, call.v0>> \o CallSends(call)
    <3>3. ToHost(m) /\ m = <<2, call.v0>> \o CallSends(call)
      BY <3>1
    <3> HIDE DEF m
    <3>2. IsSeq(m) /\ Says("listen", m, CallWaits(call.v0))
      BY <3>3, CallIsRead
    <3> QED
      BY <1>6, <1>9, <3>1, <3>2, <3>3
  <2> QED
    BY <1>9, <2>1, <2>2, <2>3, <2>4, ByPlace
<1> QED
  BY <1>3, <1>8, <1>9

\* The program takes the answer to its call, and a line after its address.
LEMMA AnsweringMoves ==
  ASSUME Typed, MachineSteps, Answering
  PROVE  Dialogue'
<1>1. pc \in {"alloc", "readint", "readline", "storing"} /\ toHost = <<>>
  BY DEF Answering
<1>2. Same' /\ at' = at
  BY <1>1, MachineFrame DEF Answering, Same
<1>3. toMachine # <<>>
  BY <1>1, NothingTaken, Waits
<1>4. TakesFromHost(4) /\ toHost' = <<>>
  <2>1. toHost' = <<>>
    BY <1>1, ByPlace DEF Alloc, ReadInt, ReadLine, StoreLine
  <2> QED
    BY <1>1, <2>1, MachineTakes, Waits
<1>5. ASSUME at = "listen", toMachine' = <<>>, pc' = "program" PROVE Dialogue'
  <2>1. Says("listen", <<>>, "program")
    BY ReadsNothing, EndsAre DEF Says
  <2>2. Running'
    BY <1>2, <1>4, <1>5, <2>1 DEF Running
  <2> QED
    BY <2>2 DEF Dialogue
<1>6. CASE at = "listen" /\ pc = "alloc" /\ Queue(toMachine, 4)
           /\ \E w \in Word : w # AllocFailed /\ Carries(toMachine, 1, w)
  <2>1. PICK w \in Word : w # AllocFailed /\ Carries(toMachine, 1, w)
    BY <1>6
  <2>2. WordAt(toMachine, 1) = w
    BY <1>6, <2>1, WordIsRead
  <2>3. pc' = "program"
    BY <1>6, <2>1, <2>2, ByPlace DEF Alloc
  <2>4. toMachine' = <<>>
    BY <1>4, <1>6, AllTaken
  <2> QED
    BY <1>5, <1>6, <2>3, <2>4
<1>7. CASE at = "listen" /\ pc = "readint" /\ Queue(toMachine, 4)
  <2>1. pc' = "program"
    BY <1>7, ByPlace DEF ReadInt
  <2>2. toMachine' = <<>>
    BY <1>4, <1>7, AllTaken
  <2> QED
    BY <1>5, <1>7, <2>1, <2>2
<1>8. CASE at = "line" /\ pc = "readline" /\ Queue(toMachine, 4)
  <2>1. pc' = "storing"
    BY <1>8, ByPlace DEF ReadLine
  <2>2. toMachine' = <<>>
    BY <1>4, <1>8, AllTaken
  <2>3. Answering'
    BY <1>2, <1>4, <1>8, <2>1, <2>2 DEF Answering
  <2> QED
    BY <2>3 DEF Dialogue
<1>9. CASE at = "listen" /\ pc = "readline" /\ \E q : IsLine(q) /\ Answer(toMachine, q)
  <2>1. PICK q : IsLine(q) /\ Answer(toMachine, q)
    BY <1>9
  <2>2. PICK n : /\ Queue(toMachine, 4 + n) /\ Queue(q, n)
                 /\ \A i \in 1 .. n : toMachine[4 + i] = q[i]
    BY <2>1 DEF Answer
  <2>3. n \in Nat
    BY <2>2, QueueType
  <2>4. Left(toMachine', toMachine, 4 + n, 4)
    BY <1>4, <2>2, Taken
  <2>5. Queue(toMachine', n) /\ \A i \in 1 .. n : toMachine'[i] = q[i]
    <3>1. Queue(toMachine', (4 + n) - 4) /\ \A i \in 1 .. (4 + n) - 4 : toMachine'[i] = toMachine[4 + i]
      BY <2>4 DEF Left
    <3>2. (4 + n) - 4 = n
      BY <2>3, SMT
    <3> QED
      BY <2>2, <3>1, <3>2, Zenon
  <2>6. toMachine' = q
    BY <2>2, <2>5, QueuesEqual
  <2>7. pc' = "storing"
    BY <1>9, ByPlace DEF ReadLine
  <2>8. Answering'
    BY <1>2, <1>4, <1>9, <2>1, <2>6, <2>7 DEF Answering
  <2> QED
    BY <2>8 DEF Dialogue
<1>10. CASE at = "listen" /\ pc = "storing" /\ IsLine(toMachine)
  <2>1. toMachine' = SubSeq(toMachine, 5, Len(toMachine))
    BY <1>4 DEF TakesFromHost
  <2>2. PICK n \in Nat : Queue(toMachine, n) /\ 4 <= n
    BY <1>10, LineIsQueue
  <2>3. Range(SubSeq(toMachine, 1, 4)) = {toMachine[1], toMachine[2], toMachine[3], toMachine[4]}
    BY <2>2, ZeroInFour
  <2>4. pc' = IF 0 \in {toMachine[1], toMachine[2], toMachine[3], toMachine[4]}
              THEN "program" ELSE "storing"
    BY <1>10, <2>3, ByPlace DEF StoreLine
  <2>5. IF 0 \in {toMachine[1], toMachine[2], toMachine[3], toMachine[4]}
        THEN toMachine' = <<>> ELSE IsLine(toMachine')
    BY <1>10, <2>1, LineGoes
  <2>6. CASE pc' = "program" /\ toMachine' = <<>>
    BY <1>5, <1>10, <2>6
  <2>7. CASE pc' = "storing" /\ IsLine(toMachine')
    <3>1. Answering'
      BY <1>2, <1>4, <1>10, <2>7 DEF Answering
    <3> QED
      BY <3>1 DEF Dialogue
  <2> QED
    BY <2>4, <2>5, <2>6, <2>7
<1> QED
  BY <1>3, <1>6, <1>7, <1>8, <1>9, <1>10 DEF Answering

\* The machine's steps keep the dialogue.
LEMMA DialogueMoves ==
  ASSUME Typed, MachineSteps, Dialogue, port = "open"
  PROVE  Dialogue'
  BY IdleWaits, DeletingMoves, AddingMoves, ShowingRegsMoves, DumpingMoves, StoringMoves,
     GoingMoves, RunningMoves, AnsweringMoves DEF Dialogue

\* A machine at rest has to be sent something.
LEMMA RestIsQuiet ==
  ASSUME Typed, MachineSteps, AtRest
  PROVE  FALSE
<1> DEFINE n == Wants[pc]
           m == Len(toMachine)
<1>1. n \in Nat
  BY Waits, SMT DEF AtRest
<1>2. Queue(toMachine, m) /\ m \in Nat
  BY QueueOf, QueueType DEF Typed
<1>3. m < n /\ TakesFromHost(n)
  BY MachineTakes DEF AtRest
<1> HIDE DEF n, m
<1>4. n <= m
  BY <1>1, <1>2, <1>3, Taken
<1> QED
  BY <1>1, <1>2, <1>3, <1>4

\* The machine's steps keep the types.
LEMMA MachineTyped ==
  ASSUME Typed, MachineSteps
  PROVE  Typed'
<1>0. /\ IsSeq(toMachine) /\ IsSeq(toHost) /\ kit \in DOMAIN Kits
      /\ data = [i \in Entry |-> data[i]] /\ tlbEntry \in [Entry -> EntryType] /\ SegmentOK(dataSeg)
  BY DEF Typed, SegmentOK
<1>1. IsSeq(toMachine')
  <2>1. CASE pc \in Reading
    <3>1. Wants[pc] \in Nat
      BY <2>1, Waits, SMT
    <3> QED
      BY <1>0, <2>1, <3>1, MachineTakes, QueueOf, Taken
  <2>2. CASE pc \notin Reading
    BY <1>0, <2>2, MachineTakes
  <2> QED
    BY <2>1, <2>2
<1>2. IsSeq(toHost')
  <2>1. \/ Boot \/ Begin \/ ShowRegs \/ ShowMem \/ ShowWord \/ Assemble \/ Echo
        \/ Execute \/ DelTLB \/ AddTLB \/ Reported \/ Alloc \/ ReadInt
        \/ ReadLine \/ StoreLine \/ Putc \/ Fault \/ Syscall \/ Return
    BY DEF MachineSteps, MonitorStep, ProgramStep
  <2>2. ASSUME NEW x, IsSeq(x), ToHost(x) PROVE IsSeq(toHost')
    BY <1>0, <2>2, Said
  <2>3. ASSUME NEW cause, NEW epc, NEW bad, Reports(cause, epc, bad) PROVE IsSeq(toHost')
    <3>1. \A v, u : Queue(<<7>> \o BytesOf(v) \o BytesOf(u), 9)
      BY LetterAndWords, Zenon
    <3>2. \A v, u : IsSeq(<<7>> \o BytesOf(v) \o BytesOf(u))
      BY <3>1, QueueType
    <3> QED
      BY <2>2, <2>3, <3>2 DEF Reports
  <2>4. \A x : IsSeq(<<x>>) /\ IsSeq(BytesOf(x))
    BY QueueOne, QueueWord, QueueType
  <2>5. CASE Boot
    <3>1. Greeting \in Seq({79, 75, 10, 13})
      BY DEF Greeting
    <3> QED
      BY <2>2, <2>5, <3>1 DEF Boot, IsSeq
  <2>6. CASE ShowRegs
    <3> DEFINE words == [i \in 1 .. 21 |-> regs[RegisterOrder[i]]]
    <3>1. Queue(words, 21)
      <4>1. words = [i \in 1 .. 21 |-> words[i]]
        OBVIOUS
      <4> HIDE DEF words
      <4> QED
        BY <4>1, QueueFunction
    <3>2. ToHost(BytesOfAll(words))
      BY <2>6 DEF ShowRegs
    <3> HIDE DEF words
    <3> QED
      BY <2>2, <3>1, <3>2, AllBytes, QueueType
  <2>7. CASE ShowWord
    BY <2>2, <2>3, <2>4, <2>7 DEF ShowWord
  <2>8. CASE Assemble
    BY <2>2, <2>3, <2>4, <2>8 DEF Assemble
  <2>9. CASE Echo
    <3> DEFINE x == BytesOf(cursor)
    <3>1. PICK S : x \in Seq(S)
      BY <2>4 DEF IsSeq
    <3>2. x # <<>>
      BY QueueWord, QueueEmpty, OneLength, QueueType
    <3>3. IsSeq(Tail(x))
      BY <3>1, <3>2, HeadTailProperties DEF IsSeq
    <3> QED
      BY <2>2, <2>9, <3>3 DEF Echo
  <2>10. CASE Putc
    BY <2>2, <2>4, <2>10 DEF Putc
  <2>11. CASE Fault
    BY <2>3, <2>11 DEF Fault
  <2>12. CASE Syscall
    <3>1. PICK call \in ProgramCalls : ToHost(<<2, call.v0>> \o CallSends(call))
      BY <2>12 DEF Syscall
    <3> DEFINE m == <<2, call.v0>> \o CallSends(call)
    <3>2. ToHost(m) /\ m = <<2, call.v0>> \o CallSends(call)
      BY <3>1
    <3> HIDE DEF m
    <3>3. IsSeq(m)
      BY <3>2, CallIsRead
    <3> QED
      BY <2>2, <3>2, <3>3
  <2>13. CASE Return
    BY <2>2, <2>4, <2>13 DEF Return
  <2>14. CASE Begin \/ ShowMem \/ Execute \/ DelTLB \/ AddTLB \/ Reported
              \/ Alloc \/ ReadInt \/ ReadLine \/ StoreLine
    BY <1>0, <2>14 DEF Begin, ShowMem, Execute, DelTLB, AddTLB, Reported, Alloc, ReadInt,
       ReadLine, StoreLine
  <2> QED
    BY <2>1, <2>5, <2>6, <2>7, <2>8, <2>9, <2>10, <2>11, <2>12, <2>13, <2>14
<1>3. data' = [i \in Entry |-> data'[i]]
  <2>1. ASSUME NEW i, NEW hi, NEW lo0, NEW lo1, Tlbwi(i, hi, lo0, lo1)
        PROVE  data' = [j \in Entry |-> data'[j]]
    <3> DEFINE k == i % NEntry
               x == set_entry(hi, lo0, lo1)
    <3>1. data' = [data EXCEPT ![k] = x]
      BY <2>1 DEF Tlbwi
    <3> HIDE DEF k, x
    <3> QED
      BY <1>0, <3>1
  <2>2. CASE pc = "deltlb"
    BY <2>1, <2>2, ByPlace DEF DelTLB
  <2>3. CASE pc = "addtlb"
    BY <2>1, <2>3, ByPlace DEF AddTLB
  <2>4. CASE pc \notin {"deltlb", "addtlb"}
    BY <1>0, <2>4, MachineFrame
  <2> QED
    BY <2>2, <2>3, <2>4
<1> QED
  BY <1>0, <1>1, <1>2, <1>3, MachineFrame DEF Typed, SegmentOK

-----------------------------------------------------------------------------
(* The machine's steps outside the dialogue.                               *)

\* The machine starts with a greeting.
LEMMA BootStarts ==
  ASSUME MachineSteps, pc = "boot"
  PROVE  pc' = "begin" /\ toMachine' = toMachine /\ data' = data /\ ToHost(Greeting)
  BY ByPlace DEF Boot

\* A monitor that waits for a letter rests.
LEMMA RestsAtBegin ==
  ASSUME pc = "begin", toMachine = <<>>
  PROVE  AtRest
  BY Waits, Nil, SMT DEF AtRest

\* The machine's steps while no session is open.
LEMMA MachineOutside ==
  ASSUME Typed, Outside, MachineSteps
  PROVE  Outside'
<1>1. at' = at /\ parted' = parted /\ tlbEntry' = tlbEntry /\ port' = port
  BY MachineFrame
<1>2. ~AtRest
  BY RestIsQuiet
<1>3. ASSUME pc = "boot", toMachine = <<>> PROVE AtRest' /\ pc' = "begin" /\ toMachine' = <<>>
  <2>1. pc' = "begin" /\ toMachine' = <<>>
    BY <1>3, BootStarts
  <2>2. AtRest'
    BY <2>1, Waits, Nil, SMT DEF AtRest
  <2> QED
    BY <2>1, <2>2
<1>4. ASSUME at = "greeting"
      PROVE pc' = "begin" /\ toHost' = Greeting /\ Fresh'
  <2>1. pc = "boot" /\ toHost = <<>> /\ Fresh /\ port = "open"
    BY <1>2, <1>4, RestsAtBegin DEF Outside, Fresh
  <2>2. pc' = "begin" /\ toMachine' = <<>> /\ data' = data /\ ToHost(Greeting)
    BY <2>1, BootStarts DEF Fresh
  <2>3. IsSeq(Greeting)
    <3>1. Greeting \in Seq({79, 75, 10, 13})
      BY DEF Greeting
    <3> QED
      BY <3>1 DEF IsSeq
  <2>4. toHost' = Greeting
    BY <2>1, <2>2, <2>3, Said, Nil, JoinedToNothing
  <2>5. Same'
    BY <1>1, <2>1, <2>2 DEF Fresh, Same
  <2> QED
    BY <2>2, <2>4, <2>5 DEF Fresh
<1>5. ASSUME at = "off", parted = "no" PROVE AtRest'
  BY <1>2, <1>3, <1>5 DEF Outside
<1>6. ~(at = "top" /\ parted = "no")
  BY <1>2 DEF Outside
<1> QED
  BY <1>1, <1>4, <1>5, <1>6 DEF Outside

\* Only a command leads to a change of the TLB.
LEMMA BeginAlone ==
  ASSUME MachineSteps, pc # "begin"
  PROVE  pc' \notin {"deltlb", "addtlb"}
<1>1. /\ (Putc => pc' = pc) /\ (Fault => pc' = "reported") /\ (Return => pc' = "begin")
  BY DEF Putc, Fault, Reports, Return, monitorVars
<1>2. Syscall => pc' \notin {"deltlb", "addtlb"}
  <2>1. \A n : CallWaits(n) \in {"alloc", "readline", "readint", "boot", "program"}
    BY WaitsOf
  <2> QED
    BY <2>1 DEF Syscall
<1>3. /\ Boot => pc' = "begin"
      /\ ShowRegs => pc' = "begin"
      /\ ShowMem => pc' = "loop"
      /\ ShowWord => pc' \in {"reported", "begin", "loop"}
      /\ Assemble => pc' \in {"reported", "echo"}
      /\ Echo => pc' = "begin"
      /\ Execute => pc' = "program"
      /\ DelTLB => pc' = "begin"
      /\ AddTLB => pc' = "begin"
      /\ Reported => pc' \in {"boot", "program"}
      /\ Alloc => pc' \in {"boot", "program"}
      /\ ReadInt => pc' = "program"
      /\ ReadLine => pc' = "storing"
      /\ StoreLine => pc' \in {"program", "storing"}
  BY DEF Boot, ShowRegs, ShowMem, ShowWord, Reports, Assemble, Echo, Execute, DelTLB, AddTLB,
         Reported, Alloc, ReadInt, ReadLine, StoreLine
<1>4. MachineSteps =>
        \/ Boot \/ Begin \/ ShowRegs \/ ShowMem \/ ShowWord \/ Assemble \/ Echo
        \/ Execute \/ DelTLB \/ AddTLB \/ Reported \/ Alloc \/ ReadInt
        \/ ReadLine \/ StoreLine \/ Putc \/ Fault \/ Syscall \/ Return
  BY DEF MachineSteps, MonitorStep, ProgramStep
<1>5. Putc => pc = "program"
  BY Guards
<1> QED
  BY <1>1, <1>2, <1>3, <1>4, <1>5, Guards

\* The machine's steps after terminal and monitor have parted.
LEMMA MachineApart ==
  ASSUME Typed, Apart, MachineSteps
  PROVE  Apart'
<1>1. at' = at /\ parted' = parted
  BY MachineFrame
<1>2. toMachine = <<>> => toMachine' = <<>>
  BY NothingTaken
<1>3. ASSUME pc = "begin", Queue(toMachine, 9), toMachine[1] \in {68, 85}
      PROVE  pc' = "showmem" /\ Queue(toMachine', 8)
  <2>1. Queue(toMachine, 8 + 1)
    BY <1>3
  <2>2. pc' = Handler(toMachine[1]) /\ Queue(toMachine', 8)
    BY <1>3, <2>1, LetterTaken
  <2> QED
    BY <1>3, <2>2, Letters
<1>4. ASSUME pc = "showmem", Queue(toMachine, 8) PROVE toMachine' = <<>>
  <2>1. TakesFromHost(8)
    BY <1>4, MachineTakes, Waits
  <2> QED
    BY <1>4, <2>1, AllTaken
<1>5. ASSUME pc = "alloc", Queue(toMachine, 4) PROVE toMachine' = <<>>
  <2>1. TakesFromHost(4)
    BY <1>5, MachineTakes, Waits
  <2> QED
    BY <1>5, <2>1, AllTaken
<1>6. ASSUME Queue(toMachine, 1), toMachine[1] = 4
      PROVE  toMachine' = <<>> \/ (Queue(toMachine', 1) /\ toMachine'[1] = 4)
  <2>1. CASE pc \notin Reading
    BY <1>6, <2>1, MachineTakes
  <2>2. CASE pc \in Reading
    <3> DEFINE n == Wants[pc]
    <3>1. n \in Nat /\ 1 <= n
      BY <2>2, Waits, SMT
    <3>2. TakesFromHost(n)
      BY <2>2, MachineTakes
    <3> HIDE DEF n
    <3>3. n <= 1
      BY <1>6, <3>1, <3>2, Taken
    <3>4. n = 1
      BY <3>1, <3>3
    <3> QED
      BY <1>6, <3>2, <3>4, AllTaken
  <2> QED
    BY <2>1, <2>2
<1>7. ASSUME parted \in {"unmapped", "restart", "exception"} PROVE Untouched'
  <2>1. Same /\ pc \notin {"deltlb", "addtlb"}
    BY <1>7 DEF Apart, Untouched
  <2>2. Same'
    BY <2>1, MachineFrame DEF Same
  <2>3. CASE pc # "begin"
    <3>1. pc' \notin {"deltlb", "addtlb"}
      BY <2>1, <2>3, BeginAlone
    <3> QED
      BY <2>2, <3>1 DEF Untouched
  <2>4. CASE pc = "begin"
    <3>1. toMachine # <<>>
      BY <2>4, NothingTaken, Waits
    <3>2. toMachine[1] \in {4, 68, 85}
      BY <1>7, <2>4, <3>1 DEF Apart
    <3>3. pc' = Handler(toMachine[1])
      BY <2>4, ByPlace DEF Begin
    <3>4. Handler(4) = "begin"
      BY SMT DEF Handler
    <3>5. pc' \notin {"deltlb", "addtlb"}
      BY <3>2, <3>3, <3>4, Letters
    <3> QED
      BY <2>2, <3>5 DEF Untouched
  <2> QED
    BY <2>3, <2>4
<1> QED
  BY <1>1, <1>2, <1>3, <1>4, <1>5, <1>6, <1>7 DEF Apart

\* The machine's steps keep the invariant.
LEMMA MachineKeeps ==
  ASSUME Inv, MachineSteps
  PROVE  Inv'
<1>1. Typed' /\ Outside' /\ Apart'
  BY MachineTyped, MachineOutside, MachineApart DEF Inv
<1>2. at' = at /\ parted' = parted
  BY MachineFrame
<1>3. ASSUME parted = "no", at \notin Away PROVE Dialogue'
  BY <1>3, DialogueMoves DEF Inv, InDialogue, Outside
<1> QED
  BY <1>1, <1>2, <1>3 DEF Inv, InDialogue

-----------------------------------------------------------------------------
(* Lost bytes.                                                             *)

\* In the dialogue, what is sent to the machine is sent where it reads.
LEMMA EmptyOrRead ==
  ASSUME Dialogue
  PROVE  pc \in Reading \/ toMachine = <<>>
  BY Waits DEF Dialogue, Idle, Quiet, Deleting, Adding, ShowingRegs, Dumping, Storing, Going,
     Running, Answering

\* Fewer bytes are on their way to the machine than would overrun its receiver.
LEMMA LittleUnread ==
  ASSUME Inv
  PROVE  NoOverrun
<1> SUFFICES ASSUME pc \notin Reading, Len(toMachine) > 1, parted # "echo" PROVE FALSE
  BY DEF NoOverrun
<1>1. toMachine # <<>>
  BY Nil
<1>2. ~Queue(toMachine, 1)
  BY DEF Queue
<1>3. parted \in {"no", "unmapped", "restart", "exception"}
  BY DEF Inv, Apart
<1>4. CASE parted = "unmapped"
  BY <1>1, <1>4, Waits DEF Inv, Apart
<1>5. CASE parted = "restart"
  BY <1>1, <1>5, Waits DEF Inv, Apart
<1>6. CASE parted = "exception"
  BY <1>1, <1>2, <1>6 DEF Inv, Apart
<1>7. CASE parted = "no" /\ at \notin Away
  BY <1>1, <1>7, EmptyOrRead DEF Inv, InDialogue
<1>8. CASE parted = "no" /\ at \in Away
  BY <1>1, <1>8, Waits DEF Inv, Outside, Away, AtRest, Fresh
<1> QED
  BY <1>3, <1>4, <1>5, <1>6, <1>7, <1>8

\* A byte is lost only where the invariant says nothing of it.
LEMMA LossKeeps ==
  ASSUME Inv, ByteLost
  PROVE  Inv'
<1>1. /\ pc \notin Reading /\ Len(toMachine) > 1 /\ toMachine' = Tail(toMachine)
      /\ at' = at /\ parted' = parted /\ tlbEntry' = tlbEntry /\ dataSeg' = dataSeg /\ kit' = kit
      /\ toHost' = toHost /\ port' = port /\ data' = data /\ pc' = pc
  BY DEF ByteLost, Overrun, monitorVars, consoleVars
<1>2. parted = "echo"
  BY <1>1, LittleUnread DEF NoOverrun
<1>3. IsSeq(toMachine')
  <2>1. PICK S : toMachine \in Seq(S)
    BY DEF Inv, Typed, IsSeq
  <2>2. toMachine # <<>>
    BY <1>1, Nil
  <2> QED
    BY <1>1, <2>1, <2>2, HeadTailProperties DEF IsSeq
<1>4. Typed'
  BY <1>1, <1>3 DEF Inv, Typed
<1>5. Outside'
  BY <1>1, <1>2 DEF Inv, Outside, Apart, Away
<1> QED
  BY <1>1, <1>2, <1>4, <1>5 DEF Inv, Apart, InDialogue

-----------------------------------------------------------------------------
(* The terminal's steps.                                                   *)

\* What the terminal never touches: the state of the machine.
LEMMA TerminalFrame ==
  ASSUME TerminalSteps
  PROVE  pc' = pc /\ data' = data /\ kit' = kit /\ tlbEntry' = tlbEntry
         /\ cursor' = cursor /\ left' = left
<1>1. ConsoleStep /\ pc' = pc /\ data' = data /\ kit' = kit /\ cursor' = cursor /\ left' = left
  BY DEF TerminalSteps, monitorVars, ghosts
<1>2. tlbEntry' = tlbEntry
  BY <1>1 DEF ConsoleStep, Greet, TakeReg, TakeWord, TakeStored, TakeLoaded, Listen, CallAlloc,
     CallLine, CallInteger, CallShow, CallString, CallHalt, CallOther, TakeCause, TakeOver, Calling
<1> QED
  BY <1>1, <1>2

\* What the terminal sends comes behind what it had sent.
LEMMA Told ==
  ASSUME NEW x, IsSeq(x), IsSeq(toMachine), ToMachine(x)
  PROVE  IsSeq(toMachine') /\ (toMachine = <<>> => toMachine' = x)
  BY Joined, JoinedToNothing DEF ToMachine

\* Types are kept by a step that leaves the TLBs alone.
LEMMA StillTyped ==
  ASSUME Typed, kit' = kit, data' = data, tlbEntry' = tlbEntry,
         IsSeq(toMachine'), IsSeq(toHost'), SegmentOK(dataSeg')
  PROVE  Typed'
  BY DEF Typed, SegmentOK

\* The parts of the types most steps need.
LEMMA TypedParts ==
  ASSUME Typed
  PROVE  /\ IsSeq(toMachine) /\ IsSeq(toHost) /\ SegmentOK(dataSeg)
         /\ Queue(toHost, Len(toHost)) /\ Queue(toMachine, Len(toMachine))
  BY QueueOf DEF Typed, SegmentOK

\* A read of the terminal keeps the type of its queue.
LEMMA HostTyped ==
  ASSUME Typed, NEW n \in Nat, TakesFromMachine(n)
  PROVE  IsSeq(toHost') /\ Len(toHost) >= n
<1>1. Queue(toHost, Len(toHost)) /\ Len(toHost) \in Nat
  BY TypedParts, QueueType
<1> QED
  BY <1>1, Received

\* With the port open, nothing is said of the time outside a session.
LEMMA InSession ==
  ASSUME at' \notin Away, port' = "open"
  PROVE  Outside'
  BY DEF Outside, Away

\* A step to the dialogue keeps the sides together.
LEMMA Together ==
  ASSUME parted' = "no", Dialogue'
  PROVE  Apart' /\ InDialogue'
  BY DEF Apart, InDialogue

\* The part of the dialogue at each place of the terminal.
LEMMA WhereWeAre ==
  ASSUME Inv
  PROVE  /\ at \notin Away => port = "open"
         /\ at = "regs" => parted = "no" /\ ShowingRegs
         /\ at = "dump" => parted \in {"no", "unmapped"} /\ (parted = "no" => Dumping)
         /\ at \in {"stored", "loading"} => parted \in {"no", "echo"} /\ (parted = "no" => Storing)
         /\ at = "typing" => parted \in {"no", "echo"} /\ (parted = "no" => Idle)
         /\ at \in {"call", "cause"} => parted = "no" /\ Running
         /\ at = "listen" => parted = "no" /\ (Going \/ Running \/ Answering)
         /\ at \in {"line", "integer"} => parted = "no" /\ Answering
         /\ at = "over" => parted = "exception"
         /\ at = "prompt" /\ parted = "no" => Idle \/ Deleting \/ Adding
         /\ (at = "greeting" \/ parted = "no") => parted = "no"
<1>1. at \notin Away => port = "open"
  BY DEF Inv, Outside
<1>2. /\ parted \in {"no", "echo", "unmapped", "restart", "exception"}
      /\ parted = "echo" => at \in {"stored", "loading", "typing", "prompt", "top", "off"}
      /\ parted = "unmapped" => at \in {"dump", "prompt", "off"}
      /\ parted = "restart" => at \in {"prompt", "off"}
      /\ parted = "exception" => at \in {"over", "prompt", "off"}
  BY DEF Inv, Apart
<1>3. parted = "no" /\ at \notin Away => Dialogue
  BY DEF Inv, InDialogue
<1>4. Dialogue => /\ at = "regs" => ShowingRegs
                  /\ at = "dump" => Dumping
                  /\ at \in {"stored", "loading"} => Storing
                  /\ at = "typing" => Idle
                  /\ at \in {"call", "cause"} => Running
                  /\ at = "listen" => Going \/ Running \/ Answering
                  /\ at \in {"line", "integer"} => Answering
                  /\ at # "over"
                  /\ at = "prompt" => Idle \/ Deleting \/ Adding
  BY DEF Dialogue, Idle, Deleting, Adding, ShowingRegs, Dumping, Storing, Going, Running, Answering
<1>5. at = "greeting" => parted = "no"
  BY DEF Inv, Outside
<1> QED
  BY <1>1, <1>2, <1>3, <1>4, <1>5 DEF Away

\* The terminal takes the greeting and shows the prompt.
LEMMA GreetKeeps ==
  ASSUME Inv, TerminalSteps, Greet
  PROVE  Inv'
<1>1. /\ at = "greeting" /\ TakesFromMachine(4) /\ at' = "prompt" /\ parted' = parted
      /\ toMachine' = toMachine /\ port' = port /\ dataSeg' = dataSeg
  BY DEF Greet
<1>2. pc' = pc /\ data' = data /\ kit' = kit /\ tlbEntry' = tlbEntry
  BY TerminalFrame
<1>3. IsSeq(toHost') /\ Len(toHost) >= 4
  BY <1>1, HostTyped DEF Inv
<1>4. toHost # <<>>
  BY <1>3, Nil
<1>5. pc = "begin" /\ toHost = Greeting /\ toMachine = <<>> /\ Same /\ parted = "no" /\ port = "open"
  BY <1>1, <1>4 DEF Inv, Outside, Fresh
<1>6. toHost' = <<>>
  <2>1. Greeting \in Seq({79, 75, 10, 13}) /\ Len(Greeting) = 4
    BY DEF Greeting
  <2>2. Queue(toHost, 4)
    BY <1>5, <2>1 DEF Queue, IsSeq
  <2> QED
    BY <1>1, <2>2, Received, LeftQueue
<1>7. Same' /\ Idle'
  BY <1>1, <1>2, <1>5, <1>6 DEF Idle, Quiet, Same
<1>8. Typed'
  BY <1>1, <1>2, <1>3, StillTyped, TypedParts DEF Inv
<1>9. Outside'
  BY <1>1, <1>5, InSession DEF Away
<1> QED
  BY <1>1, <1>5, <1>7, <1>8, <1>9, Together DEF Dialogue, Inv

\* R: the terminal takes one register of the reply.
LEMMA TakeRegKeeps ==
  ASSUME Inv, TerminalSteps, TakeReg
  PROVE  Inv'
<1>1. /\ at = "regs" /\ TakesFromMachine(4) /\ parted' = parted /\ count' = count + 1
      /\ at' = (IF count' = 21 THEN "prompt" ELSE "regs")
      /\ toMachine' = toMachine /\ port' = port /\ dataSeg' = dataSeg
  BY DEF TakeReg
<1>2. pc' = pc /\ data' = data /\ kit' = kit /\ tlbEntry' = tlbEntry
  BY TerminalFrame
<1>3. IsSeq(toHost') /\ Len(toHost) >= 4
  BY <1>1, HostTyped DEF Inv
<1>4. toHost # <<>>
  BY <1>3, Nil
<1>5. parted = "no" /\ ShowingRegs /\ port = "open"
  BY <1>1, WhereWeAre DEF Away
<1>6. /\ Same /\ count \in Nat /\ count < 21
      /\ pc = "begin" /\ toMachine = <<>> /\ Queue(toHost, 84 - 4 * count)
  BY <1>4, <1>5 DEF ShowingRegs
<1>7. Queue(toHost', 84 - 4 * count') /\ Same'
  <2> DEFINE n == 84 - 4 * count
             m == 84 - 4 * count'
  <2>1. m = n - 4
    BY <1>1, <1>6, SMT
  <2>2. Queue(toHost, n)
    BY <1>6
  <2> HIDE DEF n, m
  <2>3. Queue(toHost', m)
    BY <1>1, <2>1, <2>2, Received, LeftQueue
  <2> QED
    BY <1>2, <1>6, <2>3 DEF Same, m
<1>8. CASE count' = 21
  <2>1. 84 - 4 * count' = 0
    BY <1>8
  <2>2. toHost' = <<>>
    BY <1>3, <1>7, <2>1, QueueEmpty
  <2>3. Idle'
    BY <1>1, <1>2, <1>6, <1>7, <1>8, <2>2 DEF Idle, Quiet
  <2> QED
    BY <2>3, <1>1, <1>5, <1>8, <1>2, <1>3, StillTyped, TypedParts, InSession, Together
    DEF Inv, Away, Dialogue
<1>9. CASE count' # 21
  <2>1. count' \in Nat /\ count' < 21
    BY <1>1, <1>6, <1>9
  <2>2. ShowingRegs'
    BY <1>1, <1>2, <1>6, <1>7, <1>9, <2>1 DEF ShowingRegs
  <2> QED
    BY <2>2, <1>1, <1>5, <1>9, <1>2, <1>3, StillTyped, TypedParts, InSession, Together
    DEF Inv, Away, Dialogue
<1> QED
  BY <1>8, <1>9

\* D and U: the terminal takes one word of the reply.
LEMMA TakeWordKeeps ==
  ASSUME Inv, TerminalSteps, TakeWord
  PROVE  Inv'
<1>1. /\ at = "dump" /\ TakesFromMachine(4) /\ parted' = parted /\ count' = count - 1
      /\ addr' = Plus(addr, 4)
      /\ at' = (IF count' = 0 THEN "prompt" ELSE "dump")
      /\ toMachine' = toMachine /\ port' = port /\ dataSeg' = dataSeg
  BY DEF TakeWord
<1>2. pc' = pc /\ data' = data /\ kit' = kit /\ tlbEntry' = tlbEntry
      /\ cursor' = cursor /\ left' = left
  BY TerminalFrame
<1>3. IsSeq(toHost') /\ Len(toHost) >= 4
  BY <1>1, HostTyped DEF Inv
<1>4. toHost # <<>>
  BY <1>3, Nil
<1>5. /\ port = "open" /\ parted \in {"no", "unmapped"} /\ (parted = "no" => Dumping)
      /\ at' \in {"prompt", "dump"}
  BY <1>1, WhereWeAre DEF Away
<1>6. Typed'
  BY <1>1, <1>2, <1>3, StillTyped, TypedParts DEF Inv
<1>7. Outside'
  BY <1>1, <1>5, InSession DEF Away
<1>8. CASE parted = "unmapped"
  <2>1. Apart'
    BY <1>1, <1>2, <1>5, <1>8 DEF Inv, Apart, Untouched, Same
  <2> QED
    BY <1>1, <1>6, <1>7, <1>8, <2>1 DEF Inv, InDialogue
<1>9. CASE parted = "no"
  <2>1. /\ Same /\ toMachine = <<>> /\ addr \in Word /\ count \in Nat \ {0} /\ Counted /\ Mapped
        /\ \/ /\ pc = "loop" /\ left \in Nat \ {0} /\ left <= count
              /\ Queue(toHost, 4 * (count - left)) /\ cursor = Plus(addr, 4 * (count - left))
           \/ pc = "begin" /\ Queue(toHost, 4 * count)
    BY <1>4, <1>5, <1>9 DEF Dumping, Counted
  <2>2. Same'
    BY <1>2, <2>1 DEF Same
  <2>3. ASSUME NEW n \in Nat, Queue(toHost, 4 * n)
        PROVE  1 <= n /\ Queue(toHost', 4 * (n - 1))
    <3>1. 4 <= 4 * n /\ Left(toHost', toHost, 4 * n, 4)
      BY <1>1, <2>3, Received
    <3>2. 4 * (n - 1) = 4 * n - 4
      BY <2>3, SMT
    <3> QED
      BY <3>1, <3>2, LeftQueue
  <2>4. CASE pc = "begin" /\ Queue(toHost, 4 * count) /\ count' = 0
    <3>1. count = 1
      BY <1>1, <2>1, <2>4
    <3>2. Queue(toHost', 4 * (count - 1))
      BY <2>1, <2>3, <2>4
    <3>3. toHost' = <<>>
      BY <3>1, <3>2, QueueEmpty, QueueType
    <3>4. Idle'
      BY <1>1, <1>2, <2>1, <2>2, <2>4, <3>3 DEF Idle, Quiet
    <3> QED
      BY <3>4, <1>1, <1>9, <1>6, <1>7, Together DEF Inv, Dialogue
  <2>5. ASSUME count' # 0,
               \/ /\ pc = "loop" /\ left \in Nat \ {0} /\ left <= count'
                  /\ Queue(toHost', 4 * (count' - left)) /\ cursor = Plus(addr', 4 * (count' - left))
               \/ pc = "begin" /\ Queue(toHost', 4 * count')
        PROVE  Inv'
    <3>1. count' \in Nat \ {0} /\ count' <= 2147483647
      BY <1>1, <2>1, <2>5, SMT DEF Counted
    <3>2. addr' \in Word
      BY <1>1, <2>1, PlusType
    <3>3. ASSUME NEW i \in 0 .. count' - 1 PROVE visitable(tlbEntry', Plus(addr', 4 * i))
      <4>1. i + 1 \in 0 .. count - 1 /\ 4 * i \in Nat /\ 4 * (i + 1) = 4 + 4 * i
        BY <1>1, <2>1, SMT
      <4>2. Plus(addr', 4 * i) = Plus(addr, 4 * (i + 1))
        BY <1>1, <2>1, <4>1, PlusPlus
      <4>3. \A j \in 0 .. count - 1 : visitable(tlbEntry, Plus(addr, 4 * j))
        BY <2>1 DEF Mapped
      <4>4. visitable(tlbEntry, Plus(addr, 4 * (i + 1)))
        BY <4>1, <4>3
      <4> QED
        BY <1>2, <4>2, <4>4
    <3>4. at' = "dump" /\ toMachine' = <<>>
      BY <1>1, <2>1, <2>5
    <3> DEFINE Sending == /\ pc = "loop" /\ toMachine = <<>> /\ left \in Nat \ {0} /\ left <= count
                          /\ Queue(toHost, 4 * (count - left)) /\ cursor = Plus(addr, 4 * (count - left))
               Sent == pc = "begin" /\ toMachine = <<>> /\ Queue(toHost, 4 * count)
    <3>5. Mapped' /\ Counted'
      <4>1. Mapped'
        BY <3>3 DEF Mapped
      <4>2. Counted'
        BY <3>1, SMT DEF Counted
      <4> QED
        BY <4>1, <4>2
    <3>6. Sending' \/ Sent'
      BY <1>2, <2>5, <3>4
    <3>7. Dumping'
      BY <2>2, <3>2, <3>4, <3>5, <3>6, SMT DEF Dumping
    <3> QED
      BY <3>7, <1>1, <1>9, <1>6, <1>7, Together DEF Inv, Dialogue
  <2>6. CASE pc = "begin" /\ Queue(toHost, 4 * count) /\ count' # 0
    <3>1. Queue(toHost', 4 * count')
      BY <1>1, <2>1, <2>3, <2>6
    <3> QED
      BY <2>5, <2>6, <3>1
  <2>7. CASE pc = "loop" /\ left \in Nat \ {0} /\ left <= count
             /\ Queue(toHost, 4 * (count - left)) /\ cursor = Plus(addr, 4 * (count - left))
    <3> DEFINE n == count - left
    <3>1. n \in Nat /\ Queue(toHost, 4 * n) /\ cursor = Plus(addr, 4 * n)
      BY <2>1, <2>7
    <3>2. 1 <= n /\ Queue(toHost', 4 * (n - 1))
      BY <2>3, <3>1
    <3>3. count' - left = n - 1 /\ left <= count' /\ count' # 0
          /\ n - 1 \in Nat /\ 4 * (n - 1) \in Nat /\ 4 + 4 * (n - 1) = 4 * n
      BY <1>1, <2>1, <2>7, <3>2
    <3> HIDE DEF n
    <3>4. Plus(addr', 4 * (n - 1)) = Plus(addr, 4 * n)
      BY <1>1, <2>1, <3>3, PlusPlus
    <3> QED
      BY <2>5, <2>7, <3>1, <3>2, <3>3, <3>4
  <2> QED
    BY <2>1, <2>4, <2>6, <2>7
<1> QED
  BY <1>5, <1>8, <1>9

\* A word sent with its bytes reversed has four.
LEMMA ReversedWord ==
  ASSUME NEW w
  PROVE  Queue(SendReverse(w), 4)
<1> DEFINE q == BytesOf(w)
           r == Reverse(q)
<1>1. Len(q) = 4
  BY QueueWord DEF Queue
<1> HIDE DEF q
<1>2. r = [i \in 1 .. 4 |-> r[i]] /\ 4 \in Nat
  BY <1>1 DEF Reverse
<1> HIDE DEF r
<1>3. Queue(r, 4)
  BY <1>2, QueueFunction
<1> QED
  BY <1>3 DEF SendReverse, q, r

\* The message of A.
StoreWord(a, bytes) == <<65>> \o BytesOf(a) \o bytes

\* The message of A is nine bytes behind its letter.
LEMMA StoreWordIs ==
  ASSUME NEW a, NEW bytes, Queue(bytes, 4)
  PROVE  Queue(StoreWord(a, bytes), 9) /\ StoreWord(a, bytes)[1] = 65
<1> DEFINE m == StoreWord(a, bytes)
           letter == 65
<1>1. m = <<letter>> \o BytesOf(a) \o bytes
  BY DEF StoreWord
<1> HIDE DEF m, letter
<1>2. Queue(m, 9) /\ m[1] = letter
  BY <1>1, StoreMessage
<1> QED
  BY <1>2 DEF m, letter

\* What a line of assembled code sends.
LEMMA SentByA ==
  ASSUME NEW a, NEW bytes, SendA(a, bytes)
  PROVE  ToMachine(StoreWord(a, bytes))
  BY DEF SendA, StoreWord

\* A and LOAD: the terminal takes the word sent back, or mistakes it.
LEMMA EchoKeeps ==
  ASSUME Inv, TerminalSteps, TakeStored \/ TakeLoaded
  PROVE  Inv'
<1> DEFINE Goes(x) == /\ parted' = "echo" /\ dataSeg' = dataSeg /\ TakesFromMachine(1)
                      /\ at \in {"stored", "loading"}
                      /\ \/ at' = "top" /\ port' = "leaked"
                         \/ at' \in {"prompt", "typing", "stored", "loading"} /\ port' = port
                      /\ toMachine' = toMachine \/ (IsSeq(x) /\ ToMachine(x))
<1>1. \A a, w : /\ IsSeq(StoreWord(a, BytesOf(w)))
                /\ IsSeq(StoreWord(a, SendReverse(w)))
  BY QueueWord, ReversedWord, StoreWordIs, QueueType
<1>4. \E x : Goes(x)
  <2>1. CASE TakeStored
    BY <1>1, <2>1, SentByA DEF TakeStored, Fails, Returns
  <2>2. CASE TakeLoaded
    BY <1>1, <2>2, SentByA DEF TakeLoaded, Fails, Returns
  <2> QED
    BY <2>1, <2>2
<1>5. PICK x : Goes(x)
  BY <1>4
<1>6. IsSeq(toMachine')
  BY <1>5, Told, TypedParts DEF Inv
<1>7. IsSeq(toHost')
  BY <1>5, HostTyped DEF Inv
<1>8. Typed'
  BY <1>5, <1>6, <1>7, TerminalFrame, StillTyped, TypedParts DEF Inv
<1>9. at \notin Away => port = "open"
  BY WhereWeAre
<1>10. Outside'
  BY <1>5, <1>9 DEF Outside, Away
<1> QED
  BY <1>5, <1>8, <1>10 DEF Inv, Apart, InDialogue

-----------------------------------------------------------------------------
(* The steps of the terminal while a program runs.                         *)

\* The program has spoken, so that it runs.
LEMMA Silent ==
  ASSUME Inv, at = "listen", toHost # <<>>
  PROVE  Running
  BY WhereWeAre DEF Going, Answering

\* The reader is not stuck where it ends.
LEMMA EndsSomewhere ==
  ASSUME NEW t, NEW c, c \in Ends(t)
  PROVE  t # "stuck"
  BY EndsAre

\* A step that takes the first n bytes of what a program says.
LEMMA SaysRest ==
  ASSUME Typed, NEW f, NEW l, Run(f, toHost, l), NEW n \in Nat, TakesFromMachine(n),
         pc \in Ends(f[Len(toHost)]), pc' = pc
  PROVE  Says(f[n], toHost', pc')
<1>1. IsSeq(toHost) /\ n <= Len(toHost) /\ toHost' = SubSeq(toHost, n + 1, Len(toHost))
  BY TypedParts, HostTyped DEF TakesFromMachine
<1>2. Reads(toHost', f[n], f[Len(toHost)])
  BY <1>1, ReadsRest
<1> QED
  BY <1>2 DEF Says

\* Taking one byte moves the reader by it.
LEMMA SaysNext ==
  ASSUME Typed, Running, TakesFromMachine(1), pc' = pc
  PROVE  Says(Step(at, toHost[1]), toHost', pc')
<1>1. IsSeq(toHost) /\ Len(toHost) >= 1 /\ toHost' = SubSeq(toHost, 2, Len(toHost))
  BY TypedParts, HostTyped DEF TakesFromMachine
<1>2. PICK t : pc \in Ends(t) /\ Reads(toHost, at, t)
  BY DEF Running, Says
<1>3. Reads(toHost', Step(at, toHost[1]), t)
  BY <1>1, <1>2, ReadsByte
<1> QED
  BY <1>2, <1>3 DEF Says

\* Behind a message that asks for an answer there is nothing.
LEMMA SaysLast ==
  ASSUME NEW q, IsSeq(q), NEW l \in {"line", "integer", "done"}, NEW c, Says(l, q, c)
  PROVE  q = <<>> /\ c \in Ends(l)
<1>1. PICK t : c \in Ends(t) /\ Reads(q, l, t)
  BY DEF Says
<1>2. t # "stuck"
  BY <1>1, EndsSomewhere
<1> QED
  BY <1>1, <1>2, NothingFollows

\* The byte taken.
LEMMA HeadIs ==
  ASSUME Typed, TakesFromMachine(1)
  PROVE  Head(toHost) = toHost[1] /\ toHost # <<>>
<1>1. Len(toHost) >= 1
  BY HostTyped
<1>2. toHost # <<>>
  BY <1>1, Nil
<1>3. PICK S : toHost \in Seq(S)
  BY DEF Typed, IsSeq
<1> QED
  BY <1>2, <1>3

\* G: the terminal takes one byte of a running program.
LEMMA ListenKeeps ==
  ASSUME Inv, TerminalSteps, Listen
  PROVE  Inv'
<1> DEFINE b == Head(toHost)
<1>1. /\ at = "listen" /\ TakesFromMachine(1) /\ parted' = parted
      /\ toMachine' = toMachine /\ port' = port /\ dataSeg' = dataSeg
      /\ b = 4 => at' = "prompt"
      /\ b = 7 => at' = "cause"
      /\ b = 2 => at' = "call"
      /\ b \notin {2, 4, 7} => at' = "listen"
  BY DEF Listen
<1>2. pc' = pc /\ data' = data /\ kit' = kit /\ tlbEntry' = tlbEntry
  BY TerminalFrame
<1>3. IsSeq(toHost') /\ toHost # <<>> /\ b = toHost[1] /\ Typed
  BY <1>1, HostTyped, HeadIs DEF Inv
<1>4. Running /\ parted = "no" /\ port = "open"
  BY <1>1, <1>3, Silent, WhereWeAre DEF Away
<1>5. Says(Step("listen", b), toHost', pc')
  BY <1>1, <1>2, <1>3, <1>4, SaysNext
<1>6. Same' /\ toMachine' = <<>>
  BY <1>1, <1>2, <1>4 DEF Running, Same
<1> HIDE DEF b
<1>7. at' \in {"prompt", "cause", "call", "listen"}
  BY <1>1
<1>8. Dialogue'
  <2>1. CASE b = 4
    <3>1. toHost' = <<>> /\ pc' \in Ends("done")
      BY <1>3, <1>5, <2>1, FromListen, SaysLast
    <3>2. Idle'
      BY <1>1, <1>6, <2>1, <3>1, EndsAre DEF Idle, Quiet
    <3> QED
      BY <3>2 DEF Dialogue
  <2>2. CASE b # 4
    <3>1. at' = Step("listen", b)
      BY <1>1, <2>2, FromListen
    <3>2. at' \in {"listen", "call", "cause"}
      BY <1>1, <2>2
    <3>3. Running'
      BY <1>5, <1>6, <3>1, <3>2 DEF Running
    <3> QED
      BY <3>3 DEF Dialogue
  <2> QED
    BY <2>1, <2>2
<1>9. Typed' /\ Outside'
  BY <1>1, <1>2, <1>3, <1>4, <1>7, StillTyped, TypedParts, InSession DEF Inv, Away
<1> QED
  BY <1>1, <1>4, <1>8, <1>9, Together DEF Inv

\* A running program changes no TLB.
LEMMA RunsUntouched ==
  ASSUME Running
  PROVE  Untouched
<1>1. PICK t : pc \in Ends(t)
  BY DEF Running, Says
<1>2. Ends(t) \subseteq {"program", "alloc", "readline", "readint", "boot", "begin", "reported"}
  BY DEF Ends
<1> QED
  BY <1>1, <1>2 DEF Running, Untouched

\* An exception: the terminal takes its cause and asks no more of the program.
LEMMA CauseKeeps ==
  ASSUME Inv, TerminalSteps, TakeCause \/ TakeOver
  PROVE  Inv'
<1>1. pc' = pc /\ data' = data /\ kit' = kit /\ tlbEntry' = tlbEntry
  BY TerminalFrame
<1>2. /\ at \in {"cause", "over"} /\ at' \in {"over", "prompt"} /\ parted' = "exception"
      /\ port' = port /\ dataSeg' = dataSeg /\ TakesFromMachine(4)
      /\ (toMachine' = toMachine /\ parted = "exception") \/ (toMachine = <<>> /\ ToMachine(<<4>>))
  <2>1. CASE TakeCause
    BY <2>1, WhereWeAre DEF TakeCause, Running
  <2>2. CASE TakeOver
    BY <2>2, WhereWeAre DEF TakeOver
  <2> QED
    BY <2>1, <2>2
<1>3. IsSeq(toMachine') /\ (toMachine' = <<>> \/ (Queue(toMachine', 1) /\ toMachine'[1] = 4))
  <2>1. CASE toMachine' = toMachine /\ parted = "exception"
    BY <2>1, TypedParts DEF Inv, Apart
  <2>2. CASE toMachine = <<>> /\ ToMachine(<<4>>)
    <3>1. Queue(<<4>>, 1) /\ <<4>>[1] = 4
      BY QueueOne
    <3>2. toMachine' = <<4>>
      BY <2>2, <3>1, Told, QueueType, TypedParts DEF Inv
    <3> QED
      BY <3>1, <3>2, QueueType
  <2> QED
    BY <1>2, <2>1, <2>2
<1>4. Typed'
  BY <1>1, <1>2, <1>3, HostTyped, StillTyped, TypedParts DEF Inv
<1>5. Outside'
  BY <1>2, WhereWeAre, InSession DEF Away
<1>6. Untouched'
  <2>1. Untouched
    <3>1. CASE at = "cause"
      <4>1. Running
        BY <3>1, WhereWeAre
      <4> QED
        BY <4>1, RunsUntouched
    <3>2. CASE at = "over"
      BY <3>2, WhereWeAre DEF Inv, Apart
    <3> QED
      BY <1>2, <3>1, <3>2
  <2> QED
    BY <1>1, <2>1 DEF Untouched, Same
<1> QED
  BY <1>2, <1>3, <1>4, <1>5, <1>6 DEF Inv, Apart, InDialogue

\* What a call of the program leaves alone, and where the reader is behind its
\* number.
LEMMA CallFrame ==
  ASSUME Inv, TerminalSteps, NEW n, NEW k \in Nat, Calling(n, k)
  PROVE  /\ at = "call" /\ parted = "no" /\ port' = "open" /\ toMachine = <<>> /\ Same'
         /\ pc' = pc /\ data' = data /\ kit' = kit /\ tlbEntry' = tlbEntry
         /\ toHost # <<>> /\ Head(toHost) = n /\ toHost[1] = n /\ TakesFromMachine(1 + k)
         /\ IsSeq(toHost') /\ Len(toHost) >= 1 + k
         /\ Running /\ Typed
<1>1. /\ at = "call" /\ toHost # <<>> /\ Head(toHost) = n /\ TakesFromMachine(1 + k)
      /\ port' = port
  BY DEF Calling
<1>2. Typed
  BY DEF Inv
<1>3. IsSeq(toHost') /\ Len(toHost) >= 1 + k
  BY <1>1, <1>2, HostTyped
<1>4. toHost[1] = n
  <2>1. PICK S : toHost \in Seq(S)
    BY <1>2 DEF Typed, IsSeq
  <2> QED
    BY <1>1, <2>1
<1>5. parted = "no" /\ port = "open" /\ Running
  BY <1>1, WhereWeAre DEF Away
<1>6. toMachine = <<>> /\ Same
  BY <1>5 DEF Running
<1>7. pc' = pc /\ data' = data /\ kit' = kit /\ tlbEntry' = tlbEntry
  BY TerminalFrame
<1>8. Same'
  BY <1>6, <1>7 DEF Same
<1> QED
  BY <1>1, <1>2, <1>3, <1>4, <1>5, <1>6, <1>7, <1>8

\* A call that leaves the session as it should be.
LEMMA CallDone ==
  ASSUME Typed, pc' = pc, data' = data, kit' = kit, tlbEntry' = tlbEntry,
         IsSeq(toHost'), IsSeq(toMachine'), SegmentOK(dataSeg'), port' = "open",
         at' \notin Away, parted' = "no", Dialogue'
  PROVE  Inv'
  BY StillTyped, InSession, Together DEF Inv

\* A call with a number the terminal does not know.
LEMMA CallOtherKeeps ==
  ASSUME Inv, TerminalSteps, CallOther
  PROVE  Inv'
<1>1. PICK n \in {4} \union 9 .. 255 : Calling(n, 0)
  BY DEF CallOther
<1>2. at' = "listen" /\ dataSeg' = dataSeg /\ parted' = parted /\ toMachine' = toMachine
  BY DEF CallOther
<1>3. /\ at = "call" /\ parted = "no" /\ port' = "open" /\ toMachine = <<>> /\ Same'
      /\ pc' = pc /\ data' = data /\ kit' = kit /\ tlbEntry' = tlbEntry
      /\ toHost[1] = n /\ TakesFromMachine(1) /\ IsSeq(toHost') /\ Running /\ Typed
  BY <1>1, CallFrame
<1>4. n \notin {1, 2, 3, 5, 6, 7, 8}
  BY <1>1
<1>5. Says("listen", toHost', pc')
  BY <1>3, <1>4, SaysNext, FromCall
<1>6. Running'
  BY <1>2, <1>3, <1>5 DEF Running
<1> QED
  BY <1>2, <1>3, <1>6, CallDone, TypedParts DEF Dialogue, Away

\* The call that reads a line.
LEMMA CallLineKeeps ==
  ASSUME Inv, TerminalSteps, CallLine
  PROVE  Inv'
<1>1. /\ Calling(2, 0) /\ at' = "line" /\ dataSeg' = dataSeg /\ parted' = parted
      /\ ToMachine(BytesOf(dataSeg))
  BY DEF CallLine
<1>3. /\ at = "call" /\ parted = "no" /\ port' = "open" /\ toMachine = <<>> /\ Same'
      /\ pc' = pc /\ data' = data /\ kit' = kit /\ tlbEntry' = tlbEntry
      /\ toHost[1] = 2 /\ TakesFromMachine(1) /\ IsSeq(toHost') /\ Running /\ Typed
  BY <1>1, CallFrame
<1>4. Says("line", toHost', pc)
  BY <1>3, SaysNext, FromCall
<1>5. toHost' = <<>> /\ pc = "readline"
  BY <1>3, <1>4, SaysLast, EndsAre
<1>6. Queue(toMachine', 4) /\ IsSeq(toMachine')
  BY <1>1, <1>3, QueueWord, QueueType, Told, Nil
<1>7. Answering'
  BY <1>1, <1>3, <1>5, <1>6 DEF Answering
<1> QED
  BY <1>1, <1>3, <1>6, <1>7, CallDone, TypedParts DEF Dialogue, Away

\* The call that reads an integer.
LEMMA CallIntegerKeeps ==
  ASSUME Inv, TerminalSteps, CallInteger
  PROVE  Inv'
<1>1. /\ Calling(3, 0) /\ at' = "integer" /\ dataSeg' = dataSeg /\ parted' = parted
      /\ toMachine' = toMachine
  BY DEF CallInteger
<1>3. /\ at = "call" /\ parted = "no" /\ port' = "open" /\ toMachine = <<>> /\ Same'
      /\ pc' = pc /\ data' = data /\ kit' = kit /\ tlbEntry' = tlbEntry
      /\ toHost[1] = 3 /\ TakesFromMachine(1) /\ IsSeq(toHost') /\ Running /\ Typed
  BY <1>1, CallFrame
<1>4. Says("integer", toHost', pc)
  BY <1>3, SaysNext, FromCall
<1>5. toHost' = <<>> /\ pc = "readint"
  BY <1>3, <1>4, SaysLast, EndsAre
<1>7. Answering'
  BY <1>1, <1>3, <1>5 DEF Answering
<1> QED
  BY <1>1, <1>3, <1>7, CallDone, TypedParts DEF Dialogue, Away

\* The call that ends the program and starts the machine again.
LEMMA CallHaltKeeps ==
  ASSUME Inv, TerminalSteps, CallHalt
  PROVE  Inv'
<1>1. /\ Calling(8, 0) /\ at' = "prompt" /\ dataSeg' = dataSeg /\ parted' = "restart"
      /\ toMachine' = toMachine
  BY DEF CallHalt
<1>2. /\ port' = "open" /\ toMachine = <<>> /\ data' = data /\ kit' = kit /\ tlbEntry' = tlbEntry
      /\ IsSeq(toHost') /\ Typed /\ Running /\ pc' = pc
  BY <1>1, CallFrame
<1>5. Untouched'
  BY <1>2, RunsUntouched, TerminalFrame DEF Untouched, Same
<1>3. Typed'
  BY <1>1, <1>2, StillTyped, TypedParts
<1>4. Outside'
  BY <1>1, <1>2, InSession DEF Away
<1> QED
  BY <1>1, <1>2, <1>3, <1>4, <1>5 DEF Inv, Apart, InDialogue

\* The call that asks for memory: the terminal answers with an address.
LEMMA CallAllocKeeps ==
  ASSUME Inv, TerminalSteps, CallAlloc
  PROVE  Inv'
<1> DEFINE size == NumberOf(WordAt(toHost, 2))
           next == Plus(dataSeg, size)
<1>1. /\ Calling(1, 4)
      /\ \/ /\ Less(next, DataEnd) /\ ToMachine(BytesOf(dataSeg)) /\ dataSeg' = next
            /\ at' = "listen" /\ parted' = parted
         \/ /\ ToMachine(BytesOf(Refused)) /\ at' = "prompt" /\ parted' = "restart"
            /\ dataSeg' = dataSeg
  BY DEF CallAlloc
<1>2. /\ at = "call" /\ parted = "no" /\ port' = "open" /\ toMachine = <<>> /\ Same'
      /\ pc' = pc /\ data' = data /\ kit' = kit /\ tlbEntry' = tlbEntry
      /\ toHost[1] = 1 /\ TakesFromMachine(5) /\ IsSeq(toHost') /\ Running /\ Typed
      /\ Len(toHost) >= 5 /\ IsSeq(toHost)
  BY <1>1, CallFrame, TypedParts
<1>3. PICK t : pc \in Ends(t) /\ Reads(toHost, "call", t)
  BY <1>2 DEF Running, Says
<1>4. t # "stuck"
  BY <1>3, EndsSomewhere
<1>5. /\ Queue(toHost, 5) /\ t = "alloc"
      /\ toHost[2] \in Nat /\ toHost[3] \in Nat /\ toHost[4] \in Nat
      /\ toHost[2] < 256 /\ toHost[3] < 256 /\ toHost[4] < 256 /\ toHost[5] = 0
  BY <1>2, <1>3, <1>4, SizeRead
<1>6. size \in Nat /\ size < 16777216
  BY <1>5, SizeIs
<1>7. pc = "alloc"
  BY <1>3, <1>5, EndsAre
<1>8. toHost' = <<>>
  <2>1. Left(toHost', toHost, 5, 5) /\ 0 = 5 - 5
    BY <1>2, <1>5, Received
  <2> QED
    BY <2>1, LeftQueue
<1>9. Queue(toMachine', 4) /\ IsSeq(toMachine')
      /\ toMachine' \in {BytesOf(dataSeg), BytesOf(Refused)}
  BY <1>1, <1>2, QueueWord, QueueType, Told, Nil
<1>10. CASE /\ Less(next, DataEnd) /\ ToMachine(BytesOf(dataSeg)) /\ dataSeg' = next
            /\ at' = "listen" /\ parted' = parted
  <2>1. SegmentOK(dataSeg)
    BY <1>2, TypedParts
  <2>2. next.hi < 45000
    <3>1. next \in Word /\ DataEnd \in Word /\ DataEnd.hi < 40960
      BY <1>6, <2>1, PlusType, SessionAssumption DEF SegmentOK
    <3> HIDE DEF next
    <3> QED
      BY <1>10, <3>1, Halves, SMT DEF Less
  <2>3. SegmentOK(next)
    <3> HIDE DEF size
    <3> QED
      BY <1>6, <2>1, <2>2, SegmentGrows, SMT
  <2>4. dataSeg # AllocFailed
    BY <2>1, SMT DEF SegmentOK, Less, Refused, AllocFailed
  <2>5. toMachine' = BytesOf(dataSeg)
    BY <1>2, <1>10, QueueWord, QueueType, Told, Nil
  <2>6. Carries(toMachine', 1, dataSeg)
    BY <2>5, OwnBytes
  <2>7. Answering'
    BY <1>2, <1>7, <1>8, <1>9, <1>10, <2>1, <2>4, <2>6 DEF Answering, SegmentOK
  <2> QED
    BY <1>2, <1>8, <1>9, <1>10, <2>3, <2>7, CallDone DEF Dialogue, Away
<1>11. CASE /\ ToMachine(BytesOf(Refused)) /\ at' = "prompt" /\ parted' = "restart"
            /\ dataSeg' = dataSeg
  <2>1. Typed'
    BY <1>2, <1>8, <1>9, <1>11, StillTyped, TypedParts
  <2>2. Outside'
    BY <1>2, <1>11, InSession DEF Away
  <2>3. Untouched'
    BY <1>2, <1>7 DEF Untouched
  <2> QED
    BY <1>2, <1>7, <1>9, <1>11, <2>1, <2>2, <2>3 DEF Inv, Apart, InDialogue
<1> QED
  BY <1>1, <1>10, <1>11

\* The reader inside a number and inside a string.
LEMMA ReadsOnAre ==
  /\ Step("call", 5) = "n4" /\ Step("call", 7) = "n4" /\ Step("call", 6) = "string"
  /\ \A b : Step("n4", b) = "n3" /\ Step("n3", b) = "n2" /\ Step("n2", b) = "n1"
            /\ Step("n1", b) = "listen"
  /\ Step("string", 0) = "listen" /\ \A b : b # 0 => Step("string", b) = "string"
  BY DEF Step, ReadsOn

\* The calls that print a number.
LEMMA CallShowKeeps ==
  ASSUME Inv, TerminalSteps, CallShow
  PROVE  Inv'
<1>1. PICK n \in {5, 7} : Calling(n, 4)
  BY DEF CallShow
<1>2. at' = "listen" /\ dataSeg' = dataSeg /\ parted' = parted /\ toMachine' = toMachine
  BY DEF CallShow
<1>3. /\ at = "call" /\ parted = "no" /\ port' = "open" /\ toMachine = <<>> /\ Same'
      /\ pc' = pc /\ data' = data /\ kit' = kit /\ tlbEntry' = tlbEntry
      /\ toHost[1] = n /\ TakesFromMachine(5) /\ IsSeq(toHost') /\ Running /\ Typed
      /\ Len(toHost) >= 5 /\ Len(toHost) \in Nat
  BY <1>1, CallFrame, TypedParts, QueueType
<1>4. PICK t : pc \in Ends(t) /\ Reads(toHost, "call", t)
  BY <1>3 DEF Running, Says
<1>5. PICK f : Run(f, toHost, "call") /\ f[Len(toHost)] = t
  BY <1>4 DEF Reads
<1>6. f[5] = "listen"
  <2>1. \A k \in 1 .. Len(toHost) : f[k] = Step(f[k - 1], toHost[k])
    BY <1>5 DEF Run
  <2>2. /\ f[1] = Step(f[0], toHost[1]) /\ f[2] = Step(f[1], toHost[2])
        /\ f[3] = Step(f[2], toHost[3]) /\ f[4] = Step(f[3], toHost[4])
        /\ f[5] = Step(f[4], toHost[5])
    <3>1. 1 \in 1 .. Len(toHost) /\ 2 \in 1 .. Len(toHost) /\ 3 \in 1 .. Len(toHost)
          /\ 4 \in 1 .. Len(toHost) /\ 5 \in 1 .. Len(toHost)
      BY <1>3
    <3>2. 1 - 1 = 0 /\ 2 - 1 = 1 /\ 3 - 1 = 2 /\ 4 - 1 = 3 /\ 5 - 1 = 4
      OBVIOUS
    <3> QED
      BY <2>1, <3>1, <3>2
  <2>3. f[0] = "call"
    BY <1>5 DEF Run
  <2>4. f[1] = "n4"
    BY <1>3, <2>2, <2>3, ReadsOnAre
  <2> QED
    BY <2>2, <2>4, ReadsOnAre
<1>7. Says("listen", toHost', pc')
  BY <1>3, <1>4, <1>5, <1>6, SaysRest
<1>8. Running'
  BY <1>2, <1>3, <1>7 DEF Running
<1> QED
  BY <1>2, <1>3, <1>8, CallDone, TypedParts DEF Dialogue, Away

\* The call that prints a string.
LEMMA CallStringKeeps ==
  ASSUME Inv, TerminalSteps, CallString
  PROVE  Inv'
<1>1. PICK k \in 2 .. Len(toHost) :
        toHost[k] = 0 /\ (\A j \in 2 .. k - 1 : toHost[j] # 0) /\ Calling(6, k - 1)
  BY DEF CallString
<1>2. at' = "listen" /\ dataSeg' = dataSeg /\ parted' = parted /\ toMachine' = toMachine
  BY DEF CallString
<1>0. Len(toHost) \in Nat
  BY TypedParts, QueueType DEF Inv
<1>k. k \in Nat /\ k - 1 \in Nat /\ 1 + (k - 1) = k /\ 2 <= k /\ k <= Len(toHost)
  BY <1>0, <1>1
<1>3. /\ at = "call" /\ parted = "no" /\ port' = "open" /\ toMachine = <<>> /\ Same'
      /\ pc' = pc /\ data' = data /\ kit' = kit /\ tlbEntry' = tlbEntry
      /\ toHost[1] = 6 /\ TakesFromMachine(k) /\ IsSeq(toHost') /\ Running /\ Typed
  BY <1>1, <1>k, CallFrame
<1>4. PICK t : pc \in Ends(t) /\ Reads(toHost, "call", t)
  BY <1>3 DEF Running, Says
<1>5. PICK f : Run(f, toHost, "call") /\ f[Len(toHost)] = t
  BY <1>4 DEF Reads
<1>6. f[k] = "listen"
  <2>1. f[0] = "call" /\ \A j \in 1 .. Len(toHost) : f[j] = Step(f[j - 1], toHost[j])
    BY <1>5 DEF Run
  <2> DEFINE T == {j \in Nat : 1 + j <= k - 1 => f[1 + j] = "string"}
  <2>2. 0 \in T
    <3>1. 1 \in 1 .. Len(toHost) /\ 1 - 1 = 0
      BY <1>0, <1>k
    <3>2. f[1] = Step("call", 6)
      BY <1>3, <2>1, <3>1
    <3> QED
      BY <3>2, ReadsOnAre
  <2>3. ASSUME NEW j \in Nat, j \in T PROVE j + 1 \in T
    <3>1. SUFFICES ASSUME 1 + (j + 1) <= k - 1 PROVE f[1 + (j + 1)] = "string"
      OBVIOUS
    <3> DEFINE i == 1 + (j + 1)
    <3>2. i \in 1 .. Len(toHost) /\ i \in 2 .. k - 1 /\ i - 1 = 1 + j /\ 1 + j <= k - 1
      BY <1>0, <1>k, <3>1
    <3>3. f[1 + j] = "string" /\ toHost[i] # 0
      BY <1>1, <2>3, <3>2
    <3> HIDE DEF i
    <3>4. f[i] = Step("string", toHost[i])
      BY <2>1, <3>2, <3>3
    <3>5. f[i] = "string"
      BY <3>3, <3>4, ReadsOnAre
    <3> QED
      BY <3>5 DEF i
  <2> HIDE DEF T
  <2>4. Nat \subseteq T
    BY <2>2, <2>3, SetInduction
  <2>5. f[k - 1] = "string"
    <3>1. k - 2 \in Nat /\ 1 + (k - 2) = k - 1
      BY <1>k
    <3>2. k - 2 \in T
      BY <2>4, <3>1
    <3> QED
      BY <3>1, <3>2, <1>k DEF T
  <2>6. f[k] = Step(f[k - 1], toHost[k])
    BY <1>1, <1>k, <2>1
  <2> QED
    BY <1>1, <2>5, <2>6, ReadsOnAre
<1>7. Says("listen", toHost', pc')
  BY <1>3, <1>4, <1>5, <1>6, <1>k, SaysRest
<1>8. Running'
  BY <1>2, <1>3, <1>7 DEF Running
<1> QED
  BY <1>2, <1>3, <1>8, CallDone, TypedParts DEF Dialogue, Away

\* The terminal's steps keep the invariant.
LEMMA TerminalKeeps ==
  ASSUME Inv, TerminalSteps
  PROVE  Inv'
  BY GreetKeeps, TakeRegKeeps, TakeWordKeeps, EchoKeeps, ListenKeeps, CauseKeeps, CallAllocKeeps,
     CallLineKeeps, CallIntegerKeeps, CallShowKeeps, CallStringKeeps, CallHaltKeeps,
     CallOtherKeeps DEF TerminalSteps, ConsoleStep

-----------------------------------------------------------------------------
(* The user's commands.                                                    *)

\* A letter and words, as G, D and A send them.
OneWord(letter, w) == <<letter>> \o BytesOf(w)

\* The same with a second word.
TwoWords(letter, w, v) == <<letter>> \o BytesOf(w) \o BytesOf(v)

\* The message of G.
LEMMA OneWordIs ==
  ASSUME NEW letter, NEW w
  PROVE  Queue(OneWord(letter, w), 5) /\ OneWord(letter, w)[1] = letter
<1> DEFINE m == OneWord(letter, w)
<1>1. m = <<letter>> \o BytesOf(w)
  BY DEF OneWord
<1> HIDE DEF m
<1>2. Queue(m, 5) /\ m[1] = letter /\ Carries(m, 2, w)
  BY <1>1, LetterAndWord
<1> QED
  BY <1>2 DEF m

\* The message of D and U.
LEMMA TwoWordsAre ==
  ASSUME NEW letter, NEW w, NEW v
  PROVE  /\ Queue(TwoWords(letter, w, v), 9) /\ TwoWords(letter, w, v)[1] = letter
         /\ Carries(TwoWords(letter, w, v), 2, w) /\ Carries(TwoWords(letter, w, v), 6, v)
<1> DEFINE m == TwoWords(letter, w, v)
<1>1. m = <<letter>> \o BytesOf(w) \o BytesOf(v)
  BY DEF TwoWords
<1> HIDE DEF m
<1>2. Queue(m, 9) /\ m[1] = letter /\ Carries(m, 2, w) /\ Carries(m, 6, v)
  BY <1>1, LetterAndWords
<1> QED
  BY <1>2 DEF m

\* At the prompt of a session that is together, both sides are idle.
LEMMA RestIsIdle ==
  ASSUME Inv, AtRest, at = "prompt", parted = "no"
  PROVE  Idle
<1>1. Idle \/ Deleting \/ Adding
  BY WhereWeAre
<1>2. ~Deleting
  BY Waits, SMT DEF Deleting, AtRest, Queue
<1>3. ~Adding
  <2>1. Adding => (pc = "begin" /\ Queue(toMachine, 16)) \/ (pc = "addtlb" /\ Queue(toMachine, 15))
    BY DEF Adding
  <2>2. Len(toMachine) < Wants[pc]
    BY DEF AtRest
  <2>3. ASSUME pc = "begin", Queue(toMachine, 16) PROVE FALSE
    <3>1. Len(toMachine) = 16
      BY <2>3 DEF Queue
    <3>2. Wants[pc] = 1
      BY <2>3, Waits
    <3> QED
      BY <2>2, <3>1, <3>2, SMT
  <2>4. ASSUME pc = "addtlb", Queue(toMachine, 15) PROVE FALSE
    <3>1. Len(toMachine) = 15
      BY <2>4 DEF Queue
    <3>2. Wants[pc] = 15
      BY <2>4, Waits
    <3> QED
      BY <2>2, <3>1, <3>2, SMT
  <2> QED
    BY <2>1, <2>3, <2>4
<1> QED
  BY <1>1, <1>2, <1>3

\* What the user finds when he types a command, and what stays.
LEMMA Prompted ==
  ASSUME Inv, UserCommands, parted = "no"
  PROVE  /\ at = "prompt" /\ pc = "begin" /\ toMachine = <<>> /\ toHost = <<>> /\ Same
         /\ port = "open" /\ Typed
         /\ pc' = "begin" /\ data' = data /\ kit' = kit
<1>1. at = "prompt" /\ AtRest
  BY DEF UserCommands, kernelRun
<1>2. Idle /\ port = "open"
  BY <1>1, RestIsIdle, WhereWeAre DEF Away
<1>3. pc' = pc /\ data' = data /\ kit' = kit
  BY DEF UserCommands, monitorVars
<1> QED
  BY <1>1, <1>2, <1>3 DEF Idle, Quiet, Inv

\* A command that ends at once leaves the line quiet; an error may end the
\* session, and Exit does.
LEMMA EndsAtOnce ==
  ASSUME Inv, UserCommands, parted = "no", parted' = "no", dataSeg' = dataSeg,
         tlbEntry' = tlbEntry, toMachine' = <<>>, toHost' = <<>>,
         \/ at' \in {"prompt", "typing"} /\ port' = "open"
         \/ at' = "top" /\ port' = "leaked"
         \/ at' = "off" /\ port' = "free"
  PROVE  Inv'
<1>1. /\ Same /\ Typed /\ pc' = "begin" /\ data' = data /\ kit' = kit
  BY Prompted
<1>2. Typed'
  BY <1>1, StillTyped, TypedParts, Nil
<1>3. Same' /\ AtRest'
  BY <1>1, Waits, Nil, SMT DEF Same, AtRest
<1>4. CASE at' \in {"prompt", "typing"} /\ port' = "open"
  <2>1. Idle'
    BY <1>1, <1>3, <1>4 DEF Idle, Quiet
  <2>2. Outside'
    BY <1>4, InSession DEF Away
  <2> QED
    BY <1>2, <2>1, <2>2, Together DEF Inv, Dialogue
<1>5. CASE (at' = "top" /\ port' = "leaked") \/ (at' = "off" /\ port' = "free")
  <2>1. Outside'
    BY <1>3, <1>5 DEF Outside, Away
  <2>2. Apart' /\ InDialogue'
    BY <1>5 DEF Apart, InDialogue, Away
  <2> QED
    BY <1>2, <2>1, <2>2 DEF Inv
<1> QED
  BY <1>4, <1>5

\* EXIT.
LEMMA ExitAtOnce ==
  ASSUME Inv, UserCommands, parted = "no", Exit
  PROVE  Inv'
  BY Prompted, EndsAtOnce DEF Exit, Obeys

\* A line that is no command.
LEMMA MisreadAtOnce ==
  ASSUME Inv, UserCommands, parted = "no", NEW line, Misread(line)
  PROVE  Inv'
<1>1. /\ parted' = parted /\ dataSeg' = dataSeg /\ tlbEntry' = tlbEntry /\ toMachine' = toMachine
      /\ toHost' = toHost
      /\ (at' = "prompt" /\ port' = port) \/ (at' = "top" /\ port' = "leaked")
  BY DEF Misread, Fails, Returns
<1> QED
  BY <1>1, Prompted, EndsAtOnce

\* A command that sends m and waits.
LEMMA Asks ==
  ASSUME Inv, UserCommands, parted = "no", dataSeg' = dataSeg, tlbEntry' \in [Entry -> EntryType],
         NEW m, IsSeq(m), ToMachine(m), toHost' = toHost, port' = port, at' \notin Away
  PROVE  /\ Typed' /\ Outside' /\ toMachine' = m /\ toHost' = <<>> /\ pc' = "begin"
         /\ tlbEntry' = tlbEntry => Same'
<1>1. /\ Same /\ Typed /\ pc' = "begin" /\ data' = data /\ kit' = kit /\ port = "open"
      /\ toMachine = <<>> /\ toHost = <<>>
  BY Prompted
<1>2. toMachine' = m /\ IsSeq(toMachine')
  BY <1>1, Told, Nil
<1>3. Typed'
  BY <1>1, <1>2 DEF Typed
<1>4. Outside'
  BY <1>1, InSession
<1>5. tlbEntry' = tlbEntry => Same'
  BY <1>1 DEF Same
<1> QED
  BY <1>1, <1>2, <1>3, <1>4, <1>5

\* The command R.
LEMMA RAsks ==
  ASSUME Inv, UserCommands, parted = "no", NEW line, runR(line)
  PROVE  Inv'
<1>1. /\ ToMachine(<<82>>) /\ at' = "regs" /\ count' = 0 /\ dataSeg' = dataSeg
      /\ tlbEntry' = tlbEntry /\ parted' = parted /\ toHost' = toHost /\ port' = port
  BY DEF runR
<1>2. Queue(<<82>>, 1) /\ <<82>>[1] = 82
  BY QueueOne
<1>3. /\ Typed' /\ Outside' /\ toMachine' = <<82>> /\ toHost' = <<>> /\ pc' = "begin" /\ Same'
  BY <1>1, <1>2, Asks, QueueType DEF Away, Typed, Inv
<1>4. ShowingRegs'
  BY <1>1, <1>2, <1>3 DEF ShowingRegs
<1> QED
  BY <1>1, <1>3, <1>4, Together DEF Inv, Dialogue

\* The command G.
LEMMA GAsks ==
  ASSUME Inv, UserCommands, parted = "no", NEW line, runG(line)
  PROVE  Inv'
<1> DEFINE m == <<71>> \o BytesOf(line.addr)
<1>1. /\ ToMachine(m) /\ at' = "listen" /\ dataSeg' = dataSeg
      /\ tlbEntry' = tlbEntry /\ parted' = parted /\ toHost' = toHost /\ port' = port
  BY DEF runG
<1>2. m = OneWord(71, line.addr)
  BY DEF OneWord
<1> HIDE DEF m
<1>3. Queue(m, 5) /\ m[1] = 71
  BY <1>2, OneWordIs
<1>4. /\ Typed' /\ Outside' /\ toMachine' = m /\ toHost' = <<>> /\ pc' = "begin" /\ Same'
  BY <1>1, <1>3, Asks, QueueType DEF Away, Typed, Inv
<1>5. Going'
  BY <1>1, <1>3, <1>4 DEF Going
<1> QED
  BY <1>1, <1>4, <1>5, Together DEF Inv, Dialogue

\* The commands D and U, which send nothing when a page is not mapped.
LEMMA DAsks ==
  ASSUME Inv, UserCommands, parted = "no", NEW line, NEW letter \in {68, 85}, runD(line, letter),
         TypedWell(line), line.name \in {"D", "U"}
  PROVE  Inv'
<1> DEFINE m == <<letter>> \o BytesOf(line.addr) \o BytesOf(WordOf(line.num))
           far == line.num - 1
<1>1. /\ ToMachine(m) /\ at' = "dump" /\ addr' = line.addr /\ count' = line.num
      /\ dataSeg' = dataSeg /\ tlbEntry' = tlbEntry /\ toHost' = toHost /\ port' = port
      /\ \/ parted' = parted /\ \A i \in 0 .. far : visitable(tlbEntry, Plus(line.addr, 4 * i))
         \/ parted' = "unmapped"
  BY DEF runD
<1>2. Mapped' <=> \A i \in 0 .. far : visitable(tlbEntry, Plus(line.addr, 4 * i))
  BY <1>1 DEF Mapped
<1>3. m = TwoWords(letter, line.addr, WordOf(line.num))
  BY DEF TwoWords
<1> HIDE DEF m, far
<1>4. Queue(m, 9) /\ m[1] = letter /\ Carries(m, 2, line.addr) /\ Carries(m, 6, WordOf(line.num))
  BY <1>3, TwoWordsAre
<1>5. /\ Typed' /\ Outside' /\ toMachine' = m /\ toHost' = <<>> /\ pc' = "begin" /\ Same'
  <2>1. IsSeq(m) /\ tlbEntry' \in [Entry -> EntryType] /\ at' \notin Away
    BY <1>1, <1>4, QueueType DEF Away, Typed, Inv
  <2> QED
    BY <1>1, <2>1, Asks
<1>6. Counted' /\ line.addr \in Word
  BY <1>1, SMT DEF Counted, TypedWell
<1>7. CASE parted' = "unmapped"
  <2>1. Apart'
    BY <1>1, <1>4, <1>5, <1>7, SMT DEF Apart, Untouched
  <2> QED
    BY <1>5, <1>7, <2>1, SMT DEF Inv, InDialogue
<1>8. CASE parted' = parted /\ \A i \in 0 .. far : visitable(tlbEntry, Plus(line.addr, 4 * i))
  <2>1. Mapped'
    BY <1>2, <1>8, SMT
  <2>2. Dumping'
    BY <1>1, <1>4, <1>5, <1>6, <2>1, SMT DEF Dumping
  <2> QED
    BY <1>5, <1>8, <2>2, Together, SMT DEF Inv, Dialogue
<1> QED
  BY <1>1, <1>7, <1>8, SMT

\* The command LOAD.
LEMMA LoadAsks ==
  ASSUME Inv, UserCommands, parted = "no", NEW line, runLoadFile(line)
  PROVE  Inv'
<1>1. /\ dataSeg' = dataSeg /\ tlbEntry' = tlbEntry /\ parted' = parted
      /\ toHost' = toHost /\ port' = port
  BY DEF runLoadFile
<1>2. CASE at' = "prompt" /\ toMachine' = toMachine
  BY <1>1, <1>2, Prompted, EndsAtOnce
<1>3. ASSUME NEW a, NEW bytes, Queue(bytes, 4), SendA(a, bytes), at' = "loading"
      PROVE  Inv'
  <2> DEFINE m == StoreWord(a, bytes)
  <2>1. Queue(m, 9) /\ m[1] = 65 /\ ToMachine(m)
    BY <1>3, StoreWordIs, SentByA
  <2> HIDE DEF m
  <2>2. IsSeq(m) /\ tlbEntry' \in [Entry -> EntryType] /\ at' \notin Away
    BY <1>1, <1>3, <2>1, QueueType DEF Away, Typed, Inv
  <2>3. /\ Typed' /\ Outside' /\ toMachine' = m /\ toHost' = <<>> /\ pc' = "begin" /\ Same'
    BY <1>1, <2>1, <2>2, Asks
  <2>4. Storing'
    BY <1>3, <2>1, <2>3 DEF Storing
  <2> QED
    BY <1>1, <2>3, <2>4, Together DEF Inv, Dialogue
<1>4. CASE line.file # <<>>
  <2> DEFINE bytes == SendReverse(FileWord(Head(line.file)))
  <2>1. SendA(line.addr, bytes) /\ at' = "loading"
    BY <1>4 DEF runLoadFile
  <2>2. Queue(bytes, 4)
    BY ReversedWord
  <2> HIDE DEF bytes
  <2> QED
    BY <1>3, <2>1, <2>2
<1> QED
  BY <1>2, <1>4 DEF runLoadFile

\* The command DELTLB.
LEMMA DelTLBAsks ==
  ASSUME Inv, UserCommands, parted = "no", NEW line, runDelTLB(line)
  PROVE  Inv'
<1>1. CASE line.index \notin Entry
  BY <1>1, MisreadAtOnce DEF runDelTLB
<1>2. CASE line.index \in Entry
  <2> DEFINE i == line.index
             m == <<69, i>>
  <2>1. /\ tlbEntry' = [tlbEntry EXCEPT ![i] = NoEntry] /\ ToMachine(m) /\ at' = at
        /\ dataSeg' = dataSeg /\ parted' = parted /\ toHost' = toHost /\ port' = port
    BY <1>2 DEF runDelTLB, delTLBEntry
  <2>2. i \in Entry /\ Queue(m, 2) /\ m[1] = 69 /\ m[2] = i
    BY <1>2, QueueTwo
  <2> HIDE DEF i, m
  <2>3. at = "prompt" /\ Same /\ data' = data /\ tlbEntry \in [Entry -> EntryType]
    BY Prompted DEF Typed
  <2>4. tlbEntry' \in [Entry -> EntryType]
    BY <2>1, <2>2, <2>3, NoEntryType
  <2>5. tlbEntry'[i] = NoEntry /\ \A j \in Entry \ {i} : tlbEntry'[j] = tlbEntry[j]
    BY <2>1, <2>2, <2>3
  <2>6. SameBut(i)'
    BY <2>3, <2>5 DEF Same, SameBut
  <2>7. IsSeq(m) /\ at' \notin Away
    BY <2>1, <2>2, <2>3, QueueType DEF Away
  <2>8. /\ Typed' /\ Outside' /\ toMachine' = m /\ toHost' = <<>> /\ pc' = "begin"
    BY <2>1, <2>4, <2>7, Asks
  <2>9. Deleting'
    BY <2>1, <2>2, <2>3, <2>5, <2>6, <2>8 DEF Deleting
  <2> QED
    BY <2>1, <2>8, <2>9, Together DEF Inv, Dialogue
<1> QED
  BY <1>1, <1>2

\* The command ADDTLB.
LEMMA AddTLBAsks ==
  ASSUME Inv, UserCommands, parted = "no", NEW line, runAddTLB(line),
         line.addr \in Word, line.target \in Word
  PROVE  Inv'
<1> DEFINE entries == addTLBEntry(tlbEntry, line.addr, line.target)
           found == WithVPN(entries, VPN2(line.addr))
<1>1. CASE line.target.lo % 4 # 0
  BY <1>1, MisreadAtOnce DEF runAddTLB
<1>2. CASE line.target.lo % 4 = 0 /\ found = {}
  BY <1>2, ExitAtOnce DEF runAddTLB
<1>3. CASE line.target.lo % 4 = 0 /\ found # {}
  <2> DEFINE m == AddMessage(Min(found), entries[Min(found)])
  <2>1. /\ tlbEntry' = entries /\ ToMachine(m) /\ at' = at
        /\ dataSeg' = dataSeg /\ parted' = parted /\ toHost' = toHost /\ port' = port
    BY <1>3 DEF runAddTLB
  <2>2. at = "prompt" /\ Same /\ data' = data /\ tlbEntry \in [Entry -> EntryType]
    BY Prompted DEF Typed
  <2>3. /\ entries \in [Entry -> EntryType] /\ Min(found) \in Entry
        /\ \A j \in Entry \ {Min(found)} : entries[j] = tlbEntry[j]
    <3> DEFINE new == entries
    <3>1. new = addTLBEntry(tlbEntry, line.addr, line.target)
      OBVIOUS
    <3>2. WithVPN(new, VPN2(line.addr)) # {}
      BY <1>3
    <3> HIDE DEF new
    <3>3. /\ new \in [Entry -> EntryType]
          /\ Min(WithVPN(new, VPN2(line.addr))) \in Entry
          /\ \A j \in Entry \ {Min(WithVPN(new, VPN2(line.addr)))} : new[j] = tlbEntry[j]
      BY <2>2, <3>1, <3>2, OneEntryAdded
    <3> QED
      BY <3>3 DEF new
  <2>4. PICK i \in Entry : i = Min(found)
    BY <2>3
  <2>11. PICK new : new = entries
    OBVIOUS
  <2>12. PICK bytes : bytes = m
    OBVIOUS
  <2> DEFINE e == new[i]
  <2>13. /\ tlbEntry' = new /\ ToMachine(bytes) /\ new \in [Entry -> EntryType]
         /\ \A j \in Entry \ {i} : new[j] = tlbEntry[j]
         /\ bytes = AddMessage(i, e)
    BY <2>1, <2>3, <2>4, <2>11, <2>12
  <2> HIDE DEF entries, found, m, e
  <2>5. /\ Queue(bytes, 16) /\ bytes[1] = 84 /\ bytes[2] = i
        /\ Carries(bytes, 3, WordOf(e.vpn))
        /\ Carries(bytes, 7, WordOf(e.pfn1)) /\ bytes[11] = Flag(e.v1)[1]
        /\ Carries(bytes, 12, WordOf(e.pfn2)) /\ bytes[16] = Flag(e.v2)[1]
    BY <2>13, AddMessageIs
  <2>6. SameBut(i)'
    BY <2>2, <2>13 DEF Same, SameBut
  <2>7. IsSeq(bytes) /\ at' \notin Away
    BY <2>1, <2>2, <2>5, QueueType DEF Away
  <2>8. /\ Typed' /\ Outside' /\ toMachine' = bytes /\ toHost' = <<>> /\ pc' = "begin"
    BY <2>1, <2>13, <2>7, Asks
  <2>9. EntryAt(toMachine, 2, i)'
    <3>1. e = tlbEntry'[i]
      BY <2>13 DEF e
    <3> QED
      BY <2>5, <2>8, <3>1 DEF EntryAt
  <2>10. Adding'
    BY <2>1, <2>2, <2>5, <2>6, <2>8, <2>9 DEF Adding
  <2> QED
    BY <2>1, <2>8, <2>10, Together DEF Inv, Dialogue
<1> QED
  BY <1>1, <1>2, <1>3

\* The commands typed keep the invariant.
LEMMA CommandKeeps ==
  ASSUME Inv, UserCommands
  PROVE  Inv'
<1>1. CASE parted # "no"
  <2>1. PICK line \in {Quit} : kernelRun(line)
    BY <1>1 DEF UserCommands
  <2>2. Exit
    BY <2>1 DEF kernelRun, Quit
  <2>3. /\ at' = "off" /\ port' = "free" /\ toHost' = <<>> /\ parted' = parted
        /\ toMachine' = toMachine /\ tlbEntry' = tlbEntry /\ dataSeg' = dataSeg
        /\ pc' = pc /\ data' = data /\ kit' = kit
    BY <2>2 DEF Exit, UserCommands, monitorVars
  <2>4. Typed'
    BY <2>3, Nil, StillTyped, TypedParts DEF Inv
  <2>5. Outside'
    BY <1>1, <2>3 DEF Outside, Away
  <2>6. Apart' /\ InDialogue'
    BY <1>1, <2>3 DEF Inv, Apart, InDialogue, Untouched, Same
  <2> QED
    BY <2>4, <2>5, <2>6 DEF Inv
<1>2. CASE parted = "no"
  <2>1. PICK line : kernelRun(line) /\ TypedWell(line)
    <3>1. PICK line \in IF lines < Kits[kit].most THEN Kits[kit].typed ELSE {Quit} : kernelRun(line)
      BY <1>2 DEF UserCommands
    <3>2. CASE line \in Kits[kit].typed
      BY <3>1, <3>2, SessionAssumption DEF Inv, Typed
    <3>3. CASE line = Quit
      <4>1. TypedWell(Quit)
        BY SMT DEF Quit, TypedWell
      <4> QED
        BY <3>1, <3>3, <4>1
    <3> QED
      BY <3>1, <3>2, <3>3
  <2>2. CASE line.name = "?" /\ Misread(line)
    BY <1>2, <2>2, MisreadAtOnce
  <2>3. CASE line.name = "Q" /\ Exit
    BY <1>2, <2>3, ExitAtOnce
  <2>4. CASE line.name = "R" /\ runR(line)
    BY <1>2, <2>4, RAsks
  <2>5. CASE (line.name = "D" /\ runD(line, 68)) \/ (line.name = "U" /\ runD(line, 85))
    BY <1>2, <2>1, <2>5, DAsks
  <2>6. CASE (line.name = "A" /\ runA(line)) \/ (line.name = "VIEWTLB" /\ runViewTLB(line))
    <3>1. /\ dataSeg' = dataSeg /\ tlbEntry' = tlbEntry /\ parted' = parted
          /\ toMachine' = toMachine /\ toHost' = toHost /\ port' = port
          /\ at' = "typing" \/ at' = at
      BY <2>6 DEF runA, runViewTLB, wires
    <3> QED
      BY <1>2, <3>1, Prompted, EndsAtOnce
  <2>7. CASE line.name = "LOAD" /\ runLoadFile(line)
    BY <1>2, <2>7, LoadAsks
  <2>8. CASE line.name = "G" /\ runG(line)
    BY <1>2, <2>8, GAsks
  <2>9. CASE line.name = "DELTLB" /\ runDelTLB(line)
    BY <1>2, <2>9, DelTLBAsks
  <2>10. CASE line.name = "ADDTLB" /\ runAddTLB(line)
    <3>1. line.addr \in Word /\ line.target \in Word
      BY <2>1, <2>10 DEF TypedWell
    <3> QED
      BY <1>2, <2>10, <3>1, AddTLBAsks
  <2> QED
    BY <2>1, <2>2, <2>3, <2>4, <2>5, <2>6, <2>7, <2>8, <2>9, <2>10 DEF kernelRun
<1> QED
  BY <1>1, <1>2

-----------------------------------------------------------------------------
(* The user's answers.                                                     *)

\* What typing never touches: the state of the machine.
LEMMA UserFrame ==
  ASSUME UserAnswers
  PROVE  /\ UserStep /\ Less(dataSeg, MaxData)
         /\ pc' = pc /\ data' = data /\ kit' = kit
  BY DEF UserAnswers, monitorVars, ghosts

\* A line of assembly typed after A.
LEMMA InstructionKeeps ==
  ASSUME Inv, UserAnswers, TypeInstruction
  PROVE  Inv'
<1>1. PICK word : SendA(addr, BytesOf(word))
  BY DEF TypeInstruction
<1>2. /\ at = "typing" /\ at' = "stored" /\ dataSeg' = dataSeg /\ tlbEntry' = tlbEntry
      /\ parted' = parted /\ toHost' = toHost /\ port' = port
  BY DEF TypeInstruction
<1>3. pc' = pc /\ data' = data /\ kit' = kit
  BY UserFrame
<1>4. parted \in {"no", "echo"} /\ (parted = "no" => Idle) /\ port = "open"
  BY <1>2, WhereWeAre DEF Away
<1> DEFINE m == StoreWord(addr, BytesOf(word))
<1>5. ToMachine(m) /\ Queue(m, 9) /\ m[1] = 65
  BY <1>1, QueueWord, StoreWordIs, SentByA
<1> HIDE DEF m
<1>6. IsSeq(toMachine') /\ (toMachine = <<>> => toMachine' = m)
  BY <1>5, Told, QueueType, TypedParts DEF Inv
<1>7. Typed' /\ Outside'
  BY <1>2, <1>3, <1>4, <1>6, StillTyped, TypedParts, InSession DEF Inv, Away
<1>8. CASE parted = "no"
  <2>1. Same' /\ pc' = "begin" /\ toMachine' = m /\ toHost' = <<>>
    BY <1>2, <1>3, <1>4, <1>6, <1>8 DEF Idle, Quiet, Same
  <2>2. Storing'
    BY <1>2, <1>5, <2>1 DEF Storing
  <2> QED
    BY <1>2, <1>7, <1>8, <2>2, Together DEF Inv, Dialogue
<1>9. CASE parted = "echo"
  BY <1>2, <1>7, <1>9 DEF Inv, Apart, InDialogue
<1> QED
  BY <1>4, <1>8, <1>9

\* The integer typed for the program.
LEMMA IntegerKeeps ==
  ASSUME Inv, UserAnswers, TypeInteger
  PROVE  Inv'
<1>1. PICK word : ToMachine(BytesOf(word))
  BY DEF TypeInteger
<1>2. /\ at = "integer" /\ at' = "listen" /\ dataSeg' = dataSeg /\ tlbEntry' = tlbEntry
      /\ parted' = parted /\ toHost' = toHost /\ port' = port
  BY DEF TypeInteger
<1>3. pc' = pc /\ data' = data /\ kit' = kit
  BY UserFrame
<1>4. /\ parted = "no" /\ port = "open" /\ pc = "readint" /\ toMachine = <<>>
      /\ Same /\ toHost = <<>>
  BY <1>2, WhereWeAre DEF Away, Answering
<1>5. Queue(toMachine', 4) /\ IsSeq(toMachine')
  BY <1>1, <1>4, QueueWord, QueueType, Told, Nil
<1>6. Same'
  BY <1>2, <1>3, <1>4 DEF Same
<1>7. Answering'
  BY <1>2, <1>3, <1>4, <1>5, <1>6 DEF Answering
<1>8. Typed' /\ Outside'
  BY <1>2, <1>3, <1>4, <1>5, StillTyped, TypedParts, InSession DEF Inv, Away
<1> QED
  BY <1>2, <1>4, <1>7, <1>8, Together DEF Inv, Dialogue

\* dataSeg stays far from the end of what the terminal can hand out.
LEMMA LineFits ==
  ASSUME SegmentOK(dataSeg), Less(dataSeg, MaxData), NEW n \in Nat, n <= 65539
  PROVE  SegmentOK(Plus(dataSeg, n))
<1> DEFINE v == Plus(dataSeg, n)
<1>1. dataSeg \in Word /\ MaxData \in Word /\ MaxData.hi < 40960
  BY SessionAssumption DEF SegmentOK
<1>2. dataSeg.hi \in Nat /\ dataSeg.hi <= MaxData.hi /\ MaxData.hi \in Nat
  BY <1>1, Halves, SMT DEF Less
<1>3. dataSeg.hi < 40960
  BY <1>1, <1>2, SMT
<1>4. n < 16777216 + 65536 /\ n \div 65536 \in Nat /\ n \div 65536 <= 1
  BY SMT
<1>5. v \in Word /\ v.hi <= dataSeg.hi + n \div 65536 + 1
  <2>1. dataSeg.hi < 50000
    BY <1>2, <1>3, SMT
  <2>2. v \in Word
    BY <1>1, PlusType, SMT
  <2>3. v.hi <= dataSeg.hi + n \div 65536 + 1
    BY <1>1, <1>4, <2>1, PlusForward, SMT
  <2> QED
    BY <2>2, <2>3
<1>6. v.hi \in Nat
  <2> HIDE DEF v
  <2> QED
    BY <1>5, Halves, SMT
<1> HIDE DEF v
<1>7. v.hi < 45000
  BY <1>2, <1>3, <1>4, <1>5, <1>6, SMT
<1> QED
  BY <1>4, <1>7, SegmentGrows, SMT DEF v

\* The line typed for the program: its address, then its bytes in words.
LEMMA LineKeeps ==
  ASSUME Inv, UserAnswers, TypeLine
  PROVE  Inv'
<1>1. PICK line \in IF lineEnd THEN {<<>>} ELSE Lines :
        ToMachine(Padded(line)) /\ dataSeg' = Advanced(dataSeg, Len(Padded(line)))
  BY DEF TypeLine
<1>2. /\ at = "line" /\ at' = "listen" /\ tlbEntry' = tlbEntry
      /\ parted' = parted /\ toHost' = toHost /\ port' = port
  BY DEF TypeLine
<1>3. pc' = pc /\ data' = data /\ kit' = kit /\ Less(dataSeg, MaxData)
  BY UserFrame
<1>4. /\ parted = "no" /\ port = "open" /\ Same /\ toHost = <<>>
      /\ \/ pc = "readline" /\ Queue(toMachine, 4)
         \/ pc = "storing" /\ toMachine = <<>>
  BY <1>2, WhereWeAre DEF Away, Answering
<1>5. line \in Seq(Nat \ {0}) /\ Len(line) \in Nat /\ Len(line) <= 65535
  <2>1. CASE line = <<>>
    BY <2>1, Nil, SMT
  <2>2. CASE line \in Lines
    BY <2>2, SessionAssumption, SMT
  <2> QED
    BY <1>1, <2>1, <2>2
<1> DEFINE q == Padded(line)
<1>6. PICK m \in Nat \ {0} : InWords(q, m) /\ 4 * m <= Len(line) + 4
  BY <1>5, PaddedLine
<1>7. toMachine' = toMachine \o q /\ dataSeg' = Plus(dataSeg, Len(q))
  BY <1>1 DEF ToMachine, Advanced
<1> HIDE DEF q
<1>8. Queue(q, 4 * m) /\ IsLine(q) /\ IsSeq(q)
  BY <1>6, LineIsQueue DEF IsLine, InWords
<1>9. SegmentOK(dataSeg')
  <2>1. Len(q) = 4 * m
    BY <1>8 DEF Queue
  <2>2. 4 * m \in Nat /\ 4 * m <= 65539
    BY <1>5, <1>6, SMT
  <2> QED
    BY <1>3, <1>7, <2>1, <2>2, LineFits, TypedParts DEF Inv
<1>10. Same'
  BY <1>2, <1>3, <1>4 DEF Same
<1>11. IsSeq(toMachine') /\ Answering'
  <2>1. CASE pc = "storing" /\ toMachine = <<>>
    <3>1. toMachine' = q
      BY <1>7, <1>8, <2>1, JoinedToNothing
    <3> QED
      BY <1>2, <1>3, <1>4, <1>8, <1>10, <2>1, <3>1 DEF Answering
  <2>2. CASE pc = "readline" /\ Queue(toMachine, 4)
    <3> DEFINE n == 4 * m
    <3>1. n \in Nat /\ Queue(q, n)
      BY <1>6, <1>8
    <3> HIDE DEF n
    <3>2. Behind(toMachine', toMachine, 4, q, n)
      BY <1>7, <2>2, <3>1, QueueJoin
    <3>3. Queue(toMachine', 4 + n)
      BY <3>2 DEF Behind
    <3>4. \A i \in 1 .. n : toMachine'[4 + i] = q[i]
      <4>1. ASSUME NEW i \in 1 .. n PROVE toMachine'[4 + i] = q[i]
        <5> DEFINE k == 4 + i
        <5>1. k \in 4 + 1 .. 4 + n /\ k - 4 = i
          BY <3>1
        <5> HIDE DEF k
        <5>2. toMachine'[k] = q[k - 4]
          BY <3>2, <5>1 DEF Behind
        <5> QED
          BY <5>1, <5>2 DEF k
      <4> QED
        BY <4>1
    <3>5. Answer(toMachine', q)
      BY <3>1, <3>3, <3>4 DEF Answer
    <3>6. \E x : IsLine(x) /\ Answer(toMachine', x)
      BY <1>8, <3>5
    <3> QED
      BY <1>2, <1>3, <1>4, <1>10, <2>2, <3>3, <3>6, QueueType DEF Answering
  <2> QED
    BY <1>4, <2>1, <2>2
<1>12. Typed' /\ Outside'
  BY <1>2, <1>3, <1>4, <1>9, <1>11, StillTyped, TypedParts, InSession DEF Inv, Away
<1> QED
  BY <1>2, <1>4, <1>11, <1>12, Together DEF Inv, Dialogue

\* What is typed beside commands keeps the invariant.
LEMMA AnswerKeeps ==
  ASSUME Inv, UserAnswers
  PROVE  Inv'
  BY UserFrame, InstructionKeeps, IntegerKeeps, LineKeeps DEF UserStep

-----------------------------------------------------------------------------
(* Starting, ending, resetting; and the theorems.                          *)

\* A TLB without entries, in the machine and in the terminal.
LEMMA NoEntries ==
  ASSUME data' = [i \in Entry |-> Zero], tlbEntry' = [i \in Entry |-> NoEntry]
  PROVE  Same' /\ tlbEntry' \in [Entry -> EntryType] /\ data' = [i \in Entry |-> data'[i]]
  BY ZeroIsImage, NoEntryType DEF Same

\* The data segment starts inside memory.
LEMMA SegmentStarts == SegmentOK(DataStart)
<1>1. DataStart \in Word /\ DataStart.hi < 40960 /\ Less(Refused, DataStart)
  BY SessionAssumption
<1>2. DataStart.hi \in Nat
  BY <1>1, Halves, SMT
<1>3. DataStart.hi < 45000
  BY <1>1, <1>2, SMT
<1> QED
  BY <1>1, <1>3 DEF SegmentOK

\* The terminal is started.
LEMMA StartKeeps ==
  ASSUME Inv, UserStarts
  PROVE  Inv'
<1>1. /\ at = "off" /\ at' = "top" /\ dataSeg' = DataStart /\ parted' = "no"
      /\ tlbEntry' = [i \in Entry |-> NoEntry] /\ AtRest
      /\ pc' = pc /\ data' = data /\ kit' = kit
      /\ toMachine' = toMachine /\ toHost' = toHost /\ port' = port
  BY DEF UserStarts, Start, monitorVars, wires
<1>2. AtRest'
  BY <1>1 DEF AtRest
<1>3. SegmentOK(DataStart)
  BY SegmentStarts
<1>4. tlbEntry' \in [Entry -> EntryType]
  BY <1>1, NoEntryType
<1>5. Typed'
  BY <1>1, <1>3, <1>4 DEF Inv, Typed, SegmentOK
<1>6. port = "free"
  BY <1>1 DEF Inv, Outside
<1>7. Outside'
  BY <1>1, <1>2, <1>6 DEF Outside, Away
<1> QED
  BY <1>1, <1>5, <1>7 DEF Inv, Apart, InDialogue, Away

\* A key ends a session that hangs.
LEMMA BreakKeeps ==
  ASSUME Inv, UserBreaks
  PROVE  Inv'
<1>1. /\ at' = "off" /\ port' = "free" /\ toHost' = <<>> /\ parted' = parted
      /\ toMachine' = toMachine /\ tlbEntry' = tlbEntry /\ dataSeg' = dataSeg
      /\ pc' = pc /\ data' = data /\ kit' = kit
      /\ (at = "top" \/ AtRest)
  BY DEF UserBreaks, Exit, monitorVars, ghosts
<1>2. Typed'
  BY <1>1, Nil, StillTyped, TypedParts DEF Inv
<1>3. parted = "no" => AtRest
  BY <1>1 DEF Inv, Outside
<1>4. AtRest => AtRest'
  BY <1>1 DEF AtRest
<1>5. Outside'
  BY <1>1, <1>3, <1>4 DEF Outside, Away
<1>6. Apart' /\ InDialogue'
  BY <1>1 DEF Inv, Apart, InDialogue, Away, Untouched, Same
<1> QED
  BY <1>2, <1>5, <1>6 DEF Inv

\* The choice of the serial port.
LEMMA OpenKeeps ==
  ASSUME Inv, OpensPort
  PROVE  Inv'
<1>1. /\ at = "top" /\ port = "free" /\ at' = "greeting" /\ port' = "open" /\ toHost' = <<>>
      /\ parted' = parted /\ tlbEntry' = tlbEntry /\ dataSeg' = dataSeg
      /\ pc' = pc /\ data' = data /\ kit' = kit /\ toMachine' = toMachine
  BY DEF OpensPort, Connect, monitorVars, ghosts
<1>2. /\ parted = "no" /\ AtRest /\ tlbEntry = [i \in Entry |-> NoEntry]
  BY <1>1 DEF Inv, Outside
<1>3. AtRest'
  BY <1>1, <1>2 DEF AtRest
<1>4. Typed'
  BY <1>1, Nil, StillTyped, TypedParts DEF Inv
<1>5. Outside'
  BY <1>1, <1>2, <1>3 DEF Outside, Away
<1> QED
  BY <1>1, <1>2, <1>4, <1>5 DEF Inv, Apart, InDialogue, Away

\* The board, or the simulator, starts while the greeting is awaited.
LEMMA ClearedKeeps ==
  ASSUME Inv, Cleared, tlbEntry = [i \in Entry |-> NoEntry], tlbEntry' = tlbEntry,
         at' = "greeting", port' = "open", toHost' = <<>>, parted' = "no",
         dataSeg' = dataSeg, kit' = kit
  PROVE  Inv'
<1>1. pc' = "boot" /\ data' = [i \in Entry |-> Zero] /\ toMachine' = <<>>
  BY DEF Cleared
<1>2. Same' /\ tlbEntry' \in [Entry -> EntryType] /\ data' = [i \in Entry |-> data'[i]]
  BY <1>1, NoEntries
<1>3. Typed'
  BY <1>1, <1>2, Nil DEF Inv, Typed
<1>4. Fresh'
  BY <1>1, <1>2 DEF Fresh
<1>5. Outside'
  BY <1>1, <1>4 DEF Outside, Away
<1> QED
  BY <1>3, <1>5 DEF Inv, Apart, InDialogue, Away

\* The choice of the simulator.
LEMMA SimulatorKeeps ==
  ASSUME Inv, OpensSimulator
  PROVE  Inv'
<1>1. /\ at = "top" /\ port = "free" /\ at' = "greeting" /\ port' = "open" /\ toHost' = <<>>
      /\ parted' = parted /\ tlbEntry' = tlbEntry /\ dataSeg' = dataSeg /\ kit' = kit
      /\ Cleared
  BY DEF OpensSimulator, Connect, ghosts
<1>2. /\ parted = "no" /\ tlbEntry = [i \in Entry |-> NoEntry]
  BY <1>1 DEF Inv, Outside
<1> QED
  BY <1>1, <1>2, ClearedKeeps

\* The machine is reset.
LEMMA ResetKeeps ==
  ASSUME Inv, Reset
  PROVE  Inv'
<1>1. /\ at = "greeting" /\ toHost = <<>> /\ Cleared /\ toHost' = toHost /\ port' = port
      /\ at' = at /\ parted' = parted /\ tlbEntry' = tlbEntry /\ dataSeg' = dataSeg /\ kit' = kit
  BY DEF Reset, consoleVars, ghosts
<1>2. /\ parted = "no" /\ port = "open" /\ tlbEntry = [i \in Entry |-> NoEntry]
  BY <1>1 DEF Inv, Outside
<1> QED
  BY <1>1, <1>2, ClearedKeeps

\* A step that changes nothing.
LEMMA NothingKeeps ==
  ASSUME Inv, UNCHANGED vars
  PROVE  Inv'
<1>1. /\ at' = at /\ count' = count /\ addr' = addr /\ tlbEntry' = tlbEntry
      /\ dataSeg' = dataSeg /\ parted' = parted /\ pc' = pc /\ cursor' = cursor /\ left' = left
      /\ data' = data /\ toMachine' = toMachine /\ toHost' = toHost /\ port' = port /\ kit' = kit
  BY DEF vars, consoleVars, monitorVars, wires, ghosts
<1>2. Typed' = Typed
  BY <1>1 DEF Typed
<1>3. Same' = Same /\ AtRest' = AtRest
  BY <1>1 DEF Same, AtRest
<1>4. Outside' = Outside
  BY <1>1, <1>3 DEF Outside, Fresh
<1>5. Apart' = Apart
  BY <1>1, <1>3 DEF Apart, Untouched
<1>6. Idle' = Idle /\ ShowingRegs' = ShowingRegs /\ Storing' = Storing /\ Going' = Going
  BY <1>1, <1>3 DEF Idle, Quiet, ShowingRegs, Storing, Going
<1>7. Running' = Running /\ Answering' = Answering
  BY <1>1, <1>3 DEF Running, Answering
<1>8. Deleting' = Deleting /\ Adding' = Adding
  BY <1>1 DEF Deleting, Adding, SameBut, EntryAt
<1>9. Dumping' = Dumping
  <2>1. Mapped' = Mapped /\ Counted' = Counted
    BY <1>1 DEF Mapped, Counted
  <2> QED
    BY <1>1, <1>3, <2>1 DEF Dumping
<1>10. Dialogue' = Dialogue
  BY <1>6, <1>7, <1>8, <1>9 DEF Dialogue
<1> QED
  BY <1>1, <1>2, <1>4, <1>5, <1>10 DEF Inv, InDialogue

\* The initial states satisfy the invariant.
LEMMA StartsRight ==
  ASSUME Init
  PROVE  Inv
<1>1. /\ at = "off" /\ dataSeg = DataStart /\ parted = "no" /\ tlbEntry = [i \in Entry |-> NoEntry]
      /\ pc = "boot" /\ data = [i \in Entry |-> Zero] /\ kit \in DOMAIN Kits
      /\ toMachine = <<>> /\ toHost = <<>> /\ port = "free"
  BY DEF Init, ConsoleInit, MonitorInit, WireInit, PageTableInit, TLBInit
<1>2. SegmentOK(DataStart)
  BY SegmentStarts
<1>3. Typed
  <2>1. data = [i \in Entry |-> data[i]] /\ tlbEntry \in [Entry -> EntryType]
    BY <1>1, NoEntryType
  <2> QED
    BY <1>1, <1>2, <2>1, Nil DEF Typed, SegmentOK
<1> QED
  BY <1>1, <1>3 DEF Inv, Outside, Apart, InDialogue, Away

\* Every step keeps it.
LEMMA StepKeeps ==
  ASSUME Inv, [Next]_vars
  PROVE  Inv'
<1>1. CASE UNCHANGED vars
  BY <1>1, NothingKeeps
<1>2. CASE Next
  BY <1>2, MachineKeeps, LossKeeps, TerminalKeeps, CommandKeeps, AnswerKeeps, StartKeeps, BreakKeeps,
     OpenKeeps, SimulatorKeeps, ResetKeeps DEF Next
<1> QED
  BY <1>1, <1>2

\* As long as the sides have not parted in one of the known ways, terminal
\* (console.cpp) and monitor (kernel.s) are in the same place of the same
\* dialogue, with the bytes between them that belong there; after they have
\* parted, what is still on its way can change no TLB entry.
THEOREM Invariant == Spec => []Inv
<1>1. Init => Inv
  BY StartsRight
<1>2. Inv /\ [Next]_vars => Inv'
  BY StepKeeps
<1> QED
  BY <1>1, <1>2, PTL DEF Spec

\* A read on one side is always one that the other side's writes answer: the
\* lock-step of console.cpp and kernel.s, which no byte of the protocol marks.
THEOREM KeepsStep == Spec => []InStep
<1>1. Inv => InStep
  <2>1. SUFFICES ASSUME Inv, at = "prompt", parted = "no", AtRest
                 PROVE  pc = "begin" /\ toMachine = <<>> /\ toHost = <<>>
    BY <2>1 DEF InStep
  <2> QED
    BY <2>1, RestIsIdle DEF Idle, Quiet
<1> QED
  BY <1>1, Invariant, PTL

\* While the sides are together, the monitor is never sent bytes at a time
\* when it does not read, which its UART, without a queue, would drop.
THEOREM NothingOverrun == Spec => []NoOverrun
<1>1. Inv => NoOverrun
  BY LittleUnread
<1> QED
  BY <1>1, Invariant, PTL

\* The copy of the TLB, in a session in which A and LOAD were not used.
THEOREM CopyOfTheTLB == Spec => [](parted # "echo" => ShadowIsTheTLB)
<1>1. Inv => (parted # "echo" => ShadowIsTheTLB)
  <2> SUFFICES ASSUME Inv, parted # "echo" PROVE ShadowIsTheTLB
    OBVIOUS
  <2>1. ASSUME AtRest, at \notin Away PROVE Same
    <3>1. CASE parted = "no"
      <4>1. Dialogue
        BY <2>1, <3>1 DEF Inv, InDialogue
      <4>2. at = "prompt" => Idle
        BY <2>1, <3>1, RestIsIdle
      <4> QED
        BY <4>1, <4>2 DEF Dialogue, Idle, Quiet, Deleting, Adding, ShowingRegs, Dumping,
           Storing, Going, Running, Answering
    <3>2. CASE parted # "no"
      BY <3>2 DEF Inv, Apart, Untouched
    <3> QED
      BY <3>1, <3>2
  <2> QED
    BY <2>1 DEF ShadowIsTheTLB, Same, Image, Away
<1> QED
  BY <1>1, Invariant, PTL

-----------------------------------------------------------------------------
(* The blocks a program is given.                                          *)

\* Addresses from which the next block does not come round to zero, and sizes.
Near(w) == w \in Word /\ w.hi < 45000
Size(n) == n \in Nat /\ n < 16777216 + 65536

\* Blocks, in the order in which they were given, each behind the ones before.
Below(b, w) == NumberOf(b.from) + b.size <= NumberOf(w)
Beyond(bs, w) == \A i \in DOMAIN bs : Below(bs[i], w)
InOrder(bs) ==
  /\ IsSeq(bs)
  /\ \A i \in DOMAIN bs : Near(bs[i].from) /\ Size(bs[i].size)
  /\ \A i, j \in DOMAIN bs : i < j => Below(bs[i], bs[j].from)

\* A block that the terminal has given away and the machine has not yet.
Promised(bs, end, w, n) == Near(w) /\ Size(n) /\ Beyond(bs, w) /\ end = Plus(w, n)

\* What is on the line while a request is under way: its size, the address of the
\* block, and of a line what the machine has not stored yet.
Granting ==
  /\ pc = "alloc" => a0 \in Nat /\ a0 < 16777216
  /\ pc = "alloc" /\ toHost # <<>> =>
       \E n \in Nat : Queue(toHost, n + 4) /\ Carries(toHost, n + 1, WordOf(a0))
  /\ pc = "alloc" /\ toMachine # <<>> =>
       \E w : Promised(blocks, dataSeg, w, a0) /\ Carries(toMachine, 1, w)
  /\ at = "line" /\ pc = "readline" => Carries(toMachine, 1, dataSeg)
  /\ at = "line" /\ pc = "storing" => left = 0
  /\ at = "listen" /\ pc = "readline" /\ toMachine # <<>> =>
       \E w, n : /\ Promised(blocks, dataSeg, w, n)
                 /\ Carries(toMachine, 1, w) /\ Queue(toMachine, 4 + n)
  /\ pc = "storing" =>
       /\ left \in Nat
       /\ \E n : Queue(toMachine, n) /\ Promised(blocks, dataSeg, v0, 4 * left + n)

\* The inductive invariant: a refused request ends the program.
Granted ==
  parted # "echo" =>
    /\ InOrder(blocks)
    /\ parted = "no" /\ at # "off" => Beyond(blocks, dataSeg)
    /\ parted = "no" /\ at \notin Away => Granting
    /\ parted = "restart" /\ pc = "alloc" /\ toMachine # <<>> =>
         Carries(toMachine, 1, AllocFailed)

\* Where a block ends.
LEMMA BlockEnds ==
  ASSUME NEW w, Near(w), NEW n, Size(n)
  PROVE  Plus(w, n) \in Word /\ NumberOf(Plus(w, n)) = NumberOf(w) + n
<1> DEFINE s == w.lo + n
           c == s \div 65536
<1>1. w.hi \in Nat /\ w.lo \in Nat /\ w.lo < 65536 /\ w.hi < 45000 /\ n \in Nat
  BY Halves DEF Near, Size
<1>0. n \in Nat /\ n < 16777216 + 65536
  BY DEF Size
<1>2. c \in Nat /\ c <= 258 /\ c <= n \div 65536 + 1 /\ s % 65536 \in Nat /\ s % 65536 < 65536
      /\ s = 65536 * c + (s % 65536)
  BY <1>0, <1>1
<1>3. Plus(w, n).hi = (w.hi + c) % 65536 /\ Plus(w, n).lo = s % 65536
  BY DEF Plus
<1> HIDE DEF c
<1>4. (w.hi + c) % 65536 = w.hi + c
  <2>1. w.hi + c \in Nat /\ w.hi + c < 65536
    BY <1>1, <1>2
  <2> QED
    BY <2>1
<1>5. Plus(w, n) \in Word
  BY <1>1, PlusType DEF Near
<1>6. NumberOf(Plus(w, n)) = 65536 * (w.hi + c) + (s % 65536)
  BY <1>3, <1>4 DEF NumberOf
<1>7. NumberOf(w) + n = 65536 * w.hi + s
  BY <1>1 DEF NumberOf
<1> HIDE DEF s
<1> QED
  BY <1>1, <1>2, <1>5, <1>6, <1>7

\* Addresses as numbers.
LEMMA LessIs ==
  ASSUME NEW v \in Word, NEW w \in Word
  PROVE  /\ NumberOf(v) \in Nat /\ NumberOf(w) \in Nat
         /\ Less(v, w) <=> NumberOf(v) < NumberOf(w)
<1>1. /\ v.hi \in Nat /\ v.lo \in Nat /\ v.lo < 65536
      /\ w.hi \in Nat /\ w.lo \in Nat /\ w.lo < 65536
  BY Halves
<1> QED
  BY <1>1 DEF Less, NumberOf

\* What ends before an address ends before the end of a block that starts there.
LEMMA BeyondEnd ==
  ASSUME NEW bs, InOrder(bs), NEW w, NEW n, NEW end, Promised(bs, end, w, n)
  PROVE  Beyond(bs, end)
<1>1. end \in Word /\ w \in Word /\ n \in Nat /\ NumberOf(end) = NumberOf(w) + n
  BY BlockEnds DEF Promised, Size, Near
<1>2. NumberOf(w) \in Nat /\ NumberOf(end) \in Nat
  BY <1>1, LessIs
<1> SUFFICES ASSUME NEW i \in DOMAIN bs PROVE Below(bs[i], end)
  BY DEF Beyond
<1>3. bs[i].from \in Word /\ bs[i].size \in Nat
  BY DEF InOrder, Near, Size
<1>4. NumberOf(bs[i].from) \in Nat
  BY <1>3, LessIs
<1>5. NumberOf(bs[i].from) + bs[i].size <= NumberOf(w)
  BY DEF Promised, Beyond, Below
<1> QED
  BY <1>1, <1>2, <1>3, <1>4, <1>5 DEF Below

\* A block that was promised is given.
LEMMA BlockGiven ==
  ASSUME NEW bs, InOrder(bs), NEW w, NEW n, NEW end, Promised(bs, end, w, n),
         NEW new, new = Append(bs, [from |-> w, size |-> n])
  PROVE  InOrder(new) /\ Beyond(new, end)
<1> DEFINE b == [from |-> w, size |-> n]
           k == Len(bs)
<1>1. PICK S : bs \in Seq(S)
  BY DEF InOrder, IsSeq
<1>2. bs \in Seq(S \cup {b})
  BY <1>1, SeqMonotonic
<1>3. /\ new \in Seq(S \cup {b}) /\ Len(new) = k + 1
      /\ \A i \in 1 .. k : new[i] = bs[i]
      /\ new[k + 1] = b
  BY <1>2, AppendProperties
<1>4. k \in Nat /\ DOMAIN bs = 1 .. k /\ DOMAIN new = 1 .. k + 1 /\ IsSeq(new)
  BY <1>1, <1>3, LenProperties DEF IsSeq
<1>5. b.from = w /\ b.size = n
  OBVIOUS
<1> HIDE DEF b, k
<1>6. ASSUME NEW i \in 1 .. k + 1 PROVE i \in 1 .. k \/ i = k + 1
  BY <1>4
<1>7. \A i \in DOMAIN new : Near(new[i].from) /\ Size(new[i].size)
  <2>1. ASSUME NEW i \in 1 .. k PROVE Near(new[i].from) /\ Size(new[i].size)
    BY <1>3, <1>4, <2>1 DEF InOrder
  <2>2. Near(new[k + 1].from) /\ Size(new[k + 1].size)
    BY <1>3, <1>5 DEF Promised
  <2> QED
    BY <1>4, <1>6, <2>1, <2>2
<1>8. ASSUME NEW i \in DOMAIN new, NEW j \in DOMAIN new, i < j PROVE Below(new[i], new[j].from)
  <2>1. i \in 1 .. k
    BY <1>4, <1>8
  <2>2. CASE j \in 1 .. k
    BY <1>3, <1>4, <1>8, <2>1, <2>2 DEF InOrder
  <2>3. CASE j = k + 1
    <3>1. Below(bs[i], w)
      BY <1>4, <2>1 DEF Promised, Beyond
    <3> QED
      BY <1>3, <1>5, <2>1, <2>3, <3>1
  <2> QED
    BY <1>4, <1>6, <2>2, <2>3
<1>9. Beyond(new, end)
  <2>1. Beyond(bs, end)
    BY BeyondEnd
  <2>2. Below(b, end)
    <3>1. w \in Word /\ n \in Nat /\ NumberOf(end) = NumberOf(w) + n
      BY BlockEnds DEF Promised, Near, Size
    <3>2. NumberOf(w) \in Nat
      BY <3>1, LessIs
    <3> QED
      BY <1>5, <3>1, <3>2 DEF Below
  <2>3. ASSUME NEW i \in 1 .. k + 1 PROVE Below(new[i], end)
    <3>1. CASE i \in 1 .. k
      BY <1>3, <1>4, <2>1, <3>1 DEF Beyond
    <3>2. CASE i = k + 1
      BY <1>3, <2>2, <3>2
    <3> QED
      BY <1>6, <3>1, <3>2
  <2> QED
    BY <1>4, <2>3 DEF Beyond
<1> QED
  BY <1>4, <1>7, <1>8, <1>9 DEF InOrder

\* Blocks in order do not overlap.
LEMMA InOrderIsDisjoint ==
  ASSUME InOrder(blocks)
  PROVE  BlocksAreDisjoint
<1> SUFFICES ASSUME NEW i \in DOMAIN blocks, NEW j \in DOMAIN blocks, i < j
             PROVE  ~Less(blocks[j].from, Plus(blocks[i].from, blocks[i].size))
  BY DEF BlocksAreDisjoint
<1> DEFINE v == blocks[j].from
           e == Plus(blocks[i].from, blocks[i].size)
<1>1. Near(blocks[i].from) /\ Size(blocks[i].size) /\ Near(v)
  BY DEF InOrder
<1>2. e \in Word /\ NumberOf(e) = NumberOf(blocks[i].from) + blocks[i].size
  BY <1>1, BlockEnds
<1>3. NumberOf(e) <= NumberOf(v)
  BY <1>2 DEF InOrder, Below
<1>4. v \in Word
  BY <1>1 DEF Near
<1> HIDE DEF v, e
<1>5. NumberOf(v) \in Nat /\ NumberOf(e) \in Nat /\ (Less(v, e) <=> NumberOf(v) < NumberOf(e))
  BY <1>2, <1>4, LessIs
<1> QED
  BY <1>3, <1>5 DEF v, e

-----------------------------------------------------------------------------
(* The machine's steps.                                                    *)

\* A block is given where a call for memory or for a line returns.
LEMMA NoBlock ==
  ASSUME MachineSteps, ~(pc \in {"alloc", "storing"} /\ pc' = "program")
  PROVE  blocks' = blocks
  BY DEF MachineSteps

\* Where a call for memory or for a line begins, and the bytes of a line.
LEMMA WhereCallsBegin ==
  ASSUME MachineSteps
  PROVE  /\ pc' \in {"alloc", "readline"} => Syscall
         /\ pc' = "storing" => pc \in {"readline", "storing"}
<1>1. \A c : Handler(c) \notin {"alloc", "readline", "storing"}
  BY DEF Handler
<1>2. Begin => pc' \notin {"alloc", "readline", "storing"}
  BY <1>1 DEF Begin
<1>3. Boot \/ ShowRegs \/ ShowMem \/ ShowWord \/ Assemble \/ Echo \/ Execute \/ DelTLB \/ AddTLB
      \/ Reported \/ Alloc \/ ReadInt \/ Fault \/ Return
      => pc' \notin {"alloc", "readline", "storing"}
  BY DEF Boot, ShowRegs, ShowMem, ShowWord, Assemble, Echo, Execute, DelTLB, AddTLB, Reported,
         Alloc, ReadInt, Fault, Return, Reports
<1>4. Putc => pc' = pc /\ pc = "program"
  BY Guards DEF Putc, monitorVars
<1>5. Syscall => pc' # "storing"
  <2>1. \A n : CallWaits(n) # "storing"
    BY DEF CallWaits
  <2> QED
    BY <2>1 DEF Syscall
<1>6. ReadLine \/ StoreLine => pc \in {"readline", "storing"} /\ pc' \in {"storing", "program"}
  BY Guards DEF ReadLine, StoreLine
<1> QED
  BY <1>2, <1>3, <1>4, <1>5, <1>6 DEF MachineSteps, MonitorStep, ProgramStep

\* What is between the sides matters while a request is under way.
LEMMA NothingAsked ==
  ASSUME InOrder(blocks'), Beyond(blocks', dataSeg'), parted' = "no",
         pc' \notin {"alloc", "readline", "storing"}
  PROVE  Granted'
  BY DEF Granted, Granting

\* Outside the dialogue of a running terminal nothing matters but the blocks.
LEMMA NothingGranted ==
  ASSUME InOrder(blocks'), at' \in Away \/ parted' # "no",
         parted' = "no" /\ at' # "off" => Beyond(blocks', dataSeg'),
         parted' = "restart" => pc' # "alloc" \/ toMachine' = <<>>
  PROVE  Granted'
  BY DEF Granted

\* The program is not served any more: it is not given a block.
LEMMA ApartGrants ==
  ASSUME Inv, Granted, MachineSteps, parted \notin {"no", "echo"}
  PROVE  Granted'
<1>1. parted' = parted /\ InOrder(blocks) /\ Typed
  BY MachineFrame DEF Granted, Inv
<1>2. CASE toMachine = <<>>
  <2>1. pc \notin Reading /\ toMachine' = <<>>
    BY <1>2, NothingTaken
  <2>2. blocks' = blocks
    BY <2>1, NoBlock, Waits
  <2> QED
    BY <1>1, <2>1, <2>2, NothingGranted
<1>3. CASE toMachine # <<>> /\ parted = "restart"
  <2>1. pc = "alloc" /\ Queue(toMachine, 4)
    BY <1>3 DEF Inv, Apart
  <2>2. Carries(toMachine, 1, AllocFailed)
    BY <1>3, <2>1 DEF Granted
  <2>3. AllocFailed \in Word
    BY SMT DEF AllocFailed, Word, Halfword
  <2>4. WordAt(toMachine, 1) = AllocFailed
    BY <2>1, <2>2, <2>3, WordIsRead
  <2>5. pc' = "boot"
    BY <2>1, <2>4, ByPlace DEF Alloc
  <2>6. blocks' = blocks
    BY <2>5, NoBlock
  <2> QED
    BY <1>1, <1>3, <2>5, <2>6, NothingGranted
<1>4. CASE toMachine # <<>> /\ parted # "restart"
  <2>1. pc \notin {"alloc", "storing"}
    <3>1. CASE parted = "unmapped"
      BY <1>4, <3>1 DEF Inv, Apart
    <3>2. CASE parted = "exception"
      <4>1. Queue(toMachine, 1)
        BY <1>4, <3>2 DEF Inv, Apart
      <4>2. ~TakesFromHost(4)
        BY <4>1, Taken
      <4> QED
        BY <4>2, MachineTakes, Waits
    <3> QED
      BY <1>4, <3>1, <3>2 DEF Inv, Apart
  <2>2. blocks' = blocks
    BY <2>1, NoBlock
  <2> QED
    BY <1>1, <1>4, <2>2, NothingGranted
<1> QED
  BY <1>2, <1>3, <1>4

\* While no terminal is connected the machine stands, or starts.
LEMMA AwayGrants ==
  ASSUME Inv, Granted, MachineSteps, parted = "no", at \in Away
  PROVE  Granted'
<1>1. ~AtRest
  BY RestIsQuiet DEF Inv
<1>2. pc \in {"boot", "begin"}
  BY <1>1 DEF Inv, Outside, Away
<1>3. blocks' = blocks
  BY <1>2, NoBlock
<1> QED
  BY <1>3, MachineFrame, NothingGranted DEF Granted

\* A call sends what the terminal needs to answer it.
LEMMA RequestGrants ==
  ASSUME Inv, Granted, MachineSteps, parted = "no", Running, Syscall, port = "open"
  PROVE  Granted'
<1>1. PICK call \in ProgramCalls :
        /\ ToHost(<<2, call.v0>> \o CallSends(call)) /\ a0' = call.a0 /\ pc' = CallWaits(call.v0)
  BY DEF Syscall
<1>2. /\ at' = at /\ at \in {"listen", "call", "cause"} /\ parted' = "no" /\ dataSeg' = dataSeg
      /\ toMachine' = <<>> /\ pc = "program" /\ Typed
  BY MachineFrame, NothingTaken, Guards DEF Running, Inv
<1>3. blocks' = blocks
  BY <1>2, NoBlock
<1>4. InOrder(blocks') /\ Beyond(blocks', dataSeg')
  BY <1>2, <1>3 DEF Granted
<1>5. pc' # "storing"
  BY <1>2, WhereCallsBegin
<1>6. CASE pc' # "alloc"
  BY <1>2, <1>4, <1>5, <1>6 DEF Granted, Granting
<1>7. CASE pc' = "alloc"
  <2>1. call.v0 = 1
    BY <1>1, <1>7, WaitsOf
  <2>2. a0' \in Nat /\ a0' < 16777216
    BY <1>1, SessionAssumption
  <2> DEFINE l == <<2, call.v0>>
             b == BytesOf(WordOf(a0'))
  <2>3. ToHost(l \o b)
    BY <1>1, <2>1 DEF CallSends
  <2>4. Queue(l, 2) /\ Queue(b, 4) /\ Carries(b, 1, WordOf(a0'))
    BY QueueTwo, QueueWord, OwnBytes
  <2> HIDE DEF l, b
  <2>5. Behind(l \o b, l, 2, b, 4)
    BY <2>4, QueueJoin
  <2>6. Queue(l \o b, 6) /\ Carries(l \o b, 3, WordOf(a0'))
    <3>1. Queue(l \o b, 2 + 4)
      BY <2>5 DEF Behind
    <3>2. Carries(l \o b, 2 + 1, WordOf(a0'))
      BY <2>4, <2>5, CarriedBehind
    <3> QED
      BY <3>1, <3>2
  <2> DEFINE k == Len(toHost)
             m == l \o b
  <2>7. Queue(toHost, k) /\ k \in Nat
    BY <1>2, TypedParts, QueueType
  <2>8. toHost' = toHost \o m
    BY <2>3 DEF ToHost
  <2>9. Queue(m, 6) /\ Carries(m, 3, WordOf(a0'))
    BY <2>6
  <2> HIDE DEF k, m
  <2>10. Behind(toHost', toHost, k, m, 6)
    BY <2>7, <2>8, <2>9, QueueJoin
  <2>11. Queue(toHost', k + 6) /\ Carries(toHost', k + 3, WordOf(a0'))
    <3>1. Queue(toHost', k + 6)
      BY <2>10 DEF Behind
    <3>2. Carries(toHost', k + 3, WordOf(a0'))
      BY <2>7, <2>9, <2>10, CarriedBehind
    <3> QED
      BY <3>1, <3>2
  <2>12. k + 2 \in Nat /\ (k + 2) + 4 = k + 6 /\ (k + 2) + 1 = k + 3
    BY <2>7
  <2>13. \E n \in Nat : Queue(toHost', n + 4) /\ Carries(toHost', n + 1, WordOf(a0'))
    BY <2>11, <2>12
  <2>14. Granting'
    BY <1>2, <1>7, <2>2, <2>13 DEF Granting
  <2> QED
    BY <1>2, <1>4, <2>14 DEF Granted
<1> QED
  BY <1>6, <1>7

\* Memory is given: the block that the terminal set aside.
LEMMA AllocGrants ==
  ASSUME Inv, Granted, MachineSteps, parted = "no", Answering, pc = "alloc", at \notin Away
  PROVE  Granted'
<1>1. /\ at = "listen" /\ Queue(toMachine, 4) /\ parted' = "no" /\ dataSeg' = dataSeg /\ Typed
  BY MachineFrame DEF Answering, Inv
<1>2. toMachine # <<>>
  BY NothingTaken, Waits
<1>3. InOrder(blocks) /\ Beyond(blocks, dataSeg) /\ Granting
  BY <1>1, <1>2 DEF Granted, Away
<1>4. PICK w : Promised(blocks, dataSeg, w, a0) /\ Carries(toMachine, 1, w)
  BY <1>2, <1>3 DEF Granting
<1>5. w \in Word
  BY <1>4 DEF Promised, Near
<1>6. WordAt(toMachine, 1) = w
  BY <1>1, <1>4, <1>5, WordIsRead
<1>7. v0' = w /\ pc' \in {"boot", "program"}
  BY <1>6, ByPlace DEF Alloc
<1>8. CASE pc' = "boot"
  BY <1>1, <1>3, <1>8, NoBlock, NothingAsked
<1>9. CASE pc' = "program"
  <2>1. blocks' = Append(blocks, [from |-> w, size |-> a0])
    BY <1>7, <1>9 DEF MachineSteps
  <2>2. InOrder(blocks') /\ Beyond(blocks', dataSeg')
    BY <1>1, <1>3, <1>4, <2>1, BlockGiven
  <2> QED
    BY <1>1, <1>9, <2>2, NothingAsked
<1> QED
  BY <1>7, <1>8, <1>9

\* What was not read of an address and a line.
LEMMA AfterAddress ==
  ASSUME NEW q, NEW p, NEW n, Queue(q, 4 + n), n \in Nat, p = SubSeq(q, 5, Len(q))
  PROVE  Queue(p, n)
<1>1. 4 <= 4 + n /\ 4 \in Nat /\ 4 + 1 = 5
  OBVIOUS
<1>2. Left(p, q, 4 + n, 4)
  BY <1>1, QueueRest
<1>3. (4 + n) - 4 = n
  OBVIOUS
<1> QED
  BY <1>2, <1>3 DEF Left

\* The address of a line is taken.
LEMMA ReadLineGrants ==
  ASSUME Inv, Granted, MachineSteps, parted = "no", Answering, pc = "readline", at \notin Away
  PROVE  Granted'
<1>1. /\ at \in {"line", "listen"} /\ at' = at /\ parted' = "no" /\ dataSeg' = dataSeg /\ Typed
  BY MachineFrame DEF Answering, Inv
<1>2. toMachine # <<>> /\ blocks' = blocks
  BY NothingTaken, Waits, NoBlock
<1>3. InOrder(blocks) /\ Beyond(blocks, dataSeg) /\ Granting
  BY <1>1 DEF Granted, Away
<1>4. /\ v0' = WordAt(toMachine, 1) /\ left' = 0 /\ pc' = "storing"
      /\ toMachine' = SubSeq(toMachine, 5, Len(toMachine))
  BY ByPlace, Waits DEF ReadLine, TakesFromHost
<1>5. \E n, w : n \in Nat /\ w \in Word /\ Queue(toMachine, 4 + n) /\ Carries(toMachine, 1, w)
                /\ Promised(blocks, dataSeg, w, n)
  <2>1. CASE at = "line"
    <3>1. Queue(toMachine, 4 + 0) /\ Carries(toMachine, 1, dataSeg)
      BY <1>3, <2>1 DEF Granting, Answering
    <3>2. dataSeg \in Word /\ Near(dataSeg) /\ Size(0)
      BY <1>1 DEF Typed, Near, Size
    <3>3. Promised(blocks, dataSeg, dataSeg, 0)
      BY <1>3, <3>2, PlusZero DEF Promised
    <3> QED
      BY <3>1, <3>2, <3>3
  <2>2. CASE at = "listen"
    <3>1. PICK w, n : /\ Promised(blocks, dataSeg, w, n)
                      /\ Carries(toMachine, 1, w) /\ Queue(toMachine, 4 + n)
      BY <1>2, <1>3, <2>2 DEF Granting
    <3>2. n \in Nat /\ w \in Word
      BY <3>1 DEF Promised, Size, Near
    <3> QED
      BY <3>1, <3>2
  <2> QED
    BY <1>1, <2>1, <2>2
<1>6. PICK n, w : n \in Nat /\ w \in Word /\ Queue(toMachine, 4 + n) /\ Carries(toMachine, 1, w)
                  /\ Promised(blocks, dataSeg, w, n)
  BY <1>5
<1>7. v0' = w
  <2>1. 1 + 3 <= 4 + n
    BY <1>6
  <2> QED
    BY <1>4, <1>6, <2>1, WordIsRead
<1>8. Queue(toMachine', n) /\ Promised(blocks', dataSeg', v0', 4 * left' + n)
  <2>1. 4 * left' + n = n
    BY <1>4, <1>6
  <2> QED
    BY <1>1, <1>2, <1>4, <1>6, <1>7, <2>1, AfterAddress
<1>9. Granting'
  BY <1>4, <1>8 DEF Granting
<1> QED
  BY <1>1, <1>2, <1>3, <1>9 DEF Granted

\* A word of a line is stored; with the last the block is given.
LEMMA StoreGrants ==
  ASSUME Inv, Inv', Granted, MachineSteps, parted = "no", Answering, pc = "storing", at \notin Away
  PROVE  Granted'
<1>1. /\ at' = at /\ parted' = "no" /\ dataSeg' = dataSeg /\ Typed
  BY MachineFrame DEF Inv
<1>2. toMachine # <<>>
  BY NothingTaken, Waits
<1>3. at = "listen"
  BY <1>2 DEF Answering
<1>4. InOrder(blocks) /\ Beyond(blocks, dataSeg) /\ Granting
  BY <1>3 DEF Granted, Away
<1>5. /\ left' = left + 1 /\ v0' = v0 /\ pc' \in {"storing", "program"}
      /\ Len(toMachine) >= 4 /\ toMachine' = SubSeq(toMachine, 5, Len(toMachine))
  BY ByPlace, Waits DEF StoreLine, TakesFromHost
<1>6. PICK n : left \in Nat /\ Queue(toMachine, n) /\ Promised(blocks, dataSeg, v0, 4 * left + n)
  BY <1>4 DEF Granting
<1> DEFINE k == n - 4
<1>7. k \in Nat /\ n = 4 + k /\ 4 * left + n = 4 * (left + 1) + k
  <2>1. n \in Nat /\ n >= 4
    BY <1>5, <1>6 DEF Queue
  <2> QED
    BY <1>6, <2>1
<1> HIDE DEF k
<1>8. Queue(toMachine', k)
  BY <1>5, <1>6, <1>7, AfterAddress
<1>9. Promised(blocks, dataSeg, v0, 4 * left' + k)
  BY <1>5, <1>6, <1>7
<1>10. CASE pc' = "storing"
  <2>1. blocks' = blocks
    BY <1>10, NoBlock
  <2>2. left' \in Nat
    BY <1>5, <1>6
  <2>3. Granting'
    BY <1>1, <1>3, <1>5, <1>8, <1>9, <1>10, <2>1, <2>2 DEF Granting
  <2> QED
    BY <1>1, <1>4, <2>1, <2>3 DEF Granted
<1>11. CASE pc' = "program"
  <2>1. Dialogue'
    BY <1>1, <1>3 DEF Inv, InDialogue, Away
  <2>2. toMachine' = <<>>
    BY <1>11, <2>1 DEF Dialogue, Idle, Quiet, Deleting, Adding, ShowingRegs, Dumping, Storing,
       Going, Running, Answering
  <2>3. k = 0
    BY <1>8, <2>2, NilQueue, OneLength
  <2>4. 4 * left' + k = 4 * left'
    BY <1>5, <1>6, <2>3
  <2>5. blocks' = Append(blocks, [from |-> v0, size |-> 4 * left'])
    BY <1>5, <1>11 DEF MachineSteps
  <2>6. InOrder(blocks') /\ Beyond(blocks', dataSeg')
    BY <1>1, <1>4, <1>9, <2>4, <2>5, BlockGiven
  <2> QED
    BY <1>1, <1>11, <2>6, NothingAsked
<1> QED
  BY <1>5, <1>10, <1>11

\* The machine's steps keep what the terminal has promised.
LEMMA MachineGrants ==
  ASSUME Inv, Inv', Granted, MachineSteps
  PROVE  Granted'
<1>1. CASE parted = "echo"
  BY <1>1, MachineFrame DEF Granted
<1>2. CASE parted = "no" /\ at \notin Away
  <2>1. Dialogue /\ port = "open" /\ at' = at /\ parted' = "no" /\ dataSeg' = dataSeg
    BY <1>2, MachineFrame DEF Inv, InDialogue, Outside
  <2>2. InOrder(blocks) /\ Beyond(blocks, dataSeg)
    BY <1>2 DEF Granted, Away
  <2>3. CASE Syscall
    <3>1. Running
      BY <2>1, <2>3, Guards DEF Dialogue, Idle, Quiet, Deleting, Adding, ShowingRegs, Dumping,
         Storing, Going, Answering
    <3> QED
      BY <1>2, <2>1, <2>3, <3>1, RequestGrants
  <2>4. CASE ~Syscall /\ pc \notin {"alloc", "readline", "storing"}
    <3>1. pc' \notin {"alloc", "readline", "storing"}
      BY <2>4, WhereCallsBegin
    <3>2. blocks' = blocks
      BY <2>4, NoBlock
    <3> QED
      BY <2>1, <2>2, <3>1, <3>2, NothingAsked
  <2>5. CASE pc \in {"alloc", "readline", "storing"}
    <3>1. toMachine # <<>>
      BY <2>5, NothingTaken, Waits
    <3>2. Answering
      BY <2>1, <2>5, <3>1 DEF Dialogue, Idle, Quiet, Deleting, Adding, ShowingRegs, Dumping,
         Storing, Going, Running
    <3> QED
      BY <1>2, <2>5, <3>2, AllocGrants, ReadLineGrants, StoreGrants
  <2> QED
    BY <2>3, <2>4, <2>5
<1>3. CASE parted = "no" /\ at \in Away
  BY <1>3, AwayGrants
<1> QED
  BY <1>1, <1>2, <1>3, ApartGrants

\* A byte is lost where nobody is given anything.
LEMMA LossGrants ==
  ASSUME Inv, Granted, ByteLost
  PROVE  Granted'
<1>1. /\ pc \notin Reading /\ Len(toMachine) > 1 /\ parted' = parted
  BY DEF ByteLost, Overrun, consoleVars
<1>2. parted = "echo"
  BY <1>1, LittleUnread DEF NoOverrun
<1> QED
  BY <1>1, <1>2 DEF Granted

-----------------------------------------------------------------------------
(* The terminal's steps.                                                   *)

\* What of the blocks and of the machine the terminal never touches.
LEMMA TerminalLeaves ==
  ASSUME TerminalSteps
  PROVE  blocks' = blocks /\ pc' = pc /\ a0' = a0 /\ left' = left /\ v0' = v0
  BY DEF TerminalSteps, monitorVars, ghosts

\* Where the terminal is busy with something else the machine asks for nothing.
LEMMA NobodyAsks ==
  ASSUME Inv', parted' = "no", at' \notin Away \union {"listen", "call", "cause", "line"}
  PROVE  pc' \notin {"alloc", "readline", "storing"}
<1>1. Dialogue'
  BY DEF Inv, InDialogue
<1> QED
  BY <1>1 DEF Dialogue, Idle, Quiet, Deleting, Adding, ShowingRegs, Dumping, Storing, Going,
     Running, Answering

\* A command that is over, or another one under way.
LEMMA TerminalBusy ==
  ASSUME Inv', Granted, TerminalSteps, parted' = parted, parted \in {"no", "unmapped"},
         at # "off", dataSeg' = dataSeg, at' \notin Away \union {"listen", "call", "cause", "line"}
  PROVE  Granted'
<1>1. blocks' = blocks
  BY TerminalLeaves
<1>2. InOrder(blocks')
  BY <1>1 DEF Granted
<1>3. CASE parted = "no"
  <2>1. Beyond(blocks', dataSeg')
    BY <1>1, <1>3 DEF Granted
  <2> QED
    BY <1>2, <1>3, <2>1, NobodyAsks, NothingAsked
<1>4. CASE parted # "no"
  BY <1>2, <1>4, NothingGranted
<1> QED
  BY <1>3, <1>4

\* Before the end of a call for memory its size comes.
LEMMA SizeToCome ==
  ASSUME NEW q, IsSeq(q), NEW l \in {"listen", "call", "cause"}, Says(l, q, "alloc")
  PROVE  Len(q) >= 5
<1>1. PICK t : "alloc" \in Ends(t) /\ Reads(q, l, t)
  BY DEF Says
<1>2. t = "alloc"
  BY <1>1 DEF Ends
<1>3. PICK f : Run(f, q, l) /\ f[Len(q)] = "alloc"
  BY <1>1, <1>2 DEF Reads
<1>4. f[0] = l /\ \A k \in 1 .. Len(q) : f[k] = Step(f[k - 1], q[k])
  BY <1>3 DEF Run
<1>5. \A s, b : /\ Step(s, b) = "alloc" => s = "a1"
                /\ Step(s, b) = "a1" => s = "a2"
                /\ Step(s, b) = "a2" => s = "a3"
                /\ Step(s, b) = "a3" => s = "a4"
  <2> SUFFICES ASSUME NEW s, NEW b
               PROVE  /\ Step(s, b) = "alloc" => s = "a1"
                      /\ Step(s, b) = "a1" => s = "a2"
                      /\ Step(s, b) = "a2" => s = "a3"
                      /\ Step(s, b) = "a3" => s = "a4"
    OBVIOUS
  <2>1. /\ ReadsOn["n4"] = "n3" /\ ReadsOn["n3"] = "n2" /\ ReadsOn["n2"] = "n1"
        /\ ReadsOn["n1"] = "listen" /\ ReadsOn["a4"] = "a3" /\ ReadsOn["a3"] = "a2"
        /\ ReadsOn["a2"] = "a1"
    BY DEF ReadsOn
  <2> QED
    BY <2>1 DEF Step
<1> DEFINE n == Len(q)
<1>6. n \in Nat
  BY SeqIs
<1>7. ASSUME NEW k \in Nat, k <= n, f[k] \in {"alloc", "a1", "a2", "a3", "a4"}
      PROVE  k \in 1 .. n /\ k - 1 \in Nat /\ k - 1 <= n /\ f[k] = Step(f[k - 1], q[k])
  <2>1. k # 0
    BY <1>4, <1>7
  <2>2. k \in 1 .. n /\ k - 1 \in Nat /\ k - 1 <= n
    BY <1>6, <1>7, <2>1
  <2> QED
    BY <1>4, <2>2
<1> HIDE DEF n
<1>8. f[n] = "alloc"
  BY <1>3 DEF n
<1>9. n - 1 \in Nat /\ n - 1 <= n /\ f[n - 1] = "a1"
  BY <1>5, <1>6, <1>7, <1>8
<1>10. (n - 1) - 1 \in Nat /\ (n - 1) - 1 <= n /\ f[(n - 1) - 1] = "a2"
  BY <1>5, <1>7, <1>9
<1>11. ((n - 1) - 1) - 1 \in Nat /\ ((n - 1) - 1) - 1 <= n /\ f[((n - 1) - 1) - 1] = "a3"
  BY <1>5, <1>7, <1>10
<1>12. (((n - 1) - 1) - 1) - 1 \in Nat /\ (((n - 1) - 1) - 1) - 1 <= n
       /\ f[(((n - 1) - 1) - 1) - 1] = "a4"
  BY <1>5, <1>7, <1>11
<1>13. ((((n - 1) - 1) - 1) - 1) - 1 \in Nat
  BY <1>7, <1>12
<1>14. n >= 5
  BY <1>6, <1>13
<1> QED
  BY <1>14 DEF n

\* A terminal to which the program still speaks, and which has said nothing.
LEMMA StillRunning ==
  ASSUME Inv', parted' = "no", at' \in {"listen", "call", "cause"}, toMachine' = <<>>
  PROVE  Running'
<1>1. Dialogue'
  BY DEF Inv, InDialogue, Away
<1>2. \A n : Queue(<<>>, n) => n = 0
  BY NilQueue, OneLength
<1>3. ~IsLine(<<>>)
  <2>1. SUFFICES ASSUME IsLine(<<>>) PROVE FALSE
    OBVIOUS
  <2>2. PICK n \in Nat : Queue(<<>>, n) /\ 4 <= n
    BY <2>1, LineIsQueue
  <2> QED
    BY <1>2, <2>2
<1>4. \A q : ~Answer(<<>>, q)
  <2>1. ASSUME NEW q, NEW n, Queue(<<>>, 4 + n), Queue(q, n) PROVE FALSE
    <3>1. n \in Nat /\ 4 + n = 0
      BY <1>2, <2>1, QueueType
    <3> QED
      BY <3>1
  <2> QED
    BY <2>1 DEF Answer
<1>5. ~Going'
  BY <1>2 DEF Going
<1>6. ~Answering'
  BY <1>2, <1>3, <1>4 DEF Answering
<1> QED
  BY <1>1, <1>5, <1>6 DEF Dialogue, Idle, Deleting, Adding, ShowingRegs, Dumping, Storing

\* The terminal takes some of what a running program says: never a part only of
\* the size that a call for memory ends with.
LEMMA ReadingGrants ==
  ASSUME Inv, Inv', Granted, TerminalSteps, parted = "no", parted' = "no", Running,
         at' \in {"listen", "call", "cause"}, toMachine' = <<>>, dataSeg' = dataSeg,
         NEW j \in Nat, TakesFromMachine(j)
  PROVE  Granted'
<1>1. blocks' = blocks /\ pc' = pc /\ a0' = a0 /\ at \in {"listen", "call", "cause"}
  BY TerminalLeaves DEF Running
<1>2. InOrder(blocks) /\ Beyond(blocks, dataSeg) /\ Granting
  BY <1>1 DEF Granted, Away
<1>3. Running'
  BY StillRunning
<1>4. pc' # "storing"
  <2>1. PICK t : pc' \in Ends(t)
    BY <1>3 DEF Running, Says
  <2>2. Ends(t) \subseteq {"program", "alloc", "readline", "readint", "boot", "begin", "reported"}
    BY DEF Ends
  <2> QED
    BY <2>1, <2>2
<1>5. CASE pc' # "alloc"
  BY <1>1, <1>2, <1>4, <1>5 DEF Granted, Granting
<1>6. CASE pc' = "alloc"
  <2>1. IsSeq(toHost') /\ IsSeq(toHost)
    BY DEF Inv, Typed
  <2>2. Says(at', toHost', "alloc") /\ Says(at, toHost, "alloc")
    BY <1>1, <1>3, <1>6 DEF Running
  <2>3. Len(toHost') >= 5 /\ Len(toHost) >= 5
    BY <1>1, <2>1, <2>2, SizeToCome
  <2>4. toHost # <<>>
    BY <2>3, Nil
  <2>5. a0 \in Nat /\ a0 < 16777216
    BY <1>1, <1>2, <1>6 DEF Granting
  <2>6. PICK n \in Nat : Queue(toHost, n + 4) /\ Carries(toHost, n + 1, WordOf(a0))
    BY <1>1, <1>2, <1>6, <2>4 DEF Granting
  <2>7. Left(toHost', toHost, n + 4, j)
    BY <2>6, Received DEF Inv
  <2> DEFINE k == n - j
  <2>8. Queue(toHost', (n + 4) - j)
    BY <2>7 DEF Left
  <2>9. k \in Nat /\ (n + 4) - j = k + 4 /\ j + (k + 1) = n + 1 /\ j + (k + 1) + 3 <= n + 4
    <3>1. (n + 4) - j >= 5
      BY <2>3, <2>8 DEF Queue
    <3> QED
      BY <3>1
  <2> HIDE DEF k
  <2>10. Carries(toHost', k + 1, WordOf(a0'))
    <3> DEFINE i == k + 1
               m == n + 4
               w == WordOf(a0)
    <3>1. i \in Nat /\ 0 < i /\ m \in Nat /\ j + i + 3 <= m /\ j + i = n + 1
      BY <2>9
    <3>2. Left(toHost', toHost, m, j)
      BY <2>7
    <3>3. Carries(toHost, j + i, w)
      BY <2>6, <3>1
    <3> HIDE DEF i, m, w
    <3>4. Carries(toHost', i, w)
      BY <3>1, <3>2, <3>3, CarriedOn
    <3> QED
      BY <1>1, <3>4 DEF i, w
  <2>11. Queue(toHost', k + 4)
    BY <2>8, <2>9
  <2>12. Granting'
    BY <1>1, <1>6, <2>5, <2>9, <2>10, <2>11 DEF Granting
  <2> QED
    BY <1>1, <1>2, <2>12 DEF Granted
<1> QED
  BY <1>5, <1>6

\* The terminal reads a byte of a running program.
LEMMA ListenGrants ==
  ASSUME Inv, Inv', Granted, TerminalSteps, Listen
  PROVE  Granted'
<1>1. /\ at = "listen" /\ TakesFromMachine(1) /\ parted' = parted /\ toMachine' = toMachine
      /\ dataSeg' = dataSeg /\ at' \in {"prompt", "cause", "call", "listen"}
  BY DEF Listen
<1>2. toHost # <<>>
  BY <1>1, HeadIs DEF Inv
<1>3. Running /\ parted = "no"
  BY <1>1, <1>2, Silent, WhereWeAre
<1>4. CASE at' = "prompt"
  BY <1>1, <1>3, <1>4, TerminalBusy DEF Away
<1>5. CASE at' # "prompt"
  <2>1. toMachine' = <<>> /\ at' \in {"listen", "call", "cause"}
    BY <1>1, <1>3, <1>5 DEF Running
  <2> QED
    BY <1>1, <1>3, <2>1, ReadingGrants
<1> QED
  BY <1>4, <1>5

\* The calls after which the program goes on.
LEMMA CallGrants ==
  ASSUME Inv, Inv', Granted, TerminalSteps, CallShow \/ CallString \/ CallOther
  PROVE  Granted'
<1>1. \E n : \E k \in Nat : Calling(n, k)
  <2>1. CASE CallShow
    BY <2>1 DEF CallShow
  <2>2. CASE CallString
    <3>1. PICK k \in 2 .. Len(toHost) : Calling(6, k - 1)
      BY <2>2 DEF CallString
    <3>2. Len(toHost) \in Nat
      BY TypedParts, QueueType DEF Inv
    <3>3. k - 1 \in Nat
      BY <3>2
    <3> QED
      BY <3>1, <3>3
  <2>3. CASE CallOther
    BY <2>3 DEF CallOther
  <2> QED
    BY <2>1, <2>2, <2>3
<1>2. PICK n : \E k \in Nat : Calling(n, k)
  BY <1>1
<1>3. PICK k \in Nat : Calling(n, k)
  BY <1>2
<1>4. parted = "no" /\ toMachine = <<>> /\ TakesFromMachine(1 + k) /\ Running
  BY <1>3, CallFrame
<1>5. at' = "listen" /\ dataSeg' = dataSeg /\ parted' = parted /\ toMachine' = toMachine
  BY DEF CallShow, CallString, CallOther
<1>6. 1 + k \in Nat
  OBVIOUS
<1> QED
  BY <1>4, <1>5, <1>6, ReadingGrants

\* A line is asked for: its address goes first.
LEMMA CallLineGrants ==
  ASSUME Inv, Inv', Granted, TerminalSteps, CallLine
  PROVE  Granted'
<1>1. /\ Calling(2, 0) /\ at' = "line" /\ dataSeg' = dataSeg /\ parted' = parted
      /\ ToMachine(BytesOf(dataSeg))
  BY DEF CallLine
<1>2. at = "call" /\ parted = "no" /\ toMachine = <<>> /\ Typed
  BY <1>1, CallFrame
<1>3. blocks' = blocks /\ pc' = pc
  BY TerminalLeaves
<1>4. InOrder(blocks') /\ Beyond(blocks', dataSeg')
  BY <1>1, <1>2, <1>3 DEF Granted
<1>5. toMachine' = BytesOf(dataSeg) /\ toMachine' # <<>>
  BY <1>1, <1>2, QueueWord, QueueType, Told, Nil, NilQueue, OneLength
<1>6. Carries(toMachine', 1, dataSeg')
  BY <1>1, <1>5, OwnBytes
<1>7. pc' = "readline"
  <2>1. Dialogue'
    BY <1>1, <1>2 DEF Inv, InDialogue, Away
  <2>2. pc' \in {"readline", "storing"} /\ (pc' = "storing" => toMachine' = <<>>)
    BY <1>1, <2>1 DEF Dialogue, Idle, Deleting, Adding, ShowingRegs, Dumping, Storing, Going,
       Running, Answering
  <2> QED
    BY <1>5, <2>2
<1>8. Granting'
  BY <1>1, <1>6, <1>7 DEF Granting
<1> QED
  BY <1>1, <1>2, <1>4, <1>8 DEF Granted

\* Memory is asked for: it is set aside, or refused.
LEMMA CallAllocGrants ==
  ASSUME Inv, Inv', Granted, TerminalSteps, CallAlloc
  PROVE  Granted'
<1> DEFINE size == NumberOf(WordAt(toHost, 2))
<1>1. /\ Calling(1, 4)
      /\ \/ /\ ToMachine(BytesOf(dataSeg)) /\ dataSeg' = Plus(dataSeg, size)
            /\ at' = "listen" /\ parted' = parted
         \/ /\ ToMachine(BytesOf(Refused)) /\ at' = "prompt" /\ parted' = "restart"
  BY DEF CallAlloc
<1>2. /\ at = "call" /\ parted = "no" /\ toMachine = <<>> /\ toHost[1] = 1 /\ TakesFromMachine(5)
      /\ Running /\ Typed /\ IsSeq(toHost) /\ Len(toHost) >= 5
  BY <1>1, CallFrame, TypedParts
<1>3. PICK t : pc \in Ends(t) /\ Reads(toHost, "call", t)
  BY <1>2 DEF Running, Says
<1>4. t # "stuck"
  BY <1>3, EndsSomewhere
<1>5. Queue(toHost, 5) /\ pc = "alloc"
  <2>1. Queue(toHost, 5) /\ t = "alloc"
    BY <1>2, <1>3, <1>4, SizeRead
  <2> QED
    BY <1>3, <2>1, EndsAre
<1>6. toHost' = <<>>
  <2>1. Left(toHost', toHost, 5, 5) /\ 0 = 5 - 5
    BY <1>2, <1>5, Received
  <2> QED
    BY <2>1, LeftQueue
<1>7. blocks' = blocks /\ pc' = "alloc" /\ a0' = a0
  BY <1>5, TerminalLeaves
<1>8. InOrder(blocks) /\ Beyond(blocks, dataSeg) /\ Granting
  BY <1>2 DEF Granted, Away
<1>9. CASE ToMachine(BytesOf(Refused)) /\ at' = "prompt" /\ parted' = "restart"
  <2>1. toMachine' = BytesOf(Refused)
    BY <1>2, <1>9, QueueWord, QueueType, Told, Nil
  <2>2. Refused = AllocFailed
    BY DEF Refused, AllocFailed
  <2>3. Carries(toMachine', 1, AllocFailed)
    BY <2>1, <2>2, OwnBytes
  <2> QED
    BY <1>7, <1>8, <1>9, <2>3 DEF Granted
<1>10. CASE /\ ToMachine(BytesOf(dataSeg)) /\ dataSeg' = Plus(dataSeg, size)
            /\ at' = "listen" /\ parted' = parted
  <2>1. a0 \in Nat /\ a0 < 16777216
    BY <1>5, <1>8 DEF Granting
  <2>2. size = a0
    <3>1. toHost # <<>>
      BY <1>2, Nil
    <3>2. PICK n \in Nat : Queue(toHost, n + 4) /\ Carries(toHost, n + 1, WordOf(a0))
      BY <1>5, <1>8, <3>1 DEF Granting
    <3>3. n = 1
      <4>1. n + 4 = 5
        BY <1>5, <3>2, OneLength
      <4> QED
        BY <4>1
    <3>4. WordOf(a0) \in Word /\ NumberOf(WordOf(a0)) = a0
      <4>1. a0 <= 2147483647
        BY <2>1
      <4> QED
        BY <2>1, <4>1, NumberIsRead
    <3>5. Carries(toHost, 2, WordOf(a0))
      BY <3>2, <3>3
    <3>6. WordAt(toHost, 2) = WordOf(a0)
      BY <1>5, <3>4, <3>5, WordIsRead
    <3> QED
      BY <3>4, <3>6
  <2> HIDE DEF size
  <2>3. toMachine' = BytesOf(dataSeg)
    BY <1>2, <1>10, QueueWord, QueueType, Told, Nil
  <2>4. Near(dataSeg)
    BY <1>2 DEF Typed, Near
  <2>5. Size(a0)
    BY <2>1 DEF Size
  <2>6. Promised(blocks, dataSeg', dataSeg, a0)
    BY <1>8, <1>10, <2>2, <2>4, <2>5 DEF Promised
  <2>7. Carries(toMachine', 1, dataSeg)
    BY <2>3, OwnBytes
  <2>8. Beyond(blocks, dataSeg')
    BY <1>8, <2>6, BeyondEnd
  <2>9. Granting'
    BY <1>6, <1>7, <1>10, <2>1, <2>6, <2>7 DEF Granting
  <2> QED
    BY <1>2, <1>7, <1>8, <1>10, <2>8, <2>9 DEF Granted
<1> QED
  BY <1>1, <1>9, <1>10

\* The terminal's steps keep it.
LEMMA TerminalGrants ==
  ASSUME Inv, Inv', Granted, TerminalSteps
  PROVE  Granted'
<1>1. blocks' = blocks /\ pc' = pc
  BY TerminalLeaves
<1>2. CASE Greet
  <2>1. at = "greeting" /\ at' = "prompt" /\ parted' = parted /\ dataSeg' = dataSeg
    BY <1>2 DEF Greet
  <2>2. parted = "no"
    BY <2>1, WhereWeAre
  <2> QED
    BY <2>1, <2>2, TerminalBusy DEF Away
<1>3. CASE TakeReg \/ TakeWord
  <2>1. /\ at \in {"regs", "dump"} /\ at' \in {"regs", "dump", "prompt"} /\ parted' = parted
        /\ dataSeg' = dataSeg
    BY <1>3 DEF TakeReg, TakeWord
  <2>2. parted \in {"no", "unmapped"}
    BY <2>1, WhereWeAre
  <2> QED
    BY <2>1, <2>2, TerminalBusy DEF Away
<1>4. CASE TakeStored \/ TakeLoaded
  BY <1>4 DEF TakeStored, TakeLoaded, Granted
<1>5. CASE CallInteger
  <2>1. Calling(3, 0) /\ at' = "integer" /\ parted' = parted /\ dataSeg' = dataSeg
    BY <1>5 DEF CallInteger
  <2>2. parted = "no" /\ at = "call"
    BY <2>1, CallFrame
  <2> QED
    BY <2>1, <2>2, TerminalBusy DEF Away
<1>6. CASE CallHalt
  <2>1. Calling(8, 0) /\ parted' = "restart" /\ toMachine' = toMachine
    BY <1>6 DEF CallHalt
  <2>2. parted = "no" /\ toMachine = <<>>
    BY <2>1, CallFrame
  <2> QED
    BY <1>1, <2>1, <2>2, NothingGranted DEF Granted
<1>7. CASE TakeCause \/ TakeOver
  <2>1. at \in {"cause", "over"} /\ parted' \in {parted, "exception"} /\ (parted' = parted => at = "over")
    BY <1>7, WhereWeAre DEF TakeCause, TakeOver
  <2>2. parted \in {"no", "exception"} /\ parted' = "exception"
    BY <1>7, <2>1, WhereWeAre DEF TakeCause, TakeOver
  <2> QED
    BY <1>1, <2>2, NothingGranted DEF Granted
<1> QED
  BY <1>2, <1>3, <1>4, <1>5, <1>6, <1>7, ListenGrants, CallGrants, CallLineGrants, CallAllocGrants
     DEF TerminalSteps, ConsoleStep

-----------------------------------------------------------------------------
(* The user's steps, and the theorem.                                      *)

\* No command changes where the next block begins.
LEMMA CommandGrants ==
  ASSUME Inv, Inv', Granted, UserCommands
  PROVE  Granted'
<1>1. blocks' = blocks /\ pc' = pc
  BY DEF UserCommands, monitorVars
<1>2. PICK line : kernelRun(line) /\ (parted # "no" => line = Quit)
  BY DEF UserCommands
<1>3. /\ at = "prompt" /\ dataSeg' = dataSeg
      /\ parted' \in {parted, "unmapped"}
  BY <1>2 DEF kernelRun, Misread, Exit, runR, runD, runA, runLoadFile, runG, runViewTLB, runDelTLB,
     runAddTLB, Obeys
<1>4. CASE parted = "no"
  <2>1. pc' = "begin"
    BY <1>4, Prompted
  <2>2. InOrder(blocks') /\ Beyond(blocks', dataSeg')
    BY <1>1, <1>3, <1>4 DEF Granted
  <2>3. CASE parted' = "no"
    BY <2>1, <2>2, <2>3, NothingAsked
  <2>4. CASE parted' # "no"
    BY <2>1, <2>2, <2>4, NothingGranted
  <2> QED
    BY <2>3, <2>4
<1>5. CASE parted # "no"
  <2>1. Exit
    BY <1>2, <1>5 DEF kernelRun, Quit
  <2>2. parted' = parted /\ toMachine' = toMachine
    BY <2>1 DEF Exit
  <2> QED
    BY <1>1, <1>5, <2>2 DEF Granted
<1> QED
  BY <1>4, <1>5

\* A line is typed: the block that begins at its address is as long.
LEMMA LineGrants ==
  ASSUME Inv, Inv', Granted, UserAnswers, TypeLine
  PROVE  Granted'
<1>1. PICK line \in IF lineEnd THEN {<<>>} ELSE Lines :
        ToMachine(Padded(line)) /\ dataSeg' = Advanced(dataSeg, Len(Padded(line)))
  BY DEF TypeLine
<1>2. at = "line" /\ at' = "listen" /\ parted' = parted /\ toHost' = toHost
  BY DEF TypeLine
<1>3. pc' = pc /\ blocks' = blocks /\ left' = left /\ v0' = v0 /\ a0' = a0
  BY DEF UserAnswers, monitorVars, ghosts
<1>4. /\ parted = "no" /\ Typed
      /\ \/ pc = "readline" /\ Queue(toMachine, 4)
         \/ pc = "storing" /\ toMachine = <<>>
  BY <1>2, WhereWeAre DEF Answering, Inv
<1>5. line \in Seq(Nat \ {0}) /\ Len(line) \in Nat /\ Len(line) <= 65535
  <2>1. CASE line = <<>>
    BY <2>1, Nil, SMT
  <2>2. CASE line \in Lines
    BY <2>2, SessionAssumption, SMT
  <2> QED
    BY <1>1, <2>1, <2>2
<1> DEFINE q == Padded(line)
<1>6. PICK m \in Nat \ {0} : InWords(q, m) /\ 4 * m <= Len(line) + 4
  BY <1>5, PaddedLine
<1>7. toMachine' = toMachine \o q /\ dataSeg' = Plus(dataSeg, Len(q))
  BY <1>1 DEF ToMachine, Advanced
<1> HIDE DEF q
<1> DEFINE n == 4 * m
<1>8. Queue(q, n) /\ Len(q) = n /\ n \in Nat /\ n <= 65539
  <2>1. Queue(q, 4 * m)
    BY <1>6 DEF InWords
  <2> QED
    BY <1>5, <1>6, <2>1 DEF Queue
<1> HIDE DEF n
<1>9. InOrder(blocks) /\ Beyond(blocks, dataSeg) /\ Granting
  BY <1>2, <1>4 DEF Granted, Away
<1>10. Promised(blocks', dataSeg', dataSeg, n)
  <2>1. Near(dataSeg)
    BY <1>4 DEF Typed, Near
  <2>2. Size(n)
    BY <1>8 DEF Size
  <2> QED
    BY <1>3, <1>7, <1>8, <1>9, <2>1, <2>2 DEF Promised
<1>11. Beyond(blocks', dataSeg')
  BY <1>3, <1>9, <1>10, BeyondEnd
<1>12. CASE pc = "readline" /\ Queue(toMachine, 4)
  <2>1. Carries(toMachine, 1, dataSeg)
    BY <1>2, <1>9, <1>12 DEF Granting
  <2>2. Behind(toMachine', toMachine, 4, q, n)
    BY <1>7, <1>8, <1>12, QueueJoin
  <2>3. Carries(toMachine', 1, dataSeg)
    BY <1>8, <2>1, <2>2, CarriedBehind
  <2>4. Queue(toMachine', 4 + n)
    BY <2>2 DEF Behind
  <2>5. Granting'
    BY <1>2, <1>3, <1>10, <1>12, <2>3, <2>4 DEF Granting
  <2> QED
    BY <1>2, <1>3, <1>4, <1>9, <1>11, <2>5 DEF Granted
<1>13. CASE pc = "storing" /\ toMachine = <<>>
  <2>1. toMachine' = q
    BY <1>7, <1>8, <1>13, JoinedToNothing, QueueType
  <2>2. left = 0 /\ v0 = dataSeg
    <3>1. left = 0
      BY <1>2, <1>9, <1>13 DEF Granting
    <3>2. PICK i : Queue(toMachine, i) /\ Promised(blocks, dataSeg, v0, 4 * left + i)
      BY <1>9, <1>13 DEF Granting
    <3>3. i = 0
      BY <1>13, <3>2, NilQueue, OneLength
    <3>4. dataSeg = Plus(v0, 0) /\ v0 \in Word
      BY <3>1, <3>2, <3>3 DEF Promised, Near
    <3> QED
      BY <3>1, <3>4, PlusZero
  <2>3. left' \in Nat /\ 4 * left' + n = n
    BY <1>3, <1>8, <2>2
  <2>4. Queue(toMachine', n) /\ Promised(blocks', dataSeg', v0', 4 * left' + n)
    BY <1>3, <1>8, <1>10, <2>1, <2>2, <2>3
  <2>5. Granting'
    BY <1>2, <1>3, <1>13, <2>3, <2>4 DEF Granting
  <2> QED
    BY <1>2, <1>3, <1>4, <1>9, <1>11, <2>5 DEF Granted
<1> QED
  BY <1>4, <1>12, <1>13

\* What is typed beside commands.
LEMMA AnswerGrants ==
  ASSUME Inv, Inv', Granted, UserAnswers
  PROVE  Granted'
<1>1. blocks' = blocks /\ pc' = pc
  BY DEF UserAnswers, monitorVars, ghosts
<1>2. CASE TypeInstruction
  <2>1. at = "typing" /\ at' = "stored" /\ dataSeg' = dataSeg /\ parted' = parted
    BY <1>2 DEF TypeInstruction
  <2>2. parted \in {"no", "echo"}
    BY <2>1, WhereWeAre
  <2>3. CASE parted = "no"
    <3>1. InOrder(blocks') /\ Beyond(blocks', dataSeg')
      BY <1>1, <2>1, <2>3 DEF Granted
    <3> QED
      BY <2>1, <2>3, <3>1, NobodyAsks, NothingAsked DEF Away
  <2>4. CASE parted = "echo"
    BY <2>1, <2>4 DEF Granted
  <2> QED
    BY <2>2, <2>3, <2>4
<1>3. CASE TypeInteger
  <2>1. at = "integer" /\ at' = "listen" /\ dataSeg' = dataSeg /\ parted' = parted
    BY <1>3 DEF TypeInteger
  <2>2. parted = "no" /\ pc = "readint"
    BY <2>1, WhereWeAre DEF Answering
  <2>3. InOrder(blocks') /\ Beyond(blocks', dataSeg')
    BY <1>1, <2>1, <2>2 DEF Granted
  <2> QED
    BY <1>1, <2>1, <2>2, <2>3, NothingAsked
<1> QED
  BY <1>2, <1>3, LineGrants, UserFrame DEF UserStep

\* The terminal is started, connected or left, or the machine is reset.
LEMMA OutsideGrants ==
  ASSUME Inv, Granted, UserStarts \/ UserBreaks \/ OpensPort \/ OpensSimulator \/ Reset
  PROVE  Granted'
<1>1. CASE UserStarts
  <2>1. blocks' = <<>> /\ at' = "top" /\ parted' = "no"
    BY <1>1 DEF UserStarts, Start
  <2>2. DOMAIN blocks' = {} /\ IsSeq(blocks')
    <3>1. DOMAIN <<>> = 1 .. 0 /\ IsSeq(<<>>)
      BY Nil, SeqIs
    <3> QED
      BY <2>1, <3>1
  <2>3. InOrder(blocks') /\ Beyond(blocks', dataSeg')
    BY <2>2 DEF InOrder, Beyond
  <2> QED
    BY <2>1, <2>3, NothingGranted DEF Away
<1>2. CASE UserBreaks
  <2>1. blocks' = blocks /\ at' = "off" /\ parted' = parted /\ toMachine' = toMachine /\ pc' = pc
    BY <1>2 DEF UserBreaks, Exit, monitorVars, ghosts
  <2> QED
    BY <2>1 DEF Granted, Away
<1>3. CASE OpensPort \/ OpensSimulator \/ Reset
  <2>1. /\ blocks' = blocks /\ at \in {"top", "greeting"} /\ at' = "greeting" /\ parted' = parted
        /\ dataSeg' = dataSeg
    BY <1>3 DEF OpensPort, OpensSimulator, Reset, Connect, consoleVars, ghosts
  <2>2. parted = "no"
    BY <1>3, <2>1 DEF OpensPort, OpensSimulator, Reset, Connect, Inv, Outside
  <2> QED
    BY <2>1, <2>2, NothingGranted DEF Granted, Away
<1> QED
  BY <1>1, <1>2, <1>3

\* The initial states: nobody was given anything.
LEMMA StartsGranted ==
  ASSUME Init
  PROVE  Granted
<1>1. blocks = <<>> /\ at = "off" /\ parted = "no"
  BY DEF Init, ConsoleInit
<1>2. DOMAIN <<>> = 1 .. 0 /\ IsSeq(<<>>)
  BY Nil, SeqIs
<1>3. InOrder(blocks)
  BY <1>1, <1>2 DEF InOrder
<1> QED
  BY <1>1, <1>3 DEF Granted, Away

\* A step that changes nothing.
LEMMA NothingGrants ==
  ASSUME Granted, UNCHANGED vars
  PROVE  Granted'
  BY DEF vars, consoleVars, monitorVars, wires, ghosts, Granted, Granting

\* No two blocks that a program is given, for data (call 1) or for a line (call
\* 2), overlap: the terminal's dataSeg, the only place where it is noted what
\* is taken, is always behind what the machine was given or will be. As above,
\* until the echo of A is taken for its answer.
THEOREM BlocksApart == Spec => [](parted # "echo" => BlocksAreDisjoint)
<1>1. Init => Granted
  BY StartsGranted
<1>2. Inv /\ Inv' /\ Granted /\ [Next]_vars => Granted'
  <2> SUFFICES ASSUME Inv, Inv', Granted, [Next]_vars PROVE Granted'
    OBVIOUS
  <2>1. CASE UNCHANGED vars
    BY <2>1, NothingGrants
  <2>2. CASE Next
    BY <2>2, MachineGrants, LossGrants, TerminalGrants, CommandGrants, AnswerGrants, OutsideGrants
       DEF Next
  <2> QED
    BY <2>1, <2>2
<1>3. Granted => (parted # "echo" => BlocksAreDisjoint)
  BY InOrderIsDisjoint DEF Granted
<1> QED
  BY <1>1, <1>2, <1>3, Invariant, PTL DEF Spec

-----------------------------------------------------------------------------
(* What A and LOAD have sent, and what of it is in memory.                 *)

Writes == command.name \in {"A", "LOAD"}

\* Where the k-th word goes.
Target(a, k) == Plus(a, 4 * (k - 1))

\* The last m words of g are on their way as messages of A, of which the
\* machine has read d bytes.
Ahead(q, d, m, a, g) ==
  /\ Queue(q, 9 * m - d)
  /\ \A j \in 1 .. m :
       /\ 9 * j - d > 8 => q[9 * j - d - 8] = 65
       /\ Carries(q, 9 * j - d - 7, Target(a, Len(g) - m + j))
       /\ Carries(q, 9 * j - d - 3, g[Len(g) - m + j])

\* The others are stored.
Kept(m) == \A k \in 1 .. Len(Given) - m : Load(Target(command.addr, k)) = Given[k]
Writing ==
  \E m \in 0 .. Len(Given) :
    /\ Kept(m)
    /\ \/ pc \in {"begin", "echo"} /\ Ahead(toMachine, 0, m, command.addr, Given)
       \/ pc = "assemble" /\ m # 0 /\ Ahead(toMachine, 1, m, command.addr, Given)

\* Where the terminal is in the typed words or in the file.
WellGiven ==
  /\ command.addr \in Word
  /\ command.name = "A" => IsSeq(typed) /\ \A k \in DOMAIN typed : typed[k] \in Word
  /\ command.name = "LOAD" =>
       /\ command.file \in Seq([1 .. 4 -> 0 .. 255])
       /\ command.file # <<>> =>
            /\ Len(prog) < Len(command.file)
            /\ \A i \in 1 .. Len(prog) : prog[i] = command.file[Len(command.file) - Len(prog) + i]
  /\ at \in {"stored", "loading"} => Len(Given) # 0 /\ addr = Target(command.addr, Len(Given))
  /\ at = "typing" => addr = Target(command.addr, Len(Given) + 1)
  /\ at = "loading" => command.file # <<>>

\* Where the terminal can be with a command that writes.
Elsewhere == {"regs", "dump", "listen", "call", "cause", "over", "line", "integer"}
Places ==
  /\ at \in {"off", "greeting"} \union Elsewhere => ~Writes
  /\ at = "top" => ~Writes \/ port = "leaked"
  /\ at \in {"typing", "stored"} => command.name = "A"
  /\ at = "loading" => command.name = "LOAD"

Stores ==
  /\ IsSeq(prog) /\ DOMAIN mem = Addresses
  /\ Places
  /\ Writes /\ ~overrun => WellGiven /\ Writing

\* The words go to memory: their pages are mapped, and no two to one place.
GoesToMemory ==
  Writes => \A k \in DOMAIN Given :
    /\ ~TLB_bad(data, Target(command.addr, k))
    /\ real_addr(data, Target(command.addr, k)) \in Addresses
    /\ \A j \in DOMAIN Given :
         j # k => real_addr(data, Target(command.addr, j)) # real_addr(data, Target(command.addr, k))

\* The letter of the first message is read.
LEMMA LetterRead ==
  ASSUME NEW q, NEW p, NEW m \in Nat, m # 0, NEW a, NEW g, Len(g) \in Nat,
         Ahead(q, 0, m, a, g), Left(p, q, 9 * m, 1)
  PROVE  q[1] = 65 /\ Ahead(p, 1, m, a, g)
<1>1. q[1] = 65
  <2>1. 1 \in 1 .. m /\ 9 * 1 - 0 > 8 /\ 9 * 1 - 0 - 8 = 1
    OBVIOUS
  <2> QED
    BY <2>1 DEF Ahead
<1>2. Queue(p, 9 * m - 1)
  BY DEF Left
<1>3. ASSUME NEW j \in 1 .. m
      PROVE  /\ 9 * j - 1 > 8 => p[9 * j - 1 - 8] = 65
             /\ Carries(p, 9 * j - 1 - 7, Target(a, Len(g) - m + j))
             /\ Carries(p, 9 * j - 1 - 3, g[Len(g) - m + j])
  <2> DEFINE v == Target(a, Len(g) - m + j)
             w == g[Len(g) - m + j]
  <2>1. /\ q[9 * j - 0 - 8] = 65
        /\ Carries(q, 9 * j - 0 - 7, v) /\ Carries(q, 9 * j - 0 - 3, w)
    <3>1. 9 * j - 0 > 8
      OBVIOUS
    <3> QED
      BY <3>1 DEF Ahead
  <2> HIDE DEF v, w
  <2>2. j \in Nat /\ 0 < j /\ j <= m
    OBVIOUS
  <2>3. Carries(p, 9 * j - 8, v)
    <3>1. /\ 9 * j - 8 \in Nat /\ 0 < 9 * j - 8 /\ 1 + (9 * j - 8) + 3 <= 9 * m
          /\ 1 + (9 * j - 8) = 9 * j - 0 - 7 /\ 9 * m \in Nat /\ 1 \in Nat
      BY <2>2
    <3> QED
      BY <2>1, <3>1, CarriedOn
  <2>4. Carries(p, 9 * j - 4, w)
    <3>1. /\ 9 * j - 4 \in Nat /\ 0 < 9 * j - 4 /\ 1 + (9 * j - 4) + 3 <= 9 * m
          /\ 1 + (9 * j - 4) = 9 * j - 0 - 3 /\ 9 * m \in Nat /\ 1 \in Nat
      BY <2>2
    <3> QED
      BY <2>1, <3>1, CarriedOn
  <2>5. 9 * j - 1 > 8 => p[9 * j - 9] = 65
    <3>1. SUFFICES ASSUME 9 * j - 1 > 8 PROVE p[9 * j - 9] = 65
      OBVIOUS
    <3>2. 9 * j - 9 \in 1 .. 9 * m - 1 /\ 1 + (9 * j - 9) = 9 * j - 0 - 8
      BY <2>2, <3>1
    <3>3. p[9 * j - 9] = q[1 + (9 * j - 9)]
      BY <3>2 DEF Left
    <3> QED
      BY <2>1, <3>2, <3>3
  <2>6. 9 * j - 1 - 8 = 9 * j - 9 /\ 9 * j - 1 - 7 = 9 * j - 8 /\ 9 * j - 1 - 3 = 9 * j - 4
    BY <2>2
  <2> QED
    BY <2>3, <2>4, <2>5, <2>6 DEF v, w
<1> QED
  BY <1>1, <1>2, <1>3 DEF Ahead

\* The rest of the first message is read.
LEMMA WordRead ==
  ASSUME NEW q, NEW p, NEW m \in Nat, m # 0, NEW a \in Word, NEW g, Len(g) \in Nat, m <= Len(g),
         \A i \in 1 .. Len(g) : g[i] \in Word,
         Ahead(q, 1, m, a, g), Left(p, q, 9 * m - 1, 8)
  PROVE  /\ WordAt(q, 1) = Target(a, Len(g) - m + 1) /\ WordAt(q, 5) = g[Len(g) - m + 1]
         /\ Ahead(p, 0, m - 1, a, g)
<1>0. m \in Nat /\ m >= 1 /\ 9 * m - 1 \in Nat /\ 8 <= 9 * m - 1 /\ Queue(q, 9 * m - 1)
  BY DEF Ahead
<1>1. WordAt(q, 1) = Target(a, Len(g) - m + 1) /\ WordAt(q, 5) = g[Len(g) - m + 1]
  <2> DEFINE v == Target(a, Len(g) - m + 1)
             w == g[Len(g) - m + 1]
  <2>1. Carries(q, 1, v) /\ Carries(q, 5, w)
    <3>1. 1 \in 1 .. m /\ 9 * 1 - 1 - 7 = 1 /\ 9 * 1 - 1 - 3 = 5
      BY <1>0
    <3> QED
      BY <3>1 DEF Ahead
  <2>2. v \in Word /\ w \in Word
    <3>1. Len(g) - m + 1 \in 1 .. Len(g) /\ 4 * (Len(g) - m + 1 - 1) \in Nat
      BY <1>0
    <3> QED
      BY <3>1, PlusType DEF Target
  <2> HIDE DEF v, w
  <2>3. WordAt(q, 1) = v
    BY <1>0, <2>1, <2>2, WordIsRead
  <2>4. WordAt(q, 5) = w
    BY <1>0, <2>1, <2>2, WordIsRead
  <2> QED
    BY <2>3, <2>4 DEF v, w
<1>2. Queue(p, 9 * (m - 1) - 0)
  <2>1. 9 * m - 1 - 8 = 9 * (m - 1) - 0
    BY <1>0
  <2> QED
    BY <2>1 DEF Left
<1>3. ASSUME NEW j \in 1 .. m - 1
      PROVE  /\ 9 * j - 0 > 8 => p[9 * j - 0 - 8] = 65
             /\ Carries(p, 9 * j - 0 - 7, Target(a, Len(g) - (m - 1) + j))
             /\ Carries(p, 9 * j - 0 - 3, g[Len(g) - (m - 1) + j])
  <2> DEFINE v == Target(a, Len(g) - (m - 1) + j)
             w == g[Len(g) - (m - 1) + j]
             i == j + 1
  <2>0. j \in Nat /\ 0 < j /\ j < m /\ i = j + 1
    BY <1>0
  <2>1. i \in 1 .. m /\ Len(g) - m + i = Len(g) - (m - 1) + j /\ 9 * i - 1 > 8
    BY <1>0, <2>0
  <2> HIDE DEF i
  <2>2. /\ q[9 * i - 1 - 8] = 65
        /\ Carries(q, 9 * i - 1 - 7, v) /\ Carries(q, 9 * i - 1 - 3, w)
    BY <2>1 DEF Ahead
  <2> HIDE DEF v, w
  <2>3. Carries(p, 9 * j - 7, v)
    <3>1. /\ 9 * j - 7 \in Nat /\ 0 < 9 * j - 7 /\ 8 + (9 * j - 7) + 3 <= 9 * m - 1
          /\ 8 + (9 * j - 7) = 9 * i - 1 - 7
      BY <1>0, <2>0
    <3>2. PICK n, k, t : n = 9 * m - 1 /\ k = 9 * j - 7 /\ t = 8
      OBVIOUS
    <3>3. /\ Left(p, q, n, t) /\ n \in Nat /\ t \in Nat /\ k \in Nat
          /\ 0 < k /\ t + k + 3 <= n
      BY <1>0, <3>1, <3>2
    <3>4. Carries(q, t + k, v)
      BY <2>2, <3>1, <3>2
    <3>5. Carries(p, k, v)
      BY <3>3, <3>4, CarriedOn
    <3> QED
      BY <3>2, <3>5
  <2>4. Carries(p, 9 * j - 3, w)
    <3>1. /\ 9 * j - 3 \in Nat /\ 0 < 9 * j - 3 /\ 8 + (9 * j - 3) + 3 <= 9 * m - 1
          /\ 8 + (9 * j - 3) = 9 * i - 1 - 3
      BY <1>0, <2>0
    <3>2. PICK n, k, t : n = 9 * m - 1 /\ k = 9 * j - 3 /\ t = 8
      OBVIOUS
    <3>3. /\ Left(p, q, n, t) /\ n \in Nat /\ t \in Nat /\ k \in Nat
          /\ 0 < k /\ t + k + 3 <= n
      BY <1>0, <3>1, <3>2
    <3>4. Carries(q, t + k, w)
      BY <2>2, <3>1, <3>2
    <3>5. Carries(p, k, w)
      BY <3>3, <3>4, CarriedOn
    <3> QED
      BY <3>2, <3>5
  <2>5. p[9 * j - 8] = 65
    <3>1. 9 * j - 8 \in 1 .. 9 * m - 1 - 8 /\ 8 + (9 * j - 8) = 9 * i - 1 - 8
      BY <1>0, <2>0
    <3> QED
      BY <2>2, <3>1 DEF Left
  <2>6. 9 * j - 0 - 8 = 9 * j - 8 /\ 9 * j - 0 - 7 = 9 * j - 7 /\ 9 * j - 0 - 3 = 9 * j - 3
    BY <2>0
  <2> QED
    BY <2>3, <2>4, <2>5, <2>6 DEF v, w
<1> QED
  BY <1>1, <1>2, <1>3 DEF Ahead

\* One word more.
Grown(h, g, w) ==
  /\ Len(h) = Len(g) + 1 /\ h[Len(g) + 1] = w
  /\ \A i \in 1 .. Len(g) : h[i] = g[i]

\* A message more is sent.
LEMMA WordAdded ==
  ASSUME NEW q, NEW d \in {0, 1}, NEW m \in Nat, d = 1 => m # 0, NEW a, NEW g, Len(g) \in Nat,
         m <= Len(g), Ahead(q, d, m, a, g),
         NEW s, Queue(s, 9), s[1] = 65, NEW w, NEW h, Grown(h, g, w),
         Carries(s, 2, Target(a, Len(g) + 1)), Carries(s, 6, w)
  PROVE  Ahead(q \o s, d, m + 1, a, h)
<1> DEFINE p == q \o s
           n == 9 * m - d
<1>1. n \in Nat /\ n + 9 = 9 * (m + 1) - d /\ Queue(q, n)
  BY DEF Ahead
<1>2. Behind(p, q, n, s, 9)
  BY <1>1, QueueJoin
<1> HIDE DEF p
<1>3. Queue(p, 9 * (m + 1) - d)
  BY <1>1, <1>2 DEF Behind
<1>4. ASSUME NEW j \in 1 .. m + 1
      PROVE  /\ 9 * j - d > 8 => p[9 * j - d - 8] = 65
             /\ Carries(p, 9 * j - d - 7, Target(a, Len(h) - (m + 1) + j))
             /\ Carries(p, 9 * j - d - 3, h[Len(h) - (m + 1) + j])
  <2>0. j \in Nat /\ 0 < j /\ j <= m + 1 /\ d \in Nat /\ d <= 1
    OBVIOUS
  <2>1. Len(h) - (m + 1) + j = Len(g) - m + j
    BY <2>0 DEF Grown
  <2>2. CASE j <= m
    <3> DEFINE k == Len(g) - m + j
    <3>1. k \in 1 .. Len(g)
      BY <2>0, <2>2
    <3>2. h[k] = g[k]
      BY <3>1 DEF Grown
    <3>3. /\ 9 * j - d > 8 => q[9 * j - d - 8] = 65
          /\ Carries(q, 9 * j - d - 7, Target(a, k)) /\ Carries(q, 9 * j - d - 3, h[k])
      BY <2>0, <2>2, <3>2 DEF Ahead
    <3> HIDE DEF k
    <3>4. /\ 9 * j - d - 7 \in Nat /\ 0 < 9 * j - d - 7 /\ 9 * j - d - 7 + 3 <= n
          /\ 9 * j - d - 3 \in Nat /\ 0 < 9 * j - d - 3 /\ 9 * j - d - 3 + 3 <= n /\ 9 \in Nat
      BY <2>0, <2>2
    <3> HIDE DEF n
    <3>5. Carries(p, 9 * j - d - 7, Target(a, k))
      BY <1>1, <1>2, <3>3, <3>4, CarriedBehind
    <3>6. Carries(p, 9 * j - d - 3, h[k])
      BY <1>1, <1>2, <3>3, <3>4, CarriedBehind
    <3>7. 9 * j - d > 8 => p[9 * j - d - 8] = q[9 * j - d - 8]
      <4>1. SUFFICES ASSUME 9 * j - d > 8 PROVE p[9 * j - d - 8] = q[9 * j - d - 8]
        OBVIOUS
      <4>2. 9 * j - d - 8 \in 1 .. n
        BY <2>0, <2>2, <4>1 DEF n
      <4> QED
        BY <1>2, <4>2 DEF Behind
    <3> QED
      BY <2>1, <3>3, <3>5, <3>6, <3>7 DEF k
  <2>3. CASE j = m + 1
    <3> DEFINE k == Len(g) + 1
    <3>1. Len(g) - m + j = k
      BY <2>3
    <3>2. Carries(p, n + 2, Target(a, k)) /\ Carries(p, n + 6, h[k])
      <4>1. 2 + 3 <= 9 /\ 6 + 3 <= 9 /\ h[k] = w
        BY DEF Grown
      <4> HIDE DEF n, k
      <4>2. Carries(p, n + 2, Target(a, k))
        BY <1>1, <1>2, <4>1, CarriedBehind DEF k
      <4>3. Carries(p, n + 6, h[k])
        BY <1>1, <1>2, <4>1, CarriedBehind
      <4> QED
        BY <4>2, <4>3
    <3>3. p[n + 1] = 65
      <4>1. n + 1 \in n + 1 .. n + 9 /\ n + 1 - n = 1
        BY <1>1
      <4> QED
        BY <1>2, <4>1 DEF Behind
    <3>4. 9 * j - d - 8 = n + 1 /\ 9 * j - d - 7 = n + 2 /\ 9 * j - d - 3 = n + 6
      BY <2>0, <2>3
    <3> QED
      BY <2>1, <3>1, <3>2, <3>3, <3>4
  <2> QED
    BY <2>0, <2>2, <2>3
<1> QED
  BY <1>3, <1>4 DEF Ahead, p

\* The bytes of a word of a file, turned round, are those of the word that
\* the file holds most significant byte first.
LEMMA FileWordSent ==
  ASSUME NEW b \in [1 .. 4 -> 0 .. 255]
  PROVE  /\ BigEndian(b) \in Word /\ Queue(SendReverse(FileWord(b)), 4)
         /\ Carries(SendReverse(FileWord(b)), 1, BigEndian(b))
<1>1. /\ b[1] \in 0 .. 255 /\ b[2] \in 0 .. 255 /\ b[3] \in 0 .. 255 /\ b[4] \in 0 .. 255
  OBVIOUS
<1>2. \A x \in 0 .. 255, y \in 0 .. 255 : /\ 256 * x + y \in Nat /\ 256 * x + y < 65536
                              /\ (256 * x + y) % 256 = y /\ (256 * x + y) \div 256 = x
  OBVIOUS
<1> DEFINE v == BigEndian(b)
           f == FileWord(b)
           q == BytesOf(f)
           r == Reverse(q)
<1>3. v \in Word
  <2>0. \A x, y \in 0 .. 255 : 256 * x + y \in Halfword
    BY <1>2 DEF Halfword
  <2>1. 256 * b[1] + b[2] \in Halfword /\ 256 * b[3] + b[4] \in Halfword
    BY <1>1, <2>0, Zenon
  <2> QED
    BY <2>1 DEF BigEndian, Word
<1>4. /\ v.hi = 256 * b[1] + b[2] /\ v.lo = 256 * b[3] + b[4]
      /\ f.hi = 256 * b[4] + b[3] /\ f.lo = 256 * b[2] + b[1]
  BY DEF BigEndian, FileWord, FromBytes
<1>5. BytesOf(v)[1] = b[4] /\ BytesOf(v)[2] = b[3] /\ BytesOf(v)[3] = b[2] /\ BytesOf(v)[4] = b[1]
  <2> HIDE DEF v
  <2>1. /\ BytesOf(v)[1] = v.lo % 256 /\ BytesOf(v)[2] = v.lo \div 256
        /\ BytesOf(v)[3] = v.hi % 256 /\ BytesOf(v)[4] = v.hi \div 256
    BY DEF BytesOf
  <2>2. PICK b1, b2, b3, b4, lo, hi :
          /\ b1 = b[1] /\ b2 = b[2] /\ b3 = b[3] /\ b4 = b[4] /\ lo = v.lo /\ hi = v.hi
    OBVIOUS
  <2>3. b1 \in 0 .. 255 /\ b2 \in 0 .. 255 /\ b3 \in 0 .. 255 /\ b4 \in 0 .. 255
    BY <1>1, <2>2
  <2>4. lo = 256 * b3 + b4 /\ hi = 256 * b1 + b2
    BY <1>4, <2>2
  <2>5. lo % 256 = b4 /\ lo \div 256 = b3
    BY <2>3, <2>4
  <2>6. hi % 256 = b2 /\ hi \div 256 = b1
    BY <2>3, <2>4
  <2> QED
    BY <2>1, <2>2, <2>5, <2>6
<1>6. q[1] = b[1] /\ q[2] = b[2] /\ q[3] = b[3] /\ q[4] = b[4]
  <2> HIDE DEF f
  <2>1. q[1] = f.lo % 256 /\ q[2] = f.lo \div 256 /\ q[3] = f.hi % 256 /\ q[4] = f.hi \div 256
    BY DEF BytesOf
  <2>2. PICK b1, b2, b3, b4, lo, hi :
          /\ b1 = b[1] /\ b2 = b[2] /\ b3 = b[3] /\ b4 = b[4] /\ lo = f.lo /\ hi = f.hi
    OBVIOUS
  <2>3. b1 \in 0 .. 255 /\ b2 \in 0 .. 255 /\ b3 \in 0 .. 255 /\ b4 \in 0 .. 255
    BY <1>1, <2>2
  <2>4. lo = 256 * b2 + b1 /\ hi = 256 * b4 + b3
    BY <1>4, <2>2
  <2>5. lo % 256 = b1 /\ lo \div 256 = b2
    BY <2>3, <2>4
  <2>6. hi % 256 = b3 /\ hi \div 256 = b4
    BY <2>3, <2>4
  <2> HIDE DEF q
  <2> QED
    BY <2>1, <2>2, <2>5, <2>6
<1>7. Len(q) = 4
  BY QueueWord DEF Queue
<1> HIDE DEF q
<1>8. r = [i \in 1 .. 4 |-> q[(4 - i) + 1]]
  BY <1>7 DEF Reverse
<1>9. r[1] = q[4] /\ r[2] = q[3] /\ r[3] = q[2] /\ r[4] = q[1]
  BY <1>8
<1>10. SendReverse(FileWord(b)) = r
  BY DEF SendReverse, q, f
<1> HIDE DEF r, v
<1>11. Carries(r, 1, v)
  <2>1. 1 + 1 = 2 /\ 1 + 2 = 3 /\ 1 + 3 = 4
    OBVIOUS
  <2> QED
    BY <1>5, <1>6, <1>9, <2>1 DEF Carries
<1> QED
  BY <1>3, <1>10, <1>11, ReversedWord DEF v

\* The message of A carries the address and the word.
LEMMA StoreWordCarries ==
  ASSUME NEW a, NEW bytes, Queue(bytes, 4), NEW w, Carries(bytes, 1, w)
  PROVE  /\ Queue(StoreWord(a, bytes), 9) /\ StoreWord(a, bytes)[1] = 65
         /\ Carries(StoreWord(a, bytes), 2, a) /\ Carries(StoreWord(a, bytes), 6, w)
<1> DEFINE l == <<65>> \o BytesOf(a)
           m == StoreWord(a, bytes)
<1>1. Queue(l, 5) /\ Carries(l, 2, a)
  <2> DEFINE letter == 65
  <2> HIDE DEF letter
  <2>1. Queue(<<letter>> \o BytesOf(a), 5) /\ Carries(<<letter>> \o BytesOf(a), 2, a)
    BY LetterAndWord
  <2> QED
    BY <2>1 DEF letter
<1>2. m = l \o bytes
  BY DEF StoreWord
<1> HIDE DEF l
<1>3. Behind(m, l, 5, bytes, 4)
  <2>1. Behind(l \o bytes, l, 5, bytes, 4)
    BY <1>1, QueueJoin
  <2> QED
    BY <1>2, <2>1
<1> HIDE DEF m
<1>4. Carries(m, 2, a) /\ Carries(m, 5 + 1, w)
  BY <1>1, <1>3, CarriedBehind
<1> QED
  BY <1>4, StoreWordIs DEF m

\* The words of the file that are not left in p.
FileWords(file, p) == [k \in 1 .. Len(file) - Len(p) |-> BigEndian(file[k])]

\* They are words, as many as were taken from the file.
LEMMA FileWordsAre ==
  ASSUME NEW file \in Seq([1 .. 4 -> 0 .. 255]), NEW p, IsSeq(p), file # <<>> => Len(p) < Len(file)
  PROVE  /\ Queue(FileWords(file, p), IF file = <<>> THEN 0 ELSE Len(file) - Len(p))
         /\ \A k \in 1 .. Len(FileWords(file, p)) :
              /\ FileWords(file, p)[k] = BigEndian(file[k])
              /\ FileWords(file, p)[k] \in Word /\ file[k] \in [1 .. 4 -> 0 .. 255]
<1> DEFINE n == Len(file) - Len(p)
           g == FileWords(file, p)
<1>1. g = [k \in 1 .. n |-> BigEndian(file[k])]
  BY DEF FileWords
<1>2. Len(file) \in Nat /\ Len(p) \in Nat /\ (file = <<>> => Len(file) = 0)
  BY SeqIs, LenProperties, EmptySeq
<1> HIDE DEF g
<1>3. CASE file = <<>>
  <2>1. 1 .. n = 1 .. 0
    BY <1>2, <1>3
  <2>2. g = [k \in 1 .. 0 |-> g[k]] /\ 0 \in Nat
    BY <1>1, <2>1
  <2>3. Queue(g, 0)
    BY <2>2, QueueFunction
  <2>4. 1 .. Len(g) = {}
    BY <2>3 DEF Queue
  <2> QED
    BY <1>3, <2>3, <2>4 DEF g
<1>4. CASE file # <<>>
  <2>1. n \in Nat /\ n <= Len(file)
    BY <1>2, <1>4
  <2>2. g = [k \in 1 .. n |-> g[k]] /\ \A k \in 1 .. n : g[k] = BigEndian(file[k])
    BY <1>1
  <2>3. \A k \in 1 .. n : file[k] \in [1 .. 4 -> 0 .. 255]
    BY <1>2, <2>1, ElementOfSeq
  <2>4. Queue(g, n) /\ Len(g) = n
    <3> HIDE DEF n
    <3>1. Queue(g, n)
      BY <2>1, <2>2, QueueFunction
    <3> QED
      BY <3>1 DEF Queue
  <2>5. \A k \in 1 .. n : g[k] \in Word
    BY <2>2, <2>3, FileWordSent
  <2> QED
    BY <1>4, <2>2, <2>3, <2>4, <2>5 DEF g
<1> QED
  BY <1>3, <1>4

\* What was given is words, typed or read from the file.
LEMMA GivenWords ==
  ASSUME Writes, WellGiven, IsSeq(prog)
  PROVE  /\ IsSeq(Given) /\ Len(Given) \in Nat /\ DOMAIN Given = 1 .. Len(Given)
         /\ \A k \in 1 .. Len(Given) : Given[k] \in Word
         /\ command.name = "A" => Given = typed
         /\ command.name = "LOAD" /\ command.file # <<>> => Len(Given) = Len(command.file) - Len(prog)
<1>1. CASE command.name = "A"
  <2>1. Given = typed
    BY <1>1 DEF Given
  <2> QED
    BY <1>1, <2>1, SeqIs DEF WellGiven
<1>2. CASE command.name = "LOAD"
  <2>1. Given = FileWords(command.file, prog)
    BY <1>2 DEF Given, FileWords
  <2>2. Queue(Given, IF command.file = <<>> THEN 0 ELSE Len(command.file) - Len(prog))
        /\ \A k \in 1 .. Len(Given) : Given[k] \in Word
    BY <1>2, <2>1, FileWordsAre DEF WellGiven
  <2> QED
    BY <1>2, <2>2, SeqIs DEF Queue
<1> QED
  BY <1>1, <1>2 DEF Writes

-----------------------------------------------------------------------------
(* The steps of the machine.                                               *)

\* What the machine never touches of what was given; and its memory keeps its
\* addresses.
LEMMA MachineStoresFrame ==
  ASSUME MachineSteps
  PROVE  /\ command' = command /\ typed' = typed /\ prog' = prog /\ overrun' = overrun
         /\ DOMAIN mem' = DOMAIN mem
<1>1. command' = command /\ typed' = typed /\ prog' = prog /\ overrun' = overrun
  BY DEF MachineSteps, consoleVars
<1>2. \/ Boot \/ Begin \/ ShowRegs \/ ShowMem \/ ShowWord \/ Assemble \/ Echo
      \/ Execute \/ DelTLB \/ AddTLB \/ Reported \/ Alloc \/ ReadInt
      \/ ReadLine \/ StoreLine \/ Putc \/ Fault \/ Syscall \/ Return
  BY DEF MachineSteps, MonitorStep, ProgramStep
<1>3. Boot \/ Begin \/ ShowRegs \/ ShowMem \/ ShowWord \/ Echo \/ Execute \/ DelTLB \/ AddTLB
      \/ Reported \/ Alloc \/ ReadInt \/ ReadLine \/ Putc \/ Fault \/ Syscall \/ Return
      => mem' = mem
  BY DEF Boot, Begin, ShowRegs, ShowMem, ShowWord, Echo, Execute, DelTLB, AddTLB,
         Reported, Alloc, ReadInt, ReadLine, Putc, Fault, Syscall, Return, monitorVars
<1>4. \A a, w : Store(a, w) => DOMAIN mem' = DOMAIN mem
  BY DEF Store
<1>5. Assemble \/ StoreLine => DOMAIN mem' = DOMAIN mem
  BY <1>4 DEF Assemble, StoreLine
<1> QED
  BY <1>1, <1>2, <1>3, <1>5

\* The machine stores the words in their order.
LEMMA MachineStores ==
  ASSUME Typed, Stores, GoesToMemory, MachineSteps
  PROVE  Stores'
<1>1. /\ command' = command /\ typed' = typed /\ prog' = prog /\ overrun' = overrun
      /\ DOMAIN mem' = DOMAIN mem /\ at' = at /\ addr' = addr /\ port' = port
  BY MachineStoresFrame, MachineFrame
<1>2. /\ Given' = Given /\ Writes' = Writes /\ Places' = Places /\ WellGiven' = WellGiven
  <2>1. Given' = Given
    BY <1>1 DEF Given
  <2> QED
    BY <1>1, <2>1 DEF Writes, Places, WellGiven
<1>3. SUFFICES ASSUME Writes, ~overrun PROVE Writing'
  BY <1>1, <1>2, <1>3 DEF Stores
<1> DEFINE g == Given
           a == command.addr
           n == Len(g)
<1>4. PICK m \in 0 .. n :
        /\ Kept(m)
        /\ \/ pc \in {"begin", "echo"} /\ Ahead(toMachine, 0, m, a, g)
           \/ pc = "assemble" /\ m # 0 /\ Ahead(toMachine, 1, m, a, g)
  BY <1>3 DEF Stores, Writing
<1>5. n \in Nat /\ DOMAIN g = 1 .. n /\ (\A k \in 1 .. n : g[k] \in Word) /\ a \in Word
  BY <1>3, GivenWords DEF Stores, WellGiven
<1>6. m \in Nat /\ m <= n
  BY <1>5
<1>7. data' = data /\ a' = a /\ g' = g
  BY <1>1, <1>2, <1>4, MachineFrame
<1>8. ASSUME mem' = mem PROVE Kept(m)'
  BY <1>4, <1>7, <1>8 DEF Kept, Load
<1> HIDE DEF g, a
<1>9. CASE pc = "begin"
  <2>1. Ahead(toMachine, 0, m, a, g) /\ Begin
    BY <1>4, <1>9, ByPlace
  <2>2. /\ TakesFromHost(1) /\ pc' = Handler(toMachine[1]) /\ mem' = mem
    BY <1>9, <2>1, Waits DEF Begin
  <2>3. Queue(toMachine, 9 * m)
    <3>1. 9 * m - 0 = 9 * m
      BY <1>6
    <3> QED
      BY <2>1, <3>1 DEF Ahead
  <2>4. 1 <= 9 * m /\ Left(toMachine', toMachine, 9 * m, 1)
    BY <2>2, <2>3, Taken
  <2>5. m # 0
    BY <1>6, <2>4
  <2>6. toMachine[1] = 65 /\ Ahead(toMachine', 1, m, a, g)
    BY <1>5, <1>6, <2>1, <2>4, <2>5, LetterRead
  <2>7. pc' = "assemble"
    BY <2>2, <2>6, Letters
  <2> QED
    BY <1>4, <1>7, <1>8, <2>2, <2>5, <2>6, <2>7 DEF Writing, g, a
<1>10. CASE pc = "echo"
  <2>1. Ahead(toMachine, 0, m, a, g) /\ Echo
    BY <1>4, <1>10, ByPlace
  <2>2. toMachine' = toMachine /\ pc' = "begin" /\ mem' = mem
    BY <2>1 DEF Echo
  <2> QED
    BY <1>4, <1>7, <1>8, <2>1, <2>2 DEF Writing, g, a
<1>11. CASE pc = "assemble"
  <2>1. Ahead(toMachine, 1, m, a, g) /\ m # 0 /\ Assemble
    BY <1>4, <1>11, ByPlace
  <2>2. TakesFromHost(8)
    BY <1>11, <2>1, Waits DEF Assemble
  <2>3. Left(toMachine', toMachine, 9 * m - 1, 8)
    BY <2>1, <2>2, Taken DEF Ahead
  <2>a. PICK i, v, w : i = n - m + 1 /\ v = Target(a, i) /\ w = g[i]
    OBVIOUS
  <2>4. WordAt(toMachine, 1) = v /\ WordAt(toMachine, 5) = w /\ Ahead(toMachine', 0, m - 1, a, g)
    BY <1>5, <1>6, <2>1, <2>3, <2>a, WordRead
  <2>5. i \in 1 .. n
    BY <1>5, <1>6, <2>1, <2>a
  <2>6. /\ ~TLB_bad(data, v) /\ real_addr(data, v) \in Addresses
        /\ \A j \in 1 .. n : j # i => real_addr(data, Target(a, j)) # real_addr(data, v)
    BY <1>3, <1>5, <2>5, <2>a DEF GoesToMemory, g, a
  <2>7. Store(v, w) /\ pc' = "echo"
    BY <2>1, <2>4, <2>6 DEF Assemble
  <2>8. mem' = [mem EXCEPT ![real_addr(data, v)] = w]
    BY <2>6, <2>7 DEF Store
  <2>9. DOMAIN mem = Addresses
    BY DEF Stores
  <2>10. Load(v)' = w
    BY <1>7, <2>6, <2>8, <2>9 DEF Load
  <2>11. ASSUME NEW j \in 1 .. n, j # i PROVE Load(Target(a, j))' = Load(Target(a, j))
    <3>1. real_addr(data, Target(a, j)) # real_addr(data, v)
      BY <2>6, <2>11
    <3> QED
      BY <1>7, <2>8, <2>9, <3>1 DEF Load
  <2>12. Kept(m - 1)'
    <3>1. SUFFICES ASSUME NEW k \in 1 .. n - (m - 1)
                   PROVE  Load(Target(a, k))' = g[k]
      BY <1>7 DEF Kept, g, a
    <3>2. CASE k = i
      BY <1>7, <2>10, <3>2, <2>a
    <3>3. CASE k # i
      <4>1. k \in 1 .. n - m /\ k \in 1 .. n
        BY <1>5, <1>6, <3>3, <2>a
      <4>2. Load(Target(a, k)) = g[k]
        BY <1>4, <4>1 DEF Kept, g, a
      <4> QED
        BY <2>11, <3>3, <4>1, <4>2
    <3> QED
      BY <3>2, <3>3
  <2>13. m - 1 \in 0 .. n
    BY <1>5, <1>6, <2>1
  <2> QED
    BY <1>7, <2>4, <2>7, <2>12, <2>13 DEF Writing, g, a
<1> QED
  BY <1>4, <1>9, <1>10, <1>11

\* A lost byte ends what the theorem is about.
LEMMA LossStores ==
  ASSUME Stores, ByteLost
  PROVE  Stores'
<1>1. /\ command' = command /\ prog' = prog /\ overrun' = TRUE /\ mem' = mem
      /\ at' = at /\ port' = port
  BY DEF ByteLost, Overrun, consoleVars, monitorVars
<1> QED
  BY <1>1 DEF Stores, Places, Writes

-----------------------------------------------------------------------------
(* The steps of the terminal and of the user.                              *)

\* One word behind the others.
LEMMA Appended ==
  ASSUME NEW q, IsSeq(q), NEW w
  PROVE  IsSeq(Append(q, w)) /\ Grown(Append(q, w), q, w)
<1>1. PICK S : q \in Seq(S)
  BY DEF IsSeq
<1>2. q \in Seq(S \cup {w}) /\ w \in S \cup {w}
  BY <1>1, SeqMonotonic
<1>3. /\ Append(q, w) \in Seq(S \cup {w}) /\ Len(Append(q, w)) = Len(q) + 1
      /\ \A i \in 1 .. Len(q) : Append(q, w)[i] = q[i]
      /\ Append(q, w)[Len(q) + 1] = w
  BY <1>2, AppendProperties
<1> QED
  BY <1>3 DEF IsSeq, Grown

\* What a step leaves alone that neither stores nor gives a command.
Steady ==
  /\ pc' = pc /\ mem' = mem /\ data' = data /\ command' = command /\ overrun' = overrun

\* Nothing is sent.
LEMMA NothingSent ==
  ASSUME Writing, Steady, Given' = Given, toMachine' = toMachine
  PROVE  Writing'
<1>1. \A m : Kept(m)' = Kept(m)
  BY DEF Steady, Kept, Load
<1> QED
  BY <1>1 DEF Writing, Steady

\* The next word is sent.
LEMMA WordSent ==
  ASSUME Writing, Steady, Len(Given) \in Nat,
         NEW bytes, Queue(bytes, 4), NEW w, Carries(bytes, 1, w), Grown(Given', Given, w),
         SendA(Target(command.addr, Len(Given) + 1), bytes)
  PROVE  Writing'
<1> DEFINE g == Given
           a == command.addr
           n == Len(g)
<1>1. PICK m \in 0 .. n :
        /\ Kept(m)
        /\ \/ pc \in {"begin", "echo"} /\ Ahead(toMachine, 0, m, a, g)
           \/ pc = "assemble" /\ m # 0 /\ Ahead(toMachine, 1, m, a, g)
  BY DEF Writing
<1>2. n \in Nat /\ m \in Nat /\ m <= n
  OBVIOUS
<1> DEFINE s == StoreWord(Target(a, n + 1), bytes)
<1>3. /\ Queue(s, 9) /\ s[1] = 65 /\ Carries(s, 2, Target(a, n + 1)) /\ Carries(s, 6, w)
  BY StoreWordCarries
<1>4. toMachine' = toMachine \o s
  BY SentByA DEF ToMachine
<1>5. a' = a /\ Len(Given') = n + 1 /\ \A k \in 1 .. n : Given'[k] = g[k]
  BY DEF Steady, Grown
<1>6. Kept(m + 1)'
  <2>1. SUFFICES ASSUME NEW k \in 1 .. Len(Given') - (m + 1)
                 PROVE  Load(Target(a, k))' = Given'[k]
    BY DEF Kept
  <2>2. k \in 1 .. n - m /\ k \in 1 .. n
    BY <1>2, <1>5
  <2>3. Load(Target(a, k)) = g[k]
    BY <1>1, <2>2 DEF Kept
  <2>4. Load(Target(a, k))' = Load(Target(a, k))
    BY DEF Steady, Load
  <2> QED
    BY <1>5, <2>2, <2>3, <2>4
<1>7. m + 1 \in 0 .. Len(Given') /\ m + 1 # 0
  BY <1>2, <1>5
<1>8. Grown(Given', g, w)
  OBVIOUS
<1> HIDE DEF g, a, s
<1>9. ASSUME NEW d \in {0, 1}, d = 1 => m # 0, Ahead(toMachine, d, m, a, g)
      PROVE  Ahead(toMachine', d, m + 1, a, Given')
  BY <1>2, <1>3, <1>4, <1>8, <1>9, WordAdded
<1>10. CASE pc \in {"begin", "echo"} /\ Ahead(toMachine, 0, m, a, g)
  <2>1. Ahead(toMachine', 0, m + 1, a', Given') /\ pc' \in {"begin", "echo"}
    BY <1>5, <1>9, <1>10 DEF Steady
  <2> QED
    BY <1>6, <1>7, <2>1 DEF Writing, a
<1>11. CASE pc = "assemble" /\ m # 0 /\ Ahead(toMachine, 1, m, a, g)
  <2>1. Ahead(toMachine', 1, m + 1, a', Given') /\ pc' = "assemble"
    BY <1>5, <1>9, <1>11 DEF Steady
  <2> QED
    BY <1>6, <1>7, <2>1 DEF Writing, a
<1> QED
  BY <1>1, <1>10, <1>11

\* The address behind that of the last word.
LEMMA NextTarget ==
  ASSUME NEW a \in Word, NEW n \in Nat, n # 0
  PROVE  Plus(Target(a, n), 4) = Target(a, n + 1)
<1>1. 4 * (n - 1) \in Nat /\ 4 * (n - 1) + 4 = 4 * (n + 1 - 1)
  OBVIOUS
<1> QED
  BY <1>1, PlusPlus DEF Target

\* jr $ra is followed by a word like any other.
LEMMA NopIsWord == NOP \in Word
  BY NumberIsRead DEF NOP

\* A word is typed behind those typed so far.
LEMMA WordTyped ==
  ASSUME command.name = "A", WellGiven, Writing, Steady, IsSeq(prog), NEW w \in Word,
         typed' = Append(typed, w), SendA(Target(command.addr, Len(Given) + 1), BytesOf(w)),
         at' = "stored", addr' = Target(command.addr, Len(Given) + 1)
  PROVE  WellGiven' /\ Writing'
<1>1. Writes /\ command' = command
  BY DEF Writes, Steady
<1>2. Given = typed /\ Len(Given) \in Nat /\ IsSeq(typed)
  BY <1>1, GivenWords
<1>3. Given' = typed'
  BY <1>1 DEF Given
<1>4. Grown(typed', typed, w) /\ IsSeq(typed')
  BY <1>2, Appended
<1>5. Writing'
  BY <1>2, <1>3, <1>4, QueueWord, OwnBytes, WordSent
<1>6. \A k \in DOMAIN typed' : typed'[k] \in Word
  <2>1. DOMAIN typed' = 1 .. Len(typed) + 1 /\ DOMAIN typed = 1 .. Len(typed) /\ Len(typed) \in Nat
    BY <1>2, <1>4, SeqIs DEF Grown
  <2>2. \A k \in 1 .. Len(typed) + 1 : k \in 1 .. Len(typed) \/ k = Len(typed) + 1
    BY <2>1
  <2> QED
    BY <1>4, <2>1, <2>2 DEF Grown, WellGiven
<1>7. Len(Given') # 0 /\ Len(Given') = Len(Given) + 1
  BY <1>2, <1>3, <1>4 DEF Grown
<1> QED
  BY <1>1, <1>4, <1>5, <1>6, <1>7 DEF WellGiven

\* A word of assembly is typed.
LEMMA InstructionStores ==
  ASSUME Stores, UserAnswers, TypeInstruction
  PROVE  Stores'
<1>1. PICK w \in Instructions : SendA(addr, BytesOf(w)) /\ typed' = Append(typed, w)
  BY DEF TypeInstruction
<1>2. /\ at = "typing" /\ at' = "stored" /\ command' = command /\ prog' = prog /\ addr' = addr
      /\ port' = port
  BY DEF TypeInstruction
<1>3. Steady
  BY <1>2 DEF UserAnswers, monitorVars, ghosts, Steady
<1>4. w \in Word
  BY SessionAssumption
<1>5. command.name = "A"
  BY <1>2 DEF Stores, Places
<1>6. Places' /\ IsSeq(prog') /\ DOMAIN mem' = Addresses
  BY <1>2, <1>3, <1>5 DEF Stores, Places, Steady, Elsewhere
<1>7. ASSUME ~overrun PROVE WellGiven' /\ Writing'
  <2>1. WellGiven /\ Writing /\ IsSeq(prog)
    BY <1>5, <1>7 DEF Stores, Writes
  <2>2. addr = Target(command.addr, Len(Given) + 1)
    BY <1>2, <2>1 DEF WellGiven
  <2> QED
    BY <1>1, <1>2, <1>3, <1>4, <1>5, <2>1, <2>2, WordTyped
<1>8. overrun' = overrun
  BY <1>3 DEF Steady
<1> QED
  BY <1>6, <1>7, <1>8 DEF Stores

\* The command is left, or goes on without a word sent: what was given and
\* what is on its way stay.
LEMMA NoWordSent ==
  ASSUME Stores, Steady, typed' = typed, prog' = prog, toMachine' = toMachine,
         \/ at' = "prompt" \/ (at' = "top" /\ port' = "leaked")
         \/ command.name = "A" /\ at' = "typing" /\ (WellGiven => addr' = Target(command.addr, Len(Given) + 1))
  PROVE  Stores'
<1>1. command' = command /\ overrun' = overrun /\ mem' = mem
  BY DEF Steady
<1>2. Given' = Given /\ Writes' = Writes
  BY <1>1 DEF Given, Writes
<1>3. Places'
  BY <1>1 DEF Places, Writes, Elsewhere
<1>4. ASSUME Writes, ~overrun PROVE WellGiven' /\ Writing'
  <2>1. WellGiven /\ Writing
    BY <1>4 DEF Stores
  <2>2. Writing'
    BY <1>2, <2>1, NothingSent
  <2>3. WellGiven'
    BY <1>1, <1>2, <2>1 DEF WellGiven
  <2> QED
    BY <2>2, <2>3
<1> QED
  BY <1>1, <1>2, <1>3, <1>4 DEF Stores

\* What the terminal never touches.
LEMMA TerminalSteady ==
  ASSUME TerminalSteps, command' = command
  PROVE  Steady
  BY DEF TerminalSteps, monitorVars, ghosts, Steady

\* The answer to A.
LEMMA StoredStores ==
  ASSUME Stores, TerminalSteps, TakeStored
  PROVE  Stores'
<1>1. at = "stored" /\ command' = command /\ prog' = prog
  BY DEF TakeStored
<1>2. Steady
  BY <1>1, TerminalSteady
<1>3. command.name = "A"
  BY <1>1 DEF Stores, Places
<1>4. ASSUME WellGiven
      PROVE  /\ addr = Target(command.addr, Len(Given))
             /\ Plus(addr, 4) = Target(command.addr, Len(Given) + 1)
  <2>1. Len(Given) \in Nat /\ Len(Given) # 0 /\ addr = Target(command.addr, Len(Given))
        /\ command.addr \in Word
    BY <1>1, <1>3, <1>4, GivenWords DEF Stores, WellGiven, Writes
  <2> QED
    BY <2>1, NextTarget
<1>5. CASE typed' = typed /\ toMachine' = toMachine /\ (Fails \/ Returns)
  <2>1. at' = "prompt" \/ (at' = "top" /\ port' = "leaked")
    BY <1>5 DEF Fails, Returns
  <2> QED
    BY <1>1, <1>2, <1>5, <2>1, NoWordSent
<1>6. CASE addr' = Plus(addr, 4) /\ at' = "typing" /\ typed' = typed /\ toMachine' = toMachine
  BY <1>1, <1>2, <1>3, <1>4, <1>6, NoWordSent
<1>7. CASE /\ addr' = Plus(addr, 4) /\ at' = "stored" /\ port' = port
           /\ SendA(addr', BytesOf(NOP)) /\ typed' = Append(typed, NOP)
  <2>1. Places' /\ IsSeq(prog') /\ DOMAIN mem' = Addresses
    BY <1>1, <1>2, <1>3, <1>7 DEF Stores, Places, Steady, Elsewhere
  <2>2. ASSUME ~overrun PROVE WellGiven' /\ Writing'
    <3>1. WellGiven /\ Writing /\ IsSeq(prog)
      BY <1>3, <2>2 DEF Stores, Writes
    <3>2. addr' = Target(command.addr, Len(Given) + 1)
      BY <1>4, <1>7, <3>1
    <3>3. SendA(Target(command.addr, Len(Given) + 1), BytesOf(NOP))
      BY <1>7, <3>2
    <3> QED
      BY <1>2, <1>3, <1>7, <3>1, <3>2, <3>3, NopIsWord, WordTyped
  <2> QED
    BY <1>2, <2>1, <2>2 DEF Stores, Steady
<1> QED
  BY <1>5, <1>6, <1>7 DEF TakeStored

\* The answer to a word of LOAD.
LEMMA LoadedStores ==
  ASSUME Stores, TerminalSteps, TakeLoaded
  PROVE  Stores'
<1>1. at = "loading" /\ command' = command /\ typed' = typed
  BY DEF TakeLoaded
<1>2. Steady
  BY <1>1, TerminalSteady
<1>3. command.name = "LOAD" /\ Writes /\ Writes' /\ IsSeq(prog)
  BY <1>1 DEF Stores, Places, Writes
<1>4. CASE prog' = prog /\ toMachine' = toMachine /\ (Fails \/ Returns)
  <2>1. at' = "prompt" \/ (at' = "top" /\ port' = "leaked")
    BY <1>4 DEF Fails, Returns
  <2> QED
    BY <1>1, <1>2, <1>4, <2>1, NoWordSent
<1>5. CASE /\ prog # <<>> /\ addr' = Plus(addr, 4) /\ prog' = Tail(prog) /\ at' = at /\ port' = port
           /\ SendA(addr', SendReverse(FileWord(Head(prog))))
  <2>1. Places' /\ DOMAIN mem' = Addresses
    BY <1>1, <1>2, <1>5 DEF Stores, Places, Steady, Writes, Elsewhere
  <2>2. /\ IsSeq(prog') /\ Len(prog') = Len(prog) - 1 /\ Head(prog) = prog[1]
        /\ Len(prog) \in Nat /\ Len(prog) # 0
        /\ \A i \in 1 .. Len(prog) - 1 : prog'[i] = prog[i + 1]
    <3>1. PICK S : prog \in Seq(S)
      BY <1>3 DEF IsSeq
    <3>2. /\ Tail(prog) \in Seq(S) /\ Len(Tail(prog)) = Len(prog) - 1
          /\ \A i \in 1 .. Len(Tail(prog)) : Tail(prog)[i] = prog[i + 1]
      BY <1>5, <3>1, HeadTailProperties
    <3>3. Len(prog) \in Nat /\ Len(prog) # 0
      BY <1>3, <1>5, SeqIs
    <3>4. Head(prog) = prog[1]
      BY <3>1
    <3> QED
      BY <1>5, <3>2, <3>3, <3>4 DEF IsSeq
  <2>3. ASSUME ~overrun PROVE WellGiven' /\ Writing'
    <3>1. WellGiven /\ Writing
      BY <1>3, <2>3 DEF Stores
    <3> DEFINE file == command.file
               n == Len(Given)
               l == Len(prog)
    <3>2. /\ file # <<>> /\ n \in Nat /\ n # 0 /\ n = Len(file) - l /\ command.addr \in Word
          /\ addr = Target(command.addr, n)
          /\ l < Len(file) /\ \A i \in 1 .. l : prog[i] = file[Len(file) - l + i]
      BY <1>1, <1>3, <3>1, GivenWords DEF WellGiven
    <3>3. addr' = Target(command.addr, n + 1)
      BY <1>5, <3>2, NextTarget
    <3>4. file \in Seq([1 .. 4 -> 0 .. 255]) /\ Len(file) \in Nat
      BY <1>3, <3>1, LenProperties DEF WellGiven
    <3>5. Len(prog') < Len(file) /\ Len(file) - Len(prog') = n + 1
      BY <2>2, <3>2, <3>4
    <3>6. \A i \in 1 .. Len(prog') : prog'[i] = file[Len(file) - Len(prog') + i]
      <4>1. SUFFICES ASSUME NEW i \in 1 .. Len(prog') PROVE prog'[i] = file[Len(file) - Len(prog') + i]
        OBVIOUS
      <4>a. Len(prog') = l - 1 /\ l \in Nat
        BY <2>2
      <4> HIDE DEF l, file
      <4>2. i + 1 \in 1 .. l /\ i \in 1 .. l - 1 /\ Len(file) - l + (i + 1) = Len(file) - Len(prog') + i
        BY <3>4, <4>a
      <4>3. prog'[i] = prog[i + 1] /\ prog[i + 1] = file[Len(file) - l + (i + 1)]
        BY <2>2, <3>2, <4>2 DEF l
      <4> QED
        BY <4>2, <4>3
    <3>7. Head(prog) = file[n + 1] /\ file[n + 1] \in [1 .. 4 -> 0 .. 255]
      <4>1. 1 \in 1 .. l /\ Len(file) - l + 1 = n + 1 /\ n + 1 \in 1 .. Len(file)
        BY <2>2, <3>2, <3>4
      <4>2. Head(prog) = file[n + 1]
        BY <2>2, <3>2, <4>1
      <4> QED
        BY <3>4, <4>1, <4>2, ElementOfSeq
    <3> DEFINE b == Head(prog)
               w == BigEndian(b)
               bytes == SendReverse(FileWord(b))
    <3>8. w \in Word /\ Queue(bytes, 4) /\ Carries(bytes, 1, w)
      BY <3>7, FileWordSent
    <3>9. Grown(Given', Given, w)
      <4>1. Given' = FileWords(file, prog') /\ Given = FileWords(file, prog)
        BY <1>1, <1>3 DEF Given, FileWords
      <4>2. /\ Queue(Given', n + 1)
            /\ \A k \in 1 .. Len(Given') : Given'[k] = BigEndian(file[k])
        BY <2>2, <3>2, <3>4, <3>5, <4>1, FileWordsAre
      <4>3. \A k \in 1 .. n : Given[k] = BigEndian(file[k])
        <5> HIDE DEF file
        <5>1. Len(prog) < Len(file)
          BY <3>2
        <5>2. \A k \in 1 .. Len(FileWords(file, prog)) : FileWords(file, prog)[k] = BigEndian(file[k])
          BY <1>3, <3>4, <5>1, FileWordsAre
        <5> QED
          BY <4>1, <5>2
      <4> HIDE DEF n, file
      <4>4. Len(Given') = n + 1
        BY <4>2 DEF Queue
      <4>5. Given'[n + 1] = w /\ \A i \in 1 .. n : Given'[i] = Given[i]
        BY <3>2, <3>7, <4>2, <4>3, <4>4
      <4> QED
        BY <4>4, <4>5 DEF Grown, n
    <3>10. Writing'
      <4>1. SendA(Target(command.addr, Len(Given) + 1), bytes)
        BY <1>5, <3>3
      <4> HIDE DEF w, bytes
      <4> QED
        BY <1>2, <3>1, <3>2, <3>8, <3>9, <4>1, WordSent
    <3>11. Len(Given') = n + 1 /\ n + 1 # 0
      BY <3>2, <3>9 DEF Grown
    <3>12. WellGiven'
      BY <1>1, <1>3, <1>5, <3>2, <3>3, <3>4, <3>5, <3>6, <3>11 DEF WellGiven
    <3> QED
      BY <3>10, <3>12
  <2> QED
    BY <1>2, <2>1, <2>2, <2>3 DEF Stores, Steady
<1> QED
  BY <1>4, <1>5 DEF TakeLoaded

\* No other step of the terminal belongs to a command that writes.
LEMMA TerminalStores ==
  ASSUME Stores, TerminalSteps
  PROVE  Stores'
<1>1. CASE Greet \/ TakeReg \/ TakeWord \/ Listen \/ CallAlloc \/ CallLine \/ CallInteger \/ CallShow
           \/ CallString \/ CallHalt \/ CallOther \/ TakeCause \/ TakeOver
  <2>1. /\ command' = command /\ prog' = prog
        /\ at \in {"greeting"} \union Elsewhere /\ at' \in {"prompt"} \union Elsewhere
    BY <1>1 DEF Greet, TakeReg, TakeWord, Listen, CallAlloc, CallLine, CallInteger, CallShow,
       CallString, CallHalt, CallOther, TakeCause, TakeOver, Calling, Elsewhere
  <2>2. Steady
    BY <2>1, TerminalSteady
  <2>3. ~Writes
    BY <2>1 DEF Stores, Places
  <2>4. ~Writes'
    BY <2>1, <2>3 DEF Writes
  <2>5. Places'
    BY <2>1, <2>4 DEF Places, Elsewhere
  <2> QED
    BY <2>1, <2>2, <2>4, <2>5 DEF Stores, Steady
<1> QED
  BY <1>1, StoredStores, LoadedStores DEF TerminalSteps, ConsoleStep

\* No other answer of the user belongs to one.
LEMMA AnswerStores ==
  ASSUME Stores, UserAnswers
  PROVE  Stores'
<1>1. CASE TypeLine \/ TypeInteger
  <2>1. /\ command' = command /\ prog' = prog /\ at \in Elsewhere /\ at' \in Elsewhere
    BY <1>1 DEF TypeLine, TypeInteger, Elsewhere
  <2>2. mem' = mem
    BY DEF UserAnswers, monitorVars
  <2>3. ~Writes /\ ~Writes'
    BY <2>1 DEF Stores, Places, Writes
  <2>4. Places'
    BY <2>1, <2>3 DEF Places, Elsewhere
  <2> QED
    BY <2>1, <2>2, <2>3, <2>4 DEF Stores
<1> QED
  BY <1>1, InstructionStores DEF UserAnswers, UserStep

\* A step behind which no word is being written.
LEMMA NobodyWrites ==
  ASSUME Stores, ~Writes', prog' = prog, DOMAIN mem' = DOMAIN mem,
         at' \notin {"typing", "stored", "loading"}
  PROVE  Stores'
  BY DEF Stores, Places

\* The session ends.
LEMMA ExitStores ==
  ASSUME Stores, Exit, mem' = mem
  PROVE  Stores'
<1>1. at' = "off" /\ command' = Quit /\ prog' = prog
  BY DEF Exit, Obeys
<1>2. ~Writes'
  BY <1>1 DEF Writes, Quit
<1> QED
  BY <1>1, <1>2, NobodyWrites

\* Nothing is on its way.
LEMMA NothingAhead ==
  ASSUME NEW a, NEW g
  PROVE  Ahead(<<>>, 0, 0, a, g)
<1>1. 9 * 0 - 0 = 0
  OBVIOUS
<1>2. \A j \in 1 .. 0 : FALSE
  OBVIOUS
<1> QED
  BY <1>1, <1>2, NilQueue DEF Ahead

\* A begins: nothing is given yet, and nothing on its way.
LEMMA AStores ==
  ASSUME Inv, Stores, UserCommands, parted = "no", NEW line, TypedWell(line),
         line.name = "A", runA(line)
  PROVE  Stores'
<1>1. /\ command' = line /\ at' = "typing" /\ addr' = line.addr /\ typed' = <<>> /\ prog' = prog
      /\ toMachine' = toMachine /\ port' = port
  BY DEF runA, Obeys, wires
<1>2. toMachine = <<>> /\ pc' = "begin" /\ mem' = mem /\ DOMAIN mem = Addresses /\ IsSeq(prog)
  BY Prompted DEF UserCommands, monitorVars, Stores
<1>3. line.addr \in Word
  BY DEF TypedWell
<1>4. Given' = <<>> /\ Len(Given') = 0
  BY <1>1, Nil DEF Given
<1>5. Places'
  BY <1>1 DEF Places, Elsewhere
<1>6. addr' = Target(line.addr, Len(Given') + 1)
  <2>1. 4 * (0 + 1 - 1) = 0
    OBVIOUS
  <2> QED
    BY <1>1, <1>3, <1>4, <2>1, PlusZero DEF Target
<1>7. IsSeq(typed') /\ DOMAIN typed' = {}
  <2>1. DOMAIN <<>> = 1 .. 0 /\ IsSeq(<<>>)
    BY Nil, SeqIs
  <2> QED
    BY <1>1, <2>1
<1>8. WellGiven'
  BY <1>1, <1>3, <1>6, <1>7 DEF WellGiven
<1>9. Writing'
  <2> DEFINE a == line.addr
             g == Given
  <2>1. Ahead(<<>>, 0, 0, a, <<>>)
    BY NothingAhead
  <2>2. Kept(0)'
    BY <1>4 DEF Kept
  <2>3. 0 \in 0 .. Len(Given') /\ toMachine' = <<>> /\ command'.addr = a
    BY <1>1, <1>2, <1>4
  <2> QED
    BY <1>2, <1>4, <2>1, <2>2, <2>3 DEF Writing
<1> QED
  BY <1>1, <1>2, <1>5, <1>8, <1>9 DEF Stores

\* LOAD sends the first word of the file, or ends with an empty one.
LEMMA LoadStores ==
  ASSUME Inv, Stores, UserCommands, parted = "no", NEW line, TypedWell(line),
         line.name = "LOAD", runLoadFile(line)
  PROVE  Stores'
<1> DEFINE file == line.file
           a == line.addr
<1>1. command' = line /\ addr' = a /\ port' = port
  BY DEF runLoadFile, Obeys
<1>2. /\ toMachine = <<>> /\ pc' = "begin" /\ mem' = mem /\ DOMAIN mem = Addresses /\ IsSeq(prog)
  BY Prompted DEF UserCommands, monitorVars, Stores
<1>3. a \in Word /\ file \in Seq([1 .. 4 -> 0 .. 255])
  BY DEF TypedWell
<1>4. Len(file) \in Nat /\ (file = <<>> <=> Len(file) = 0)
  BY <1>3, LenProperties, EmptySeq, SeqIs DEF IsSeq
<1>5. Writes' /\ command'.name = "LOAD"
  BY <1>1 DEF Writes
<1>6. CASE file = <<>>
  <2>1. at' = "prompt" /\ prog' = prog /\ toMachine' = toMachine
    BY <1>6 DEF runLoadFile
  <2>2. Places'
    BY <2>1 DEF Places, Elsewhere
  <2>3. WellGiven'
    BY <1>1, <1>3, <1>6, <2>1 DEF WellGiven
  <2>4. Len(Given') = 0
    <3>1. Given' = FileWords(file, prog')
      BY <1>1, <1>5 DEF Given, FileWords
    <3>2. Queue(Given', 0)
      BY <1>2, <1>3, <1>6, <2>1, <3>1, FileWordsAre
    <3> QED
      BY <3>2 DEF Queue
  <2>5. Writing'
    <3>1. Ahead(<<>>, 0, 0, a, Given')
      BY NothingAhead
    <3>2. Kept(0)'
      BY <2>4 DEF Kept
    <3> QED
      BY <1>1, <1>2, <2>1, <2>4, <3>1, <3>2 DEF Writing
  <2> QED
    BY <1>2, <1>5, <2>1, <2>2, <2>3, <2>5 DEF Stores
<1>7. CASE file # <<>>
  <2> DEFINE b == Head(file)
             w == BigEndian(b)
             bytes == SendReverse(FileWord(b))
             s == StoreWord(a, bytes)
  <2>1. at' = "loading" /\ prog' = Tail(file) /\ SendA(a, bytes)
    BY <1>7 DEF runLoadFile
  <2>2. /\ IsSeq(prog') /\ Len(prog') = Len(file) - 1 /\ b = file[1] /\ b \in [1 .. 4 -> 0 .. 255]
        /\ \A i \in 1 .. Len(prog') : prog'[i] = file[i + 1]
    BY <1>3, <1>7, <2>1, HeadTailProperties DEF IsSeq
  <2>3. Given' = FileWords(file, prog')
    BY <1>1, <1>5 DEF Given, FileWords
  <2>4. Queue(Given', 1) /\ Len(Given') = 1 /\ Given'[1] = w
    <3>1. Len(prog') < Len(file) /\ Len(file) - Len(prog') = 1
      BY <1>4, <2>2
    <3>2. Queue(Given', 1) /\ \A k \in 1 .. Len(Given') : Given'[k] = BigEndian(file[k])
      BY <1>3, <1>7, <2>2, <2>3, <3>1, FileWordsAre
    <3> QED
      BY <2>2, <3>2 DEF Queue
  <2>5. Queue(bytes, 4) /\ Carries(bytes, 1, w)
    BY <2>2, FileWordSent
  <2>6. Target(a, 1) = a
    <3>1. 4 * (1 - 1) = 0
      OBVIOUS
    <3> QED
      BY <1>3, <3>1, PlusZero DEF Target
  <2>7. Places'
    BY <1>5, <2>1 DEF Places, Elsewhere
  <2>8. WellGiven'
    <3>1. \A i \in 1 .. Len(prog') : prog'[i] = file[Len(file) - Len(prog') + i]
      <4>1. SUFFICES ASSUME NEW i \in 1 .. Len(prog') PROVE prog'[i] = file[Len(file) - Len(prog') + i]
        OBVIOUS
      <4>2. Len(file) - Len(prog') + i = i + 1
        BY <1>4, <2>2
      <4> QED
        BY <2>2, <4>2
    <3>2. Len(prog') < Len(file)
      BY <1>4, <2>2
    <3>3. addr' = Target(command'.addr, Len(Given')) /\ Len(Given') # 0
      BY <1>1, <2>4, <2>6
    <3>4. /\ command' = line /\ line.name = "LOAD" /\ at' = "loading"
          /\ line.addr \in Word /\ line.file \in Seq([1 .. 4 -> 0 .. 255]) /\ line.file # <<>>
      BY <1>1, <1>3, <1>7, <2>1
    <3> QED
      BY <3>1, <3>2, <3>3, <3>4 DEF WellGiven
  <2>9. Writing'
    <3>1. Ahead(toMachine', 0, 1, a, Given')
      <4>1. Queue(s, 9) /\ s[1] = 65 /\ Carries(s, 2, a) /\ Carries(s, 6, w)
        BY <2>5, StoreWordCarries
      <4>2. toMachine' = <<>> \o s
        BY <1>2, <2>1, SentByA DEF ToMachine
      <4> HIDE DEF s, w, a
      <4>3. PICK q, g, m, d : q = <<>> /\ g = <<>> /\ m = 0 /\ d = 0
        OBVIOUS
      <4>4. Ahead(q, d, m, a, g) /\ Len(g) = 0 /\ Len(g) \in Nat
        BY <4>3, NothingAhead, Nil
      <4>5. Grown(Given', g, w)
        <5>1. 0 + 1 = 1 /\ 1 .. 0 = {}
          OBVIOUS
        <5> QED
          BY <2>4, <4>4, <5>1 DEF Grown
      <4>6. Carries(s, 2, Target(a, Len(g) + 1))
        <5>1. Len(g) + 1 = 1
          BY <4>4
        <5> QED
          BY <2>6, <4>1, <5>1
      <4>7. m \in Nat /\ d \in {0, 1} /\ (d = 1 => m # 0) /\ m <= Len(g)
        BY <4>3, <4>4
      <4>8. Ahead(q \o s, d, m + 1, a, Given')
        BY <4>1, <4>4, <4>5, <4>6, <4>7, WordAdded
      <4>9. m + 1 = 1
        BY <4>3
      <4> QED
        BY <4>2, <4>3, <4>8, <4>9
    <3>2. Kept(1)'
      <4>1. 1 .. Len(Given') - 1 = {}
        BY <2>4
      <4> QED
        BY <4>1 DEF Kept
    <3> QED
      BY <1>1, <1>2, <2>4, <3>1, <3>2 DEF Writing
  <2> QED
    BY <1>2, <1>5, <2>2, <2>7, <2>8, <2>9 DEF Stores
<1> QED
  BY <1>6, <1>7

\* The commands.
LEMMA CommandStores ==
  ASSUME Inv, Stores, UserCommands
  PROVE  Stores'
<1>1. mem' = mem
  BY DEF UserCommands, monitorVars
<1>2. CASE parted # "no"
  <2>1. PICK line \in {Quit} : kernelRun(line)
    BY <1>2 DEF UserCommands
  <2>2. Exit
    BY <2>1 DEF kernelRun, Quit
  <2> QED
    BY <1>1, <2>2, ExitStores
<1>3. CASE parted = "no"
  <2>1. PICK line : kernelRun(line) /\ TypedWell(line)
    <3>1. PICK line \in IF lines < Kits[kit].most THEN Kits[kit].typed ELSE {Quit} : kernelRun(line)
      BY <1>3 DEF UserCommands
    <3>2. CASE line \in Kits[kit].typed
      BY <3>1, <3>2, SessionAssumption DEF Inv, Typed
    <3>3. CASE line = Quit
      <4>1. TypedWell(Quit)
        BY SMT DEF Quit, TypedWell
      <4> QED
        BY <3>1, <3>3, <4>1
    <3> QED
      BY <3>1, <3>2, <3>3
  <2>2. CASE line.name = "A" /\ runA(line)
    BY <1>3, <2>1, <2>2, AStores
  <2>3. CASE line.name = "LOAD" /\ runLoadFile(line)
    BY <1>3, <2>1, <2>3, LoadStores
  <2>4. CASE Exit
    BY <1>1, <2>4, ExitStores
  <2>5. ASSUME line.name \notin {"A", "LOAD"},
               \/ Misread(line) \/ runR(line) \/ runD(line, 68) \/ runD(line, 85)
               \/ runG(line) \/ runViewTLB(line)
               \/ runDelTLB(line) \/ runAddTLB(line)
        PROVE  Stores'
    <3>1. at = "prompt"
      BY <2>1 DEF kernelRun
    <3>2. CASE Exit
      BY <1>1, <3>2, ExitStores
    <3>3. CASE /\ command' = line /\ prog' = prog
               /\ at' \in {"prompt", "top", "regs", "dump", "listen"}
      <4>1. ~Writes'
        BY <2>5, <3>3 DEF Writes
      <4> QED
        BY <1>1, <3>3, <4>1, NobodyWrites
    <3> QED
      BY <2>5, <3>1, <3>2, <3>3 DEF Misread, runR, runD, runG, runViewTLB, runDelTLB, runAddTLB,
         Obeys, Fails, Returns
  <2> QED
    BY <2>1, <2>2, <2>3, <2>4, <2>5 DEF kernelRun
<1> QED
  BY <1>2, <1>3

\* The terminal is started, connected or left, or the machine is reset.
LEMMA OutsideStores ==
  ASSUME Stores, UserStarts \/ UserBreaks \/ OpensPort \/ OpensSimulator \/ Reset
  PROVE  Stores'
<1>1. CASE UserBreaks
  BY <1>1, ExitStores DEF UserBreaks, monitorVars
<1>2. CASE UserStarts \/ OpensPort \/ OpensSimulator \/ Reset
  <2>1. /\ command' = command /\ prog' = prog /\ at' \in {"top", "greeting"}
        /\ mem' = mem \/ mem' = Contents
        /\ at \in {"off", "greeting"} \/ (at = "top" /\ port = "free")
    BY <1>2 DEF UserStarts, Start, OpensPort, OpensSimulator, Connect, Reset, monitorVars, consoleVars
  <2>2. ~Writes
    BY <2>1 DEF Stores, Places
  <2>3. ~Writes' /\ DOMAIN mem' = DOMAIN mem
    BY <2>1, <2>2 DEF Writes, Stores, Addresses
  <2> QED
    BY <2>1, <2>3, NobodyWrites
<1> QED
  BY <1>1, <1>2

\* The initial states: no command yet.
LEMMA StartsStoring ==
  ASSUME Init
  PROVE  Stores
<1>1. at = "off" /\ command = Quit /\ prog = <<>> /\ mem = Contents
  BY DEF Init, ConsoleInit, MonitorInit
<1>2. ~Writes
  BY <1>1 DEF Writes, Quit
<1> QED
  BY <1>1, <1>2, Nil DEF Stores, Places, Elsewhere, Addresses

\* A step that changes nothing.
LEMMA NothingStores ==
  ASSUME Stores, UNCHANGED vars
  PROVE  Stores'
<1>1. /\ at' = at /\ port' = port /\ command' = command /\ addr' = addr /\ prog' = prog
      /\ typed' = typed /\ overrun' = overrun /\ toMachine' = toMachine /\ Steady
  BY DEF vars, consoleVars, monitorVars, wires, ghosts, Steady
<1>2. mem' = mem /\ Writes' = Writes /\ Given' = Given
  BY <1>1 DEF Steady, Writes, Given
<1>3. Places' = Places /\ WellGiven' = WellGiven
  BY <1>1, <1>2 DEF Places, WellGiven
<1>4. Writing => Writing'
  BY <1>1, <1>2, NothingSent
<1> QED
  BY <1>1, <1>2, <1>3, <1>4 DEF Stores

\* The words of A and LOAD (runA, runLoadFile) are stored by the monitor as
\* they were given, at the addresses that follow the one typed, however the
\* terminal takes the echo of one for the answer to the next and sends ahead
\* of the machine: as long as their addresses are mapped, to different places,
\* and no byte is lost. The messages on the line are always the last ones of
\* what was given, of which the first is perhaps read in part.
THEOREM WordsAreStored == Spec /\ []GoesToMemory => []WrittenIsStored
<1>1. Init => Stores
  BY StartsStoring
<1>2. Inv /\ GoesToMemory /\ Stores /\ [Next]_vars => Stores'
  <2> SUFFICES ASSUME Inv, GoesToMemory, Stores, [Next]_vars PROVE Stores'
    OBVIOUS
  <2>1. CASE UNCHANGED vars
    BY <2>1, NothingStores
  <2>2. CASE Next
    BY <2>2, MachineStores, LossStores, TerminalStores, CommandStores, AnswerStores, OutsideStores
       DEF Next, Inv
  <2> QED
    BY <2>1, <2>2
<1>3. Stores => WrittenIsStored
  <2> SUFFICES ASSUME Stores, at \in {"prompt", "top"}, Writes, pc = "begin", AtRest, ~overrun
               PROVE  \A k \in DOMAIN Given : Load(Plus(command.addr, 4 * (k - 1))) = Given[k]
    BY DEF WrittenIsStored, Writes
  <2>1. WellGiven /\ Writing /\ IsSeq(prog)
    BY DEF Stores
  <2>2. Len(Given) \in Nat /\ DOMAIN Given = 1 .. Len(Given)
    BY <2>1, GivenWords
  <2>3. PICK m \in 0 .. Len(Given) : Kept(m) /\ Ahead(toMachine, 0, m, command.addr, Given)
    BY <2>1 DEF Writing
  <2>4. m = 0
    <3>1. Len(toMachine) = 9 * m - 0
      BY <2>3 DEF Ahead, Queue
    <3>2. Len(toMachine) < 1
      BY Waits DEF AtRest
    <3> QED
      BY <2>2, <3>1, <3>2
  <2>5. Len(Given) - m = Len(Given)
    BY <2>2, <2>4
  <2> QED
    BY <2>2, <2>3, <2>5 DEF Kept, Target
<1> QED
  BY <1>1, <1>2, <1>3, Invariant, PTL DEF Spec

-----------------------------------------------------------------------------
(* Pages and frames: what the commands on the TLB do to them.              *)

\* Entries that are not empty have pairs of their own, page 0's not among them.
Table(e) ==
  /\ e \in [Entry -> EntryType]
  /\ \A i \in Entry : e[i] = NoEntry \/ (e[i].vpn # 0 /\ (e[i].v1 \/ e[i].v2))
  /\ \A i, j \in Entry : e[i].vpn = e[j].vpn /\ e[i].vpn # 0 => i = j

\* The TLB d of the machine is the image of the terminal's table e.
Mirrors(d, e) == \A i \in Entry : d[i] = Image(e[i])

\* The half of an entry that an address asks.
IsValid(e, p) == IF Odd(p) = 0 THEN e.v1 ELSE e.v2
FrameIn(e, p) == IF Odd(p) = 0 THEN e.pfn1 ELSE e.pfn2

\* The fields of an entry.
LEMMA EntryFields ==
  ASSUME NEW e \in EntryType
  PROVE  /\ e.vpn \in Nat /\ e.pfn1 \in Nat /\ e.pfn2 \in Nat /\ e.v1 \in BOOLEAN /\ e.v2 \in BOOLEAN
         /\ e.vpn < 524288 /\ e.pfn1 < 1048576 /\ e.pfn2 < 1048576
         /\ e = [vpn |-> e.vpn, pfn1 |-> e.pfn1, pfn2 |-> e.pfn2, v1 |-> e.v1, v2 |-> e.v2]
  BY SMT DEF EntryType

\* What the machine holds for an entry of the terminal.
LEMMA ImageFields ==
  ASSUME NEW e
  PROVE  /\ Image(e).vpn = e.vpn /\ Image(e).pfn0 = e.pfn1 /\ Image(e).pfn1 = e.pfn2
         /\ Image(e).v0 = (IF e.v1 THEN 1 ELSE 0) /\ Image(e).v1 = (IF e.v2 THEN 1 ELSE 0)
  BY DEF Image

\* The entry that the machine holds for one of the terminal's, field by field.
LEMMA MirrorFields ==
  ASSUME NEW d, NEW e, Mirrors(d, e), NEW i \in Entry
  PROVE  /\ d[i].vpn = e[i].vpn /\ d[i].pfn0 = e[i].pfn1 /\ d[i].pfn1 = e[i].pfn2
         /\ d[i].v0 = 1 <=> e[i].v1
         /\ d[i].v1 = 1 <=> e[i].v2
<1>1. PICK x, y : x = d[i] /\ y = e[i]
  OBVIOUS
<1>2. x = Image(y)
  BY <1>1 DEF Mirrors
<1>3. /\ x.vpn = y.vpn /\ x.pfn0 = y.pfn1 /\ x.pfn1 = y.pfn2
      /\ x.v0 = (IF y.v1 THEN 1 ELSE 0) /\ x.v1 = (IF y.v2 THEN 1 ELSE 0)
  BY <1>2, ImageFields
<1> QED
  BY <1>1, <1>3

\* The first address of a page has the pair and the half of all of them.
LEMMA BaseIs ==
  ASSUME NEW a \in Word
  PROVE  /\ Base(a) \in Word /\ Base(Base(a)) = Base(a)
         /\ VPN2(Base(a)) = VPN2(a) /\ Odd(Base(a)) = Odd(a) /\ Unmapped(Base(a)) = Unmapped(a)
<1> DEFINE k == a.lo \div 4096
           l == a.lo % 4096
<1>1. a.hi \in Nat /\ a.hi < 65536 /\ a.lo \in Nat /\ a.lo < 65536 /\ a = [hi |-> a.hi, lo |-> a.lo]
  BY Halves, SMT DEF Word
<1>2. k \in Nat /\ k < 16 /\ l \in Nat /\ l < 4096 /\ a.lo = 4096 * k + l
  BY <1>1, SMT
<1>3. Base(a) = [hi |-> a.hi, lo |-> a.lo - l]
  BY <1>1 DEF Base
<1> HIDE DEF k, l
<1>4. a.lo - l = 4096 * k
  BY <1>1, <1>2, SMT
<1>5. Base(a) = [hi |-> a.hi, lo |-> 4096 * k]
  BY <1>3, <1>4
<1>6. 4096 * k \in Nat /\ 4096 * k < 65536 /\ (4096 * k) % 4096 = 0 /\ 4096 * k - 0 = 4096 * k
  BY <1>2, SMT
<1>7. (4096 * k) \div 4096 = k /\ (4096 * k + l) \div 4096 = k
  BY <1>2, SMT
<1>8. (4096 * k) \div 8192 = k \div 2 /\ (4096 * k + l) \div 8192 = k \div 2
  BY <1>2, SMT
<1>9. Base(a) \in Word
  BY <1>1, <1>5, <1>6, SMT DEF Word, Halfword
<1>10. Base(Base(a)) = Base(a)
  <2>1. PICK b : b = Base(a)
    OBVIOUS
  <2>2. b = [hi |-> a.hi, lo |-> 4096 * k] /\ b.lo - (b.lo % 4096) = 4096 * k
    BY <1>5, <1>6, <2>1
  <2>3. Base(b) = b
    BY <2>2 DEF Base
  <2> QED
    BY <2>1, <2>3
<1> QED
  BY <1>2, <1>5, <1>7, <1>8, <1>9, <1>10 DEF VPN2, Odd, Unmapped

\* A page is its pair and its half.
LEMMA PageIs ==
  ASSUME NEW a \in Word, NEW b \in Word, VPN2(a) = VPN2(b), Odd(a) = Odd(b)
  PROVE  Base(a) = Base(b)
<1>1. /\ a.hi \in Nat /\ a.hi < 65536 /\ a.lo \in Nat /\ a.lo < 65536 /\ a = [hi |-> a.hi, lo |-> a.lo]
      /\ b.hi \in Nat /\ b.hi < 65536 /\ b.lo \in Nat /\ b.lo < 65536 /\ b = [hi |-> b.hi, lo |-> b.lo]
  BY Halves, SMT DEF Word
<1>2. PICK m \in Nat, n \in Nat : m = a.lo \div 8192 /\ n = b.lo \div 8192 /\ m < 8 /\ n < 8
  BY <1>1, SMT
<1>3. a.hi = b.hi /\ m = n
  BY <1>1, <1>2, SMT DEF VPN2
<1>4. \A x \in Nat : x < 65536 =>
        x - (x % 4096) = 4096 * ((2 * (x \div 8192)) + ((x \div 4096) % 2))
  BY SMT
<1>5. a.lo - (a.lo % 4096) = b.lo - (b.lo % 4096)
  BY <1>1, <1>2, <1>3, <1>4 DEF Odd
<1> QED
  BY <1>1, <1>3, <1>5 DEF Base

\* The frame of an address is what the machine composed its own from.
LEMMA FrameComposed ==
  ASSUME NEW n \in Nat, NEW a \in Word
  PROVE  PFN([hi |-> n \div 16, lo |-> 4096 * (n % 16) + (a.lo % 4096)]) = n
<1>1. a.lo \in Nat
  BY Halves
<1>2. PICK q \in Nat, r \in Nat : q = n \div 16 /\ r = n % 16 /\ n = 16 * q + r /\ r < 16
  BY SMT
<1>3. PICK l \in Nat : l = a.lo % 4096 /\ l < 4096
  BY <1>1, SMT
<1>4. (4096 * r + l) \div 4096 = r
  BY <1>2, <1>3, SMT
<1>5. PFN([hi |-> q, lo |-> 4096 * r + l]) = 16 * q + ((4096 * r + l) \div 4096)
  BY DEF PFN
<1>6. [hi |-> q, lo |-> 4096 * r + l] = [hi |-> n \div 16, lo |-> 4096 * (n % 16) + (a.lo % 4096)]
  BY <1>2, <1>3
<1> QED
  BY <1>2, <1>4, <1>5, <1>6

\* A page whose pair has one entry.
LEMMA FrameFound ==
  ASSUME NEW e, Table(e), NEW d, Mirrors(d, e), NEW p \in Word, ~Unmapped(p), VPN2(p) # 0,
         NEW i \in Entry, e[i].vpn = VPN2(p)
  PROVE  FrameAt(d, p) = IF IsValid(e[i], p) THEN FrameIn(e[i], p) ELSE -1
<1>1. e[i] \in EntryType /\ \A j \in Entry : e[j].vpn = VPN2(p) => j = i
  BY DEF Table
<1>2. \A j \in Entry : d[j].vpn = e[j].vpn
  BY MirrorFields
<1>3. d[i].v0 = 1 <=> e[i].v1
  BY MirrorFields
<1>4. d[i].v1 = 1 <=> e[i].v2
  BY MirrorFields
<1>5. Hits(d, p) = IF IsValid(e[i], p) THEN {i} ELSE {}
  BY <1>1, <1>2, <1>3, <1>4 DEF Hits, IsValid
<1>6. CASE ~IsValid(e[i], p)
  BY <1>5, <1>6 DEF FrameAt, TLB_bad
<1>7. CASE IsValid(e[i], p)
  <2>1. Hits(d, p) = {i} /\ ~TLB_bad(d, p)
    BY <1>5, <1>7 DEF TLB_bad
  <2>2. Min({i}) = i
    BY Entries, MinIs
  <2>3. PICK n : n = FrameIn(e[i], p)
    OBVIOUS
  <2>4. n \in Nat
    BY <1>1, <2>3, EntryFields DEF FrameIn
  <2>5. (IF Odd(p) = 0 THEN d[i].pfn0 ELSE d[i].pfn1) = n
    BY <2>3, MirrorFields DEF FrameIn
  <2>6. real_addr(d, p) = [hi |-> n \div 16, lo |-> 4096 * (n % 16) + (p.lo % 4096)]
    BY <2>1, <2>2, <2>5 DEF real_addr
  <2>7. PFN(real_addr(d, p)) = n
    BY <2>4, <2>6, FrameComposed
  <2> QED
    BY <1>7, <2>1, <2>3, <2>7 DEF FrameAt
<1> QED
  BY <1>6, <1>7

\* And one whose pair has none.
LEMMA FrameMissing ==
  ASSUME NEW e, NEW d, Mirrors(d, e), NEW p, ~Unmapped(p), \A j \in Entry : e[j].vpn # VPN2(p)
  PROVE  FrameAt(d, p) = -1
<1>1. \A j \in Entry : d[j].vpn = e[j].vpn
  BY MirrorFields
<1>2. Hits(d, p) = {}
  BY <1>1 DEF Hits
<1> QED
  BY <1>2 DEF FrameAt, TLB_bad

\* Two tables agree on a page whose pair has the same entry in both.
LEMMA SameFrame ==
  ASSUME NEW e, Table(e), NEW d, Mirrors(d, e), NEW f, Table(f), NEW c, Mirrors(c, f),
         NEW p \in Word, ~Unmapped(p), VPN2(p) # 0,
         \A j \in Entry : (e[j].vpn = VPN2(p) \/ f[j].vpn = VPN2(p)) =>
            /\ e[j].vpn = VPN2(p) /\ f[j].vpn = VPN2(p)
            /\ IsValid(e[j], p) = IsValid(f[j], p) /\ FrameIn(e[j], p) = FrameIn(f[j], p)
  PROVE  FrameAt(d, p) = FrameAt(c, p)
<1>1. CASE \E i \in Entry : e[i].vpn = VPN2(p)
  <2>1. PICK i \in Entry : e[i].vpn = VPN2(p)
    BY <1>1
  <2>2. FrameAt(d, p) = IF IsValid(e[i], p) THEN FrameIn(e[i], p) ELSE -1
    BY <2>1, FrameFound
  <2>3. FrameAt(c, p) = IF IsValid(f[i], p) THEN FrameIn(f[i], p) ELSE -1
    BY <2>1, FrameFound
  <2> QED
    BY <2>1, <2>2, <2>3
<1>2. CASE \A i \in Entry : e[i].vpn # VPN2(p)
  <2>1. FrameAt(d, p) = -1
    BY <1>2, FrameMissing
  <2>2. FrameAt(c, p) = -1
    BY <1>2, FrameMissing
  <2> QED
    BY <2>1, <2>2
<1> QED
  BY <1>1, <1>2

\* What addTLBEntry writes into an entry.
HalfSet(new, e, v, odd, n) ==
  /\ new.vpn = v
  /\ odd = 0 => new.v1 = TRUE /\ new.pfn1 = n /\ new.v2 = e.v2 /\ new.pfn2 = e.pfn2
  /\ odd # 0 => new.v2 = TRUE /\ new.pfn2 = n /\ new.v1 = e.v1 /\ new.pfn1 = e.pfn1

\* The half of an entry that an address selects.
LEMMA HalfIs ==
  ASSUME NEW e \in EntryType, NEW v, NEW odd, NEW n,
         NEW new, new = Half([e EXCEPT !.vpn = v], odd, n)
  PROVE  HalfSet(new, e, v, odd, n)
<1>1. e = [vpn |-> e.vpn, pfn1 |-> e.pfn1, pfn2 |-> e.pfn2, v1 |-> e.v1, v2 |-> e.v2]
  BY EntryFields
<1>2. PICK x1, x2, y1, y2 : x1 = e.pfn1 /\ x2 = e.pfn2 /\ y1 = e.v1 /\ y2 = e.v2
  OBVIOUS
<1>3. PICK f : f = [e EXCEPT !.vpn = v]
  OBVIOUS
<1>4. f = [vpn |-> v, pfn1 |-> x1, pfn2 |-> x2, v1 |-> y1, v2 |-> y2]
  BY <1>1, <1>2, <1>3
<1>5. CASE odd = 0
  <2>1. new = [f EXCEPT !.v1 = TRUE, !.pfn1 = n]
    BY <1>3, <1>5 DEF Half
  <2>2. new = [vpn |-> v, pfn1 |-> n, pfn2 |-> x2, v1 |-> TRUE, v2 |-> y2]
    BY <1>4, <2>1
  <2>3. new.vpn = v /\ new.v1 = TRUE /\ new.pfn1 = n /\ new.v2 = y2 /\ new.pfn2 = x2
    BY <2>2
  <2> QED
    BY <1>2, <1>5, <2>3 DEF HalfSet
<1>6. CASE odd # 0
  <2>1. new = [f EXCEPT !.v2 = TRUE, !.pfn2 = n]
    BY <1>3, <1>6 DEF Half
  <2>2. new = [vpn |-> v, pfn1 |-> x1, pfn2 |-> n, v1 |-> y1, v2 |-> TRUE]
    BY <1>4, <2>1
  <2>3. new.vpn = v /\ new.v2 = TRUE /\ new.pfn2 = n /\ new.v1 = y1 /\ new.pfn1 = x1
    BY <2>2
  <2> QED
    BY <1>2, <1>6, <2>3 DEF HalfSet
<1> QED
  BY <1>5, <1>6

\* The entry that a mapping goes to: that of the pair, or an empty one if the
\* pair has none.
Takes(e, i, a) ==
  \/ e[i].vpn = VPN2(a)
  \/ e[i] = NoEntry /\ \A j \in Entry : e[j].vpn # VPN2(a)

\* A mapping is added to one entry, or to none.
LEMMA AddedTo ==
  ASSUME NEW e, Table(e), NEW a \in Word, NEW target \in Word, NEW new,
         new = addTLBEntry(e, a, target)
  PROVE  \/ new = e
         \/ /\ ~Unmapped(a)
            /\ \E i \in Entry :
                 /\ Takes(e, i, a)
                 /\ new[i] = Half([e[i] EXCEPT !.vpn = VPN2(a)], Odd(a), PFN(target))
                 /\ \A j \in Entry \ {i} : new[j] = e[j]
<1> DEFINE v == VPN2(a)
           S == WithVPN(e, v)
           F == Free(e)
           half(i) == Half([e[i] EXCEPT !.vpn = v], Odd(a), PFN(target))
           set(i) == [e EXCEPT ![i] = half(i)]
<1>1. S \subseteq Nat /\ F \subseteq Nat /\ S \subseteq Entry /\ F \subseteq Entry
  BY Entries DEF WithVPN, Free
<1>2. e \in [Entry -> EntryType]
  BY DEF Table
<1>3. ASSUME NEW i \in Entry
      PROVE  set(i)[i] = half(i) /\ \A j \in Entry \ {i} : set(i)[j] = e[j]
  <2> HIDE DEF half
  <2> QED
    BY <1>2
<1>4. CASE ~Unmapped(a) /\ S # {}
  <2>1. Min(S) \in S
    BY <1>1, <1>4, MinIs
  <2>2. new = set(Min(S))
    BY <1>4 DEF addTLBEntry
  <2>3. PICK i \in Entry : i = Min(S)
    BY <1>1, <2>1
  <2>4. e[i].vpn = v
    BY <2>1, <2>3 DEF WithVPN
  <2> HIDE DEF S, set, half
  <2>5. new[i] = half(i) /\ \A j \in Entry \ {i} : new[j] = e[j]
    BY <1>3, <2>2, <2>3
  <2> QED
    BY <1>4, <2>4, <2>5 DEF Takes, half
<1>5. CASE ~Unmapped(a) /\ S = {} /\ F # {}
  <2>1. Min(F) \in F
    BY <1>1, <1>5, MinIs
  <2>2. new = set(Min(F))
    BY <1>5 DEF addTLBEntry
  <2>3. PICK i \in Entry : i = Min(F)
    BY <1>1, <2>1
  <2>4. ~e[i].v1 /\ ~e[i].v2
    BY <2>1, <2>3 DEF Free
  <2>5. e[i] = NoEntry
    BY <2>4 DEF Table
  <2>6. \A j \in Entry : e[j].vpn # v
    BY <1>5 DEF WithVPN
  <2> HIDE DEF F, set, half
  <2>7. new[i] = half(i) /\ \A j \in Entry \ {i} : new[j] = e[j]
    BY <1>3, <2>2, <2>3
  <2> QED
    BY <1>5, <2>5, <2>6, <2>7 DEF Takes, half
<1>6. CASE ~Unmapped(a) /\ S = {} /\ F = {}
  BY <1>6 DEF addTLBEntry
<1>7. CASE Unmapped(a)
  BY <1>7 DEF addTLBEntry
<1> HIDE DEF S, F, set
<1> QED
  BY <1>4, <1>5, <1>6, <1>7

\* A table stays a table: no pair gets a second entry.
LEMMA TableAdded ==
  ASSUME NEW e, Table(e), NEW a \in Word, NEW target \in Word, ~Unmapped(a) => VPN2(a) # 0,
         NEW new \in [Entry -> EntryType], new = addTLBEntry(e, a, target)
  PROVE  Table(new)
<1>1. CASE new = e
  BY <1>1
<1>2. CASE new # e
  <2>0. ~Unmapped(a) /\ VPN2(a) # 0
    BY <1>2, AddedTo
  <2>1. PICK i \in Entry : /\ Takes(e, i, a)
                           /\ new[i] = Half([e[i] EXCEPT !.vpn = VPN2(a)], Odd(a), PFN(target))
                           /\ \A j \in Entry \ {i} : new[j] = e[j]
    BY <1>2, AddedTo
  <2>2. e[i] \in EntryType
    BY DEF Table
  <2>7. HalfSet(new[i], e[i], VPN2(a), Odd(a), PFN(target))
    BY <2>1, <2>2, HalfIs, Zenon
  <2>3. new[i].vpn = VPN2(a) /\ (new[i].v1 \/ new[i].v2)
    BY <2>7 DEF HalfSet
  <2>4. \A j \in Entry \ {i} : e[j].vpn # VPN2(a)
    BY <2>0, <2>1, <2>2 DEF Takes, Table
  <2>5. \A j \in Entry : new[j] = NoEntry \/ (new[j].vpn # 0 /\ (new[j].v1 \/ new[j].v2))
    BY <2>0, <2>1, <2>3 DEF Table
  <2>6. \A j, k \in Entry : new[j].vpn = new[k].vpn /\ new[j].vpn # 0 => j = k
    BY <2>1, <2>3, <2>4 DEF Table
  <2> QED
    BY <2>5, <2>6 DEF Table
<1> QED
  BY <1>1, <1>2

\* ADDTLB maps the page it names to the frame it names and leaves all others.
LEMMA PageAdded ==
  ASSUME NEW e, Table(e), NEW a \in Word, NEW target \in Word, VPN2(a) # 0,
         NEW new, Table(new), new = addTLBEntry(e, a, target), new # e,
         NEW d, Mirrors(d, e), NEW c, Mirrors(c, new),
         NEW p \in Word, p = Base(p), ~Unmapped(p), VPN2(p) # 0
  PROVE  FrameAt(c, p) = IF p = Base(a) THEN PFN(target) ELSE FrameAt(d, p)
<1>1. PICK i \in Entry : /\ Takes(e, i, a)
                         /\ new[i] = Half([e[i] EXCEPT !.vpn = VPN2(a)], Odd(a), PFN(target))
                         /\ \A j \in Entry \ {i} : new[j] = e[j]
  BY AddedTo
<1>2. HalfSet(new[i], e[i], VPN2(a), Odd(a), PFN(target))
  <2>1. e[i] \in EntryType
    BY DEF Table
  <2> QED
    BY <1>1, <2>1, HalfIs, Zenon
<1>3. /\ new[i].vpn = VPN2(a)
      /\ Odd(a) = 0 => /\ new[i].v1 = TRUE /\ new[i].pfn1 = PFN(target)
                       /\ new[i].v2 = e[i].v2 /\ new[i].pfn2 = e[i].pfn2
      /\ Odd(a) # 0 => /\ new[i].v2 = TRUE /\ new[i].pfn2 = PFN(target)
                       /\ new[i].v1 = e[i].v1 /\ new[i].pfn1 = e[i].pfn1
  BY <1>2 DEF HalfSet
<1>4. CASE p = Base(a)
  <2>1. VPN2(p) = VPN2(a) /\ Odd(p) = Odd(a)
    BY <1>4, BaseIs
  <2>2. IsValid(new[i], p) /\ FrameIn(new[i], p) = PFN(target)
    BY <1>3, <2>1 DEF IsValid, FrameIn
  <2>3. FrameAt(c, p) = FrameIn(new[i], p)
    BY <1>3, <2>1, <2>2, FrameFound
  <2> QED
    BY <1>4, <2>2, <2>3
<1>5. CASE p # Base(a) /\ VPN2(p) = VPN2(a) /\ e[i].vpn = VPN2(a)
  <2>1. Odd(p) # Odd(a)
    BY <1>5, PageIs
  <2>2. IsValid(new[i], p) = IsValid(e[i], p) /\ FrameIn(new[i], p) = FrameIn(e[i], p)
    <3>1. Odd(a) \in {0, 1} /\ Odd(p) \in {0, 1}
      <4>1. ASSUME NEW w \in Word PROVE Odd(w) \in {0, 1}
        <5>1. w.lo \in Nat
          BY Halves
        <5>2. w.lo \div 4096 \in Nat
          BY <5>1
        <5> QED
          BY <5>2 DEF Odd
      <4> QED
        BY <4>1
    <3> QED
      BY <1>3, <2>1, <3>1 DEF IsValid, FrameIn
  <2>3. FrameAt(c, p) = IF IsValid(new[i], p) THEN FrameIn(new[i], p) ELSE -1
    BY <1>3, <1>5, FrameFound
  <2>4. FrameAt(d, p) = IF IsValid(e[i], p) THEN FrameIn(e[i], p) ELSE -1
    BY <1>5, FrameFound
  <2> QED
    BY <1>5, <2>2, <2>3, <2>4
<1>6. CASE p # Base(a) /\ VPN2(p) = VPN2(a) /\ e[i].vpn # VPN2(a)
  <2>1. e[i] = NoEntry /\ \A j \in Entry : e[j].vpn # VPN2(p)
    BY <1>1, <1>6 DEF Takes
  <2>2. FrameAt(d, p) = -1
    BY <2>1, FrameMissing
  <2>3. ~IsValid(new[i], p)
    <3>1. Odd(p) # Odd(a)
      BY <1>6, PageIs
    <3>2. e[i].v1 = FALSE /\ e[i].v2 = FALSE
      BY <2>1 DEF NoEntry
    <3>3. CASE Odd(a) = 0
      BY <1>3, <3>1, <3>2, <3>3 DEF IsValid
    <3>4. CASE Odd(a) # 0
      <4>1. Odd(a) = 1 /\ Odd(p) = 0
        <5>1. a.lo \in Nat /\ p.lo \in Nat
          BY Halves
        <5>2. a.lo \div 4096 \in Nat /\ p.lo \div 4096 \in Nat
          BY <5>1
        <5> QED
          BY <3>1, <3>4, <5>2 DEF Odd
      <4> QED
        BY <1>3, <3>2, <3>4, <4>1 DEF IsValid
    <3> QED
      BY <3>3, <3>4
  <2>4. FrameAt(c, p) = -1
    BY <1>3, <1>6, <2>3, FrameFound
  <2> QED
    BY <1>6, <2>2, <2>4
<1>7. CASE p # Base(a) /\ VPN2(p) # VPN2(a)
  <2>1. e[i].vpn # VPN2(p)
    <3>1. NoEntry.vpn = 0
      BY DEF NoEntry
    <3> QED
      BY <1>1, <1>7, <3>1 DEF Takes
  <2>2. \A j \in Entry : (e[j].vpn = VPN2(p) \/ new[j].vpn = VPN2(p)) => new[j] = e[j]
    BY <1>1, <1>3, <1>7, <2>1
  <2>3. FrameAt(d, p) = FrameAt(c, p)
    BY <2>2, SameFrame
  <2> QED
    BY <1>7, <2>3
<1> QED
  BY <1>4, <1>5, <1>6, <1>7

\* DELTLB empties an entry, and a table without it is a table.
LEMMA TableDeleted ==
  ASSUME NEW e, Table(e), NEW i \in Entry, NEW new, new = [e EXCEPT ![i] = NoEntry]
  PROVE  Table(new)
<1>1. new \in [Entry -> EntryType] /\ new[i] = NoEntry /\ \A j \in Entry \ {i} : new[j] = e[j]
  BY NoEntryType DEF Table
<1>2. NoEntry.vpn = 0
  BY DEF NoEntry
<1> QED
  BY <1>1, <1>2 DEF Table

\* A table that is another one with an entry emptied.
Emptied(new, e, i) == new[i] = NoEntry /\ \A j \in Entry \ {i} : new[j] = e[j]

\* It unmaps both pages of its pair and no other.
LEMMA PageDeleted ==
  ASSUME NEW e, Table(e), NEW i \in Entry, NEW new, Emptied(new, e, i), Table(new),
         NEW d, Mirrors(d, e), NEW c, Mirrors(c, new),
         NEW p \in Word, ~Unmapped(p), VPN2(p) # 0
  PROVE  FrameAt(c, p) = IF VPN2(p) = e[i].vpn THEN -1 ELSE FrameAt(d, p)
<1>1. new[i] = NoEntry /\ \A j \in Entry \ {i} : new[j] = e[j]
  BY DEF Emptied
<1>2. NoEntry.vpn = 0
  BY DEF NoEntry
<1>3. CASE VPN2(p) = e[i].vpn
  <2>1. \A j \in Entry : new[j].vpn # VPN2(p)
    BY <1>1, <1>2, <1>3 DEF Table
  <2> QED
    BY <1>3, <2>1, FrameMissing
<1>4. CASE VPN2(p) # e[i].vpn
  <2>1. \A j \in Entry : (e[j].vpn = VPN2(p) \/ new[j].vpn = VPN2(p)) => new[j] = e[j]
    BY <1>1, <1>2, <1>4
  <2>2. PICK f : f = new
    OBVIOUS
  <2>3. /\ Table(f) /\ Mirrors(c, f)
        /\ \A j \in Entry : (e[j].vpn = VPN2(p) \/ f[j].vpn = VPN2(p)) => f[j] = e[j]
    BY <2>1, <2>2
  <2>4. FrameAt(d, p) = FrameAt(c, p)
    BY <2>3, SameFrame
  <2> QED
    BY <1>4, <2>4
<1> QED
  BY <1>3, <1>4

\* Where a pair has number 0 the terminal takes an empty entry for its own
\* (memory.cpp:126), and the pair may get two.
NoPageZero == \A p \in Pages : VPN2(p) # 0

\* What the machine holds while the command is on its way: the table before it.
Mapping ==
  /\ Table(tlbEntry)
  /\ parted = "no" /\ Deleting =>
       /\ command.name = "DELTLB"
       /\ \E e : /\ Table(e) /\ Mirrors(data, e)
                 /\ \E i \in Entry : tlbEntry = [e EXCEPT ![i] = NoEntry]
  /\ parted = "no" /\ Adding =>
       /\ command.name = "ADDTLB" /\ command.addr \in Word /\ command.target \in Word
       /\ ~Unmapped(command.addr) => Base(command.addr) \in Pages
       /\ \E e : /\ Table(e) /\ Mirrors(data, e)
                 /\ tlbEntry = addTLBEntry(e, command.addr, command.target)

\* No command on the TLB is on its way.
LEMMA NothingUnderWay ==
  ASSUME \/ toMachine' = <<>> \/ at' # "prompt"
         \/ pc' \notin {"begin", "deltlb", "addtlb"}
         \/ pc' = "begin" /\ toMachine'[1] \notin {69, 84}
  PROVE  ~Deleting' /\ ~Adding'
<1>1. \A q, n : Queue(q, n) /\ n # 0 => q # <<>>
  BY Nil DEF Queue
<1>2. CASE toMachine' = <<>>
  <2>1. /\ ~Queue(toMachine', 1) /\ ~Queue(toMachine', 2)
        /\ ~Queue(toMachine', 15) /\ ~Queue(toMachine', 16)
    BY <1>1, <1>2
  <2> QED
    BY <2>1 DEF Deleting, Adding
<1>3. CASE toMachine' # <<>>
  BY <1>3 DEF Deleting, Adding
<1> QED
  BY <1>2, <1>3

\* A step after which none is, and which leaves the table alone.
LEMMA NoCommand ==
  ASSUME Mapping, tlbEntry' = tlbEntry, parted' # "no" \/ (~Deleting /\ ~Adding)'
  PROVE  Mapping'
  BY DEF Mapping

\* Places other than the prompt.
LEMMA Elsewise ==
  ASSUME Dialogue, at # "prompt"
  PROVE  \/ toMachine = <<>> \/ pc \notin {"begin", "deltlb", "addtlb"}
         \/ pc = "begin" /\ toMachine[1] \notin {69, 84}
  BY DEF Dialogue, Idle, Quiet, Deleting, Adding, ShowingRegs, Dumping, Storing, Going, Running,
     Answering

\* The pages that are mapped.
LEMMA PagesAre ==
  ASSUME NEW p \in Pages
  PROVE  p \in Word /\ p = Base(p) /\ ~Unmapped(p)
<1>1. PICK a \in Added : ~Unmapped(a) /\ p = Base(a)
  BY DEF Pages
<1>2. PICK n \in DOMAIN Kits : \E l \in Kits[n].typed : l.name = "ADDTLB" /\ a = l.addr
  BY <1>1 DEF Added
<1>3. PICK l \in Kits[n].typed : l.name = "ADDTLB" /\ a = l.addr
  BY <1>2
<1>4. TypedWell(l)
  BY <1>3, SessionAssumption
<1>5. a \in Word
  BY <1>3, <1>4 DEF TypedWell
<1> QED
  BY <1>1, <1>5, BaseIs

\* The machine at the prompt: it takes the letter of a command, or does it.
LEMMA MachineAtPrompt ==
  ASSUME Inv, Inv', MachineSteps, at = "prompt", parted = "no"
  PROVE  \/ pc = "begin" /\ data' = data /\ (Deleting' => Deleting) /\ (Adding' => Adding)
         \/ pc = "deltlb" /\ Deleting /\ Same' /\ ~Deleting' /\ ~Adding'
         \/ pc = "addtlb" /\ Adding /\ Same' /\ ~Deleting' /\ ~Adding'
<1>1. Idle \/ Deleting \/ Adding
  BY WhereWeAre
<1>2. ~Idle
  BY IdleWaits
<1>3. at' = "prompt" /\ parted' = "no" /\ (pc \notin {"deltlb", "addtlb"} => data' = data)
  BY MachineFrame
<1>4. Idle' \/ Deleting' \/ Adding'
  <2>1. Dialogue'
    BY <1>3 DEF Inv, InDialogue, Away
  <2> QED
    BY <1>3, <2>1 DEF Dialogue, Idle, Deleting, Adding, ShowingRegs, Dumping, Storing, Going, Running,
       Answering
<1>5. CASE pc = "begin" /\ Deleting
  <2>1. Queue(toMachine, 1 + 1) /\ toMachine[1] = 69
    BY <1>5 DEF Deleting
  <2>2. pc' = "deltlb"
    BY <1>5, <2>1, LetterTaken, Letters
  <2> QED
    BY <1>3, <1>5, <2>2 DEF Adding
<1>6. CASE pc = "begin" /\ Adding
  <2>1. Queue(toMachine, 15 + 1) /\ toMachine[1] = 84
    BY <1>6 DEF Adding
  <2>2. pc' = "addtlb"
    BY <1>6, <2>1, LetterTaken, Letters
  <2> QED
    BY <1>3, <1>6, <2>2 DEF Deleting
<1>7. ASSUME toMachine' = <<>> PROVE Same' /\ ~Deleting' /\ ~Adding'
  <2>1. ~Deleting' /\ ~Adding'
    BY <1>7, NothingUnderWay
  <2> QED
    BY <1>4, <2>1 DEF Idle, Quiet
<1>8. CASE pc = "deltlb"
  <2>1. Deleting /\ Queue(toMachine, 1)
    BY <1>1, <1>2, <1>8 DEF Deleting, Adding
  <2>2. TakesFromHost(1)
    BY <1>8, MachineTakes, Waits
  <2> QED
    BY <1>7, <1>8, <2>1, <2>2, AllTaken
<1>9. CASE pc = "addtlb"
  <2>1. Adding /\ Queue(toMachine, 15)
    BY <1>1, <1>2, <1>9 DEF Deleting, Adding
  <2>2. TakesFromHost(15)
    BY <1>9, MachineTakes, Waits
  <2> QED
    BY <1>7, <1>9, <2>1, <2>2, AllTaken
<1> QED
  BY <1>1, <1>2, <1>5, <1>6, <1>8, <1>9 DEF Deleting, Adding

\* The machine's steps.
LEMMA MachineMapping ==
  ASSUME Inv, Inv', Mapping, MachineSteps
  PROVE  Mapping'
<1>1. tlbEntry' = tlbEntry /\ at' = at /\ parted' = parted /\ command' = command
  BY MachineFrame DEF MachineSteps, consoleVars
<1>2. CASE at # "prompt" \/ parted # "no"
  BY <1>1, <1>2, NothingUnderWay, NoCommand
<1>3. CASE at = "prompt" /\ parted = "no"
  <2>1. CASE ~Deleting' /\ ~Adding'
    BY <1>1, <2>1, NoCommand
  <2>2. CASE data' = data /\ (Deleting' => Deleting) /\ (Adding' => Adding)
    <3>1. \A e : Mirrors(data, e)' <=> Mirrors(data, e)
      BY <2>2 DEF Mirrors
    <3> QED
      BY <1>1, <2>2, <3>1 DEF Mapping
  <2> QED
    BY <1>3, <2>1, <2>2, MachineAtPrompt
<1> QED
  BY <1>2, <1>3

\* A lost byte.
LEMMA LossMapping ==
  ASSUME Inv, Mapping, ByteLost
  PROVE  Mapping'
<1>1. /\ tlbEntry' = tlbEntry /\ at' = at /\ parted' = parted /\ pc' = pc /\ pc \notin Reading
  BY DEF ByteLost, Overrun, monitorVars, consoleVars
<1>2. pc \notin {"begin", "deltlb", "addtlb"}
  BY <1>1, Waits
<1> QED
  BY <1>1, <1>2, NothingUnderWay, NoCommand

\* The terminal's steps: where they lead back to the prompt the answer was
\* complete.
LEMMA TerminalMapping ==
  ASSUME Inv, Mapping, TerminalSteps
  PROVE  Mapping'
<1>1. ConsoleStep /\ pc' = pc /\ tlbEntry' = tlbEntry
  BY TerminalFrame DEF TerminalSteps
<1>2. SUFFICES ASSUME at' = "prompt", parted' = "no" PROVE (~Deleting /\ ~Adding)'
  BY <1>1, NothingUnderWay, NoCommand
<1>3. parted = "no" /\ toMachine' = toMachine /\ (at = "greeting" => Greet)
      /\ at \notin {"prompt", "off", "top"}
  <2>1. CASE Greet \/ TakeReg \/ TakeWord \/ Listen
    BY <1>2, <2>1 DEF Greet, TakeReg, TakeWord, Listen
  <2>2. CASE TakeStored \/ TakeLoaded \/ TakeCause
    BY <1>2, <2>2 DEF TakeStored, TakeLoaded, TakeCause
  <2>3. CASE CallAlloc \/ CallLine \/ CallInteger \/ CallShow \/ CallString \/ CallHalt \/ CallOther
    BY <1>2, <2>3 DEF CallAlloc, CallLine, CallInteger, CallShow, CallString, CallHalt, CallOther
  <2>4. CASE TakeOver
    BY <1>2, <2>4, WhereWeAre DEF TakeOver
  <2> QED
    BY <1>1, <2>1, <2>2, <2>3, <2>4 DEF ConsoleStep
<1>4. CASE at # "greeting"
  <2>1. Dialogue
    BY <1>3, <1>4 DEF Inv, InDialogue, Away
  <2> QED
    BY <1>1, <1>3, <2>1, Elsewise, NothingUnderWay
<1>5. CASE at = "greeting"
  <2>1. toHost # <<>>
    BY <1>3, <1>5, Nil DEF Greet, TakesFromMachine
  <2>2. toMachine = <<>>
    BY <1>5, <2>1 DEF Inv, Outside, Fresh
  <2> QED
    BY <1>3, <2>2, NothingUnderWay
<1> QED
  BY <1>4, <1>5

\* The lines typed.
LEMMA LineTyped ==
  ASSUME Inv, UserCommands, parted = "no"
  PROVE  \E line : /\ kernelRun(line) /\ TypedWell(line)
                   /\ line.name = "ADDTLB" => line.addr \in Added
<1>1. PICK line \in IF lines < Kits[kit].most THEN Kits[kit].typed ELSE {Quit} : kernelRun(line)
  BY DEF UserCommands
<1>2. CASE line \in Kits[kit].typed
  <2>1. kit \in DOMAIN Kits
    BY DEF Inv, Typed
  <2>2. TypedWell(line)
    BY <1>2, <2>1, SessionAssumption
  <2>3. line.name = "ADDTLB" => line.addr \in Added
    BY <1>2, <2>1 DEF Added
  <2> QED
    BY <1>1, <2>2, <2>3
<1>3. CASE line = Quit
  <2>1. TypedWell(Quit)
    BY SMT DEF Quit, TypedWell
  <2>2. Quit.name # "ADDTLB"
    BY DEF Quit
  <2> QED
    BY <1>1, <1>3, <2>1, <2>2
<1> QED
  BY <1>1, <1>2, <1>3

\* A command: it is then on its way, and the machine holds the table before it.
LEMMA CommandMapping ==
  ASSUME NoPageZero, Inv, Inv', Mapping, UserCommands
  PROVE  Mapping'
<1>1. CASE parted # "no"
  <2>1. PICK line \in {Quit} : kernelRun(line)
    BY <1>1 DEF UserCommands
  <2>2. Exit
    BY <2>1 DEF kernelRun, Quit
  <2> QED
    BY <2>2, NothingUnderWay, NoCommand DEF Exit
<1>2. CASE parted = "no"
  <2>1. PICK line : /\ kernelRun(line) /\ TypedWell(line)
                    /\ line.name = "ADDTLB" => line.addr \in Added
    BY <1>2, LineTyped
  <2>2. /\ at = "prompt" /\ pc = "begin" /\ toMachine = <<>> /\ Same /\ pc' = "begin" /\ data' = data
    BY <1>2, Prompted
  <2>3. PICK e : e = tlbEntry
    OBVIOUS
  <2>4. Table(e) /\ Mirrors(data, e) /\ Mirrors(data, e)'
    BY <2>2, <2>3 DEF Mapping, Same, Mirrors
  <2>5. CASE tlbEntry' = tlbEntry /\ (toMachine' = toMachine \/ at' # "prompt")
    BY <2>2, <2>5, NothingUnderWay, NoCommand
  <2>6. CASE line.name = "DELTLB" /\ runDelTLB(line) /\ line.index \in Entry
    <3>1. command' = line /\ tlbEntry' = [e EXCEPT ![line.index] = NoEntry] /\ ToMachine(<<69, line.index>>)
      BY <2>3, <2>6 DEF runDelTLB, Obeys, delTLBEntry
    <3>2. toMachine'[1] = 69
      <4>1. IsSeq(<<69, line.index>>) /\ <<69, line.index>>[1] = 69
        BY QueueTwo, QueueType
      <4>2. toMachine' = <<69, line.index>>
        BY <2>2, <3>1, <4>1, Told, Nil
      <4> QED
        BY <4>1, <4>2
    <3>3. ~Adding'
      BY <2>2, <3>2 DEF Adding
    <3>4. PICK i \in Entry : i = line.index
      BY <2>6
    <3>5. PICK f : f = [e EXCEPT ![i] = NoEntry]
      OBVIOUS
    <3>6. Table(f)
      BY <2>4, <3>5, TableDeleted
    <3>7. tlbEntry' = f
      BY <3>1, <3>4, <3>5
    <3>8. command'.name = "DELTLB"
      BY <2>6, <3>1
    <3> QED
      BY <2>4, <3>3, <3>5, <3>6, <3>7, <3>8 DEF Mapping
  <2>7. CASE line.name = "ADDTLB" /\ runAddTLB(line) /\ ~Misread(line) /\ ~Exit
    <3> DEFINE entries == addTLBEntry(tlbEntry, line.addr, line.target)
               found == WithVPN(entries, VPN2(line.addr))
               m == AddMessage(Min(found), entries[Min(found)])
    <3>1. command' = line /\ tlbEntry' = entries /\ ToMachine(m) /\ found # {}
      BY <2>7 DEF runAddTLB, Obeys
    <3>2. toMachine'[1] = 84
      <4>1. PICK i, x : m = AddMessage(i, x)
        OBVIOUS
      <4> HIDE DEF m
      <4>2. IsSeq(m) /\ m[1] = 84
        BY <4>1, AddMessageIs, QueueType
      <4>3. toMachine' = m
        BY <2>2, <3>1, <4>2, Told, Nil
      <4> QED
        BY <4>2, <4>3
    <3> HIDE DEF m, found
    <3>3. ~Deleting'
      BY <2>2, <3>2 DEF Deleting
    <3>4. line.addr \in Word /\ line.target \in Word /\ line.addr \in Added
      BY <2>1, <2>7 DEF TypedWell
    <3>5. PICK a, t : a = line.addr /\ t = line.target
      OBVIOUS
    <3>6. ~Unmapped(a) => Base(a) \in Pages /\ VPN2(a) # 0
      <4>1. SUFFICES ASSUME ~Unmapped(a) PROVE Base(a) \in Pages /\ VPN2(a) # 0
        OBVIOUS
      <4>2. Base(a) \in Pages
        BY <3>4, <3>5, <4>1 DEF Pages
      <4>3. VPN2(Base(a)) # 0
        BY <4>2 DEF NoPageZero
      <4> QED
        BY <3>4, <3>5, <4>2, <4>3, BaseIs
    <3>7. PICK f : f = entries
      OBVIOUS
    <3>8. f = addTLBEntry(e, a, t)
      BY <2>3, <3>5, <3>7
    <3> HIDE DEF entries
    <3>9. f \in [Entry -> EntryType] /\ tlbEntry' = f
      BY <3>1, <3>7 DEF Inv, Typed
    <3>10. a \in Word /\ t \in Word
      BY <3>4, <3>5
    <3>11. Table(f)
      BY <2>4, <3>6, <3>8, <3>9, <3>10, TableAdded
    <3>12. command'.name = "ADDTLB" /\ command'.addr = a /\ command'.target = t
      BY <2>7, <3>1, <3>5
    <3> QED
      BY <2>4, <3>3, <3>6, <3>8, <3>9, <3>10, <3>11, <3>12 DEF Mapping
  <2>8. ASSUME Misread(line) \/ Exit PROVE Mapping'
    <3>1. tlbEntry' = tlbEntry /\ (toMachine' = toMachine \/ at' # "prompt")
      BY <2>8 DEF Misread, Exit
    <3> QED
      BY <2>5, <3>1
  <2>9. ASSUME runR(line) \/ runD(line, 68) \/ runD(line, 85) \/ runA(line) \/ runLoadFile(line)
               \/ runG(line) \/ runViewTLB(line)
        PROVE Mapping'
    <3>1. tlbEntry' = tlbEntry /\ (toMachine' = toMachine \/ at' # "prompt")
      BY <2>9 DEF runR, runD, runA, runLoadFile, runG, runViewTLB, wires
    <3> QED
      BY <2>5, <3>1
  <2>10. runDelTLB(line) => line.index \in Entry \/ Misread(line)
    BY DEF runDelTLB
  <2> QED
    BY <2>1, <2>6, <2>7, <2>8, <2>9, <2>10 DEF kernelRun
<1> QED
  BY <1>1, <1>2

\* The other steps end a session, begin one or go on with it.
LEMMA OutsideMapping ==
  ASSUME Mapping, UserAnswers \/ UserStarts \/ UserBreaks \/ OpensPort \/ OpensSimulator \/ Reset
  PROVE  Mapping'
<1>1. CASE UserStarts
  <2>1. at' = "top" /\ tlbEntry' = [i \in Entry |-> NoEntry]
    BY <1>1 DEF UserStarts, Start
  <2>2. ~Deleting' /\ ~Adding'
    BY <2>1, NothingUnderWay
  <2>3. Table([i \in Entry |-> NoEntry])
    <3>1. NoEntry.vpn = 0
      BY DEF NoEntry
    <3> QED
      BY <3>1, NoEntryType DEF Table
  <2> QED
    BY <2>1, <2>2, <2>3 DEF Mapping
<1>2. CASE UserAnswers
  BY <1>2, NothingUnderWay, NoCommand DEF UserAnswers, UserStep, TypeInstruction, TypeLine, TypeInteger
<1>3. CASE UserBreaks \/ OpensPort \/ OpensSimulator
  BY <1>3, NothingUnderWay, NoCommand DEF UserBreaks, Exit, OpensPort, OpensSimulator, Connect
<1>4. CASE Reset
  BY <1>4, NothingUnderWay, NoCommand DEF Reset, consoleVars
<1> QED
  BY <1>1, <1>2, <1>3, <1>4

\* A step that changes nothing keeps it.
LEMMA NothingMapping ==
  ASSUME Mapping, UNCHANGED vars
  PROVE  Mapping'
<1>1. /\ at' = at /\ tlbEntry' = tlbEntry /\ parted' = parted /\ pc' = pc /\ data' = data
      /\ toMachine' = toMachine /\ toHost' = toHost /\ command' = command
  BY DEF vars, consoleVars, monitorVars, wires
<1>2. Deleting' = Deleting /\ Adding' = Adding
  BY <1>1 DEF Deleting, Adding, SameBut, EntryAt
<1>3. \A e : Mirrors(data, e)' <=> Mirrors(data, e)
  BY <1>1 DEF Mirrors
<1> QED
  BY <1>1, <1>2, <1>3 DEF Mapping

\* The frames of the pages, as PageMap sees them.
Frames == [p \in Pages |-> FrameAt(data, p)]

\* A machine whose TLB is empty maps no page.
LEMMA EmptyMapsNothing ==
  ASSUME NEW d, d = [i \in Entry |-> Zero], NEW p \in Pages
  PROVE  FrameAt(d, p) = -1
<1>1. Hits(d, p) = {}
  BY DEF Hits, Zero
<1> QED
  BY <1>1, PagesAre DEF FrameAt, TLB_bad

\* DELTLB done: the two pages of a pair are unmapped, or an entry of which no
\* page is among those named.
LEMMA DeletesPages ==
  ASSUME NoPageZero, NEW e, Table(e), Mirrors(data, e), NEW i \in Entry,
         tlbEntry = [e EXCEPT ![i] = NoEntry], tlbEntry' = tlbEntry, Same',
         command.name = "DELTLB", command' = command
  PROVE  Promise!Next
<1>1. PICK new : new = [e EXCEPT ![i] = NoEntry]
  OBVIOUS
<1>2. PICK d, c : d = data /\ c = data'
  OBVIOUS
<1>3. Mirrors(d, e) /\ Mirrors(c, new)
  BY <1>1, <1>2 DEF Mirrors, Same
<1>4. ASSUME NEW p \in Pages
      PROVE  FrameAt(c, p) = IF VPN2(p) = e[i].vpn THEN -1 ELSE FrameAt(d, p)
  <2>1. p \in Word /\ ~Unmapped(p) /\ VPN2(p) # 0
    BY PagesAre DEF NoPageZero
  <2>2. Table(new)
    BY <1>1, TableDeleted
  <2>3. Emptied(new, e, i)
    BY <1>1 DEF Table, Emptied
  <2> QED
    BY <1>3, <2>1, <2>2, <2>3, PageDeleted
<1>5. Frames = [p \in Pages |-> FrameAt(d, p)] /\ Frames' = [p \in Pages |-> FrameAt(c, p)]
  BY <1>2 DEF Frames
<1>6. CASE \E p \in Pages : VPN2(p) = e[i].vpn
  <2>1. PICK p \in Pages : VPN2(p) = e[i].vpn
    BY <1>6
  <2>2. Frames' = [q \in Pages |-> IF VPN2(q) = VPN2(p) THEN -1 ELSE Frames[q]]
    <3>1. \A q \in Pages : FrameAt(c, q) = IF VPN2(q) = VPN2(p) THEN -1 ELSE Frames[q]
      BY <1>4, <1>5, <2>1
    <3> QED
      BY <1>5, <3>1
  <2>3. Asked.name = "DELTLB" /\ Asked' = Asked
    BY DEF Asked
  <2>4. Promise!Delete
    BY <2>2, <2>3 DEF Promise!Delete, Frames
  <2> QED
    BY <2>4 DEF Promise!Next
<1>7. CASE \A p \in Pages : VPN2(p) # e[i].vpn
  <2>1. \A q \in Pages : FrameAt(c, q) = FrameAt(d, q)
    BY <1>4, <1>7
  <2>2. Frames' = Frames
    BY <1>5, <2>1
  <2>3. Promise!Ask
    BY <2>2 DEF Promise!Ask, Frames
  <2> QED
    BY <2>3 DEF Promise!Next
<1> QED
  BY <1>6, <1>7

\* ADDTLB done: the page asked for is mapped to the frame asked for, or the
\* command was for none.
LEMMA AddsPage ==
  ASSUME NoPageZero, NEW e, Table(e), Mirrors(data, e), Table(tlbEntry),
         tlbEntry = addTLBEntry(e, command.addr, command.target), tlbEntry' = tlbEntry, Same',
         command.name = "ADDTLB", command' = command, command.addr \in Word, command.target \in Word,
         ~Unmapped(command.addr) => Base(command.addr) \in Pages
  PROVE  Promise!Next
<1>1. PICK a, t, new : a = command.addr /\ t = command.target /\ new = tlbEntry
  OBVIOUS
<1>2. PICK d, c : d = data /\ c = data'
  OBVIOUS
<1>3. /\ Mirrors(d, e) /\ Mirrors(c, new) /\ a \in Word /\ t \in Word
      /\ Table(new) /\ new = addTLBEntry(e, a, t)
  BY <1>1, <1>2 DEF Mirrors, Same
<1>4. Frames = [p \in Pages |-> FrameAt(d, p)] /\ Frames' = [p \in Pages |-> FrameAt(c, p)]
  BY <1>2 DEF Frames
<1>5. ASSUME NEW p \in Pages PROVE p \in Word /\ p = Base(p) /\ ~Unmapped(p) /\ VPN2(p) # 0
  BY PagesAre DEF NoPageZero
<1>6. CASE new = e
  <2>1. ASSUME NEW q \in Pages PROVE FrameAt(c, q) = FrameAt(d, q)
    <3>1. Mirrors(c, e)
      BY <1>3, <1>6
    <3> QED
      BY <1>3, <1>5, <3>1, SameFrame
  <2>2. Frames' = Frames
    BY <1>4, <2>1
  <2>3. Promise!Ask
    BY <2>2 DEF Promise!Ask, Frames
  <2> QED
    BY <2>3 DEF Promise!Next
<1>7. CASE new # e
  <2>1. ~Unmapped(a)
    BY <1>3, <1>7, AddedTo
  <2>2. Base(a) \in Pages /\ VPN2(a) # 0
    BY <1>1, <1>3, <1>5, <2>1, BaseIs
  <2>3. ASSUME NEW p \in Pages
        PROVE  FrameAt(c, p) = IF p = Base(a) THEN PFN(t) ELSE FrameAt(d, p)
    BY <1>3, <1>5, <1>7, <2>2, PageAdded
  <2>4. Frames' = [Frames EXCEPT ![Base(a)] = PFN(t)]
    BY <1>4, <2>2, <2>3
  <2>5. Asked.name = "ADDTLB" /\ Asked.page = Base(a) /\ Asked.frame = PFN(t) /\ Asked' = Asked
    BY <1>1 DEF Asked
  <2>6. Promise!Add
    BY <2>4, <2>5 DEF Promise!Add, Frames
  <2> QED
    BY <2>6 DEF Promise!Next
<1> QED
  BY <1>6, <1>7

\* A step of the machine: the only ones that change the TLB end a command.
LEMMA MachineMaps ==
  ASSUME NoPageZero, Inv, Inv', parted # "echo", Mapping, MachineSteps
  PROVE  Promise!Next
<1>1. CASE data' = data
  BY <1>1 DEF Promise!Next, Promise!Ask
<1>2. CASE data' # data
  <2>1. pc \in {"deltlb", "addtlb"} /\ tlbEntry' = tlbEntry
    BY <1>2, MachineFrame
  <2>2. parted = "no"
    BY <2>1 DEF Inv, Apart, Untouched
  <2>3. ~AtRest
    BY RestIsQuiet DEF Inv
  <2>4. at \notin Away
    BY <2>1, <2>2, <2>3 DEF Inv, Outside, Away
  <2>5. Dialogue
    BY <2>2, <2>4 DEF Inv, InDialogue
  <2>6. at = "prompt"
    BY <2>1, <2>5 DEF Dialogue, Idle, Quiet, Deleting, Adding, ShowingRegs, Dumping, Storing, Going,
       Running, Answering, Says, Ends
  <2>7. command' = command
    BY DEF MachineSteps, consoleVars
  <2>8. CASE pc = "deltlb" /\ Deleting /\ Same'
    <3>1. PICK e : /\ Table(e) /\ Mirrors(data, e)
                   /\ \E i \in Entry : tlbEntry = [e EXCEPT ![i] = NoEntry]
      BY <2>2, <2>8 DEF Mapping
    <3>2. PICK i \in Entry : tlbEntry = [e EXCEPT ![i] = NoEntry]
      BY <3>1
    <3>3. command.name = "DELTLB"
      BY <2>2, <2>8 DEF Mapping
    <3> QED
      BY <2>1, <2>7, <2>8, <3>1, <3>2, <3>3, DeletesPages
  <2>9. CASE pc = "addtlb" /\ Adding /\ Same'
    <3>1. /\ command.name = "ADDTLB" /\ command.addr \in Word /\ command.target \in Word
          /\ ~Unmapped(command.addr) => Base(command.addr) \in Pages
          /\ Table(tlbEntry)
      BY <2>2, <2>9 DEF Mapping
    <3>2. PICK e : /\ Table(e) /\ Mirrors(data, e)
                   /\ tlbEntry = addTLBEntry(e, command.addr, command.target)
      BY <2>2, <2>9 DEF Mapping
    <3> QED
      BY <2>1, <2>7, <2>9, <3>1, <3>2, AddsPage
  <2> QED
    BY <1>2, <2>2, <2>6, <2>8, <2>9, MachineAtPrompt
<1> QED
  BY <1>1, <1>2

\* ADDTLB maps the page asked for and no other, DELTLB unmaps the pair of an
\* entry, and nothing else changes what is mapped (runAddTLB, runDelTLB,
\* addTLBEntry, kernel.s's addtlb and deltlb): the terminal and the machine
\* implement the map of pages, until an echo is taken for an answer, if the
\* pair of page 0 is left alone.
THEOREM PagesFollowCommands == NoPageZero => (Spec /\ [](parted # "echo") => PagesAsAsked)
<1> SUFFICES ASSUME NoPageZero PROVE Spec /\ [](parted # "echo") => PagesAsAsked
  OBVIOUS
<1>1. Init => Mapping /\ Promise!Init
  <2> SUFFICES ASSUME Init PROVE Mapping /\ Promise!Init
    OBVIOUS
  <2>1. /\ tlbEntry = [i \in Entry |-> NoEntry] /\ data = [i \in Entry |-> Zero] /\ at = "off"
    BY DEF Init, ConsoleInit, MonitorInit, PageTableInit, TLBInit
  <2>2. NoEntry.vpn = 0
    BY DEF NoEntry
  <2>3. Table(tlbEntry)
    BY <2>1, <2>2, NoEntryType DEF Table
  <2>4. ~Deleting /\ ~Adding
    BY <2>1 DEF Deleting, Adding
  <2>5. [p \in Pages |-> FrameAt(data, p)] = [p \in Pages |-> -1]
    BY <2>1, EmptyMapsNothing
  <2> QED
    BY <2>3, <2>4, <2>5 DEF Mapping, Promise!Init
<1>2. Inv /\ Inv' /\ Mapping /\ [Next]_vars => Mapping'
  <2> SUFFICES ASSUME Inv, Inv', Mapping, [Next]_vars PROVE Mapping'
    OBVIOUS
  <2>1. CASE UNCHANGED vars
    BY <2>1, NothingMapping
  <2>2. CASE Next
    BY <2>2, MachineMapping, LossMapping, TerminalMapping, CommandMapping, OutsideMapping DEF Next
  <2> QED
    BY <2>1, <2>2
<1>3. Inv /\ Inv' /\ parted # "echo" /\ Mapping /\ [Next]_vars
      => [Promise!Next]_<<[p \in Pages |-> FrameAt(data, p)], Asked>>
  <2> SUFFICES ASSUME Inv, Inv', parted # "echo", Mapping, [Next]_vars
               PROVE  Promise!Next
    OBVIOUS
  <2>1. CASE data' = data
    BY <2>1 DEF Promise!Next, Promise!Ask
  <2>2. CASE Cleared
    <3>1. data' = [i \in Entry |-> Zero]
      BY <2>2 DEF Cleared
    <3>2. [p \in Pages |-> FrameAt(data, p)]' = [p \in Pages |-> -1]
      BY <3>1, EmptyMapsNothing
    <3> QED
      BY <3>2 DEF Promise!Next, Promise!Clear
  <2>3. CASE MachineSteps
    BY <2>3, MachineMaps
  <2>4. CASE UNCHANGED vars
    BY <2>1, <2>4 DEF vars, monitorVars
  <2>5. CASE ByteLost \/ TerminalSteps \/ UserCommands \/ UserAnswers \/ UserStarts \/ UserBreaks
             \/ OpensPort
    BY <2>1, <2>5 DEF ByteLost, Overrun, TerminalSteps, UserCommands, UserAnswers, UserStarts,
       UserBreaks, OpensPort, monitorVars
  <2> QED
    BY <2>2, <2>3, <2>4, <2>5 DEF Next, OpensSimulator, Reset
<1> QED
  BY <1>1, <1>2, <1>3, Invariant, PTL DEF Spec, PagesAsAsked, Promise!Spec

-----------------------------------------------------------------------------
(* What is shown: the bytes on the line are those of the registers, of the *)
(* words of memory and of the program's last call.                         *)

\* The call that is read at byte k is the last one in q.
LastCall(f, q, k) ==
  k \in 1 .. Len(q) /\ f[k - 1] = "call" /\ \A j \in k + 1 .. Len(q) : f[j - 1] # "call"

\* Its number is followed by what it prints: the text s or the number w.
Text(q, k, s) == Zeroed(s) /\ k + Len(s) <= Len(q) /\ \A i \in 1 .. Len(s) : q[k + i] = s[i]
Argued(q, k, s, w) ==
  /\ q[k] \in {5, 7} => k + 4 <= Len(q) /\ Carries(q, k + 1, w)
  /\ q[k] = 6 => Text(q, k, s)

\* Read from l on, what follows byte k of q is no call.
NoCallBehind(q, l, k) ==
  \A g : Run(g, q, l) => \A j \in k + 1 .. Len(q) : g[j - 1] # "call"

\* The last call that is read in q, from l on, prints s or w.
Speaks(q, l, s, w) ==
  \A f, k : Run(f, q, l) /\ LastCall(f, q, k) => Argued(q, k, s, w)

\* The reader has one way to read a queue.
LEMMA RunOnce ==
  ASSUME NEW q, IsSeq(q), NEW l, NEW f, NEW g, Run(f, q, l), Run(g, q, l)
  PROVE  \A k \in 0 .. Len(q) : f[k] = g[k]
<1>0. Len(q) \in Nat
  BY SeqIs
<1> DEFINE T == {k \in Nat : k <= Len(q) => f[k] = g[k]}
<1>1. 0 \in T
  BY DEF Run
<1>2. ASSUME NEW n \in Nat, n \in T PROVE n + 1 \in T
  <2>1. SUFFICES ASSUME n + 1 <= Len(q) PROVE f[n + 1] = g[n + 1]
    OBVIOUS
  <2>2. n + 1 \in 1 .. Len(q) /\ n + 1 - 1 = n /\ n <= Len(q)
    BY <1>0, <2>1
  <2>3. f[n + 1] = Step(f[n], q[n + 1]) /\ g[n + 1] = Step(g[n], q[n + 1])
    BY <2>2 DEF Run
  <2> QED
    BY <1>2, <2>2, <2>3
<1> HIDE DEF T
<1>3. Nat \subseteq T
  BY <1>1, <1>2, SetInduction
<1> QED
  BY <1>0, <1>3 DEF T

\* The reader's way through the front of a queue, and through what follows.
LEMMA RunParts ==
  ASSUME NEW q, NEW x, IsSeq(q), IsSeq(x), NEW l, NEW f, Run(f, q \o x, l)
  PROVE  /\ Run(f, q, l)
         /\ Run([k \in 0 .. Len(x) |-> f[Len(q) + k]], x, f[Len(q)])
<1> DEFINE p == q \o x
           n == Len(q)
           m == Len(x)
           g == [k \in 0 .. m |-> f[n + k]]
<1>1. n \in Nat /\ m \in Nat
  BY SeqIs
<1>2. Len(p) = n + m /\ (\A i \in 1 .. n : p[i] = q[i]) /\ \A i \in 1 .. m : p[n + i] = x[i]
  BY Joined
<1>3. f[0] = l /\ \A k \in 1 .. Len(p) : f[k] = Step(f[k - 1], p[k])
  BY DEF Run
<1> HIDE DEF p
<1>4. Run(f, q, l)
  <2>1. ASSUME NEW k \in 1 .. n PROVE f[k] = Step(f[k - 1], q[k])
    <3>1. k \in 1 .. Len(p)
      BY <1>1, <1>2
    <3> QED
      BY <1>2, <1>3, <3>1
  <2> QED
    BY <1>3, <2>1 DEF Run
<1>5. ASSUME NEW h, h = g PROVE Run(h, x, f[n])
  <2>1. PICK a, c : a = n /\ c = m
    OBVIOUS
  <2>2. h = [k \in 0 .. c |-> f[a + k]]
    BY <1>5, <2>1
  <2>3. ASSUME NEW k \in 1 .. c PROVE h[k] = Step(h[k - 1], x[k])
    <3>1. /\ a + k \in 1 .. Len(p) /\ a + (k - 1) = a + k - 1
          /\ k \in 0 .. c /\ k - 1 \in 0 .. c
      BY <1>1, <1>2, <2>1
    <3>2. h[k] = f[a + k] /\ h[k - 1] = f[a + k - 1]
      BY <2>2, <3>1
    <3>3. p[a + k] = x[k]
      BY <1>2, <2>1
    <3>4. f[a + k] = Step(f[a + k - 1], p[a + k])
      <4>1. PICK j \in 1 .. Len(p) : j = a + k
        BY <3>1
      <4>2. f[j] = Step(f[j - 1], p[j])
        BY <1>3
      <4>3. j - 1 = a + k - 1 /\ f[j] = f[a + k] /\ p[j] = p[a + k]
        BY <1>1, <1>2, <2>1, <4>1
      <4> QED
        BY <4>2, <4>3
    <3> QED
      BY <3>2, <3>3, <3>4
  <2>4. h[0] = f[a]
    BY <1>1, <2>1, <2>2
  <2> QED
    BY <2>1, <2>3, <2>4 DEF Run
<1> QED
  BY <1>4, <1>5

\* The way through what is left when n bytes are taken.
LEMMA RunRest ==
  ASSUME NEW q, IsSeq(q), NEW n \in Nat, n <= Len(q), NEW l, NEW f, Run(f, q, l),
         NEW r, NEW m, m = Len(q), Left(r, q, m, n), NEW t, t = f[n], NEW g, Run(g, r, t)
  PROVE  Len(r) = m - n /\ \A k \in 0 .. Len(r) : g[k] = f[n + k]
<1> DEFINE h == [k \in 0 .. Len(r) |-> f[n + k]]
<1>0. Len(q) \in Nat
  BY SeqIs
<1>1. IsSeq(r) /\ Len(r) = Len(q) - n /\ \A i \in 1 .. Len(q) - n : r[i] = q[n + i]
  BY DEF Left, Queue
<1>2. ASSUME NEW k \in 1 .. Len(r) PROVE h[k] = Step(h[k - 1], r[k])
  <2>1. /\ k \in 0 .. Len(r) /\ k - 1 \in 0 .. Len(r) /\ k \in 1 .. Len(q) - n
        /\ n + (k - 1) = n + k - 1 /\ n + k \in 1 .. Len(q)
    BY <1>0, <1>1
  <2>2. h[k] = f[n + k] /\ h[k - 1] = f[n + k - 1] /\ r[k] = q[n + k]
    BY <1>1, <2>1
  <2>3. f[n + k] = Step(f[n + k - 1], q[n + k])
    BY <2>1 DEF Run
  <2> QED
    BY <2>2, <2>3
<1>3. h[0] = f[n] /\ \A k \in 0 .. Len(r) : h[k] = f[n + k]
  BY <1>0, <1>1
<1> HIDE DEF h
<1>4. Run(h, r, f[n])
  BY <1>2, <1>3 DEF Run
<1> QED
  BY <1>1, <1>3, <1>4, RunOnce

\* Nothing leads away from the ends of a program.
LEMMA StaysThere ==
  ASSUME NEW q, IsSeq(q), NEW l \in {"halt", "cause", "stuck"}, NEW f, Run(f, q, l)
  PROVE  \A k \in 0 .. Len(q) : f[k] = l
<1>0. Len(q) \in Nat
  BY SeqIs
<1>1. \A b : Step(l, b) = l
  BY DEF Step, ReadsOn
<1> DEFINE g == [k \in 0 .. Len(q) |-> l]
<1>2. g[0] = l /\ (\A k \in 0 .. Len(q) : g[k] = l) /\ \A k \in 1 .. Len(q) : g[k] = l /\ g[k - 1] = l
  BY <1>0
<1> HIDE DEF g
<1>3. Run(g, q, l)
  BY <1>1, <1>2 DEF Run
<1> QED
  BY <1>2, <1>3, RunOnce

\* What is left of what a program said still has its last call, unless that
\* was taken.
LEMMA SpeaksRest ==
  ASSUME NEW q, IsSeq(q), NEW l, NEW s, NEW w, Speaks(q, l, s, w), NEW f, Run(f, q, l),
         NEW n \in Nat, n <= Len(q), NEW r, Left(r, q, Len(q), n)
  PROVE  Speaks(r, f[n], s, w)
<1>1. SUFFICES ASSUME NEW g, NEW k, Run(g, r, f[n]), LastCall(g, r, k)
               PROVE  Argued(r, k, s, w)
  BY DEF Speaks
<1>2. Len(r) = Len(q) - n /\ \A j \in 0 .. Len(r) : g[j] = f[n + j]
  <2>1. PICK t, m : t = f[n] /\ m = Len(q)
    OBVIOUS
  <2>2. Run(g, r, t) /\ Left(r, q, m, n)
    BY <1>1, <2>1
  <2>3. Len(r) = m - n /\ \A j \in 0 .. Len(r) : g[j] = f[n + j]
    BY <2>1, <2>2, RunRest
  <2> QED
    BY <2>1, <2>3
<1>3. Len(q) \in Nat /\ IsSeq(r) /\ \A i \in 1 .. Len(q) - n : r[i] = q[n + i]
  BY SeqIs DEF Left, Queue
<1>4. k \in 1 .. Len(r) /\ g[k - 1] = "call" /\ \A j \in k + 1 .. Len(r) : g[j - 1] # "call"
  BY <1>1 DEF LastCall
<1>5. PICK m : m = n + k
  OBVIOUS
<1>6. m \in 1 .. Len(q) /\ m \in Nat /\ k \in Nat /\ k >= 1 /\ k <= Len(q) - n /\ m - n = k
  BY <1>2, <1>3, <1>4, <1>5
<1>7. LastCall(f, q, m)
  <2>1. f[m - 1] = "call"
    <3>1. k - 1 \in 0 .. Len(r) /\ n + (k - 1) = m - 1
      BY <1>2, <1>3, <1>4, <1>5
    <3> QED
      BY <1>2, <1>4, <3>1
  <2>2. ASSUME NEW j \in m + 1 .. Len(q) PROVE f[j - 1] # "call"
    <3>1. PICK i : i = j - n
      OBVIOUS
    <3>2. i \in k + 1 .. Len(r) /\ i - 1 \in 0 .. Len(r) /\ n + (i - 1) = j - 1
      BY <1>2, <1>3, <1>5, <1>6, <3>1
    <3> QED
      BY <1>2, <1>4, <3>2
  <2> QED
    BY <1>6, <2>1, <2>2 DEF LastCall
<1>8. Argued(q, m, s, w) /\ r[k] = q[m]
  BY <1>3, <1>5, <1>6, <1>7 DEF Speaks
<1>9. ASSUME r[k] \in {5, 7} PROVE k + 4 <= Len(r) /\ Carries(r, k + 1, w)
  <2>1. m + 4 <= Len(q) /\ Carries(q, m + 1, w)
    BY <1>8, <1>9 DEF Argued
  <2>2. PICK i : i = k + 1
    OBVIOUS
  <2>3. n + i = m + 1 /\ i \in Nat /\ 0 < i /\ n + i + 3 <= Len(q) /\ k + 4 <= Len(r)
    BY <1>2, <1>3, <1>5, <1>6, <2>1, <2>2
  <2>4. Carries(q, n + i, w)
    BY <2>1, <2>3
  <2>5. Carries(r, i, w)
    BY <1>3, <2>3, <2>4, CarriedOn
  <2> QED
    BY <2>2, <2>3, <2>5
<1>10. ASSUME r[k] = 6 PROVE Text(r, k, s)
  <2>1. Zeroed(s) /\ m + Len(s) <= Len(q) /\ \A i \in 1 .. Len(s) : q[m + i] = s[i]
    BY <1>8, <1>10 DEF Argued, Text
  <2>2. Len(s) \in Nat
    BY <2>1, SeqIs DEF Zeroed
  <2>3. k + Len(s) <= Len(r)
    BY <1>2, <1>3, <1>5, <1>6, <2>1, <2>2
  <2>4. ASSUME NEW i \in 1 .. Len(s) PROVE r[k + i] = s[i]
    <3>1. k + i \in 1 .. Len(q) - n /\ n + (k + i) = m + i
      BY <1>2, <1>3, <1>5, <1>6, <2>2, <2>3
    <3> QED
      BY <1>3, <2>1, <3>1
  <2> QED
    BY <2>1, <2>3, <2>4 DEF Text
<1> QED
  BY <1>9, <1>10 DEF Argued

\* What a call is followed by is still there when more is said.
LEMMA ArguedStill ==
  ASSUME NEW q, NEW x, IsSeq(q), IsSeq(x), NEW k \in 1 .. Len(q), NEW s, NEW w, Argued(q, k, s, w)
  PROVE  Argued(q \o x, k, s, w)
<1> DEFINE p == q \o x
<1>1. Queue(q, Len(q)) /\ Queue(x, Len(x)) /\ Len(q) \in Nat /\ Len(x) \in Nat
  BY QueueOf, SeqIs
<1>2. Behind(p, q, Len(q), x, Len(x)) /\ Len(p) = Len(q) + Len(x)
  BY <1>1, QueueJoin, Joined
<1> HIDE DEF p
<1>3. \A i \in 1 .. Len(q) : p[i] = q[i]
  BY <1>2 DEF Behind
<1>4. p[k] = q[k] /\ k \in Nat
  BY <1>1, <1>3
<1>5. ASSUME p[k] \in {5, 7} PROVE k + 4 <= Len(p) /\ Carries(p, k + 1, w)
  <2>1. k + 4 <= Len(q) /\ Carries(q, k + 1, w)
    BY <1>4, <1>5 DEF Argued
  <2>2. PICK i : i = k + 1
    OBVIOUS
  <2>3. i \in Nat /\ 0 < i /\ i + 3 <= Len(q) /\ k + 4 <= Len(p) /\ Carries(q, i, w)
    BY <1>1, <1>2, <1>4, <2>1, <2>2
  <2>4. Carries(p, i, w)
    BY <1>1, <1>2, <2>3, CarriedBehind
  <2> QED
    BY <2>2, <2>3, <2>4
<1>6. ASSUME p[k] = 6 PROVE Text(p, k, s)
  <2>1. Zeroed(s) /\ k + Len(s) <= Len(q) /\ \A i \in 1 .. Len(s) : q[k + i] = s[i]
    BY <1>4, <1>6 DEF Argued, Text
  <2>2. Len(s) \in Nat
    BY <2>1, SeqIs DEF Zeroed
  <2>3. ASSUME NEW i \in 1 .. Len(s) PROVE p[k + i] = s[i]
    <3>1. k + i \in 1 .. Len(q)
      BY <1>1, <1>4, <2>1, <2>2
    <3> QED
      BY <1>3, <2>1, <3>1
  <2> QED
    BY <1>1, <1>2, <1>4, <2>1, <2>2, <2>3 DEF Text
<1>7. Argued(p, k, s, w)
  BY <1>5, <1>6 DEF Argued
<1> QED
  BY <1>7 DEF p

\* Saying more that is no call.
LEMMA SpeaksMore ==
  ASSUME NEW q, NEW x, IsSeq(q), IsSeq(x), NEW l, NEW s, NEW w, Speaks(q, l, s, w),
         NEW t, Reads(q, l, t),
         NoCallBehind(x, t, 0)
  PROVE  Speaks(q \o x, l, s, w)
<1> DEFINE p == q \o x
<1>1. SUFFICES ASSUME NEW f, NEW k, Run(f, p, l), LastCall(f, p, k)
               PROVE  Argued(p, k, s, w)
  BY DEF Speaks
<1>2. Len(q) \in Nat /\ Len(x) \in Nat /\ Len(p) = Len(q) + Len(x)
  BY SeqIs, Joined
<1>3. PICK n, g : n = Len(q) /\ g = [j \in 0 .. Len(x) |-> f[n + j]]
  OBVIOUS
<1>4. Run(f, q, l) /\ Run(g, x, f[n])
  BY <1>1, <1>3, RunParts
<1>5. f[n] = t
  <2>1. PICK h : Run(h, q, l) /\ h[Len(q)] = t
    BY DEF Reads
  <2> QED
    BY <1>2, <1>3, <1>4, <2>1, RunOnce
<1> HIDE DEF p
<1>6. k \in 1 .. Len(p) /\ f[k - 1] = "call" /\ \A j \in k + 1 .. Len(p) : f[j - 1] # "call"
  BY <1>1 DEF LastCall
<1>7. k <= n
  <2>1. SUFFICES ASSUME ~(k <= n) PROVE FALSE
    OBVIOUS
  <2>2. PICK j : j = k - n
    OBVIOUS
  <2>3. j \in 0 + 1 .. Len(x) /\ j - 1 \in 0 .. Len(x) /\ n + (j - 1) = k - 1
    BY <1>2, <1>3, <1>6, <2>1, <2>2
  <2>4. g[j - 1] = f[k - 1]
    BY <1>3, <2>3
  <2>5. g[j - 1] # "call"
    BY <1>4, <1>5, <2>3 DEF NoCallBehind
  <2> QED
    BY <1>6, <2>4, <2>5
<1>8. LastCall(f, q, k) /\ k \in 1 .. Len(q)
  BY <1>2, <1>3, <1>6, <1>7 DEF LastCall
<1>9. Argued(q, k, s, w)
  BY <1>4, <1>8 DEF Speaks
<1> QED
  BY <1>8, <1>9, ArguedStill DEF p

\* Saying the next call.
LEMMA SpeaksCall ==
  ASSUME NEW q, NEW x, IsSeq(q), IsSeq(x), NEW l, NEW s, NEW w, Reads(q, l, "listen"),
         Len(x) >= 2, x[1] = 2, Argued(x, 2, s, w),
         NoCallBehind(x, "listen", 2)
  PROVE  Speaks(q \o x, l, s, w)
<1> DEFINE p == q \o x
<1>1. SUFFICES ASSUME NEW f, NEW k, Run(f, p, l), LastCall(f, p, k)
               PROVE  Argued(p, k, s, w)
  BY DEF Speaks
<1>2. Len(q) \in Nat /\ Len(x) \in Nat /\ Len(p) = Len(q) + Len(x)
      /\ \A i \in 1 .. Len(x) : p[Len(q) + i] = x[i]
  BY SeqIs, Joined
<1>3. PICK n, g : n = Len(q) /\ g = [j \in 0 .. Len(x) |-> f[n + j]]
  OBVIOUS
<1>4. Run(f, q, l) /\ Run(g, x, f[n])
  BY <1>1, <1>3, RunParts
<1>5. f[n] = "listen"
  <2>1. PICK h : Run(h, q, l) /\ h[Len(q)] = "listen"
    BY DEF Reads
  <2> QED
    BY <1>2, <1>3, <1>4, <2>1, RunOnce
<1>0. Behind(p, q, n, x, Len(x))
  <2>1. Queue(q, n) /\ Queue(x, Len(x))
    BY <1>3, QueueOf
  <2> QED
    BY <2>1, QueueJoin
<1> HIDE DEF p
<1>6. k \in 1 .. Len(p) /\ f[k - 1] = "call" /\ \A j \in k + 1 .. Len(p) : f[j - 1] # "call"
  BY <1>1 DEF LastCall
<1>7. g[1] = "call"
  <2>1. g[1] = Step("listen", 2)
    <3>1. 1 \in 1 .. Len(x) /\ 1 - 1 = 0
      BY <1>2
    <3> QED
      BY <1>4, <1>5, <3>1 DEF Run
  <2> QED
    BY <2>1, FromListen
<1>8. k = n + 2
  <2>1. \A j \in 0 .. Len(x) : g[j] = f[n + j]
    BY <1>3
  <2>2. ~(k < n + 2)
    <3>1. SUFFICES ASSUME k < n + 2 PROVE FALSE
      OBVIOUS
    <3>2. n + 2 \in k + 1 .. Len(p) /\ n + 2 - 1 = n + 1 /\ 1 \in 0 .. Len(x)
      BY <1>2, <1>3, <1>6, <3>1
    <3>5. PICK j \in k + 1 .. Len(p) : j = n + 2
      BY <3>2
    <3>6. f[j - 1] # "call"
      BY <1>6
    <3>7. j - 1 = n + 1
      BY <1>2, <1>3, <3>5
    <3>3. f[n + 1] # "call"
      BY <3>6, <3>7
    <3>4. g[1] = f[n + 1]
      BY <2>1, <3>2
    <3> QED
      BY <1>7, <3>3, <3>4
  <2>3. ~(k > n + 2)
    <3>1. SUFFICES ASSUME k > n + 2 PROVE FALSE
      OBVIOUS
    <3>2. PICK j : j = k - n
      OBVIOUS
    <3>3. j \in 2 + 1 .. Len(x) /\ j - 1 \in 0 .. Len(x) /\ n + (j - 1) = k - 1
      BY <1>2, <1>3, <1>6, <3>1, <3>2
    <3>4. g[j - 1] # "call"
      BY <1>4, <1>5, <3>3 DEF NoCallBehind
    <3> QED
      BY <1>6, <2>1, <3>3, <3>4
  <2> QED
    BY <1>2, <1>3, <1>6, <2>2, <2>3
<1>9. p[k] = x[2]
  BY <1>2, <1>3, <1>8
<1>10. ASSUME p[k] \in {5, 7} PROVE k + 4 <= Len(p) /\ Carries(p, k + 1, w)
  <2>1. 2 + 4 <= Len(x) /\ Carries(x, 2 + 1, w)
    BY <1>9, <1>10 DEF Argued
  <2>2. 3 + 3 <= Len(x) /\ Carries(x, 3, w) /\ 3 \in Nat /\ 0 < 3
    BY <1>2, <2>1
  <2>5. PICK m : m = Len(x)
    OBVIOUS
  <2>6. m \in Nat /\ n \in Nat /\ Behind(p, q, n, x, m) /\ 3 + 3 <= m
    BY <1>0, <1>2, <1>3, <2>2, <2>5
  <2>3. Carries(p, n + 3, w)
    BY <2>2, <2>6, CarriedBehind
  <2>4. n + 3 = k + 1 /\ k + 4 <= Len(p)
    BY <1>2, <1>3, <1>8, <2>1
  <2> QED
    BY <2>3, <2>4
<1>11. ASSUME p[k] = 6 PROVE Text(p, k, s)
  <2>1. Zeroed(s) /\ 2 + Len(s) <= Len(x) /\ \A i \in 1 .. Len(s) : x[2 + i] = s[i]
    BY <1>9, <1>11 DEF Argued, Text
  <2>2. Len(s) \in Nat
    BY <2>1, SeqIs DEF Zeroed
  <2>3. ASSUME NEW i \in 1 .. Len(s) PROVE p[k + i] = s[i]
    <3>1. 2 + i \in 1 .. Len(x) /\ Len(q) + (2 + i) = k + i
      BY <1>2, <1>3, <1>8, <2>1, <2>2
    <3> QED
      BY <1>2, <2>1, <3>1
  <2> QED
    BY <1>2, <1>3, <1>8, <2>1, <2>2, <2>3 DEF Text
<1> QED
  BY <1>10, <1>11 DEF Argued

\* A word that was sent is displayed as it is.
LEMMA WordShown ==
  ASSUME NEW q, NEW n, Queue(q, n), NEW k \in Nat, 0 < k, k + 3 <= n, NEW w, Carries(q, k, w)
  PROVE  SubSeq(q, k, k + 3) = BytesOf(w)
<1>1. n \in Nat
  BY QueueType
<1> DEFINE r == SubSeq(q, k, k + 4 - 1)
<1>2. Queue(r, 4) /\ \A i \in 1 .. 4 : r[i] = q[k + i - 1]
  <2>1. k + 4 <= n + 1
    BY <1>1
  <2> QED
    BY <2>1, QueuePart
<1>3. SubSeq(q, k, k + 3) = r
  <2>1. k + 4 - 1 = k + 3
    OBVIOUS
  <2> QED
    BY <2>1
<1> HIDE DEF r
<1> DEFINE b == BytesOf(w)
<1>4. Queue(b, 4)
  BY QueueWord
<1>5. q[k] = b[1] /\ q[k + 1] = b[2] /\ q[k + 2] = b[3] /\ q[k + 3] = b[4]
  BY DEF Carries
<1> HIDE DEF b
<1>6. r[1] = q[k] /\ r[2] = q[k + 1] /\ r[3] = q[k + 2] /\ r[4] = q[k + 3]
  BY <1>2
<1>7. \A i \in 1 .. 4 : r[i] = b[i]
  <2>1. \A i \in 1 .. 4 : i = 1 \/ i = 2 \/ i = 3 \/ i = 4
    OBVIOUS
  <2> QED
    BY <1>5, <1>6, <2>1
<1>8. r = b
  BY <1>2, <1>4, <1>7, QueuesEqual
<1> QED
  BY <1>3, <1>8 DEF b

\* Words sent one behind the other.
LEMMA AllCarried ==
  ASSUME NEW words, NEW n, Queue(words, n), NEW i \in 1 .. n
  PROVE  Carries(BytesOfAll(words), 4 * i - 3, words[i])
<1>1. n \in Nat /\ Len(words) = n
  BY DEF Queue
<1> DEFINE b == BytesOfAll(words)
<1>2. b = [k \in 1 .. 4 * n |-> BytesOf(words[((k - 1) \div 4) + 1])[((k - 1) % 4) + 1]]
  BY <1>1 DEF BytesOfAll
<1> HIDE DEF b
<1>3. ASSUME NEW j \in 0 .. 3, NEW k, k = 4 * i - 3 + j PROVE b[k] = BytesOf(words[i])[j + 1]
  <2>1. k \in 1 .. 4 * n /\ (k - 1) \div 4 = i - 1 /\ (k - 1) % 4 = j
    BY <1>1, <1>3
  <2>2. b[k] = BytesOf(words[((k - 1) \div 4) + 1])[((k - 1) % 4) + 1]
    BY <1>2, <2>1
  <2>3. ((k - 1) \div 4) + 1 = i /\ ((k - 1) % 4) + 1 = j + 1
    BY <2>1
  <2> QED
    BY <2>2, <2>3
<1> DEFINE c == BytesOf(words[i])
<1>4. \A j \in 0 .. 3 : b[4 * i - 3 + j] = c[j + 1]
  BY <1>3
<1>5. \A m : Carries(b, m, words[i]) <=>
        b[m] = c[1] /\ b[m + 1] = c[2] /\ b[m + 2] = c[3] /\ b[m + 3] = c[4]
  BY DEF Carries
<1> HIDE DEF c
<1>6. PICK m : m = 4 * i - 3
  OBVIOUS
<1>7. b[m] = c[1] /\ b[m + 1] = c[2] /\ b[m + 2] = c[3] /\ b[m + 3] = c[4]
  <2>1. b[m + 0] = c[0 + 1] /\ b[m + 1] = c[1 + 1] /\ b[m + 2] = c[2 + 1] /\ b[m + 3] = c[3 + 1]
    BY <1>4, <1>6
  <2>2. m + 0 = m
    BY <1>6
  <2> QED
    BY <2>1, <2>2
<1> QED
  BY <1>5, <1>6, <1>7 DEF b

\* Inside a number there is no call.
LEMMA NumberPath ==
  ASSUME NEW q, NEW n, Queue(q, n), n >= 4, NEW l \in {"n4", "a4"}, NEW f, Run(f, q, l)
  PROVE  \A j \in 0 .. 3 : f[j] # "call"
<1>1. n \in Nat /\ Len(q) = n
  BY DEF Queue
<1>2. f[0] = l /\ f[1] = Step(f[0], q[1]) /\ f[2] = Step(f[1], q[2]) /\ f[3] = Step(f[2], q[3])
  <2>1. 1 \in 1 .. Len(q) /\ 2 \in 1 .. Len(q) /\ 3 \in 1 .. Len(q) /\ 1 - 1 = 0 /\ 2 - 1 = 1 /\ 3 - 1 = 2
    BY <1>1
  <2>2. f[0] = l /\ \A k \in 1 .. Len(q) : f[k] = Step(f[k - 1], q[k])
    BY DEF Run
  <2> QED
    BY <2>1, <2>2
<1>3. \A b : /\ Step("n4", b) = "n3" /\ Step("n3", b) = "n2" /\ Step("n2", b) = "n1"
             /\ Step("a4", b) \in {"a3", "stuck"} /\ Step("a3", b) \in {"a2", "stuck"}
             /\ Step("a2", b) \in {"a1", "stuck"} /\ Step("stuck", b) = "stuck"
  BY DEF Step, ReadsOn
<1>4. f[0] \in {"n4", "a4"} /\ f[1] \in {"n3", "a3", "stuck"}
  BY <1>2, <1>3
<1>5. f[2] \in {"n2", "a2", "stuck"}
  BY <1>2, <1>3, <1>4
<1>6. f[3] \in {"n1", "a1", "stuck"}
  BY <1>2, <1>3, <1>5
<1>7. \A j \in 0 .. 3 : j = 0 \/ j = 1 \/ j = 2 \/ j = 3
  OBVIOUS
<1>8. f[0] # "call" /\ f[1] # "call" /\ f[2] # "call" /\ f[3] # "call"
  BY <1>4, <1>5, <1>6
<1> QED
  BY <1>7, <1>8

\* From byte a of a string to byte n of q no zero ends it.
GoesOn(q, f, a, n) ==
  f[a] = "string" /\ \A j \in a + 1 .. n : q[j] # 0 /\ f[j] = Step(f[j - 1], q[j])

\* Nor inside a string.
LEMMA StringPath ==
  ASSUME NEW q, NEW f, NEW a \in Nat, NEW n \in Nat, GoesOn(q, f, a, n)
  PROVE  \A j \in a .. n : f[j] = "string"
<1> DEFINE T == {k \in Nat : a + k <= n => f[a + k] = "string"}
<1>0. f[a] = "string" /\ \A j \in a + 1 .. n : q[j] # 0 /\ f[j] = Step(f[j - 1], q[j])
  BY DEF GoesOn
<1>1. 0 \in T
  BY <1>0
<1>2. ASSUME NEW k \in Nat, k \in T PROVE k + 1 \in T
  <2>1. SUFFICES ASSUME a + (k + 1) <= n PROVE f[a + (k + 1)] = "string"
    OBVIOUS
  <2>2. PICK j : j = a + (k + 1)
    OBVIOUS
  <2>3. j \in a + 1 .. n /\ j - 1 = a + k /\ a + k <= n
    BY <2>1, <2>2
  <2>4. f[j - 1] = "string" /\ q[j] # 0 /\ f[j] = Step(f[j - 1], q[j])
    BY <1>0, <1>2, <2>3
  <2> QED
    BY <2>2, <2>4, ReadsOnAre
<1> HIDE DEF T
<1>3. Nat \subseteq T
  BY <1>1, <1>2, SetInduction
<1>4. ASSUME NEW j \in a .. n PROVE f[j] = "string"
  <2>1. PICK k : k = j - a
    OBVIOUS
  <2>2. k \in Nat /\ a + k = j /\ j <= n
    BY <2>1
  <2>3. k \in T
    BY <1>3, <2>2
  <2> QED
    BY <2>2, <2>3 DEF T
<1> QED
  BY <1>4

\* What is sent behind the number of a call, and the reader's way through it.
Sent(n, r, s, w) ==
  /\ \/ n \in {1, 5, 7} /\ Queue(r, 4)
     \/ n = 6 /\ Zeroed(r)
     \/ n \notin {1, 5, 6, 7} /\ Queue(r, 0)
  /\ n \in {5, 7} => Carries(r, 1, w)
  /\ n = 6 => r = s
Numbered(m, n, r) ==
  \E p : Queue(p, 2) /\ p[1] = 2 /\ p[2] = n /\ m = p \o r

\* What the program's message for a call holds, and that it is one call.
LEMMA CallPath ==
  ASSUME NEW n, NEW r, NEW s, NEW w, Sent(n, r, s, w), NEW m, Numbered(m, n, r)
  PROVE  Len(m) >= 2 /\ m[1] = 2 /\ Argued(m, 2, s, w) /\ NoCallBehind(m, "listen", 2)
<1>6. \/ n \in {1, 5, 7} /\ Queue(r, 4)
      \/ n = 6 /\ Zeroed(r)
      \/ n \notin {1, 5, 6, 7} /\ Queue(r, 0)
  BY DEF Sent
<1>7. IsSeq(r) /\ Len(r) \in Nat
  <2>1. IsSeq(r)
    BY <1>6, QueueType DEF Zeroed
  <2> QED
    BY <2>1, SeqIs
<1>0. PICK p : Queue(p, 2) /\ p[1] = 2 /\ p[2] = n /\ m = p \o r
  BY DEF Numbered
<1>8. IsSeq(p) /\ Len(p) = 2
  BY <1>0 DEF Queue
<1>9. /\ Len(m) = 2 + Len(r) /\ m[1] = 2 /\ m[2] = n
      /\ \A i \in 1 .. Len(r) : m[2 + i] = r[i]
  <2>3. /\ Len(p \o r) = Len(p) + Len(r) /\ (\A i \in 1 .. Len(p) : (p \o r)[i] = p[i])
        /\ \A i \in 1 .. Len(r) : (p \o r)[Len(p) + i] = r[i]
    <3>1. IsSeq(p) /\ IsSeq(r)
      BY <1>7, <1>8
    <3> QED
      BY <3>1, Joined
  <2>1. /\ Len(m) = Len(p) + Len(r) /\ (\A i \in 1 .. Len(p) : m[i] = p[i])
        /\ \A i \in 1 .. Len(r) : m[Len(p) + i] = r[i]
    BY <1>0, <2>3
  <2>2. 1 \in 1 .. Len(p) /\ 2 \in 1 .. Len(p)
    BY <1>8
  <2> QED
    BY <1>0, <1>8, <2>1, <2>2
<1>10. ASSUME n \in {5, 7} PROVE 2 + 4 <= Len(m) /\ Carries(m, 2 + 1, w)
  <2>1. Len(r) = 4
    BY <1>6, <1>10 DEF Queue
  <2>2. m[3] = r[1] /\ m[4] = r[2] /\ m[5] = r[3] /\ m[6] = r[4]
    <3>1. 1 \in 1 .. Len(r) /\ 2 \in 1 .. Len(r) /\ 3 \in 1 .. Len(r) /\ 4 \in 1 .. Len(r)
      BY <2>1
    <3>2. m[2 + 1] = r[1] /\ m[2 + 2] = r[2] /\ m[2 + 3] = r[3] /\ m[2 + 4] = r[4]
      BY <1>9, <3>1
    <3>3. 2 + 1 = 3 /\ 2 + 2 = 4 /\ 2 + 3 = 5 /\ 2 + 4 = 6
      OBVIOUS
    <3> QED
      BY <3>2, <3>3
  <2> QED
    BY <1>9, <1>10, <2>1, <2>2 DEF Carries, Sent
<1>11. ASSUME n = 6 PROVE Text(m, 2, s)
  <2>1. r = s /\ Zeroed(r)
    BY <1>6, <1>11 DEF Sent
  <2> QED
    BY <1>7, <1>9, <2>1 DEF Text
<1>12. Argued(m, 2, s, w)
  BY <1>9, <1>10, <1>11 DEF Argued
<1>13. ASSUME NEW g, Run(g, m, "listen"), NEW j \in 3 .. Len(m) PROVE g[j - 1] # "call"
  <2>1. PICK h : h = [k \in 0 .. Len(r) |-> g[Len(p) + k]]
    OBVIOUS
  <2>0. Run(g, p \o r, "listen")
    BY <1>0, <1>13
  <2>2. Run(g, p, "listen") /\ Run(h, r, g[2])
    BY <1>7, <1>8, <2>0, <2>1, RunParts
  <2>3. g[2] = Step("call", n)
    <3>1. g[0] = "listen" /\ g[1] = Step(g[0], p[1]) /\ g[2] = Step(g[1], p[2])
      <4>1. 1 \in 1 .. Len(p) /\ 2 \in 1 .. Len(p) /\ 1 - 1 = 0 /\ 2 - 1 = 1
        BY <1>8
      <4> QED
        BY <2>2, <4>1 DEF Run
    <3> QED
      BY <1>0, <3>1, FromListen
  <2>4. PICK i : i = j - 3
    OBVIOUS
  <2>5. i \in 0 .. Len(r) - 1 /\ i \in 0 .. Len(r) /\ 2 + i = j - 1
    BY <1>7, <1>9, <1>13, <2>4
  <2>6. g[j - 1] = h[i]
    BY <1>8, <2>1, <2>5
  <2>7. CASE n \in {1, 5, 7} /\ Queue(r, 4)
    <3>1. g[2] \in {"n4", "a4"} /\ Len(r) = 4
      BY <2>3, <2>7, FromCall DEF Queue
    <3>2. PICK l : l = g[2]
      OBVIOUS
    <3>3. l \in {"n4", "a4"} /\ Run(h, r, l) /\ 4 >= 4
      BY <2>2, <3>1, <3>2
    <3>4. \A k \in 0 .. 3 : h[k] # "call"
      BY <2>7, <3>3, NumberPath
    <3>5. i \in 0 .. 3
      BY <2>5, <3>1
    <3> QED
      BY <2>6, <3>4, <3>5
  <2>8. CASE n = 6 /\ Zeroed(r)
    <3>1. h[0] = "string" /\ \A k \in 1 .. Len(r) : h[k] = Step(h[k - 1], r[k])
      BY <2>2, <2>3, <2>8, FromCall DEF Run
    <3>2. PICK e : e = Len(r) - 1
      OBVIOUS
    <3>3. e \in Nat /\ i \in 0 .. e
      BY <1>7, <2>5, <3>2
    <3>4. ASSUME NEW k \in 0 + 1 .. e PROVE r[k] # 0 /\ h[k] = Step(h[k - 1], r[k])
      <4>1. k \in 1 .. Len(r) /\ k \in 1 .. Len(r) - 1
        BY <1>7, <3>2
      <4> QED
        BY <2>8, <3>1, <4>1 DEF Zeroed
    <3>5. \A k \in 0 .. e : h[k] = "string"
      <4>1. PICK a : a = 0
        OBVIOUS
      <4>2. a \in Nat /\ h[a] = "string"
        BY <3>1, <4>1
      <4>3. GoesOn(r, h, a, e)
        BY <3>4, <4>1, <4>2 DEF GoesOn
      <4>4. \A k \in a .. e : h[k] = "string"
        BY <3>3, <4>2, <4>3, StringPath
      <4> QED
        BY <4>1, <4>4
    <3> QED
      BY <2>6, <3>3, <3>5
  <2>9. CASE Queue(r, 0)
    <3>1. Len(r) = 0
      BY <2>9 DEF Queue
    <3> QED
      BY <2>5, <3>1
  <2> QED
    BY <1>6, <2>7, <2>8, <2>9
<1>14. Len(m) >= 2
  BY <1>7, <1>9
<1> QED
  BY <1>9, <1>12, <1>13, <1>14 DEF NoCallBehind

\* A call is a letter, a number and what it prints.
LEMMA NumberedIs ==
  ASSUME NEW n, NEW r
  PROVE  Numbered(<<2, n>> \o r, n, r)
<1>1. PICK p : p = <<2, n>>
  OBVIOUS
<1>2. Queue(p, 2) /\ p[1] = 2 /\ p[2] = n
  BY <1>1, QueueTwo
<1>3. Numbered(p \o r, n, r)
  BY <1>2, Zenon DEF Numbered
<1> QED
  BY <1>1, <1>3

\* What a call of the program is followed by.
LEMMA CallArgued ==
  ASSUME NEW call \in ProgramCalls, NEW m, Numbered(m, call.v0, CallSends(call)),
         NEW s, s = StringAt([hi |-> 32768, lo |-> call.a0]), NEW w, w = WordOf(call.a0)
  PROVE  Len(m) >= 2 /\ m[1] = 2 /\ Argued(m, 2, s, w) /\ NoCallBehind(m, "listen", 2)
<1>1. PICK n, r, a : n = call.v0 /\ r = CallSends(call) /\ a = call.a0
  OBVIOUS
<1>2. /\ n \in Nat \ {0} /\ n < 256 /\ a \in Nat
      /\ n = 6 => a < 65536
  BY <1>1, SessionAssumption
<1>4. ASSUME n = 6 PROVE Zeroed(s)
  <2>1. s = StringAt([hi |-> 32768, lo |-> a]) /\ a < 65536
    BY <1>1, <1>2, <1>4
  <2> QED
    BY <1>2, <2>1, StringEnds
<1>5. /\ n \in {1, 5, 7} => r = BytesOf(w)
      /\ n = 6 => r = s
      /\ n \notin {1, 5, 6, 7} => r = <<>>
  BY <1>1 DEF CallSends
<1>6. Queue(BytesOf(w), 4) /\ Carries(BytesOf(w), 1, w) /\ Queue(<<>>, 0)
  BY QueueWord, OwnBytes, NilQueue
<1>7. Sent(n, r, s, w)
  <2>1. \/ n \in {1, 5, 7} /\ Queue(r, 4)
        \/ n = 6 /\ Zeroed(r)
        \/ n \notin {1, 5, 6, 7} /\ Queue(r, 0)
    <3>1. CASE n \in {1, 5, 7}
      BY <1>5, <1>6, <3>1
    <3>2. CASE n = 6
      BY <1>4, <1>5, <3>2
    <3>3. CASE n \notin {1, 5, 6, 7}
      BY <1>5, <1>6, <3>3
    <3> QED
      BY <3>1, <3>2, <3>3
  <2>2. n \in {5, 7} => Carries(r, 1, w)
    BY <1>5, <1>6
  <2> QED
    BY <1>5, <2>1, <2>2 DEF Sent
<1>8. Numbered(m, n, r)
  BY <1>1
<1> QED
  BY <1>7, <1>8, CallPath

\* What is displayed is on the line before: the registers in their order, the
\* words at the addresses asked for, and what the program's last call prints.
RegsComing ==
  at = "regs" =>
    \A n \in Nat : Queue(toHost, 4 * n) =>
      \A j \in 1 .. n : Carries(toHost, 4 * j - 3, regs[RegisterOrder[count + j]])
WordsComing ==
  at = "dump" /\ parted = "no" =>
    \A n \in Nat : Queue(toHost, 4 * n) =>
      \A j \in 1 .. n : Carries(toHost, 4 * j - 3, Load(Plus(addr, 4 * (j - 1))))
Printed == StringAt([hi |-> 32768, lo |-> a0])
PrintComing == at \in {"listen", "call"} => Speaks(toHost, at, Printed, WordOf(a0))
Shows == RegsComing /\ WordsComing /\ PrintComing

\* The string at an address while memory and TLB stay as they are.
LEMMA StringStays ==
  ASSUME mem' = mem, data' = data
  PROVE  /\ \A w : Load(w)' = Load(w)
         /\ \A w : StringAt(w)' = StringAt(w)
<1>1. \A w : Load(w)' = Load(w)
  BY DEF Load
<1>2. ASSUME NEW w PROVE StringAt(w)' = StringAt(w)
  <2> DEFINE W == [i \in 1 .. Cardinality(Addresses) + 1 |-> Load(Plus(w, 4 * (i - 1)))]
  <2>1. W' = W
    BY <1>1
  <2> HIDE DEF W
  <2>2. StringAt(w) = LET bytes == BytesOfAll(W)
                          zero == CHOOSE k \in DOMAIN bytes :
                                    bytes[k] = 0 /\ \A j \in 1 .. k - 1 : bytes[j] # 0
                      IN SubSeq(bytes, 1, zero)
    BY DEF StringAt, W
  <2>3. StringAt(w)' = LET bytes == BytesOfAll(W')
                           zero == CHOOSE k \in DOMAIN bytes :
                                     bytes[k] = 0 /\ \A j \in 1 .. k - 1 : bytes[j] # 0
                       IN SubSeq(bytes, 1, zero)
    BY DEF StringAt, W
  <2> QED
    BY <2>1, <2>2, <2>3
<1> QED
  BY <1>1, <1>2

\* With nothing on the line nothing is to be displayed.
LEMMA NothingShown ==
  ASSUME toHost' = <<>> \/ at' \notin {"regs", "dump", "listen", "call"}
  PROVE  Shows'
<1>1. ASSUME NEW n \in Nat, Queue(<<>>, 4 * n) PROVE n = 0
  <2>1. 4 * n = 0
    BY <1>1, NilQueue, OneLength
  <2> QED
    BY <2>1
<1>2. \A l, s, w : Speaks(<<>>, l, s, w)
  BY Nil DEF Speaks, LastCall
<1>3. CASE toHost' = <<>>
  BY <1>1, <1>2, <1>3 DEF Shows, RegsComing, WordsComing, PrintComing
<1>4. CASE at' \notin {"regs", "dump", "listen", "call"}
  BY <1>4 DEF Shows, RegsComing, WordsComing, PrintComing
<1> QED
  BY <1>3, <1>4

\* Nothing of it changes.
LEMMA StillShown ==
  ASSUME Shows, at' = at, parted' = parted, toHost' = toHost, regs' = regs, count' = count,
         addr' = addr, mem' = mem, data' = data, a0' = a0
  PROVE  Shows'
<1>1. \A w : Load(w)' = Load(w) /\ StringAt(w)' = StringAt(w)
  BY StringStays
<1>2. Printed' = Printed
  BY <1>1 DEF Printed
<1>3. RegsComing'
  BY DEF Shows, RegsComing
<1>4. WordsComing'
  BY <1>1 DEF Shows, WordsComing
<1>5. PrintComing'
  BY <1>2 DEF Shows, PrintComing
<1> QED
  BY <1>3, <1>4, <1>5 DEF Shows

\* R: the monitor sends the registers.
LEMMA RegsShow ==
  ASSUME Inv, Shows, MachineSteps, at = "regs"
  PROVE  Shows'
<1>1. ShowingRegs /\ port = "open" /\ at' = "regs" /\ count' = count
  BY WhereWeAre, MachineFrame DEF Away
<1>2. CASE pc = "begin" /\ Queue(toMachine, 1) /\ toMachine[1] = 82 /\ toHost = <<>>
  <2>1. Queue(toMachine, 0 + 1)
    BY <1>2
  <2>2. toHost' = <<>>
    BY <1>2, <2>1, LetterTaken
  <2> QED
    BY <2>2, NothingShown
<1>3. CASE pc = "begin" /\ toMachine = <<>>
  BY <1>3, NothingTaken, Waits
<1>4. CASE pc = "showregs" /\ toHost = <<>> /\ count = 0
  <2>1. PICK words : words = [i \in 1 .. 21 |-> regs[RegisterOrder[i]]]
    OBVIOUS
  <2>2. ToHost(BytesOfAll(words)) /\ regs' = regs
    BY <1>4, <2>1, ByPlace DEF ShowRegs
  <2>3. Queue(words, 21) /\ \A i \in 1 .. 21 : words[i] = regs[RegisterOrder[i]]
    BY <2>1, QueueFunction
  <2>4. PICK b : b = BytesOfAll(words)
    OBVIOUS
  <2>5. Queue(b, 4 * 21) /\ \A i \in 1 .. 21 : Carries(b, 4 * i - 3, words[i])
    BY <2>3, <2>4, AllBytes, AllCarried
  <2>6. toHost' = b
    <3>1. toHost' = <<>> \o b
      BY <1>1, <1>4, <2>2, <2>4 DEF ToHost
    <3> QED
      BY <2>5, <3>1, JoinedToNothing, QueueType
  <2>7. ASSUME NEW n \in Nat, Queue(b, 4 * n), NEW j \in 1 .. n
        PROVE  Carries(b, 4 * j - 3, regs[RegisterOrder[j]])
    <3>1. 4 * n = 4 * 21
      BY <2>5, <2>7, OneLength
    <3>2. j \in 1 .. 21
      BY <3>1
    <3> QED
      BY <2>3, <2>5, <3>2
  <2>8. \A j \in Nat : count' + j = j
    BY <1>1, <1>4
  <2>9. RegsComing'
    BY <2>2, <2>6, <2>7, <2>8 DEF RegsComing
  <2> QED
    BY <1>1, <2>9 DEF Shows, WordsComing, PrintComing
<1> QED
  BY <1>1, <1>2, <1>3, <1>4 DEF ShowingRegs

\* D and U: it sends the words, one by one.
LEMMA WordsShow ==
  ASSUME Inv, Shows, MachineSteps, at = "dump"
  PROVE  Shows'
<1>1. /\ port = "open" /\ at' = "dump" /\ count' = count /\ addr' = addr /\ parted' = parted
      /\ parted = "no" => Dumping
  BY WhereWeAre, MachineFrame DEF Away
<1>2. CASE parted # "no"
  BY <1>1, <1>2 DEF Shows, RegsComing, WordsComing, PrintComing
<1>3. CASE parted = "no"
  <2>1. Dumping /\ addr \in Word /\ count \in Nat \ {0} /\ Same /\ Mapped
    BY <1>1, <1>3 DEF Dumping, Counted
  <2>2. CASE pc = "begin" /\ Queue(toMachine, 9) /\ toHost = <<>>
    <3>1. Queue(toMachine, 8 + 1)
      BY <2>2
    <3>2. toHost' = <<>>
      BY <2>2, <3>1, LetterTaken
    <3> QED
      BY <3>2, NothingShown
  <2>3. CASE pc = "showmem" /\ toHost = <<>>
    <3>1. toHost' = <<>>
      BY <2>3, ByPlace DEF ShowMem
    <3> QED
      BY <3>1, NothingShown
  <2>4. CASE pc = "begin" /\ toMachine = <<>>
    BY <2>4, NothingTaken, Waits
  <2>5. CASE /\ pc = "loop" /\ left \in Nat \ {0} /\ left <= count
             /\ Queue(toHost, 4 * (count - left)) /\ cursor = Plus(addr, 4 * (count - left))
    <3>1. PICK k : k = count - left
      OBVIOUS
    <3>2. /\ k \in 0 .. count - 1 /\ k \in Nat /\ cursor = Plus(addr, 4 * k)
          /\ Queue(toHost, 4 * k) /\ 4 * k \in Nat
      BY <2>1, <2>5, <3>1
    <3>3. ~TLB_bad(data, cursor)
      BY <2>1, <3>2, NoMiss DEF Mapped
    <3>4. ToHost(BytesOf(Load(cursor))) /\ mem' = mem /\ data' = data
      BY <2>5, <3>3, ByPlace DEF ShowWord
    <3>5. PICK v, b : v = Load(Plus(addr, 4 * k)) /\ b = BytesOf(v)
      OBVIOUS
    <3>6. Queue(b, 4) /\ Carries(b, 1, v)
      BY <3>5, QueueWord, OwnBytes
    <3>7. toHost' = toHost \o b
      BY <1>1, <3>2, <3>4, <3>5 DEF ToHost
    <3>8. Behind(toHost', toHost, 4 * k, b, 4)
      BY <3>2, <3>6, <3>7, QueueJoin
    <3>9. \A w : Load(w)' = Load(w)
      BY <3>4, StringStays
    <3>10. ASSUME NEW n \in Nat, Queue(toHost', 4 * n), NEW j \in 1 .. n
           PROVE  Carries(toHost', 4 * j - 3, Load(Plus(addr, 4 * (j - 1))))
      <4>1. 4 * n = 4 * k + 4
        BY <3>8, <3>10, OneLength DEF Behind
      <4>2. j \in 1 .. k \/ j = k + 1
        BY <3>2, <4>1
      <4>3. CASE j \in 1 .. k
        <5>1. Carries(toHost, 4 * j - 3, Load(Plus(addr, 4 * (j - 1))))
          BY <1>3, <3>2, <4>3 DEF Shows, WordsComing
        <5>2. 4 * j - 3 \in Nat /\ 0 < 4 * j - 3 /\ 4 * j - 3 + 3 <= 4 * k
          BY <3>2, <4>3
        <5>3. PICK m : m = 4 * j - 3
          OBVIOUS
        <5>4. m \in Nat /\ 0 < m /\ m + 3 <= 4 * k
          BY <5>2, <5>3
        <5> QED
          BY <3>2, <3>8, <5>1, <5>3, <5>4, CarriedBehind
      <4>4. CASE j = k + 1
        <5>1. 4 * j - 3 = 4 * k + 1 /\ j - 1 = k
          BY <3>2, <4>4
        <5>2. Carries(toHost', 4 * k + 1, v)
          BY <3>2, <3>6, <3>8, CarriedBehind
        <5> QED
          BY <3>5, <5>1, <5>2
      <4> QED
        BY <4>2, <4>3, <4>4
    <3>11. WordsComing'
      BY <1>1, <3>9, <3>10 DEF WordsComing
    <3> QED
      BY <1>1, <3>11 DEF Shows, RegsComing, PrintComing
  <2> QED
    BY <2>1, <2>2, <2>3, <2>4, <2>5 DEF Dumping
<1> QED
  BY <1>2, <1>3

\* A program that is over says nothing that is a call.
LEMMA OverSpeaks ==
  ASSUME NEW q, IsSeq(q), NEW t \in {"halt", "cause"}
  PROVE  NoCallBehind(q, t, 0)
<1>1. SUFFICES ASSUME NEW g, Run(g, q, t), NEW j \in 0 + 1 .. Len(q) PROVE g[j - 1] # "call"
  BY DEF NoCallBehind
<1>2. j - 1 \in 0 .. Len(q)
  BY SeqIs
<1>3. g[j - 1] = t
  BY <1>1, <1>2, StaysThere
<1> QED
  BY <1>3

\* A byte on its own is no call that is read to its end.
LEMMA ByteSpeaks ==
  ASSUME NEW b
  PROVE  NoCallBehind(<<b>>, "listen", 0)
<1>1. SUFFICES ASSUME NEW g, Run(g, <<b>>, "listen"), NEW j \in 0 + 1 .. Len(<<b>>)
               PROVE g[j - 1] # "call"
  BY DEF NoCallBehind
<1>2. Len(<<b>>) = 1
  BY QueueOne DEF Queue
<1>3. j - 1 = 0
  BY <1>2
<1>4. g[0] = "listen"
  BY <1>1 DEF Run
<1> QED
  BY <1>3, <1>4

\* The report of an exception is no call.
LEMMA ReportSpeaks ==
  ASSUME NEW q, IsSeq(q), q[1] = 7
  PROVE  NoCallBehind(q, "listen", 0)
<1>0. Len(q) \in Nat
  BY SeqIs
<1> DEFINE f == [k \in 0 .. Len(q) |-> IF k = 0 THEN "listen" ELSE "cause"]
<1>1. f[0] = "listen" /\ \A k \in 1 .. Len(q) : f[k] = "cause"
  BY <1>0
<1>2. ASSUME NEW k \in 0 .. Len(q) PROVE f[k] # "call"
  BY <1>2
<1>3. Step("listen", 7) = "cause" /\ \A b : Step("cause", b) = "cause"
  BY FromListen DEF Step
<1> HIDE DEF f
<1>4. ASSUME NEW k \in 1 .. Len(q) PROVE f[k] = Step(f[k - 1], q[k])
  <2>1. k = 1 \/ k - 1 \in 1 .. Len(q)
    BY <1>0
  <2>2. CASE k = 1
    <3>1. k - 1 = 0
      BY <2>2
    <3> QED
      BY <1>1, <1>3, <2>2, <3>1
  <2>3. CASE k - 1 \in 1 .. Len(q)
    BY <1>1, <1>3, <2>3
  <2> QED
    BY <2>1, <2>2, <2>3
<1>5. Run(f, q, "listen")
  BY <1>1, <1>4 DEF Run
<1>6. SUFFICES ASSUME NEW g, Run(g, q, "listen"), NEW j \in 0 + 1 .. Len(q) PROVE g[j - 1] # "call"
  BY DEF NoCallBehind
<1>7. j - 1 \in 0 .. Len(q)
  BY <1>0
<1>8. g[j - 1] = f[j - 1]
  BY <1>5, <1>6, <1>7, RunOnce
<1> QED
  BY <1>2, <1>7, <1>8

\* What a running program says next is printed, if it is a call that prints.
LEMMA RunningShows ==
  ASSUME Typed, MachineSteps, Running, at \in {"listen", "call"}, port = "open", PrintComing
  PROVE  PrintComing'
<1>1. at' = at /\ pc \notin Reading /\ IsSeq(toHost)
  BY MachineFrame, NothingTaken DEF Running, Typed
<1>2. PICK t : pc \in Ends(t) /\ Reads(toHost, at, t)
  BY DEF Running, Says
<1>3. \/ pc = "program" /\ t = "listen"
      \/ pc = "boot" /\ t = "halt"
  BY <1>1, <1>2, Waits DEF Ends
<1>4. Speaks(toHost, at, Printed, WordOf(a0))
  BY DEF PrintComing
<1>5. SUFFICES Speaks(toHost', at, Printed', WordOf(a0'))
  BY <1>1, <1>5 DEF PrintComing
<1>6. data' = data
  BY <1>3, MachineFrame
<1>7. ASSUME NEW x, IsSeq(x), NoCallBehind(x, t, 0), ToHost(x), a0' = a0, mem' = mem
      PROVE  Speaks(toHost', at, Printed', WordOf(a0'))
  <2>1. Printed' = Printed
    BY <1>6, <1>7, StringStays DEF Printed
  <2>2. toHost' = toHost \o x
    BY <1>7 DEF ToHost
  <2>3. Speaks(toHost \o x, at, Printed, WordOf(a0))
    BY <1>1, <1>2, <1>4, <1>7, SpeaksMore
  <2> QED
    BY <1>7, <2>1, <2>2, <2>3
<1>8. CASE pc = "boot" /\ t = "halt"
  <2>1. ToHost(Greeting) /\ a0' = a0 /\ mem' = mem
    BY <1>8, ByPlace DEF Boot
  <2>2. IsSeq(Greeting)
    <3>1. Greeting \in Seq({79, 75, 10, 13})
      BY DEF Greeting
    <3> QED
      BY <3>1 DEF IsSeq
  <2> QED
    BY <1>7, <1>8, <2>1, <2>2, OverSpeaks
<1>9. CASE pc = "program" /\ t = "listen"
  <2>1. CASE Return
    <3>1. ToHost(<<4>>) /\ a0' = a0 /\ mem' = mem
      BY <2>1 DEF Return
    <3> QED
      BY <1>7, <1>9, <3>1, ByteSpeaks, QueueOne, QueueType
  <2>2. CASE Putc
    <3>1. PICK b \in ProgramPrints : ToHost(<<b>>)
      BY <2>2 DEF Putc
    <3>2. a0' = a0 /\ mem' = mem
      BY <2>2 DEF Putc, monitorVars
    <3> QED
      BY <1>7, <1>9, <3>1, <3>2, ByteSpeaks, QueueOne, QueueType
  <2>3. CASE Fault
    <3> DEFINE x == <<7>>
               y == BytesOf(regs'["Cause"])
               z == BytesOf(regs'["EPC"])
    <3>1. ToHost(x \o y \o z)
      BY <2>3 DEF Fault, Reports
    <3>2. a0' = a0 /\ mem' = mem
      BY <2>3 DEF Fault
    <3>3. Queue(x, 1) /\ x[1] = 7 /\ Queue(y, 4) /\ Queue(z, 4)
      BY QueueOne, QueueWord
    <3> HIDE DEF x, y, z
    <3>4. Queue(x \o y, 5) /\ (x \o y)[1] = x[1]
      <4>1. Behind(x \o y, x, 1, y, 4) /\ 1 \in 1 .. 1 /\ 1 + 4 = 5
        BY <3>3, QueueJoin
      <4> QED
        BY <4>1 DEF Behind
    <3>5. IsSeq((x \o y) \o z) /\ ((x \o y) \o z)[1] = (x \o y)[1]
      <4>1. Behind((x \o y) \o z, x \o y, 5, z, 4) /\ 1 \in 1 .. 5
        BY <3>3, <3>4, QueueJoin
      <4>2. PICK p : p = (x \o y) \o z
        OBVIOUS
      <4>3. Queue(p, 5 + 4) /\ p[1] = (x \o y)[1]
        BY <4>1, <4>2 DEF Behind
      <4> QED
        BY <4>2, <4>3, QueueType
    <3>6. NoCallBehind((x \o y) \o z, "listen", 0)
      BY <3>3, <3>4, <3>5, ReportSpeaks
    <3> QED
      BY <1>7, <1>9, <3>1, <3>2, <3>5, <3>6
  <2>4. CASE Syscall
    <3>1. PICK call \in ProgramCalls :
            ToHost(<<2, call.v0>> \o CallSends(call)) /\ a0' = call.a0
      BY <2>4 DEF Syscall
    <3>2. mem' = mem
      BY <2>4 DEF Syscall
    <3>3. PICK m : m = <<2, call.v0>> \o CallSends(call)
      OBVIOUS
    <3>4. IsSeq(m) /\ Numbered(m, call.v0, CallSends(call))
      BY <3>3, CallIsRead, NumberedIs
    <3>5. PICK s : s = StringAt([hi |-> 32768, lo |-> call.a0])
      OBVIOUS
    <3>6. PICK w : w = WordOf(call.a0)
      OBVIOUS
    <3>7. Len(m) >= 2 /\ m[1] = 2 /\ Argued(m, 2, s, w) /\ NoCallBehind(m, "listen", 2)
      BY <3>4, <3>5, <3>6, CallArgued
    <3>8. Speaks(toHost \o m, at, s, w)
      BY <1>1, <1>2, <1>9, <3>4, <3>7, SpeaksCall
    <3>9. Printed' = s
      <4>1. \A n : StringAt([hi |-> 32768, lo |-> n])' = StringAt([hi |-> 32768, lo |-> n])
        BY <1>6, <3>2, StringStays
      <4>2. Printed' = StringAt([hi |-> 32768, lo |-> call.a0])'
        BY <3>1 DEF Printed
      <4> QED
        BY <3>5, <4>1, <4>2
    <3>10. toHost' = toHost \o m
      BY <3>1, <3>3 DEF ToHost
    <3> QED
      BY <3>1, <3>6, <3>8, <3>9, <3>10
  <2> QED
    BY <1>9, <2>1, <2>2, <2>3, <2>4, ByPlace
<1> QED
  BY <1>3, <1>8, <1>9

\* The machine's steps.
LEMMA MachineShows ==
  ASSUME Inv, Shows, MachineSteps
  PROVE  Shows'
<1>1. at' = at
  BY MachineFrame
<1>2. CASE at \notin {"regs", "dump", "listen", "call"}
  BY <1>1, <1>2, NothingShown
<1>3. CASE at \in {"listen", "call"}
  <2>1. port = "open" /\ (Running \/ (at = "listen" /\ (Going \/ Answering)))
    BY <1>3, WhereWeAre DEF Away
  <2>2. CASE Running
    <3>1. PrintComing'
      BY <1>3, <2>1, <2>2, RunningShows DEF Inv, Shows
    <3> QED
      BY <1>1, <1>3, <3>1 DEF Shows, RegsComing, WordsComing
  <2>3. CASE Going \/ Answering
    <3>1. toHost = <<>> /\ pc \in {"begin", "execute", "alloc", "readint", "readline", "storing"}
      BY <2>3 DEF Going, Answering
    <3>2. toHost' = toHost
      BY <3>1, ByPlace DEF Begin, Execute, Alloc, ReadInt, ReadLine, StoreLine
    <3> QED
      BY <3>1, <3>2, NothingShown
  <2> QED
    BY <2>1, <2>2, <2>3
<1> QED
  BY <1>2, <1>3, RegsShow, WordsShow

\* What the terminal's steps leave of the machine.
LEMMA MachineStays ==
  ASSUME TerminalSteps
  PROVE  /\ regs' = regs /\ mem' = mem /\ data' = data /\ a0' = a0
         /\ \A w : Load(w)' = Load(w)
         /\ Printed' = Printed
<1>1. regs' = regs /\ mem' = mem /\ data' = data /\ a0' = a0
  BY DEF TerminalSteps, monitorVars
<1>2. \A w : Load(w)' = Load(w) /\ StringAt(w)' = StringAt(w)
  BY <1>1, StringStays
<1> QED
  BY <1>1, <1>2 DEF Printed

\* A word taken: those behind it are one place further in front.
LEMMA WordTaken ==
  ASSUME Typed, TakesFromMachine(4), NEW n \in Nat, Queue(toHost', 4 * n)
  PROVE  /\ Queue(toHost, 4 * (n + 1))
         /\ \A j \in 1 .. n : \A w :
              Carries(toHost, 4 * (j + 1) - 3, w) => Carries(toHost', 4 * j - 3, w)
<1>1. PICK m : m = Len(toHost) /\ Queue(toHost, m) /\ m \in Nat
  BY TypedParts, QueueType
<1>2. 4 <= m /\ Left(toHost', toHost, m, 4)
  BY <1>1, Received
<1>3. 4 * n = m - 4
  BY <1>2, OneLength DEF Left
<1>4. m = 4 * (n + 1)
  BY <1>1, <1>3
<1>5. ASSUME NEW j \in 1 .. n, NEW w, Carries(toHost, 4 * (j + 1) - 3, w)
      PROVE  Carries(toHost', 4 * j - 3, w)
  <2>1. PICK k : k = 4 * j - 3
    OBVIOUS
  <2>2. k \in Nat /\ 0 < k /\ 4 + k + 3 <= m /\ 4 + k = 4 * (j + 1) - 3
    BY <1>1, <1>4, <1>5, <2>1
  <2>3. Carries(toHost, 4 + k, w)
    BY <1>5, <2>2
  <2> QED
    BY <1>1, <1>2, <2>1, <2>2, <2>3, CarriedOn
<1> QED
  BY <1>1, <1>4, <1>5

\* R: a register is taken.
LEMMA TakeRegShows ==
  ASSUME Inv, Shows, TerminalSteps, TakeReg
  PROVE  Shows'
<1>1. at = "regs" /\ TakesFromMachine(4) /\ count' = count + 1 /\ at' \in {"prompt", "regs"}
  BY DEF TakeReg
<1>2. Typed /\ count \in Nat
  BY <1>1, WhereWeAre DEF Inv, ShowingRegs
<1>3. CASE at' = "prompt"
  BY <1>3, NothingShown
<1>4. CASE at' = "regs"
  <2>1. ASSUME NEW n \in Nat, Queue(toHost', 4 * n), NEW j \in 1 .. n
        PROVE  Carries(toHost', 4 * j - 3, regs'[RegisterOrder[count' + j]])
    <3>1. Queue(toHost, 4 * (n + 1))
          /\ \A w : Carries(toHost, 4 * (j + 1) - 3, w) => Carries(toHost', 4 * j - 3, w)
      BY <1>1, <1>2, <2>1, WordTaken
    <3>2. PICK m, i : m = n + 1 /\ i = j + 1
      OBVIOUS
    <3>3. m \in Nat /\ i \in 1 .. m /\ count + i = count' + j
      BY <1>1, <1>2, <3>2
    <3>4. Carries(toHost, 4 * i - 3, regs[RegisterOrder[count + i]])
      BY <1>1, <3>1, <3>2, <3>3 DEF Shows, RegsComing
    <3>5. regs' = regs
      BY MachineStays
    <3> QED
      BY <3>1, <3>2, <3>3, <3>4, <3>5
  <2>2. RegsComing'
    BY <2>1 DEF RegsComing
  <2> QED
    BY <1>4, <2>2 DEF Shows, WordsComing, PrintComing
<1> QED
  BY <1>1, <1>3, <1>4

\* D and U: a word is taken.
LEMMA TakeWordShows ==
  ASSUME Inv, Shows, TerminalSteps, TakeWord
  PROVE  Shows'
<1>1. /\ at = "dump" /\ TakesFromMachine(4) /\ addr' = Plus(addr, 4) /\ parted' = parted
      /\ at' \in {"prompt", "dump"}
  BY DEF TakeWord
<1>2. Typed
  BY DEF Inv
<1>3. CASE at' = "prompt"
  BY <1>3, NothingShown
<1>4. CASE at' = "dump"
  <2>1. ASSUME parted = "no", NEW n \in Nat, Queue(toHost', 4 * n), NEW j \in 1 .. n
        PROVE  Carries(toHost', 4 * j - 3, Load(Plus(addr', 4 * (j - 1))))
    <3>1. Queue(toHost, 4 * (n + 1))
          /\ \A w : Carries(toHost, 4 * (j + 1) - 3, w) => Carries(toHost', 4 * j - 3, w)
      BY <1>1, <1>2, <2>1, WordTaken
    <3>2. PICK m, i : m = n + 1 /\ i = j + 1
      OBVIOUS
    <3>3. m \in Nat /\ i \in 1 .. m /\ 4 * (j - 1) \in Nat /\ 4 + 4 * (j - 1) = 4 * (i - 1)
      BY <3>2
    <3>4. Carries(toHost, 4 * i - 3, Load(Plus(addr, 4 * (i - 1))))
      BY <1>1, <2>1, <3>1, <3>2, <3>3 DEF Shows, WordsComing
    <3>5. addr \in Word
      BY <1>1, <2>1, WhereWeAre DEF Dumping
    <3>6. PICK k : k = 4 * (j - 1)
      OBVIOUS
    <3>7. Plus(addr', k) = Plus(addr, 4 * (i - 1))
      <4>1. k \in Nat /\ 4 \in Nat /\ 4 + k = 4 * (i - 1)
        BY <3>3, <3>6
      <4>2. Plus(Plus(addr, 4), k) = Plus(addr, 4 + k)
        BY <3>5, <4>1, PlusPlus
      <4> QED
        BY <1>1, <4>1, <4>2
    <3> QED
      BY <3>1, <3>2, <3>4, <3>6, <3>7
  <2>2. \A w : Load(w)' = Load(w)
    BY MachineStays
  <2>3. WordsComing'
    BY <1>1, <2>1, <2>2 DEF WordsComing
  <2> QED
    BY <1>4, <2>3 DEF Shows, RegsComing, PrintComing
<1> QED
  BY <1>1, <1>3, <1>4

\* What a program says is taken up to where the reader then is.
LEMMA TerminalSpeaks ==
  ASSUME Inv, Shows, TerminalSteps, at \in {"listen", "call"}, NEW f, Run(f, toHost, at),
         NEW n \in Nat, TakesFromMachine(n), at' \in {"listen", "call"} => at' = f[n],
         at' \notin {"regs", "dump"}
  PROVE  Shows'
<1>1. Typed /\ IsSeq(toHost) /\ Queue(toHost, Len(toHost))
  BY TypedParts DEF Inv
<1>2. n <= Len(toHost) /\ Left(toHost', toHost, Len(toHost), n)
  BY <1>1, Received
<1>3. Speaks(toHost, at, Printed, WordOf(a0))
  BY DEF Shows, PrintComing
<1>4. Speaks(toHost', f[n], Printed, WordOf(a0))
  BY <1>1, <1>2, <1>3, SpeaksRest
<1>5. Printed' = Printed /\ a0' = a0
  BY MachineStays
<1>6. PrintComing'
  BY <1>4, <1>5 DEF PrintComing
<1> QED
  BY <1>6 DEF Shows, RegsComing, WordsComing

\* The reader's way through a byte.
LEMMA FirstStep ==
  ASSUME NEW f, NEW q, IsSeq(q), Len(q) >= 1, NEW l, Run(f, q, l)
  PROVE  f[0] = l /\ f[1] = Step(l, q[1])
<1>1. 1 \in 1 .. Len(q) /\ 1 - 1 = 0
  BY SeqIs
<1>2. f[0] = l /\ \A k \in 1 .. Len(q) : f[k] = Step(f[k - 1], q[k])
  BY DEF Run
<1>3. f[1] = Step(f[1 - 1], q[1])
  BY <1>1, <1>2
<1> QED
  BY <1>1, <1>2, <1>3

\* A program that has spoken is read to where it is.
LEMMA Spoken ==
  ASSUME Running
  PROVE  \E f : Run(f, toHost, at)
  BY DEF Running, Says, Reads

\* A byte is taken outside a call.
LEMMA ListenShows ==
  ASSUME Inv, Shows, TerminalSteps, Listen
  PROVE  Shows'
<1> DEFINE b == Head(toHost)
<1>1. /\ at = "listen" /\ TakesFromMachine(1)
      /\ at' = CASE b = 4 -> "prompt" [] b = 7 -> "cause" [] b = 2 -> "call" [] OTHER -> "listen"
  BY DEF Listen
<1>2. b = toHost[1] /\ toHost # <<>> /\ Len(toHost) >= 1 /\ IsSeq(toHost)
  BY <1>1, HeadIs, HostTyped, TypedParts DEF Inv
<1>3. Running
  BY <1>1, <1>2, Silent
<1>4. PICK f : Run(f, toHost, at)
  BY <1>3, Spoken
<1>5. f[1] = Step("listen", b)
  BY <1>1, <1>2, <1>4, FirstStep
<1> HIDE DEF b
<1>6. at' \in {"prompt", "cause", "call", "listen"} /\ (at' \in {"call", "listen"} => at' = f[1])
  BY <1>1, <1>5, FromListen
<1> QED
  BY <1>1, <1>4, <1>6, TerminalSpeaks

\* The reader's way through a call that prints a number.
LEMMA NumberWay ==
  ASSUME NEW q, IsSeq(q), Len(q) >= 5, q[1] \in {5, 7}, NEW f, Run(f, q, "call")
  PROVE  f[0] = "call" /\ f[5] = "listen" /\ \A j \in 2 .. 5 : f[j - 1] # "call"
<1>1. f[0] = "call" /\ \A k \in 1 .. Len(q) : f[k] = Step(f[k - 1], q[k])
  BY DEF Run
<1>2. /\ f[1] = Step(f[0], q[1]) /\ f[2] = Step(f[1], q[2]) /\ f[3] = Step(f[2], q[3])
      /\ f[4] = Step(f[3], q[4]) /\ f[5] = Step(f[4], q[5])
  <2>1. 1 \in 1 .. Len(q) /\ 2 \in 1 .. Len(q) /\ 3 \in 1 .. Len(q)
        /\ 4 \in 1 .. Len(q) /\ 5 \in 1 .. Len(q)
    BY SeqIs
  <2>2. 1 - 1 = 0 /\ 2 - 1 = 1 /\ 3 - 1 = 2 /\ 4 - 1 = 3 /\ 5 - 1 = 4
    OBVIOUS
  <2> QED
    BY <1>1, <2>1, <2>2
<1>3. f[1] = "n4"
  BY <1>1, <1>2, ReadsOnAre
<1>4. f[2] = "n3" /\ f[3] = "n2" /\ f[4] = "n1" /\ f[5] = "listen"
  BY <1>2, <1>3, ReadsOnAre
<1>5. \A j \in 2 .. 5 : j - 1 = 1 \/ j - 1 = 2 \/ j - 1 = 3 \/ j - 1 = 4
  OBVIOUS
<1> QED
  BY <1>1, <1>3, <1>4, <1>5

\* The string behind the number of a call ends with byte k.
StringTo(q, k) == q[k] = 0 /\ \A j \in 2 .. k - 1 : q[j] # 0

\* And through one that prints a string.
LEMMA StringWay ==
  ASSUME NEW q, IsSeq(q), q[1] = 6, NEW k \in 2 .. Len(q), StringTo(q, k),
         NEW f, Run(f, q, "call")
  PROVE  f[0] = "call" /\ f[k] = "listen" /\ \A j \in 2 .. k : f[j - 1] # "call"
<1>0. Len(q) \in Nat /\ k \in Nat /\ k - 1 \in Nat
  BY SeqIs
<1>1. f[0] = "call" /\ \A j \in 1 .. Len(q) : f[j] = Step(f[j - 1], q[j])
  BY DEF Run
<1>2. f[1] = "string"
  <2>1. Len(q) >= 1
    BY <1>0
  <2>2. f[1] = Step("call", q[1])
    BY <2>1, FirstStep
  <2> QED
    BY <2>2, ReadsOnAre
<1>3. GoesOn(q, f, 1, k - 1)
  <2>1. ASSUME NEW j \in 1 + 1 .. k - 1 PROVE q[j] # 0 /\ f[j] = Step(f[j - 1], q[j])
    <3>1. j \in 2 .. k - 1 /\ j \in 1 .. Len(q)
      BY <1>0, <2>1
    <3> QED
      BY <1>1, <3>1 DEF StringTo
  <2> QED
    BY <1>2, <2>1 DEF GoesOn
<1>4. \A j \in 1 .. k - 1 : f[j] = "string"
  <2>1. PICK n, a : n = k - 1 /\ a = 1
    OBVIOUS
  <2>2. n \in Nat /\ a \in Nat /\ GoesOn(q, f, a, n)
    BY <1>0, <1>3, <2>1
  <2>3. \A j \in a .. n : f[j] = "string"
    BY <2>2, StringPath
  <2> QED
    BY <2>1, <2>3
<1>5. f[k] = "listen"
  <2>1. k - 1 \in 1 .. k - 1 /\ k \in 1 .. Len(q)
    BY <1>0
  <2> QED
    BY <1>1, <1>4, <2>1, ReadsOnAre DEF StringTo
<1>6. ASSUME NEW j \in 2 .. k PROVE f[j - 1] # "call"
  <2>1. j - 1 \in 1 .. k - 1
    BY <1>0
  <2> QED
    BY <1>4, <2>1
<1> QED
  BY <1>1, <1>5, <1>6

\* A call is taken.
LEMMA CallsShow ==
  ASSUME Inv, Shows, TerminalSteps, CallShow \/ CallString \/ CallOther
  PROVE  Shows'
<1>1. CASE CallShow
  <2>1. PICK n \in {5, 7} : Calling(n, 4)
    BY <1>1 DEF CallShow
  <2>2. at' = "listen"
    BY <1>1 DEF CallShow
  <2>3. at = "call" /\ toHost[1] = n /\ TakesFromMachine(5) /\ Running /\ Len(toHost) >= 5
        /\ IsSeq(toHost)
    BY <2>1, CallFrame, TypedParts
  <2>4. PICK f : Run(f, toHost, at)
    BY <2>3, Spoken
  <2>5. f[5] = "listen"
    BY <2>3, <2>4, NumberWay
  <2> QED
    BY <2>2, <2>3, <2>4, <2>5, TerminalSpeaks
<1>2. CASE CallString
  <2>1. PICK k \in 2 .. Len(toHost) :
          toHost[k] = 0 /\ (\A j \in 2 .. k - 1 : toHost[j] # 0) /\ Calling(6, k - 1)
    BY <1>2 DEF CallString
  <2>2. at' = "listen"
    BY <1>2 DEF CallString
  <2>3. k \in Nat /\ k - 1 \in Nat /\ 1 + (k - 1) = k
    BY <2>1, TypedParts, QueueType DEF Inv
  <2>4. at = "call" /\ toHost[1] = 6 /\ TakesFromMachine(k) /\ Running /\ IsSeq(toHost)
    BY <2>1, <2>3, CallFrame, TypedParts
  <2>5. PICK f : Run(f, toHost, at)
    BY <2>4, Spoken
  <2>6. f[k] = "listen"
    BY <2>1, <2>4, <2>5, StringWay DEF StringTo
  <2> QED
    BY <2>2, <2>3, <2>4, <2>5, <2>6, TerminalSpeaks
<1>3. CASE CallOther
  <2>1. PICK n \in {4} \union 9 .. 255 : Calling(n, 0)
    BY <1>3 DEF CallOther
  <2>2. at' = "listen"
    BY <1>3 DEF CallOther
  <2>3. at = "call" /\ toHost[1] = n /\ TakesFromMachine(1) /\ Running /\ Len(toHost) >= 1
        /\ IsSeq(toHost)
    BY <2>1, CallFrame, TypedParts
  <2>4. PICK f : Run(f, toHost, at)
    BY <2>3, Spoken
  <2>5. n \notin {1, 2, 3, 5, 6, 7, 8}
    BY <2>1
  <2>6. f[1] = "listen"
    BY <2>3, <2>4, <2>5, FirstStep, FromCall
  <2> QED
    BY <2>2, <2>3, <2>4, <2>6, TerminalSpeaks
<1> QED
  BY <1>1, <1>2, <1>3

\* A request for memory is all that is on the line.
LEMMA AllocShows ==
  ASSUME Inv, TerminalSteps, CallAlloc
  PROVE  Shows'
<1>1. Calling(1, 4)
  BY DEF CallAlloc
<1>2. at = "call" /\ toHost[1] = 1 /\ TakesFromMachine(5) /\ Running /\ Len(toHost) >= 5
      /\ IsSeq(toHost)
  BY <1>1, CallFrame, TypedParts
<1>3. PICK t : pc \in Ends(t) /\ Reads(toHost, "call", t)
  BY <1>2 DEF Running, Says
<1>4. Queue(toHost, 5)
  BY <1>2, <1>3, EndsSomewhere, SizeRead
<1>5. toHost' = <<>>
  <2>1. Left(toHost', toHost, 5, 5) /\ 0 = 5 - 5
    BY <1>2, <1>4, Received
  <2> QED
    BY <2>1, LeftQueue
<1> QED
  BY <1>5, NothingShown

\* The terminal's steps.
LEMMA TerminalShows ==
  ASSUME Inv, Shows, TerminalSteps
  PROVE  Shows'
<1>1. CASE Greet \/ TakeStored \/ TakeLoaded \/ CallLine \/ CallInteger \/ CallHalt
           \/ TakeCause \/ TakeOver
  <2>1. at' \notin {"regs", "dump", "listen", "call"}
    BY <1>1 DEF Greet, TakeStored, TakeLoaded, CallLine, CallInteger, CallHalt, TakeCause,
       TakeOver, Fails, Returns
  <2> QED
    BY <2>1, NothingShown
<1> QED
  BY <1>1, TakeRegShows, TakeWordShows, ListenShows, CallsShow, AllocShows
  DEF TerminalSteps, ConsoleStep

\* A command is typed when nothing is on the line, or ends the session.
LEMMA CommandShows ==
  ASSUME Inv, UserCommands
  PROVE  Shows'
<1>1. PICK line \in IF parted = "no" /\ lines < Kits[kit].most THEN Kits[kit].typed ELSE {Quit} :
        kernelRun(line)
  BY DEF UserCommands
<1>2. CASE parted = "no"
  <2>1. toHost = <<>>
    BY <1>2, Prompted
  <2>2. \/ Misread(line) \/ Exit \/ runR(line) \/ runD(line, 68) \/ runD(line, 85) \/ runA(line)
        \/ runLoadFile(line) \/ runG(line) \/ runViewTLB(line) \/ runDelTLB(line) \/ runAddTLB(line)
    BY <1>1 DEF kernelRun
  <2>3. Misread(line) \/ runDelTLB(line) => toHost' = toHost
    BY DEF Misread, runDelTLB
  <2>4. Exit => toHost' = <<>>
    BY DEF Exit
  <2>5. runR(line) \/ runD(line, 68) \/ runD(line, 85) \/ runA(line) \/ runLoadFile(line)
        \/ runG(line) \/ runViewTLB(line) => toHost' = toHost
    BY DEF runR, runD, runA, runLoadFile, runG, runViewTLB, wires
  <2>6. runAddTLB(line) => Misread(line) \/ Exit \/ toHost' = toHost
    BY Zenon DEF runAddTLB
  <2>7. toHost' = <<>>
    BY <2>1, <2>2, <2>3, <2>4, <2>5, <2>6
  <2> QED
    BY <2>7, NothingShown
<1>3. CASE parted # "no"
  <2>1. line.name = "Q"
    BY <1>1, <1>3 DEF Quit
  <2>2. Exit
    BY <1>1, <2>1 DEF kernelRun
  <2> QED
    BY <2>2, NothingShown DEF Exit
<1> QED
  BY <1>2, <1>3

\* An answer is typed when nothing is on the line.
LEMMA AnswerShows ==
  ASSUME Inv, UserAnswers
  PROVE  Shows'
<1>1. UserStep
  BY UserFrame
<1>2. CASE TypeInstruction
  BY <1>2, NothingShown DEF TypeInstruction
<1>3. CASE TypeLine \/ TypeInteger
  <2>1. at \in {"line", "integer"} /\ toHost' = toHost
    BY <1>3 DEF TypeLine, TypeInteger
  <2>2. toHost = <<>>
    BY <2>1, WhereWeAre DEF Answering
  <2> QED
    BY <2>1, <2>2, NothingShown
<1> QED
  BY <1>1, <1>2, <1>3 DEF UserStep

\* Outside the dialogue nothing is displayed.
LEMMA OtherShows ==
  ASSUME UserStarts \/ UserBreaks \/ OpensPort \/ OpensSimulator \/ Reset
  PROVE  Shows'
<1>1. at' \notin {"regs", "dump", "listen", "call"}
  BY DEF UserStarts, Start, UserBreaks, Exit, OpensPort, OpensSimulator, Connect, Reset, consoleVars
<1> QED
  BY <1>1, NothingShown

\* A byte lost on its way to the machine, or no step at all.
LEMMA LossShows ==
  ASSUME Shows, ByteLost \/ UNCHANGED vars
  PROVE  Shows'
<1>1. /\ at' = at /\ parted' = parted /\ toHost' = toHost /\ regs' = regs /\ count' = count
      /\ addr' = addr /\ mem' = mem /\ data' = data /\ a0' = a0
  BY DEF ByteLost, Overrun, vars, consoleVars, monitorVars, wires
<1> QED
  BY <1>1, StillShown

\* Every step keeps it.
LEMMA StepShows ==
  ASSUME Inv, Shows, [Next]_vars
  PROVE  Shows'
  BY MachineShows, TerminalShows, CommandShows, AnswerShows, OtherShows, LossShows DEF Next

\* Nothing is displayed before the terminal runs.
LEMMA StartShows ==
  ASSUME Init
  PROVE  Shows
<1>1. at = "off"
  BY DEF Init, ConsoleInit
<1> QED
  BY <1>1 DEF Shows, RegsComing, WordsComing, PrintComing

\* Only the terminal takes what is displayed.
LEMMA OnlyTerminal ==
  ASSUME [Next]_vars, at \in {"regs", "dump", "call"}
  PROVE  /\ at \in {"regs", "dump"} /\ count' # count => TerminalSteps
         /\ shown' # shown => TerminalSteps
<1>1. CASE MachineSteps \/ ByteLost \/ UNCHANGED vars
  BY <1>1 DEF MachineSteps, ByteLost, vars, consoleVars
<1>2. ~UserCommands
  BY DEF UserCommands, kernelRun
<1>3. ~UserAnswers
  BY DEF UserAnswers, UserStep, TypeInstruction, TypeLine, TypeInteger
<1>4. ~UserStarts /\ ~OpensPort /\ ~OpensSimulator /\ ~Reset
  BY DEF UserStarts, Start, OpensPort, OpensSimulator, Connect, Reset
<1>5. CASE UserBreaks
  BY <1>5 DEF UserBreaks, Exit
<1> QED
  BY <1>1, <1>2, <1>3, <1>4, <1>5 DEF Next

\* R: the register that is displayed.
LEMMA RegShown ==
  ASSUME Inv, Shows, TerminalSteps, at = "regs"
  PROVE  shown'.bytes = BytesOf(regs[shown'.what])
<1>1. TakeReg
  BY DEF TerminalSteps, ConsoleStep, Greet, TakeReg, TakeWord, TakeStored, TakeLoaded, Listen,
     CallAlloc, CallLine, CallInteger, CallShow, CallString, CallHalt, CallOther, Calling,
     TakeCause, TakeOver
<1>2. TakesFromMachine(4)
      /\ shown' = [what |-> RegisterLabels[count + 1], bytes |-> SubSeq(toHost, 1, 4)]
  BY <1>1 DEF TakeReg
<1>3. Typed /\ ShowingRegs
  BY WhereWeAre DEF Inv
<1>4. Len(toHost) >= 4 /\ toHost # <<>>
  <2>1. Len(toHost) >= 4
    BY <1>2, <1>3, HostTyped
  <2> QED
    BY <2>1, Nil
<1>5. count \in Nat /\ count < 21 /\ Queue(toHost, 84 - 4 * count)
  BY <1>3, <1>4 DEF ShowingRegs
<1>6. PICK n : n = 21 - count
  OBVIOUS
<1>7. n \in Nat /\ 1 \in 1 .. n /\ Queue(toHost, 4 * n) /\ 4 * n = 84 - 4 * count
      /\ 1 + 3 <= 4 * n /\ 4 * 1 - 3 = 1
  BY <1>5, <1>6
<1>8. PICK name : name = RegisterOrder[count + 1]
  OBVIOUS
<1>9. Carries(toHost, 1, regs[name])
  <2>1. Carries(toHost, 4 * 1 - 3, regs[RegisterOrder[count + 1]])
    BY <1>7 DEF Shows, RegsComing
  <2> QED
    BY <1>7, <1>8, <2>1
<1>10. SubSeq(toHost, 1, 1 + 3) = BytesOf(regs[name])
  BY <1>7, <1>9, WordShown
<1>11. RegisterLabels[count + 1] = name
  BY <1>8 DEF RegisterLabels, RegisterOrder
<1> QED
  BY <1>2, <1>10, <1>11

\* D and U: the word that is displayed.
LEMMA MemoryShown ==
  ASSUME Inv, Shows, TerminalSteps, at = "dump", parted = "no"
  PROVE  shown'.bytes = BytesOf(Load(addr))
<1>1. TakeWord
  BY DEF TerminalSteps, ConsoleStep, Greet, TakeReg, TakeWord, TakeStored, TakeLoaded, Listen,
     CallAlloc, CallLine, CallInteger, CallShow, CallString, CallHalt, CallOther, Calling,
     TakeCause, TakeOver
<1>2. TakesFromMachine(4) /\ shown' = [what |-> "word", bytes |-> SubSeq(toHost, 1, 4)]
  BY <1>1 DEF TakeWord
<1>3. Typed /\ Dumping
  BY WhereWeAre DEF Inv
<1>4. Len(toHost) >= 4 /\ toHost # <<>>
  <2>1. Len(toHost) >= 4
    BY <1>2, <1>3, HostTyped
  <2> QED
    BY <2>1, Nil
<1>5. addr \in Word /\ \E n \in Nat : Queue(toHost, 4 * n)
  <2>1. addr \in Word /\ count \in Nat
    BY <1>3 DEF Dumping, Counted
  <2>2. \/ left \in Nat /\ left <= count /\ Queue(toHost, 4 * (count - left))
        \/ Queue(toHost, 4 * count)
    BY <1>3, <1>4 DEF Dumping
  <2>3. left \in Nat /\ left <= count => count - left \in Nat
    BY <2>1
  <2> QED
    BY <2>1, <2>2, <2>3
<1>6. PICK n \in Nat : Queue(toHost, 4 * n)
  BY <1>5
<1>7. 1 \in 1 .. n /\ 1 + 3 <= 4 * n /\ 4 * 1 - 3 = 1 /\ 4 * (1 - 1) = 0
  <2>1. Len(toHost) = 4 * n
    BY <1>6 DEF Queue
  <2> QED
    BY <1>4, <1>6, <2>1
<1>8. PICK w : w = Load(addr)
  OBVIOUS
<1>9. Carries(toHost, 1, w)
  <2>1. Carries(toHost, 4 * 1 - 3, Load(Plus(addr, 4 * (1 - 1))))
    BY <1>6, <1>7 DEF Shows, WordsComing
  <2>2. Plus(addr, 0) = addr
    BY <1>5, PlusZero
  <2> QED
    BY <1>7, <1>8, <2>1, <2>2
<1>10. SubSeq(toHost, 1, 1 + 3) = BytesOf(w)
  BY <1>6, <1>7, <1>9, WordShown
<1> QED
  BY <1>2, <1>8, <1>10

\* When the program's last call is taken, all that was on the line is.
LEMMA AllRead ==
  ASSUME Typed, NEW n \in Nat, TakesFromMachine(n), toHost' = <<>>
  PROVE  Queue(toHost, n)
<1>1. PICK m : m = Len(toHost) /\ Queue(toHost, m) /\ m \in Nat
  BY TypedParts, QueueType
<1>2. n <= m /\ Left(toHost', toHost, m, n)
  BY <1>1, Received
<1>3. m - n = 0
  BY <1>2, NilQueue, OneLength DEF Left
<1>4. m = n
  BY <1>1, <1>3
<1> QED
  BY <1>1, <1>4

\* The number that is displayed is the argument of the call.
LEMMA NumberShown ==
  ASSUME Inv, Shows, TerminalSteps, CallShow, toHost' = <<>>
  PROVE  shown'.what # "string" /\ shown'.bytes = BytesOf(WordOf(a0))
<1>1. PICK n \in {5, 7} :
        /\ Calling(n, 4)
        /\ shown' = [what |-> IF n = 5 THEN "integer" ELSE "bool",
                     bytes |-> SubSeq(toHost, 2, 5)]
  BY DEF CallShow
<1>2. at = "call" /\ toHost[1] = n /\ TakesFromMachine(5) /\ Running /\ Typed
  BY <1>1, CallFrame
<1>3. Queue(toHost, 5)
  BY <1>2, AllRead
<1>4. PICK f : Run(f, toHost, at)
  BY <1>2, Spoken
<1>5. IsSeq(toHost) /\ Len(toHost) = 5
  BY <1>3 DEF Queue
<1>6. f[0] = "call" /\ \A j \in 2 .. 5 : f[j - 1] # "call"
  <2>1. toHost[1] \in {5, 7} /\ Len(toHost) >= 5 /\ at = "call"
    BY <1>2, <1>5
  <2>2. Run(f, toHost, "call")
    BY <1>4, <2>1
  <2> QED
    BY <1>5, <2>1, <2>2, NumberWay
<1>7. LastCall(f, toHost, 1)
  <2>1. 1 - 1 = 0 /\ 1 + 1 = 2 /\ 1 \in 1 .. 5
    OBVIOUS
  <2> QED
    BY <1>5, <1>6, <2>1 DEF LastCall
<1>8. PICK w : w = WordOf(a0)
  OBVIOUS
<1>9. Speaks(toHost, at, Printed, w)
  BY <1>2, <1>8 DEF Shows, PrintComing
<1>10. Argued(toHost, 1, Printed, w)
  BY <1>4, <1>7, <1>9 DEF Speaks
<1>11. Carries(toHost, 2, w)
  <2>1. 1 + 1 = 2
    OBVIOUS
  <2> QED
    BY <1>2, <1>10, <2>1 DEF Argued
<1>12. SubSeq(toHost, 2, 2 + 3) = BytesOf(w)
  BY <1>3, <1>11, WordShown
<1>13. 2 + 3 = 5
  OBVIOUS
<1> QED
  BY <1>1, <1>8, <1>12, <1>13

\* The string that is displayed is the one at the address in its argument.
LEMMA StringShown ==
  ASSUME Inv, Shows, TerminalSteps, CallString, toHost' = <<>>
  PROVE  shown'.what = "string" /\ shown'.bytes = Printed
<1>1. PICK k \in 2 .. Len(toHost) :
        /\ toHost[k] = 0 /\ \A j \in 2 .. k - 1 : toHost[j] # 0
        /\ Calling(6, k - 1)
        /\ shown' = [what |-> "string", bytes |-> SubSeq(toHost, 2, k)]
  BY DEF CallString
<1>2. k \in Nat /\ k - 1 \in Nat /\ 1 + (k - 1) = k /\ 2 <= k
  BY <1>1, TypedParts, QueueType DEF Inv
<1>3. at = "call" /\ toHost[1] = 6 /\ TakesFromMachine(k) /\ Running /\ Typed
  BY <1>1, <1>2, CallFrame
<1>4. Queue(toHost, k)
  BY <1>2, <1>3, AllRead
<1>5. IsSeq(toHost) /\ Len(toHost) = k
  BY <1>4 DEF Queue
<1>6. PICK f : Run(f, toHost, at)
  BY <1>3, Spoken
<1>7. StringTo(toHost, k)
  BY <1>1 DEF StringTo
<1>8. f[0] = "call" /\ \A j \in 2 .. k : f[j - 1] # "call"
  BY <1>1, <1>3, <1>5, <1>6, <1>7, StringWay
<1>9. LastCall(f, toHost, 1)
  <2>1. 1 - 1 = 0 /\ 1 + 1 = 2 /\ 1 \in 1 .. k
    BY <1>2
  <2> QED
    BY <1>5, <1>8, <2>1 DEF LastCall
<1>10. PICK w, s : w = WordOf(a0) /\ s = Printed
  OBVIOUS
<1>11. Speaks(toHost, at, s, w)
  BY <1>3, <1>10 DEF Shows, PrintComing
<1>12. Argued(toHost, 1, s, w)
  BY <1>6, <1>9, <1>11 DEF Speaks
<1>13. Zeroed(s) /\ 1 + Len(s) <= k /\ \A i \in 1 .. Len(s) : toHost[1 + i] = s[i]
  BY <1>3, <1>5, <1>12 DEF Argued, Text
<1>14. IsSeq(s) /\ Len(s) \in Nat /\ Len(s) # 0 /\ s[Len(s)] = 0
  BY <1>13, SeqIs DEF Zeroed
<1>15. PICK n : n = Len(s)
  OBVIOUS
<1>16. n = k - 1
  <2>1. n \in Nat /\ n \in 1 .. n /\ 1 + n <= k
    BY <1>13, <1>14, <1>15
  <2>2. toHost[1 + n] = 0
    BY <1>13, <1>14, <1>15, <2>1
  <2>3. ~(1 + n \in 2 .. k - 1)
    BY <1>7, <2>2 DEF StringTo
  <2> QED
    BY <1>2, <2>1, <2>3
<1>17. PICK r : r = SubSeq(toHost, 2, 2 + n - 1)
  OBVIOUS
<1>18. Queue(r, n) /\ \A i \in 1 .. n : r[i] = toHost[2 + i - 1]
  <2>1. n \in Nat /\ 2 + n <= k + 1
    BY <1>2, <1>16
  <2> QED
    BY <1>4, <1>17, <2>1, QueuePart
<1>19. \A i \in 1 .. n : r[i] = s[i]
  <2>1. SUFFICES ASSUME NEW i \in 1 .. n PROVE r[i] = s[i]
    OBVIOUS
  <2>2. 2 + i - 1 = 1 + i
    BY <1>2, <1>16
  <2> QED
    BY <1>13, <1>15, <1>18, <2>2
<1>20. r = s
  BY <1>14, <1>15, <1>18, <1>19, QueueOf, QueuesEqual
<1>21. 2 + n - 1 = k
  BY <1>2, <1>16
<1> QED
  BY <1>1, <1>10, <1>17, <1>20, <1>21

\* What the terminal displays of the machine is what the machine holds:
\* the labels and the order of console.cpp's runR are those of kernel.s's
\* showregs, the words of D and U come from the addresses they are shown at,
\* and the terminal's reading of a call agrees with kernel-int.s's writing,
\* however much of what the program said is still on the line before it.
THEOREM DisplayedIsTrue == Spec => ShownIsTrue
<1>1. Init => Shows
  BY StartShows
<1>2. Inv /\ Shows /\ [Next]_vars => Shows'
  BY StepShows
<1>3. Spec => [](Inv /\ Shows)
  BY <1>1, <1>2, Invariant, PTL DEF Spec
<1> DEFINE A == /\ at = "regs" /\ count' # count => shown'.bytes = BytesOf(regs[shown'.what])
                /\ at = "dump" /\ parted = "no" /\ count' # count =>
                     shown'.bytes = BytesOf(Load(addr))
                /\ at = "call" /\ shown' # shown /\ toHost' = <<>> =>
                     shown'.bytes = IF shown'.what = "string"
                                    THEN StringAt([hi |-> 32768, lo |-> a0])
                                    ELSE BytesOf(WordOf(a0))
<1>4. ASSUME Inv, Shows, [Next]_vars PROVE A
  <2>1. ASSUME at = "regs", count' # count PROVE shown'.bytes = BytesOf(regs[shown'.what])
    <3>1. TerminalSteps
      BY <1>4, <2>1, OnlyTerminal
    <3> QED
      BY <1>4, <2>1, <3>1, RegShown
  <2>2. ASSUME at = "dump", parted = "no", count' # count PROVE shown'.bytes = BytesOf(Load(addr))
    <3>1. TerminalSteps
      BY <1>4, <2>2, OnlyTerminal
    <3> QED
      BY <1>4, <2>2, <3>1, MemoryShown
  <2>3. ASSUME at = "call", shown' # shown, toHost' = <<>>
        PROVE  shown'.bytes = IF shown'.what = "string" THEN Printed ELSE BytesOf(WordOf(a0))
    <3>1. TerminalSteps
      BY <1>4, <2>3, OnlyTerminal
    <3>2. CallShow \/ CallString
      BY <2>3, <3>1 DEF TerminalSteps, ConsoleStep, Greet, TakeReg, TakeWord, TakeStored,
         TakeLoaded, Listen, CallAlloc, CallLine, CallInteger, CallHalt, CallOther, TakeCause,
         TakeOver
    <3> QED
      BY <1>4, <2>3, <3>1, <3>2, NumberShown, StringShown
  <2> QED
    BY <2>1, <2>2, <2>3 DEF Printed
<1>5. (Inv /\ Shows) /\ [Next]_vars => [A]_vars
  BY <1>4
<1> HIDE DEF A
<1>6. Spec => [][A]_vars
  BY <1>3, <1>5, PTL DEF Spec
<1> QED
  BY <1>6 DEF ShownIsTrue, A

=============================================================================
