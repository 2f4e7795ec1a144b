------------------------------ MODULE WebServer ------------------------------
(***************************************************************************)
(* The web server on its network: the main loop of                         *)
(* userprog-webserver/_start.c over the driver, ARP, ICMP and TCP, the     *)
(* hosts, and a segment that reorders frames, loses some, brings some      *)
(* twice and some damaged.  One pass of the loop (receive, handle, answer) *)
(* is one step: the program has one thread and no interrupt reaches it.    *)
(***************************************************************************)
EXTENDS HttpClient

CONSTANTS
  Kits    \* what may happen in a behaviour, chosen at its start: the hosts there
          \* are, whether they browse or probe, how many connections each browser
          \* opens, how many frames are lost, come twice, come damaged

VARIABLES
  kit,
  losses, duplicates, errors,    \* how many the network has had
  late,      \* browsers that missed a segment nobody sends again
  gaveUp     \* browsers whose connection the server's count has closed

faultVars == <<kit, losses, duplicates, errors>>
ghosts == <<late, gaveUp>>
vars == <<ethernetVars, tcpVars, clientVars, faultVars, ghosts>>

Init ==
  /\ EthernetInit /\ TcpInit /\ ClientInit
  /\ kit \in Kits /\ losses = 0 /\ duplicates = 0 /\ errors = 0
  /\ late = {} /\ gaveUp = {}

-----------------------------------------------------------------------------
(* The server. *)

\* The browsers whose connection is closed: the count takes one, and a browser
\* that waits for a connection and is accepted now has one (again).
ClosedByCount(rx) ==
  (gaveUp \cup {c \in Hosts : /\ tcp_state # "closed" /\ expired
                             /\ peer.srcAddr = c /\ peer.srcPort = browser[c].port
                             /\ browser[c].st \in {"syn_sent", "established"}})
  \ {c \in Hosts : Accepts(rx.data.body) /\ rx.src = c /\ browser[c].st = "syn_sent"}

ip_handle(rx) ==
  IF rx.data.version # IP_VERSION_VAL
  THEN UNCHANGED <<toHosts, tcpVars, gaveUp>>
  ELSE \/ /\ rx.data.proto = "ICMP" /\ icmp_handle(rx)
          /\ UNCHANGED <<tcpVars, gaveUp>>
       \/ /\ rx.data.proto = "TCP" /\ tcp_handle(rx)
          /\ gaveUp' = ClosedByCount(rx)
       \/ /\ rx.data.proto \notin {"ICMP", "TCP"}
          /\ UNCHANGED <<toHosts, tcpVars, gaveUp>>

\* One pass of the loop over a good frame.
Serve ==
  \E rx \in {fifo[i].frame : i \in {j \in DOMAIN fifo : fifo[j].part = "frame"}} :
    /\ ethernet_recv(rx)
    /\ \/ rx.type = "ARP" /\ arp_handle(rx) /\ UNCHANGED <<tcpVars, gaveUp>>
       \/ rx.type = "IP" /\ ip_handle(rx)
       \/ rx.type \notin {"ARP", "IP"} /\ UNCHANGED <<toHosts, tcpVars, gaveUp>>
    /\ UNCHANGED <<toServer, clientVars, faultVars, late>>

\* A pass that gives up on a damaged frame.
GiveUpOnFrame ==
  recv_Error /\ UNCHANGED <<toServer, toHosts, tcpVars, clientVars, faultVars, ghosts>>

-----------------------------------------------------------------------------
(* The network. *)

\* A frame of host c reaches the card.
Arrives(c) ==
  \E f \in {g \in toServer : g.src = c} :
    /\ Arrive(f, "ok") /\ toServer' = toServer \ {f}
    /\ UNCHANGED <<toHosts, tcpVars, clientVars, faultVars, ghosts>>

\* The same frame will come once more.
ArrivesAgain ==
  \E f \in toServer :
    /\ duplicates < kit.duplicates /\ duplicates' = duplicates + 1
    /\ Arrive(f, "ok")
    /\ UNCHANGED <<toServer, toHosts, tcpVars, clientVars, kit, losses, errors, ghosts>>

\* The browser that will miss f, if it has nothing left to send again.
Misses(f) ==
  {c \in Hosts : /\ OfConnection(c, f)
                 /\ browser[c].st = "established" /\ browser[c].acked}

\* An error status is set on a frame, which nobody will read.
ArrivesDamaged ==
  \E f \in toServer :
    /\ errors < kit.errors /\ errors' = errors + 1
    /\ Arrive(f, "error") /\ toServer' = toServer \ {f}
    /\ late' = late \cup Misses(f)
    /\ UNCHANGED <<toHosts, tcpVars, clientVars, kit, losses, duplicates, gaveUp>>

Lose ==
  \E f \in toServer \cup toHosts :
    /\ losses < kit.losses /\ losses' = losses + 1
    /\ toServer' = toServer \ {f} /\ toHosts' = toHosts \ {f}
    /\ late' = late \cup Misses(f)
    /\ UNCHANGED <<fifo, tcpVars, clientVars, kit, duplicates, errors, gaveUp>>

Takes(f) == TakesSegment(f) \/ TakesReply(f)

\* A frame reaches the host c, for good or (again) as the first of two.
Reaches(c) ==
  \E f \in {g \in toHosts : g.dst = c} :
    /\ Takes(f) /\ toHosts' = toHosts \ {f}
    /\ UNCHANGED <<tcpVars, faultVars, ghosts>>
ReachesAgain ==
  \E f \in toHosts :
    /\ duplicates < kit.duplicates /\ duplicates' = duplicates + 1
    /\ Takes(f)
    /\ UNCHANGED <<toHosts, tcpVars, kit, losses, errors, ghosts>>

-----------------------------------------------------------------------------
(* The hosts. *)

Fresh(c) == late' = late \ {c} /\ gaveUp' = gaveUp \ {c}

Browse ==
  \E c \in Hosts : /\ ~kit.probes /\ c \in kit.hosts /\ Connect(c) /\ Fresh(c)
                   /\ UNCHANGED <<tcpVars, faultVars>>
TryAgain ==
  \E c \in Hosts : /\ browser[c].port < 1023 + kit.attempts /\ Reload(c) /\ Fresh(c)
                   /\ UNCHANGED <<tcpVars, faultVars>>
SendAgain(c) == Retransmit(c) /\ UNCHANGED <<tcpVars, faultVars, ghosts>>

\* Each host does one thing at a time; a ping goes to us or to everybody.
Probe ==
  \E c \in Hosts :
    /\ kit.probes /\ c \in kit.hosts /\ c \notin wanted \cup {p[1] : p \in pinged}
    /\ \A f \in toServer : f.src # c
    /\ \/ \E message \in Pings, dst \in {Server, Broadcast} : Ping(c, message, dst)
       \/ Ask(c)
       \/ Chat(c)
    /\ UNCHANGED <<tcpVars, faultVars, ghosts>>

Next ==
  \/ Serve \/ GiveUpOnFrame
  \/ \E c \in Hosts : Arrives(c)
  \/ ArrivesAgain \/ ArrivesDamaged \/ Lose
  \/ \E c \in Hosts : Reaches(c)
  \/ ReachesAgain
  \/ Browse \/ TryAgain \/ Probe
  \/ \E c \in Hosts : SendAgain(c)

\* The loop runs; no host's frame waits for ever before a card that has room
\* again and again; a browser's retransmission timer expires.
Fairness ==
  /\ WF_vars(Serve \/ GiveUpOnFrame)
  /\ \A c \in Hosts : SF_vars(Arrives(c)) /\ WF_vars(Reaches(c)) /\ WF_vars(SendAgain(c))

Spec == Init /\ [][Next]_vars /\ Fairness

-----------------------------------------------------------------------------
(* Properties *)

\* The count, the numbers and the frames are what their types say: the count
\* stays below TIMEOUT and every number within the width of its field.
Segments == {f \in toHosts : f.type = "IP" /\ f.data.proto = "TCP"}
TypeOK ==
  /\ tcp_state \in {"closed", "sync_recved", "established", "fin_sent"}
  /\ tcp_timeout \in 0 .. TIMEOUT - 1
  /\ tcp_ack \in 0 .. SeqSpace - 1 /\ tcp_seq \in 0 .. SeqSpace - 1
  /\ Len(fifo) <= FifoSize + 1
  /\ \A f \in Segments : f.dst = f.data.dst /\ f.data.body.check \in 0 .. 65535
  /\ \A c \in Hosts : browser[c].st \in
       {"idle", "syn_sent", "established", "done", "reset", "closed"}

\* The server answers a ping with the bytes of the ping, under a checksum that
\* verifies, to the host it came from and from our own address, also when the
\* ping was addressed to everybody; and an ARP request only when it asks for us.
EchoIsTrue ==
  \A f \in toHosts :
    /\ f.type = "IP" /\ f.data.proto = "ICMP" =>
         /\ f.dst = f.data.dst /\ f.data.src = Server
         /\ \E message \in Pings : Repeats(f.data.body, message)
    /\ f.type = "ARP" =>
         f.data.senderIp = Server /\ f.data.senderMac = Server /\ f.data.targetIp = f.dst

\* The server acknowledges nothing its browser has not sent: only the SYN while
\* the browser waits for the connection, and never more than the request. Its
\* tcp_ack is the sum of a number and a length the packet itself states.
AcksOnlyWhatWasSent ==
  \A f \in Segments :
    LET s == f.data.body
        b == browser[f.dst]
    IN "ACK" \in s.flags =>
         Signed(s.ack - ISS) \in
           0 .. (IF s.dport = b.port /\ b.st = "syn_sent" THEN 1 ELSE 1 + Len(Request))

\* The front of the receive memory is no frame any more: the server reads no
\* other frame, for ever (ethernet.c:155).
Deaf == fifo # <<>> /\ ~Ready

\* In the middle of the page nothing of the connection is on its way to anyone
\* who will read it.
Standstill(c) ==
  /\ browser[c].st = "established" /\ browser[c].acked
  /\ IF Deaf THEN \A f \in toHosts : ~OfConnection(c, f) ELSE Silent(c)

\* The server sends nothing twice, so a browser whose request is acknowledged
\* can come to a standstill. It does so only if a segment was lost that nobody
\* sends again, if the packets of others have counted its connection away, or if
\* a damaged frame, of whomever, has left what it sent at a deaf server.
\* Duplicates, reordering and the SYNs of others are harmless.
StandstillHasACause ==
  \A c \in Hosts : Standstill(c) => c \in late \cup gaveUp \/ (Deaf /\ ~Silent(c))

\* What a browser reads is the page from its start, and it sees the stream end
\* when it has all of the page and not before, whatever the network does.
Stream == INSTANCE ByteStream
  WITH Page <- MYDATA,
       got <- [c \in Hosts |-> browser[c].got],
       ended <- [c \in Hosts |-> browser[c].st \in {"done", "reset", "closed"}]
PageAsPromised == Stream!Spec

Ended(c) == browser[c].st \in {"done", "reset", "closed"}

\* A browser that opens a connection reads the page to its end, except for the
\* three causes of a standstill: the server answers every acknowledgement until
\* the page is through, and lost requests are repeated.
TransferEnds ==
  \A c \in Hosts :
    browser[c].st = "syn_sent" ~> Ended(c) \/ c \in late \cup gaveUp \/ Deaf

\* A browser that keeps sending its SYN is accepted in the end, also by a server
\* left in the middle of a connection: the SYNs themselves count it away. Only a
\* deaf server accepts nobody any more.
EveryoneIsAccepted ==
  \A c \in Hosts : browser[c].st = "syn_sent" ~> browser[c].st # "syn_sent" \/ Deaf

\* docs/ff-web-server.md:37: every ping is answered, and every ARP request for
\* our address, unless a damaged frame has made the server deaf.
ProbesAnswered ==
  \A c \in Hosts :
    /\ \A message \in Pings : <<c, message>> \in pinged ~> <<c, message>> \notin pinged \/ Deaf
    /\ c \in wanted ~> c \notin wanted \/ Deaf
=============================================================================
