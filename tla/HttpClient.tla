----------------------------- MODULE HttpClient -----------------------------
(***************************************************************************)
(* External: what the web server talks to.  A browser on an ordinary TCP   *)
(* opens a connection, sends its request and reads until the stream ends;  *)
(* it retransmits its SYN and its request while they are unanswered, but   *)
(* never an acknowledgement alone.  It takes whole segments that are next  *)
(* in order and verify, and answers any other with an acknowledgement of   *)
(* what it has; its window is larger than the page.  Beside it, hosts ask  *)
(* for our address and ping us.                                            *)
(***************************************************************************)
EXTENDS Tcp

CONSTANTS
  Hosts,         \* their numbers
  Pings          \* echo requests a host may send: sequences of bytes

\* A host's number is a byte of its address; an echo request has a header of
\* eight bytes and fits in a frame.
ASSUME ClientAssumption ==
  /\ Hosts \subseteq 0 .. 255
  /\ Pings # {} /\ \A message \in Pings :
       message \in Seq(0 .. 255) /\ 8 <= Len(message) /\ Len(message) <= 1480

VARIABLES
  browser,       \* per host: [st, port, nxt, acked, got]
  pinged,        \* <<host, message>> sent and not answered yet
  wanted         \* hosts that have asked for our address and have no answer yet

clientVars == <<browser, pinged, wanted>>

ISS == SeqSpace - 1        \* the browser's first number: the next one wraps around
Request == <<71>>

ClientInit ==
  /\ browser = [c \in Hosts |->
       [st |-> "idle", port |-> 1023, nxt |-> 0, acked |-> FALSE, got |-> <<>>]]
  /\ pinged = {} /\ wanted = {}

IpFrame(c, dst, proto, body) ==
  [dst |-> dst, src |-> c, type |-> "IP",
   data |-> [version |-> IP_VERSION_VAL, src |-> c, dst |-> dst, proto |-> proto, body |-> body]]

Segment(c, port, seq, ack, flags, data) ==
  IpFrame(c, Server, "TCP",
    WithCheck([sport |-> port, dport |-> PORT, seq |-> Mod(seq), ack |-> Mod(ack),
               flags |-> flags, data |-> data, check |-> 0], c, Server))

Syn(c, port) == Segment(c, port, ISS, 0, {"SYN"}, <<>>)
Get(c) == Segment(c, browser[c].port, ISS + 1, browser[c].nxt, {"ACK", "PSH"}, Request)
AckOf(c, nxt) ==
  Segment(c, browser[c].port,
          IF browser[c].acked THEN ISS + 1 + Len(Request) ELSE ISS + 1, nxt, {"ACK"}, <<>>)

Connect(c) ==
  /\ browser[c].st = "idle"
  /\ browser' = [browser EXCEPT ![c].st = "syn_sent", ![c].port = @ + 1]
  /\ toServer' = toServer \cup {Syn(c, browser'[c].port)}
  /\ UNCHANGED <<fifo, toHosts, pinged, wanted>>

\* A TCP frame of the connection of c, on its way or in the receive memory.
OfConnection(c, f) ==
  /\ f.type = "IP" /\ f.data.proto = "TCP"
  /\ \/ f.src = c /\ f.data.body.sport = browser[c].port
     \/ f.dst = c /\ f.data.body.dport = browser[c].port
Silent(c) ==
  \A f \in toServer \cup toHosts \cup
           {fifo[i].frame : i \in {j \in DOMAIN fifo : fifo[j].part = "frame"}} :
    ~OfConnection(c, f)

\* The timer of the browser's TCP is long: by then nothing is on its way.
Retransmit(c) ==
  /\ Silent(c)
  /\ \/ /\ browser[c].st = "syn_sent"
        /\ toServer' = toServer \cup {Syn(c, browser[c].port)}
     \/ /\ browser[c].st = "established" /\ ~browser[c].acked
        /\ toServer' = toServer \cup {Get(c)}
  /\ UNCHANGED <<fifo, toHosts, browser, pinged, wanted>>

\* The user loads a page again that has come to a standstill.
Reload(c) ==
  /\ Silent(c) /\ browser[c].st \in {"syn_sent", "established"}
  /\ browser' = [browser EXCEPT ![c] =
       [st |-> "syn_sent", port |-> @.port + 1, nxt |-> 0, acked |-> FALSE, got |-> <<>>]]
  /\ toServer' = toServer \cup {Syn(c, browser'[c].port)}
  /\ UNCHANGED <<fifo, toHosts, pinged, wanted>>

-----------------------------------------------------------------------------
(* A segment s for c arrives. Each disjunct says what becomes of the       *)
(* browser and which frames it sends.                                      *)

Answer(c, b, frames) ==
  /\ browser' = [browser EXCEPT ![c] = b]
  /\ toServer' = toServer \cup frames

\* How far the segment reaches, and whether its acknowledgement covers the request.
Span(s) == Len(s.data) + Cardinality(s.flags \cap {"SYN", "FIN"})
Covers(s) == "ACK" \in s.flags /\ s.ack = Mod(ISS + 1 + Len(Request))

\* A port nobody listens on any more.
Refuse(c, s) ==
  /\ s.dport # browser[c].port \/ browser[c].st \in {"idle", "reset", "closed"}
  /\ Answer(c, browser[c],
       IF "RST" \in s.flags THEN {} ELSE {Segment(c, s.dport, s.ack, 0, {"RST"}, <<>>)})

Opened(c, s) ==
  /\ browser[c].st = "syn_sent"
  /\ IF {"SYN", "ACK"} \subseteq s.flags /\ s.ack = Mod(ISS + 1)
     THEN LET nxt == Mod(s.seq + 1)
          IN Answer(c, [browser[c] EXCEPT !.st = "established", !.nxt = nxt],
                    {AckOf(c, nxt), Segment(c, browser[c].port, ISS + 1, nxt, {"ACK", "PSH"}, Request)})
     ELSE Answer(c, browser[c], {})

InOrder(c, s) ==
  /\ browser[c].st = "established" /\ s.seq = browser[c].nxt /\ "RST" \notin s.flags
  /\ LET b == [browser[c] EXCEPT
                 !.nxt = Mod(@ + Span(s)), !.got = @ \o s.data,
                 !.acked = @ \/ Covers(s),
                 !.st = IF "FIN" \in s.flags THEN "done" ELSE @]
     IN Answer(c, b, IF Span(s) = 0 THEN {}
                     ELSE {Segment(c, b.port, IF b.acked THEN ISS + 1 + Len(Request) ELSE ISS + 1,
                                   b.nxt, {"ACK"}, <<>>)})

OutOfOrder(c, s) ==
  /\ browser[c].st \in {"established", "done"} /\ "RST" \notin s.flags
  /\ s.seq # browser[c].nxt \/ browser[c].st = "done"
  /\ LET b == [browser[c] EXCEPT !.acked = @ \/ Covers(s)]
     IN Answer(c, b, IF Span(s) = 0 THEN {}
                     ELSE {Segment(c, b.port, IF b.acked THEN ISS + 1 + Len(Request) ELSE ISS + 1,
                                   b.nxt, {"ACK"}, <<>>)})

\* A reset counts only when it is the next number.
Resets(c, s) ==
  /\ browser[c].st \in {"established", "done"} /\ "RST" \in s.flags
  /\ Answer(c, IF s.seq = browser[c].nxt
               THEN [browser[c] EXCEPT !.st = IF @ = "done" THEN "closed" ELSE "reset"]
               ELSE browser[c], {})

TakesSegment(f) ==
  LET c == f.dst
      s == f.data.body
  IN /\ f.type = "IP" /\ f.data.proto = "TCP"
     /\ IF Verifies(SumOfSegment(s) + Pseudo(f.data.src, f.data.dst, TCP_HDR_LEN + Len(s.data)))
        THEN \/ Refuse(c, s)
             \/ s.dport = browser[c].port /\
                (Opened(c, s) \/ InOrder(c, s) \/ OutOfOrder(c, s) \/ Resets(c, s))
        ELSE Answer(c, browser[c], {})
     /\ UNCHANGED <<fifo, pinged, wanted>>

-----------------------------------------------------------------------------
(* Pings and questions for an address. *)

Ping(c, message, dst) ==
  /\ pinged' = pinged \cup {<<c, message>>}
  /\ toServer' = toServer \cup {IpFrame(c, dst, "ICMP", message)}
  /\ UNCHANGED <<fifo, toHosts, browser, wanted>>

ArpFrame(c, op, address) ==
  [dst |-> Broadcast, src |-> c, type |-> "ARP",
   data |-> [op |-> op, senderMac |-> c, senderIp |-> c, targetMac |-> 0, targetIp |-> address]]

Ask(c) ==
  /\ wanted' = wanted \cup {c}
  /\ toServer' = toServer \cup {ArpFrame(c, "request", Server)}
  /\ UNCHANGED <<fifo, toHosts, browser, pinged>>

\* Frames that are none of the server's business: another type, options in the
\* header, another protocol, an echo reply, a question for or an answer of others.
Noise(c) ==
  LET ping == CHOOSE message \in Pings : TRUE
      frame == IpFrame(c, Broadcast, "ICMP", ping)
  IN {[frame EXCEPT !.type = "IPv6"], [frame EXCEPT !.data.version = IP_VERSION_VAL + 1],
      [frame EXCEPT !.data.proto = "UDP"], [frame EXCEPT !.data.body[1] = ICMP_TYPE_ECHO_REPLY],
      ArpFrame(c, "request", c), ArpFrame(c, "reply", c)}

Chat(c) ==
  /\ \E f \in Noise(c) : toServer' = toServer \cup {f}
  /\ UNCHANGED <<fifo, toHosts, browser, pinged, wanted>>

\* The reply to a message: type 0, a sum that verifies, the rest as it was sent.
Repeats(reply, message) ==
  /\ Len(reply) = Len(message) /\ reply[1] = ICMP_TYPE_ECHO_REPLY
  /\ SubSeq(reply, 5, Len(reply)) = SubSeq(message, 5, Len(message))
  /\ Verifies(SumOfWords(reply))

TakesReply(f) ==
  /\ \/ /\ f.type = "IP" /\ f.data.proto = "ICMP"
        /\ pinged' = {p \in pinged : ~(p[1] = f.dst /\ Repeats(f.data.body, p[2]))}
        /\ UNCHANGED wanted
     \/ /\ f.type = "ARP" /\ f.data.op = "reply"
        /\ wanted' = IF f.data.senderIp = Server THEN wanted \ {f.dst} ELSE wanted
        /\ UNCHANGED pinged
  /\ UNCHANGED <<fifo, toServer, browser>>
=============================================================================
