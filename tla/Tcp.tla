-------------------------------- MODULE Tcp --------------------------------
(***************************************************************************)
(* The TCP of the web server (userprog-webserver/tcp.c): one connection,   *)
(* no clock and no retransmission.  The server speaks only when spoken to: *)
(* the acknowledgement in a client's packet says which piece of the page   *)
(* is sent next.  What it sends is forgotten; the packets of others are    *)
(* counted as the time that passes.                                        *)
(*                                                                         *)
(* A segment is [sport, dport, seq, ack, flags, data, check].  Sequence    *)
(* numbers live in 0..SeqSpace-1, SeqSpace standing for 2^32.              *)
(***************************************************************************)
EXTENDS Ethernet, FiniteSets

CONSTANTS
  MYDATA,        \* the page: a sequence of bytes, MYDATA_LENGTH of them
  CHUNK_LEN,     \* 1000
  TIMEOUT,       \* 30
  SeqSpace       \* 2^32

MYDATA_LENGTH == Len(MYDATA)
LAST_CHUNK_POS == (MYDATA_LENGTH \div CHUNK_LEN) * CHUNK_LEN
INIT_SEQ == 1001
PORT == 80

\* The page is made of bytes, and every place in it, and one behind its end, is
\* less than half the number space away from the first number.
ASSUME TcpAssumption ==
  /\ MYDATA \in Seq(0 .. 255)
  /\ CHUNK_LEN \in Nat \ {0} /\ TIMEOUT \in Nat \ {0}
  /\ SeqSpace \in Nat /\ SeqSpace > 2 * (INIT_SEQ + 2 + MYDATA_LENGTH)

VARIABLES
  tcp_state,     \* "closed", "sync_recved", "established", "fin_sent"
  tcp_timeout,   \* packets since the connection was opened
  peer,          \* tcp_src_addr, tcp_src_port, tcp_dst_addr, tcp_dst_port
  tcp_ack,
  tcp_seq

tcpVars == <<tcp_state, tcp_timeout, peer, tcp_ack, tcp_seq>>

NoPeer == [srcAddr |-> 0, srcPort |-> 0, dstAddr |-> 0, dstPort |-> 0]

TcpInit ==
  /\ tcp_state = "closed" /\ tcp_timeout = 0 /\ peer = NoPeer
  /\ tcp_ack = 0 /\ tcp_seq = INIT_SEQ

Mod(n) == n % SeqSpace
\* An int that is the difference of two sequence numbers.
Signed(n) == LET m == Mod(n) IN IF m < SeqSpace \div 2 THEN m ELSE m - SeqSpace

-----------------------------------------------------------------------------
(* tcp_send_packet *)

FlagsByte(flags) ==
    (IF "ACK" \in flags THEN 16 ELSE 0) + (IF "PSH" \in flags THEN 8 ELSE 0)
  + (IF "RST" \in flags THEN 4 ELSE 0) + (IF "SYN" \in flags THEN 2 ELSE 0)
  + (IF "FIN" \in flags THEN 1 ELSE 0)

Halves(n) == (n \div 65536) + (n % 65536)
\* The words of the segment added up: ports, numbers, 0x50 and the flags, the
\* window, the checksum and the urgent pointer (0), then those of the data.
SumOfSegment(s) ==
  s.sport + s.dport + Halves(s.seq) + Halves(s.ack)
  + 256 * 80 + FlagsByte(s.flags) + 1000 + s.check + SumOfWords(s.data)

TCP_HDR_LEN == 20

\* The pseudo header: both addresses, the protocol (6) and the length.
AddressSum(host) == SumOfWords(IP_ADDR(host))
Pseudo(a, b, length) ==
  AddressSum(a) + AddressSum(b) + 6 + length

WithCheck(s, from, to) ==
  [s EXCEPT !.check = Folded(  SumOfSegment([s EXCEPT !.check = 0])
                             + Pseudo(from, to, TCP_HDR_LEN + Len(s.data)))]

\* Sent from the ports of peer with the numbers seq and ack, in answer to rx.
tcp_send_packet(rx, to, seq, ack, flags, data) ==
  LET s == [sport |-> to.dstPort, dport |-> to.srcPort, seq |-> seq, ack |-> ack,
            flags |-> flags, data |-> data, check |-> 0]
  IN ethernet_send(ip_make_reply(rx, "TCP", WithCheck(s, to.srcAddr, to.dstAddr)))

-----------------------------------------------------------------------------
(* tcp_handle: the count, then one of eight ways to go on.  state is the   *)
(* state after the count.                                                  *)

counted == IF tcp_state # "closed" THEN tcp_timeout + 1 ELSE 0
expired == counted = TIMEOUT
state_Never == tcp_state    \* mutant: a connection is never given up
state == IF expired THEN "closed" ELSE tcp_state

From(rx) == [srcAddr |-> rx.data.src, srcPort |-> rx.data.body.sport,
             dstAddr |-> rx.data.dst, dstPort |-> rx.data.body.dport]

\* The place in the page the acknowledgement points at.
PosOf(s) == Signed(s.ack - (INIT_SEQ + 1))

ChunkLen_Short(pos) ==    \* mutant: the last piece ends one byte early
  IF pos = LAST_CHUNK_POS THEN MYDATA_LENGTH - pos - 1 ELSE CHUNK_LEN
ChunkLen_NoLast(pos) == CHUNK_LEN    \* mutant: the last piece is as long as the others
ChunkLen(pos) == IF pos = LAST_CHUNK_POS THEN MYDATA_LENGTH - pos ELSE CHUNK_LEN

\* MYDATA + pos: around the page the memory holds something else (0 here).
Chunk(pos, len) ==
  [n \in 1..len |-> IF pos + n \in 1..MYDATA_LENGTH THEN MYDATA[pos + n] ELSE 0]

Accepts(s) == "SYN" \in s.flags /\ state = "closed"

Open(rx, s) ==
  /\ Accepts(s)
  /\ peer' = From(rx)
  /\ tcp_ack' = Mod(s.seq + 1) /\ tcp_seq' = INIT_SEQ
  /\ tcp_state' = "sync_recved"
  /\ tcp_send_packet(rx, peer', tcp_seq', tcp_ack', {"SYN", "ACK"}, <<>>)

\* Everything below: a packet of the peer, of the connection that is or was.
OfPeer(rx, s) == ~Accepts(s) /\ From(rx) = peer

NotOfPeer(rx, s) ==
  /\ ~Accepts(s) /\ From(rx) # peer
  /\ tcp_state' = state
  /\ UNCHANGED <<peer, tcp_ack, tcp_seq, toHosts>>

Reset(rx, s) ==
  /\ OfPeer(rx, s) /\ "RST" \in s.flags
  /\ tcp_state' = "closed"
  /\ UNCHANGED <<peer, tcp_ack, tcp_seq, toHosts>>

FinSent(rx, s) ==
  /\ OfPeer(rx, s) /\ "RST" \notin s.flags /\ state = "fin_sent"
  /\ tcp_seq' = s.ack
  /\ tcp_send_packet(rx, peer, tcp_seq', tcp_ack, {"RST"}, <<>>)
  /\ tcp_state' = "closed"
  /\ UNCHANGED <<peer, tcp_ack>>

SyncRecved_Answers(rx, s) ==    \* mutant: what comes with the acknowledgement is acknowledged
  /\ OfPeer(rx, s) /\ "RST" \notin s.flags /\ state = "sync_recved" /\ "ACK" \in s.flags
  /\ tcp_seq' = s.ack /\ tcp_ack' = Mod(s.seq + Len(s.data))
  /\ tcp_state' = "established"
  /\ tcp_send_packet(rx, peer, tcp_seq', tcp_ack', {"ACK"}, <<>>)
  /\ UNCHANGED peer
SyncRecved(rx, s) ==
  /\ OfPeer(rx, s) /\ "RST" \notin s.flags /\ state = "sync_recved" /\ "ACK" \in s.flags
  /\ tcp_seq' = s.ack /\ tcp_ack' = Mod(s.seq + 1)
  /\ tcp_state' = "established"
  /\ UNCHANGED <<peer, toHosts>>

Taken_Header(s) == Mod(s.seq + TCP_HDR_LEN + Len(s.data))    \* mutant: the header is counted as data
\* The acknowledgement of all that the packet holds.
Taken(s) == Mod(s.seq + Len(s.data))

Established(rx, s) ==
  LET pos == PosOf(s)
  IN /\ OfPeer(rx, s) /\ "RST" \notin s.flags /\ state = "established"
     /\ tcp_ack' = Taken(s) /\ tcp_seq' = s.ack
     /\ \/ /\ pos = 0 /\ s.data = <<>>
           /\ tcp_state' = state /\ UNCHANGED toHosts
        \/ /\ pos = MYDATA_LENGTH /\ ~(pos = 0 /\ s.data = <<>>)
           /\ tcp_send_packet(rx, peer, tcp_seq', tcp_ack', {"FIN", "ACK"}, <<>>)
           /\ tcp_state' = "fin_sent"
        \/ /\ pos # MYDATA_LENGTH /\ ~(pos = 0 /\ s.data = <<>>)
           /\ tcp_send_packet(rx, peer, tcp_seq', tcp_ack',
                {"ACK"} \cup (IF pos # 0 THEN {"PSH"} ELSE {}), Chunk(pos, ChunkLen(pos)))
           /\ tcp_state' = state
     /\ UNCHANGED peer

\* Nothing applies: the connection is closed, or a retransmitted SYN.
Ignored(rx, s) ==
  /\ OfPeer(rx, s) /\ "RST" \notin s.flags
  /\ state = "closed" \/ (state = "sync_recved" /\ "ACK" \notin s.flags)
  /\ tcp_state' = state
  /\ UNCHANGED <<peer, tcp_ack, tcp_seq, toHosts>>

tcp_handle(rx) ==
  LET s == rx.data.body
  IN /\ tcp_timeout' = (IF expired THEN 0 ELSE counted)
     /\ \/ Open(rx, s)
        \/ NotOfPeer(rx, s)
        \/ Reset(rx, s)
        \/ FinSent(rx, s)
        \/ SyncRecved(rx, s)
        \/ Established(rx, s)
        \/ Ignored(rx, s)
=============================================================================
