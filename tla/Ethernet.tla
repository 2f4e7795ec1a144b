------------------------------ MODULE Ethernet ------------------------------
(***************************************************************************)
(* The Ethernet driver of the web server (userprog-webserver/ethernet.c)   *)
(* and, external, the receive memory of the DM9000 it reads: a queue of    *)
(* frames, each behind a ready mark, a status byte and its length.  The    *)
(* driver takes a frame apart word by word and nothing but its reads moves *)
(* the chip's pointer, so a frame that it gives up on half way stays at    *)
(* the front: the item [part |-> "rest"].                                  *)
(*                                                                         *)
(* What the driver has sent is on the segment at once: toHosts is the set  *)
(* of frames on their way, in no order.                                    *)
(*                                                                         *)
(* Behind it, what the server does with the frames that are not TCP: arp.c,*)
(* icmp.c and the reply header of ip.c.  A frame is a record [dst, src,    *)
(* type, data]; the data of an IP frame is [version, src, dst, proto,      *)
(* body], of an ARP frame [op, senderMac, senderIp, targetMac, targetIp].  *)
(* The body of an ICMP message is the sequence of its bytes; fields no     *)
(* code reads (identification, TTL, header checksum, which the chip fills  *)
(* in) are left out.                                                       *)
(***************************************************************************)
EXTENDS Integers, Sequences

CONSTANTS FifoSize    \* frames the receive memory holds

VARIABLES
  fifo,          \* external: the receive memory of the DM9000
  toServer,      \* external: frames on their way to this machine
  toHosts        \* external: frames on their way from it

ethernetVars == <<fifo, toServer, toHosts>>

\* A host is its number: the last byte of its IPv4 address, and its card.
Server == 233
Broadcast == 255
IP_ADDR(host) == <<192, 168, 1, host>>

\* External: a frame comes in behind its ready mark; with an error status, or without.
Arrive(frame, status) ==
  /\ Len(fifo) < FifoSize
  /\ fifo' = Append(fifo, [part |-> "frame", status |-> status, frame |-> frame])

EthernetInit == fifo = <<>> /\ toServer = {} /\ toHosts = {}

-----------------------------------------------------------------------------
(* ethernet_recv: the two ways it returns something else than "no frame". *)

\* The first byte of the item in front is read without moving the pointer.
\* Behind the mark of a frame it is 1; what is left of a frame starts with
\* the destination, F0 or FF here: no frame, for ever.
Ready == fifo # <<>> /\ Head(fifo).part = "frame"

\* A good frame: status, length and every word are read.
ethernet_recv(frame) ==
  /\ Ready /\ Head(fifo).status = "ok" /\ frame = Head(fifo).frame
  /\ fifo' = Tail(fifo)

\* An error status: the driver has read the status and the length, and returns.
recv_Error ==
  /\ Ready /\ Head(fifo).status = "error"
  /\ fifo' = <<[part |-> "rest"]>> \o Tail(fifo)

\* ethernet_send, the frame built by ethernet_set_tx and the caller.
ethernet_send(frame) == toHosts' = toHosts \cup {frame}
\* ethernet_set_tx and ip_make_reply answer the sender of the frame being handled.
ethernet_set_tx(rx, type, data) ==
  [dst |-> rx.src, src |-> Server, type |-> type, data |-> data]

-----------------------------------------------------------------------------
(* The Internet checksum, in icmp_checksum and at the end of               *)
(* tcp_send_packet: the bytes two by two, most significant first, added up *)
(* in an int; the int folded twice into 16 bits; its complement stored in  *)
(* two bytes.  Verifies is the receiver's test, the definition of the      *)
(* standard and not the program's: the words, their checksum among them,   *)
(* add up to zero modulo 65535.                                            *)

MSB(x) == (x \div 256) % 256
LSB(x) == x % 256

\* int2mem(data, 2, val).
int2mem2(val) == <<MSB(val), LSB(val)>>

\* The word of bytes i and i+1, the second one 0 behind an odd end.
Word(bytes, i) ==
  256 * bytes[i] + (IF i + 1 <= Len(bytes) THEN bytes[i + 1] ELSE 0)

\* The sum of the words that start at the odd places.
SumOfWords(bytes) ==
  LET upTo[n \in 0 .. (Len(bytes) + 1) \div 2] ==
        IF n = 0 THEN 0 ELSE upTo[n - 1] + Word(bytes, 2 * n - 1)
  IN upTo[(Len(bytes) + 1) \div 2]

fold(sum) == (sum \div 65536) + (sum % 65536)

\* ~sum after two folds, of which MSB and LSB keep sixteen bits.
Folded(sum) == 65535 - fold(fold(sum))

\* External: what a receiver checks of the sum of all words of a packet.
Verifies(sum) == sum % 65535 = 0

-----------------------------------------------------------------------------
(* IP: the replies of ip.c, icmp.c and arp.c.                               *)


IP_VERSION_VAL == 69     \* 0x45: version 4, a header of five words

\* The reply goes to whoever sent the frame, from our address whatever the
\* address the frame was sent to.
ip_make_reply(rx, proto, body) ==
  ethernet_set_tx(rx, "IP",
    [version |-> IP_VERSION_VAL, src |-> Server, dst |-> rx.data.src,
     proto |-> proto, body |-> body])

-----------------------------------------------------------------------------
(* ICMP *)

ICMP_TYPE_ECHO_REQUEST == 8
ICMP_TYPE_ECHO_REPLY == 0

icmp_checksum_Stale(bytes) ==    \* mutant: the request's checksum is not cleared before the sum
  int2mem2(Folded(SumOfWords(bytes)))
\* The two checksum bytes are cleared, then the sum is taken.
icmp_checksum(bytes) ==
  int2mem2(Folded(SumOfWords([bytes EXCEPT ![3] = 0, ![4] = 0])))

\* Type, code, checksum; the identifier, the number and the data are copied.
EchoReply(request) ==
  LET buf == <<ICMP_TYPE_ECHO_REPLY, 0>> \o SubSeq(request, 3, Len(request))
      sum == icmp_checksum(buf)
  IN [buf EXCEPT ![3] = sum[1], ![4] = sum[2]]

icmp_handle(rx) ==
  LET data == rx.data.body
  IN IF data[1] # ICMP_TYPE_ECHO_REQUEST
     THEN UNCHANGED toHosts
     ELSE ethernet_send(ip_make_reply(rx, "ICMP", EchoReply(data)))

-----------------------------------------------------------------------------
(* ARP *)

arp_handle_ToUs(rx) ==    \* mutant: answers a request only when the frame is addressed to our card
  IF rx.data.op = "request" /\ rx.data.targetIp = Server /\ rx.dst = Server
  THEN ethernet_send(ethernet_set_tx(rx, "ARP",
         [op |-> "reply", senderMac |-> Server, senderIp |-> Server,
          targetMac |-> rx.data.senderMac, targetIp |-> rx.data.senderIp]))
  ELSE UNCHANGED toHosts
arp_handle(rx) ==
  IF rx.data.op = "request" /\ rx.data.targetIp = Server
  THEN ethernet_send(ethernet_set_tx(rx, "ARP",
         [op |-> "reply", senderMac |-> Server, senderIp |-> Server,
          targetMac |-> rx.data.senderMac, targetIp |-> rx.data.senderIp]))
  ELSE UNCHANGED toHosts
=============================================================================
