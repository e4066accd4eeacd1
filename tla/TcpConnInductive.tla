--------------------------- MODULE TcpConnInductive ---------------------------
(***************************************************************************)
(* The inductive invariant of TcpConn, ConnInv: what the two ends of a     *)
(* connection and the packets between them have to do with one another.    *)
(*                                                                         *)
(* In what follows p and a stand for the pcb and the application of host   *)
(* h, q and b for those of its peer g, and U for the set used.             *)
(***************************************************************************)
EXTENDS TcpConn, TcpStreams

Bit(c) == IF c THEN 1 ELSE 0

(* tcp_slowtmr and tcp_input look for such pcbs; such a pcb has a rcv_nxt. *)
Live(p) == p.state \notin {"CLOSED", "TIME_WAIT"}
Receives(p) == p.state \notin {"CLOSED", "SYN_SENT"}
FinStates == {"FIN_WAIT_1", "FIN_WAIT_2", "CLOSING", "LAST_ACK"}

(* The stream of h: all that its application wrote and closed, and the     *)
(* part of it that was sent at some time.  When the pcb is gone nothing    *)
(* more can be sent, and all may count as sent.                            *)
DataTop(h, a) == ISS[h] + 1 + a.wrote
EndOf(h, a) == DataTop(h, a) + Bit(a.shut)
Whole(h, a) == [base |-> ISS[h], top |-> DataTop(h, a), closed |-> a.shut]

SentTo(h, p, a) == IF Live(p) THEN p.snd_nxt ELSE EndOf(h, a)
FinSent(h, p, a) == SentTo(h, p, a) > DataTop(h, a)
SentPart(h, p, a) ==
  [base   |-> ISS[h],
   top    |-> IF FinSent(h, p, a) THEN DataTop(h, a) ELSE SentTo(h, p, a),
   closed |-> FinSent(h, p, a)]

-----------------------------------------------------------------------------
(* The send queues.                                                        *)

(* A segment of the send queues: the SYN, or a part of the stream.         *)
SynSeg(w) == NewSeg(w.base, TRUE, FALSE, << >>)
SegOK(w, s) ==
  \/ s = SynSeg(w)
  \/ OfStream(w, s) /\ TCP_TCPLEN(s) > 0 /\ Len(s.data) <= TCP_MSS

(* Each segment ends where the next one starts, the last one at y.         *)
Linked(w, q, y) ==
  /\ q \in Seq(Segment)
  /\ \A j \in 1 .. Len(q) :
       /\ SegOK(w, q[j])
       /\ EndSeq(q[j]) = IF j = Len(q) THEN y ELSE q[j + 1].seq

First(q, y) == IF q = << >> THEN y ELSE q[1].seq

(* unacked and unsent hold, without a gap, all from lastack to the end.    *)
Sending(w, una, uns, nxt, ack) ==
  LET end == w.top + Bit(w.closed)
      mid == First(uns, end)
  IN /\ Linked(w, una, mid) /\ Linked(w, uns, end)
     /\ First(una, mid) <= ack
     /\ una # << >> => ack < EndSeq(una[1]) /\ mid <= nxt
     /\ una = << >> /\ uns # << >> => ack < EndSeq(uns[1])
     /\ w.base <= ack /\ ack <= nxt /\ nxt <= end

SndInv(p, w) ==
  /\ Sending(w, p.unacked, p.unsent, p.snd_nxt, p.lastack)
  /\ ~w.closed => p.snd_lbb = w.top

-----------------------------------------------------------------------------
(* The receiving side: what the application got and what it refused are    *)
(* the stream from its start, and rcv_nxt is the next number.              *)
Counting(d, k) == \A n \in 1 .. Len(d) : d[n] = k + n

Got(p, a) == Len(a.rcvd) + Len(p.refused)
GotFin(p, a) == a.eof \/ p.refusedfin

RcvInv(p, a, st) ==
  /\ Counting(a.rcvd, 0) /\ Counting(p.refused, Len(a.rcvd))
  /\ p.rcv_nxt = st.base + 1 + Got(p, a) + Bit(GotFin(p, a))
  /\ st.base + 1 + Got(p, a) <= st.top
  /\ GotFin(p, a) => st.closed /\ st.base + 1 + Got(p, a) = st.top
  /\ StreamQueue(st, p.ooseq) /\ Beyond(p.ooseq, p.rcv_nxt)
  /\ p.refusedfin => p.refused # << >>
  /\ p.state \in {"SYN_RCVD", "ESTABLISHED", "FIN_WAIT_1", "FIN_WAIT_2"} => ~GotFin(p, a)

-----------------------------------------------------------------------------
(* One end.                                                                *)
Unused(p, a) ==
  /\ p = NoPcb
  /\ ~a.open /\ ~a.shut /\ a.wrote = 0 /\ a.rcvd = << >> /\ ~a.eof

Connecting(h, p, a) ==
  /\ h = "client" /\ p.lastack = ISS[h] /\ p.snd_nxt > ISS[h]
  /\ a.rcvd = << >> /\ ~a.eof /\ p.refused = << >> /\ ~p.refusedfin
  /\ p.ooseq = << >> /\ p.ack = {} /\ p.unread = 0

Accepting(h, p, a) ==
  h = "server" /\ p.lastack = ISS[h] /\ a.wrote = 0 /\ ~a.open

HostInv(h, p, a, U) ==
  /\ h \notin U => Unused(p, a)
  /\ Live(p) => SndInv(p, Whole(h, a)) /\ (a.shut <=> p.state \in FinStates)
  /\ ~Live(p) => p.unsent = << >> /\ p.unacked = << >>
  /\ p.state = "SYN_SENT" => Connecting(h, p, a)
  /\ p.state = "SYN_RCVD" => Accepting(h, p, a)
  /\ Receives(p) => Peer(h) \in U

(* One end and its peer: h has received what g has sent, and at least what *)
(* g takes for acknowledged.                                               *)
FinDone(q, b) == q.state = "FIN_WAIT_2" \/ (q.state = "TIME_WAIT" /\ b.shut)

HeardOf(p, g, q, b) ==
  /\ Live(q) => q.lastack <= p.rcv_nxt
  /\ p.rcv_nxt <= SentTo(g, q, b)
  /\ FinDone(q, b) => p.rcv_nxt = EndOf(g, b)

AppInv(a, b) ==
  /\ Counting(a.rcvd, 0) /\ Len(a.rcvd) <= b.wrote
  /\ a.eof => b.shut /\ Len(a.rcvd) = b.wrote

Handshaken(p, q) ==
  p.state \notin {"CLOSED", "SYN_SENT", "SYN_RCVD"} => q.state # "SYN_SENT"

PairInv(p, a, g, q, b) ==
  /\ Live(p) /\ Receives(p) => RcvInv(p, a, SentPart(g, q, b))
  /\ Receives(p) => HeardOf(p, g, q, b)
  /\ AppInv(a, b)
  /\ Handshaken(p, q)

(* A packet of g.                                                          *)
PacketInv(g, q, b, U, i) ==
  /\ g \in U
  /\ i.syn => i.seq = ISS[g] /\ i.data = << >> /\ ~i.fin /\ i.seq + 1 <= SentTo(g, q, b)
  /\ ~i.syn /\ tcplen(i) > 0 => OfStream(SentPart(g, q, b), SegOf(i))
  /\ i.ack => q.state # "SYN_SENT" /\ (Receives(q) => i.ackno <= q.rcv_nxt)

PacketsInv(g, q, b, U, N) == \A i \in N : i.rst \/ PacketInv(g, q, b, U, i)

ConnInv ==
  /\ TypeOK /\ budget["neterr"] = 0
  /\ \A h \in Hosts :
       /\ HostInv(h, pcb[h], app[h], used)
       /\ PairInv(pcb[h], app[h], Peer(h), pcb[Peer(h)], app[Peer(h)])
       /\ PacketsInv(h, pcb[h], app[h], used, net[Peer(h)])
===============================================================================
