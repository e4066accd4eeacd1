------------------------------- MODULE TcpPcb --------------------------------
(***************************************************************************)
(* A TCP protocol control block (struct tcp_pcb) and the functions of      *)
(* tcp.c, tcp_in.c and tcp_out.c on it.  A function of the code becomes an *)
(* operator from a pcb (and the packet received) to the pcb it leaves and  *)
(* the packets it sends.                                                   *)
(*                                                                         *)
(* Left to choice: how many unsent segments fit min(snd_wnd, cwnd), when   *)
(* Nagle's algorithm is on, when the timers (rto, tmr) run out.  Left out: *)
(* windows that close or change (the data is less than TCP_WND and         *)
(* TCP_SND_BUF), allocation failures, keepalive, options; and callbacks    *)
(* that call the API themselves: such a call is a step of its own.         *)
(***************************************************************************)
EXTENDS TcpSegs

CONSTANT DUPACKS    \* duplicate ACKs that start a fast retransmit (3)
ASSUME DupacksAssumption == DUPACKS \in Nat \ {0}

(* struct tcp_pcb: rtime says whether the retransmission timer runs        *)
(* (rtime >= 0), ack holds the flags TF_ACK_DELAY and TF_ACK_NOW, unread   *)
(* is TCP_WND - rcv_wnd, refused and refusedfin are refused_data and its   *)
(* PBUF_FLAG_TCP_FIN.                                                      *)
States == {"CLOSED", "SYN_SENT", "SYN_RCVD", "ESTABLISHED", "FIN_WAIT_1",
           "FIN_WAIT_2", "CLOSE_WAIT", "CLOSING", "LAST_ACK", "TIME_WAIT"}

Pcb == [state : States, snd_nxt : Nat, lastack : Nat, snd_lbb : Nat,
        unsent : Seq(Segment), unacked : Seq(Segment),
        rcv_nxt : Nat, ooseq : Seq(Segment), unread : Nat,
        refused : Seq(Nat), refusedfin : BOOLEAN,
        rtime : BOOLEAN, nrtx : 0 .. 255, dupacks : Nat, infr : BOOLEAN,
        ack : SUBSET {"DELAY", "NOW"}, rxclosed : BOOLEAN]

(* What a pcb sends: a TCP header and its data.                            *)
Packet == [seq : Nat, ackno : Nat, ack : BOOLEAN, syn : BOOLEAN, fin : BOOLEAN,
           rst : BOOLEAN, data : Seq(Nat)]

NoPcb ==
  [state |-> "CLOSED", snd_nxt |-> 0, lastack |-> 0, snd_lbb |-> 0,
   unsent |-> << >>, unacked |-> << >>, rcv_nxt |-> 0, ooseq |-> << >>,
   unread |-> 0, refused |-> << >>, refusedfin |-> FALSE,
   rtime |-> FALSE, nrtx |-> 0, dupacks |-> 0, infr |-> FALSE,
   ack |-> {}, rxclosed |-> FALSE]

(* Width of nrtx.                                                          *)
u8(n) == n % 256

tcplen(i) == TCP_TCPLEN(i)

(* tcp_rst: a packet with RST and ACK.                                     *)
tcp_rst(seqno, ackno) ==
  [seq |-> seqno, ackno |-> ackno, ack |-> TRUE, syn |-> FALSE, fin |-> FALSE,
   rst |-> TRUE, data |-> << >>]

(* The answer to a packet that fits no connection.                         *)
RstFor(i) == tcp_rst(i.ackno, i.seq + tcplen(i))

(* The packet tcp_send_empty_ack sends.                                    *)
EmptyAck(p) ==
  [seq |-> p.snd_nxt, ackno |-> p.rcv_nxt, ack |-> TRUE, syn |-> FALSE,
   fin |-> FALSE, rst |-> FALSE, data |-> << >>]

(* tcp_output_segment.                                                     *)
PacketOf(p, s) ==
  [seq |-> s.seq, ackno |-> p.rcv_nxt, ack |-> p.state # "SYN_SENT",
   syn |-> s.syn, fin |-> s.fin, rst |-> FALSE, data |-> s.data]

(* tcp_ack: every second segment is acknowledged at once.                  *)
tcp_ack(p) ==
  [p EXCEPT !.ack = IF "DELAY" \in @ THEN {"NOW"} ELSE @ \cup {"DELAY"}]

tcp_ack_now(p) == [p EXCEPT !.ack = @ \cup {"NOW"}]

-----------------------------------------------------------------------------
(* tcp_output: the result is a set, for the choices left open, of the pcb  *)
(* left and the packets sent.                                              *)

(* Mutant: sending a segment does not start the retransmission timer.      *)
SendOne_NoTimer(p) ==
  LET s == Head(p.unsent)
  IN [p EXCEPT !.unsent = Tail(@),
               !.unacked = InsertSorted(@, s),
               !.snd_nxt = IF @ < EndSeq(s) THEN EndSeq(s) ELSE @,
               !.ack = IF p.state = "SYN_SENT" THEN @ ELSE {}]

(* One turn of the loop: the timer starts, snd_nxt follows the segment,    *)
(* which goes to its place in unacked; it carries the ACK.                 *)
SendOne(p) ==
  LET s == Head(p.unsent)
  IN [p EXCEPT !.unsent = Tail(@),
               !.unacked = InsertSorted(@, s),
               !.snd_nxt = IF @ < EndSeq(s) THEN EndSeq(s) ELSE @,
               !.rtime = TRUE,
               !.ack = IF p.state = "SYN_SENT" THEN @ ELSE {}]

(* A call sends two segments at most (TCP_SND_BUF holds two full ones).    *)
Burst(p, n) ==
  [p   |-> CASE n = 0 -> p [] n = 1 -> SendOne(p) [] n = 2 -> SendOne(SendOne(p)),
   out |-> {PacketOf(p, p.unsent[j]) : j \in 1 .. n}]

(* Nothing older is outstanding: the first unsent segment fits the window. *)
MustSend(p) ==
  /\ p.unsent # << >>
  /\ p.unacked = << >> \/ Head(p.unsent).seq < Head(p.unacked).seq

(* Nagle: a lone short segment waits for outstanding data, FINs excepted.  *)
NagleHolds(p) ==
  /\ p.unacked # << >> /\ Len(p.unsent) = 1
  /\ Len(Head(p.unsent).data) < TCP_MSS
  /\ ~p.infr
  /\ p.state \in {"SYN_SENT", "SYN_RCVD", "ESTABLISHED", "CLOSE_WAIT"}

tcp_send_empty_ack(p) == [p |-> [p EXCEPT !.ack = {}], out |-> {EmptyAck(p)}]

Quiet(p) == [p |-> p, out |-> {}]

(* In SYN_SENT the initial cwnd of 1 lets only the SYN pass, until a        *)
(* timeout sets cwnd to one segment.                                       *)
Fits(p, n) ==
  p.state = "SYN_SENT" /\ p.nrtx = 0 => n = 1 /\ Head(p.unsent).syn

tcp_output(p) ==
  {Burst(p, n) : n \in {m \in 1 .. 2 : m <= Len(p.unsent) /\ Fits(p, m)}}
    \cup (IF MustSend(p) THEN {}
          ELSE {IF "NOW" \in p.ack THEN tcp_send_empty_ack(p) ELSE Quiet(p)})
    \cup (IF NagleHolds(p) THEN {Quiet(p)} ELSE {})

(* tcp_output when there is no route, or when ip_output_if returns an      *)
(* error: the segment stays unsent, with the timer running; an empty ACK   *)
(* stays pending.                                                          *)
tcp_output_err(p) ==
  {[Burst(p, n) EXCEPT !.p.rtime = TRUE] :
     n \in {m \in 0 .. 1 : m < Len(p.unsent) /\ Fits(p, m + 1)}}
    \cup (IF p.unsent # << >> THEN {Quiet(p)} ELSE {})
    \cup (IF MustSend(p) \/ "NOW" \notin p.ack THEN {}
          ELSE {Quiet([p EXCEPT !.ack = {"DELAY", "NOW"}])})

(* Mutant: retransmitted segments are queued behind the unsent ones.       *)
tcp_rexmit_rto_Behind(p) ==
  IF p.unacked = << >> THEN p
  ELSE [p EXCEPT !.unsent = @ \o p.unacked, !.unacked = << >>, !.nrtx = u8(@ + 1)]

(* Retransmission.                                                         *)
tcp_rexmit_rto(p) ==
  IF p.unacked = << >> THEN p
  ELSE [p EXCEPT !.unsent = p.unacked \o @, !.unacked = << >>, !.nrtx = u8(@ + 1)]

tcp_rexmit(p) ==
  IF p.unacked = << >> THEN p
  ELSE [p EXCEPT !.unsent = InsertSorted(@, Head(p.unacked)),
                 !.unacked = Tail(@), !.nrtx = u8(@ + 1)]

tcp_rexmit_fast(p) ==
  IF p.unacked = << >> \/ p.infr THEN p
  ELSE [tcp_rexmit(p) EXCEPT !.infr = TRUE, !.rtime = TRUE]

-----------------------------------------------------------------------------
(* Queueing data and flags.                                                *)
tcp_enqueue_flags(p, syn) ==
  [p EXCEPT !.unsent = Append(@, NewSeg(p.snd_lbb, syn, ~syn, << >>)),
            !.snd_lbb = @ + 1]

(* The FIN goes on the last unsent segment if it bears no flag yet.        *)
tcp_send_fin(p) ==
  LET n == Len(p.unsent)
  IN IF n > 0 /\ ~Last(p.unsent).syn /\ ~Last(p.unsent).fin
     THEN [p EXCEPT !.unsent[n].fin = TRUE]
     ELSE tcp_enqueue_flags(p, FALSE)

(* tcp_write of at most TCP_MSS units: first fill the last unsent segment, *)
(* then make a new one for the rest.                                       *)
tcp_write(p, d) ==
  LET n     == Len(p.unsent)
      space == IF n > 0 /\ Last(p.unsent).data # << >>
               THEN TCP_MSS - Len(Last(p.unsent).data) ELSE 0
      pos   == Min({space, Len(d)})
      filled == IF pos = 0 THEN p.unsent
                ELSE [p.unsent EXCEPT ![n].data = @ \o SubSeq(d, 1, pos)]
      rest  == SubSeq(d, pos + 1, Len(d))
  IN [p EXCEPT !.unsent = IF rest = << >> THEN filled
                          ELSE Append(filled, NewSeg(p.snd_lbb + pos, FALSE, FALSE, rest)),
               !.snd_lbb = @ + Len(d)]

tcp_write_ok(p) ==
  p.state \in {"ESTABLISHED", "CLOSE_WAIT", "SYN_SENT", "SYN_RCVD"}

(* tcp_pcb_purge.                                                          *)
tcp_pcb_purge(p) ==
  [p EXCEPT !.unsent = << >>, !.unacked = << >>, !.ooseq = << >>,
            !.refused = << >>, !.refusedfin = FALSE, !.rtime = FALSE]

-----------------------------------------------------------------------------
(* tcp_receive, the acknowledgment.  More duplicate ACKs than DUPACKS only *)
(* matter to cwnd: they are counted once.                                  *)
DupAck(p, i) == i.ackno = p.lastack /\ tcplen(i) = 0 /\ p.rtime

OldAck(p, i) ==
  LET n == IF DupAck(p, i) THEN Min({p.dupacks + 1, DUPACKS + 1}) ELSE 0
      q == [p EXCEPT !.dupacks = n]
  IN IF n = DUPACKS THEN tcp_rexmit_fast(q) ELSE q

(* Mutant: the timer stops although segments are outstanding.              *)
NewAck_StopTimer(p, ackno) ==
  LET rest == From(p.unacked, AckedPrefix(p.unacked, ackno))
  IN [p EXCEPT !.infr = FALSE, !.nrtx = 0, !.dupacks = 0, !.lastack = ackno,
               !.unacked = rest, !.rtime = FALSE]

NewAck(p, ackno) ==
  LET rest == From(p.unacked, AckedPrefix(p.unacked, ackno))
  IN [p EXCEPT !.infr = FALSE, !.nrtx = 0, !.dupacks = 0, !.lastack = ackno,
               !.unacked = rest, !.rtime = rest # << >>]

ReceiveAck(p, i) ==
  LET p1 == IF i.ackno <= p.lastack THEN OldAck(p, i)
            ELSE IF i.ackno <= p.snd_nxt THEN NewAck(p, i.ackno)
            ELSE [p EXCEPT !.ack = {}]
  IN IF i.ackno <= p1.snd_nxt
     THEN [p1 EXCEPT !.unsent = From(@, AckedPrefix(@, i.ackno))] ELSE p1

(* An ACK of something not yet sent is answered at once.                   *)
AckAnswer(p, i) == IF i.ackno > p.snd_nxt THEN {EmptyAck(p)} ELSE {}

(* tcp_receive, the data: what is delivered (recv_data, TF_GOT_FIN), what  *)
(* is kept out of sequence, what is acknowledged.                          *)
Nothing(p) == [p |-> p, out |-> {}, data |-> << >>, fin |-> FALSE]

(* Mutant: a FIN is counted twice.                                         *)
InSequence_FinTwice(p, s) ==
  LET next == EndSeq(s) + (IF s.fin THEN 1 ELSE 0)
  IN [p    |-> tcp_ack([p EXCEPT !.rcv_nxt = next, !.unread = @ + (next - p.rcv_nxt)]),
      out  |-> {}, data |-> s.data, fin |-> s.fin]

(* A run of segments up to next is delivered; left stays in ooseq.         *)
DeliverRun(p, run, next, left) ==
  [p    |-> tcp_ack([p EXCEPT !.rcv_nxt = next, !.ooseq = left,
                              !.unread = @ + (next - p.rcv_nxt)]),
   out  |-> {},
   data |-> DataOf(run),
   fin  |-> \E j \in DOMAIN run : run[j].fin]

(* seg closes a gap: what follows it in ooseq is delivered with it.        *)
CloseGap(p, seg, rest, n) ==
  DeliverRun(p, <<seg>> \o SubSeq(rest, 1, n),
             EndSeq(IF n = 0 THEN seg ELSE rest[n]), From(rest, n))

InSequence(p, s) ==
  LET seg  == InSeqSeg(p.ooseq, s)
      rest == InSeqRest(p.ooseq, s)
  IN CloseGap(p, seg, rest, Drained(rest, EndSeq(seg)))

(* Mutant: a segment received before is taken for the next in sequence.    *)
ReceiveData_Again(p, i) ==
  LET s == NewSeg(i.seq, FALSE, i.fin, i.data)
  IN IF tcplen(i) = 0 \/ p.state \notin {"ESTABLISHED", "FIN_WAIT_1", "FIN_WAIT_2"}
     THEN Nothing(p)
     ELSE IF s.seq <= p.rcv_nxt THEN InSequence(p, s) ELSE Nothing(p)

ReceiveData(p, i) ==
  LET s == TrimFront(NewSeg(i.seq, FALSE, i.fin, i.data), p.rcv_nxt)
  IN IF tcplen(i) = 0 \/ p.state \notin {"ESTABLISHED", "FIN_WAIT_1", "FIN_WAIT_2"}
     THEN Nothing(IF i.seq < p.rcv_nxt THEN tcp_ack_now(p) ELSE p)
     ELSE IF s.seq = p.rcv_nxt THEN InSequence(p, s)
     ELSE [Nothing(IF s.seq < p.rcv_nxt THEN [p EXCEPT !.ack = {}]
                   ELSE [p EXCEPT !.ack = {}, !.ooseq = OosInsert(@, s)])
           EXCEPT !.out = {EmptyAck(p)}]

tcp_receive(p, i) ==
  IF i.ack
  THEN LET r == ReceiveData(ReceiveAck(p, i), i)
       IN [r EXCEPT !.out = @ \cup AckAnswer(p, i)]
  ELSE ReceiveData(p, i)

-----------------------------------------------------------------------------
(* tcp_process: the result of tcp_receive with the state left and with ev, *)
(* what tcp_input has to do next (TF_RESET, TF_CLOSED, ERR_ABRT).          *)
With(r, ev) == [p |-> r.p, out |-> r.out, data |-> r.data, fin |-> r.fin, ev |-> ev]

Keep(p) == With(Nothing(p), "none")
Answer(p, out) == [Keep(p) EXCEPT !.out = out]

(* Mutant: an old ACK counts for the FIN.                                  *)
FinAcked_OldAck(p, i) == i.ack /\ i.ackno <= p.snd_nxt /\ p.unsent = << >>

(* The FIN has been sent and is acknowledged by this packet.               *)
FinAcked(p, i) == i.ack /\ i.ackno = p.snd_nxt /\ p.unsent = << >>

ProcessRst(p, i) ==
  IF IF p.state = "SYN_SENT" THEN i.ackno = p.snd_nxt ELSE i.seq = p.rcv_nxt
  THEN With(Nothing([p EXCEPT !.ack = @ \ {"DELAY"}]), "reset")
  ELSE Keep(IF p.state # "SYN_SENT" /\ i.seq > p.rcv_nxt THEN tcp_ack_now(p) ELSE p)

ProcessSynSent(p, i) ==
  IF i.ack /\ i.syn /\ i.ackno = p.lastack + 1
  THEN LET q == IF p.unacked = << >> THEN [p EXCEPT !.unsent = Tail(@)]
                ELSE [p EXCEPT !.unacked = Tail(@)]
       IN Keep(tcp_ack_now(
            [q EXCEPT !.state = "ESTABLISHED", !.rcv_nxt = i.seq + 1,
                      !.lastack = i.ackno, !.rtime = q.unacked # << >>,
                      !.nrtx = IF q.unacked = << >> THEN @ ELSE 0]))
  ELSE IF i.ack THEN Answer(tcp_rexmit_rto([p EXCEPT !.rtime = TRUE]), {RstFor(i)})
  ELSE Keep(p)

(* Mutant: any packet that acknowledges nothing new opens the connection.  *)
ProcessSynRcvd_AnyAck(p, i, acceptfails) ==
  IF i.ackno <= p.snd_nxt
  THEN With(tcp_receive([p EXCEPT !.state = "ESTABLISHED"], i), "none")
  ELSE Answer(p, {RstFor(i)})

(* The handshake is over; a FIN may have come with its last packet.        *)
Accepted(r) ==
  With(IF r.fin THEN [r EXCEPT !.p = tcp_ack_now([r.p EXCEPT !.state = "CLOSE_WAIT"])]
       ELSE r, "none")

ProcessSynRcvd(p, i, acceptfails) ==
  IF i.ack
  THEN IF p.lastack < i.ackno /\ i.ackno <= p.snd_nxt
       THEN IF acceptfails
            THEN With([Nothing(p) EXCEPT !.out = {tcp_rst(p.snd_nxt, p.rcv_nxt)}], "abort")
            ELSE Accepted(tcp_receive([p EXCEPT !.state = "ESTABLISHED"], i))
       ELSE Answer(p, {RstFor(i)})
  ELSE Keep(IF i.syn /\ i.seq + 1 = p.rcv_nxt THEN tcp_rexmit(p) ELSE p)

(* The states from ESTABLISHED on: what the packet makes of the state.     *)
NextState(r, i) ==
  CASE r.p.state = "FIN_WAIT_1" /\ r.fin /\ FinAcked(r.p, i)  -> "TIME_WAIT"
    [] r.p.state = "FIN_WAIT_1" /\ r.fin /\ ~FinAcked(r.p, i) -> "CLOSING"
    [] r.p.state = "FIN_WAIT_1" /\ ~r.fin /\ FinAcked(r.p, i) -> "FIN_WAIT_2"
    [] r.p.state = "FIN_WAIT_2" /\ r.fin                      -> "TIME_WAIT"
    [] r.p.state = "CLOSING" /\ FinAcked(r.p, i)              -> "TIME_WAIT"
    [] r.p.state \in {"ESTABLISHED", "CLOSE_WAIT"} /\ r.fin   -> "CLOSE_WAIT"
    [] OTHER                                                  -> r.p.state

Received(r, i, next) ==
  LET q    == IF r.fin THEN tcp_ack_now(r.p) ELSE r.p
      left == IF next = "TIME_WAIT" THEN tcp_pcb_purge(q) ELSE q
  IN With([r EXCEPT !.p = [left EXCEPT !.state = next]],
          IF r.p.state = "LAST_ACK" /\ FinAcked(r.p, i) THEN "closed" ELSE "none")

StateChange(r, i) == Received(r, i, NextState(r, i))

ProcessSynced(p, i) == StateChange(tcp_receive(p, i), i)

tcp_process(p, i, acceptfails) ==
  IF i.rst THEN ProcessRst(p, i)
  ELSE IF i.syn /\ p.state \notin {"SYN_SENT", "SYN_RCVD"} THEN Keep(tcp_ack_now(p))
  ELSE IF p.state = "SYN_SENT" THEN ProcessSynSent(p, i)
  ELSE IF p.state = "SYN_RCVD" THEN ProcessSynRcvd(p, i, acceptfails)
  ELSE ProcessSynced(p, i)

-----------------------------------------------------------------------------
(* tcp_connect and tcp_listen_input set up a pcb and queue its SYN; iss is *)
(* the sequence number of the SYN.                                         *)
tcp_connect(iss) ==
  tcp_enqueue_flags(
    [NoPcb EXCEPT !.state = "SYN_SENT", !.snd_nxt = iss + 1,
                  !.lastack = iss, !.snd_lbb = iss], TRUE)

tcp_listen_input(iss, i) ==
  tcp_enqueue_flags(
    [NoPcb EXCEPT !.state = "SYN_RCVD", !.snd_nxt = iss, !.lastack = iss,
                  !.snd_lbb = iss, !.rcv_nxt = i.seq + 1], TRUE)

(* tcp_close_shutdown: unread data makes tcp_close send a RST.             *)
RstOnClose(p) ==
  p.state \in {"ESTABLISHED", "CLOSE_WAIT"} /\ (p.refused # << >> \/ p.unread > 0)

SendFin(p) ==
  [tcp_send_fin(p) EXCEPT
     !.state = IF p.state = "CLOSE_WAIT" THEN "LAST_ACK" ELSE "FIN_WAIT_1"]
=============================================================================
