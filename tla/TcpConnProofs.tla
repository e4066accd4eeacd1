---------------------------- MODULE TcpConnProofs ----------------------------
(***************************************************************************)
(* Proofs about TcpConn, for every MSS, number of duplicate ACKs,          *)
(* retransmission limit, amount of data and number of faults.              *)
(*                                                                         *)
(* First that segments in flight always have the retransmission timer      *)
(* running.  Good(p) is what every function of TcpPcb keeps: a pcb with    *)
(* its fields whose timer runs while unacked is not empty, in TIME_WAIT    *)
(* too.                                                                    *)
(*                                                                         *)
(* Then, where ip_output_if does not fail (OutputSucceeds), that the two   *)
(* ends agree: ConnInv of TcpConnInductive is kept by every action, and    *)
(* the safety properties follow from it.  One lemma for each function of   *)
(* TcpPcb says what it does to the send queues and to what was received;   *)
(* MidOK(h, m, a, U) is what an action of host h has reached before its    *)
(* tcp_output, StepOK what it has to leave, and HostStep shows that the    *)
(* other end and the packets on their way then stay right.                 *)
(*                                                                         *)
(* TcpReassProofs is extended for its lemmas about tcp_receive and ooseq.  *)
(***************************************************************************)
EXTENDS TcpConnInductive, TcpReassProofs

Fields == DOMAIN NoPcb
IsPcb(p) == p = [f \in Fields |-> p[f]]
Good(p) == IsPcb(p) /\ (p.unacked # << >> => p.rtime)

(* The fields of struct tcp_pcb that the model keeps.                      *)
LEMMA FieldsOfPcb ==
  Fields = {"state", "snd_nxt", "lastack", "snd_lbb", "unsent", "unacked",
            "rcv_nxt", "ooseq", "unread", "refused", "refusedfin", "rtime",
            "nrtx", "dupacks", "infr", "ack", "rxclosed"}
  BY DEF Fields, NoPcb

(* A pcb that does not exist has nothing in flight.                        *)
LEMMA NoPcbGood == Good(NoPcb)
  BY FieldsOfPcb DEF Good, IsPcb, NoPcb

(* tcp_ack and tcp_ack_now touch the ACK flags only.                       *)
LEMMA AckGood ==
  ASSUME NEW p, Good(p)
  PROVE  Good(tcp_ack(p)) /\ Good(tcp_ack_now(p))
  BY FieldsOfPcb DEF Good, IsPcb, tcp_ack, tcp_ack_now

(* Sending a segment starts the timer, whatever it was before.             *)
LEMMA SendOneGood ==
  ASSUME NEW p, IsPcb(p)
  PROVE  Good(SendOne(p))
  BY FieldsOfPcb DEF Good, IsPcb, SendOne

(* tcp_output and its error path: SendOne starts the timer, an error sets  *)
(* it, and otherwise the queue unacked does not change.                    *)
LEMMA BurstGood ==
  ASSUME NEW p, Good(p), NEW n \in 0 .. 2
  PROVE  Good(Burst(p, n).p)
<1>1. IsPcb(SendOne(p)) /\ Good(SendOne(p))
  BY SendOneGood DEF Good
<1>2. Good(SendOne(SendOne(p)))
  BY <1>1, SendOneGood
<1>3. n = 0 \/ n = 1 \/ n = 2
  OBVIOUS
<1> QED
  BY <1>1, <1>2, <1>3 DEF Burst

(* tcp_output: a burst, an empty ACK, or nothing.                          *)
LEMMA OutputGood ==
  ASSUME NEW p, Good(p), NEW o \in tcp_output(p)
  PROVE  Good(o.p)
<1>1. CASE \E n \in 1 .. 2 : o = Burst(p, n)
  <2>1. PICK n \in 1 .. 2 : o = Burst(p, n)
    BY <1>1
  <2>2. n \in 0 .. 2
    OBVIOUS
  <2>3. Good(Burst(p, n).p)
    BY <2>2, BurstGood, Zenon
  <2> QED
    BY <2>1, <2>3
<1>2. CASE o = tcp_send_empty_ack(p)
  BY <1>2, FieldsOfPcb DEF Good, IsPcb, tcp_send_empty_ack
<1>3. CASE o = Quiet(p)
  BY <1>3 DEF Quiet
<1>4. \/ o \in {Burst(p, n) : n \in {m \in 1 .. 2 : m <= Len(p.unsent) /\ Fits(p, m)}}
      \/ o \in {tcp_send_empty_ack(p), Quiet(p)}
  BY DEF tcp_output
<1> QED
  BY <1>1, <1>2, <1>3, <1>4

(* tcp_output when ip_output_if fails or there is no route.                *)
LEMMA ErrorGood ==
  ASSUME NEW p, Good(p), NEW o \in tcp_output_err(p)
  PROVE  Good(o.p)
<1>1. CASE \E n \in 0 .. 1 : o = [Burst(p, n) EXCEPT !.p.rtime = TRUE]
  <2>1. PICK n \in 0 .. 1 : o = [Burst(p, n) EXCEPT !.p.rtime = TRUE]
    BY <1>1
  <2>2. Good(Burst(p, n).p)
    <3>1. n \in 0 .. 2
      OBVIOUS
    <3> QED
      BY <3>1, BurstGood, Zenon
  <2>3. o.p = [Burst(p, n).p EXCEPT !.rtime = TRUE]
    <3> DEFINE b == Burst(p, n)
    <3>1. "p" \in DOMAIN b
      BY DEF Burst
    <3> HIDE DEF b
    <3>2. [b EXCEPT !.p.rtime = TRUE].p = [b.p EXCEPT !.rtime = TRUE]
      BY <3>1
    <3> QED
      BY <2>1, <3>2 DEF b
  <2> QED
    BY <2>2, <2>3, FieldsOfPcb DEF Good, IsPcb
<1>2. CASE o = Quiet(p)
  BY <1>2 DEF Quiet
<1>3. CASE o = Quiet([p EXCEPT !.ack = {"DELAY", "NOW"}])
  BY <1>3, FieldsOfPcb DEF Quiet, Good, IsPcb
<1> QED
  BY <1>1, <1>2, <1>3 DEF tcp_output_err

(* Both together.                                                          *)
LEMMA AnyOutputGood ==
  ASSUME NEW p, Good(p), NEW F, NEW o \in Output(p, F)
  PROVE  Good(o.p)
  BY OutputGood, ErrorGood DEF Output

(* Retransmission empties unacked, or shortens it with the timer set.      *)
LEMMA RexmitGood ==
  ASSUME NEW p, Good(p)
  PROVE  Good(tcp_rexmit_rto(p)) /\ Good(tcp_rexmit(p)) /\ Good(tcp_rexmit_fast(p))
<1>1. Good(tcp_rexmit_rto(p))
  BY FieldsOfPcb DEF Good, IsPcb, tcp_rexmit_rto
<1>2. Good(tcp_rexmit(p))
  BY FieldsOfPcb DEF Good, IsPcb, tcp_rexmit
<1>3. Good(tcp_rexmit_fast(p))
  BY <1>2, FieldsOfPcb DEF Good, IsPcb, tcp_rexmit_fast
<1> QED
  BY <1>1, <1>2, <1>3

(* Queueing touches unsent only; purging empties unacked.                  *)
LEMMA QueueGood ==
  ASSUME NEW p, Good(p), NEW d, NEW syn
  PROVE  /\ Good(tcp_enqueue_flags(p, syn))
         /\ Good(SendFin(p))
         /\ Good(tcp_write(p, d))
         /\ Good(tcp_pcb_purge(p))
<1>1. Good(tcp_enqueue_flags(p, syn)) /\ Good(tcp_enqueue_flags(p, FALSE))
  BY FieldsOfPcb DEF Good, IsPcb, tcp_enqueue_flags
<1>2. Good(tcp_send_fin(p))
  BY <1>1, FieldsOfPcb DEF Good, IsPcb, tcp_send_fin
<1>3. Good(SendFin(p))
  BY <1>2, FieldsOfPcb DEF Good, IsPcb, SendFin
<1>4. Good(tcp_write(p, d))
  BY FieldsOfPcb DEF Good, IsPcb, tcp_write
<1>5. Good(tcp_pcb_purge(p))
  BY FieldsOfPcb DEF Good, IsPcb, tcp_pcb_purge
<1> QED
  BY <1>1, <1>3, <1>4, <1>5

(* An acknowledgment stops the timer only when nothing is outstanding.     *)
LEMMA ReceiveAckGood ==
  ASSUME NEW p, Good(p), NEW i
  PROVE  Good(ReceiveAck(p, i))
<1>1. Good(OldAck(p, i))
  <2> DEFINE n == IF DupAck(p, i) THEN Min({p.dupacks + 1, DUPACKS + 1}) ELSE 0
             q == [p EXCEPT !.dupacks = n]
  <2>1. Good(q)
    BY FieldsOfPcb DEF Good, IsPcb
  <2>2. Good(tcp_rexmit_fast(q))
    BY <2>1, RexmitGood
  <2> QED
    BY <2>1, <2>2 DEF OldAck
<1>2. Good(NewAck(p, i.ackno))
  BY FieldsOfPcb DEF Good, IsPcb, NewAck
<1>3. Good([p EXCEPT !.ack = {}])
  BY FieldsOfPcb DEF Good, IsPcb
<1> DEFINE p1 == IF i.ackno <= p.lastack THEN OldAck(p, i)
                 ELSE IF i.ackno <= p.snd_nxt THEN NewAck(p, i.ackno)
                 ELSE [p EXCEPT !.ack = {}]
<1>4. Good(p1)
  BY <1>1, <1>2, <1>3
<1>5. Good([p1 EXCEPT !.unsent = From(@, AckedPrefix(@, i.ackno))])
  <2> HIDE DEF p1
  <2> QED
    BY <1>4, FieldsOfPcb DEF Good, IsPcb
<1> QED
  BY <1>4, <1>5 DEF ReceiveAck

(* The results of tcp_receive and tcp_process are records with a pcb.      *)
ResultFields == {"p", "out", "data", "fin"}
IsResult(r) == r = [f \in ResultFields |-> r[f]]

(* The data part of tcp_receive changes what was received and the ACK      *)
(* flags only.                                                             *)
LEMMA ReceiveDataGood ==
  ASSUME NEW p, Good(p), NEW i
  PROVE  Good(ReceiveData(p, i).p) /\ IsResult(ReceiveData(p, i))
<1> DEFINE s == TrimFront(NewSeg(i.seq, FALSE, i.fin, i.data), p.rcv_nxt)
<1>1. \A q : Nothing(q).p = q /\ IsResult(Nothing(q))
  BY DEF Nothing, IsResult, ResultFields
<1>2. Good(InSequence(p, s).p) /\ IsResult(InSequence(p, s))
  <2> HIDE DEF s
  <2> DEFINE seg  == InSeqSeg(p.ooseq, s)
             rest == InSeqRest(p.ooseq, s)
             n    == Drained(rest, EndSeq(seg))
             next == EndSeq(IF n = 0 THEN seg ELSE rest[n])
             q    == [p EXCEPT !.rcv_nxt = next, !.ooseq = From(rest, n),
                               !.unread = @ + (next - p.rcv_nxt)]
  <2>1. /\ InSequence(p, s).p = tcp_ack(q)
        /\ IsResult(InSequence(p, s))
    BY DEF InSequence, CloseGap, DeliverRun, IsResult, ResultFields
  <2>2. Good(q)
    <3> HIDE DEF next, rest, n
    <3> QED
      BY FieldsOfPcb DEF Good, IsPcb
  <2> HIDE DEF q
  <2> QED
    BY <2>1, <2>2, AckGood
<1>3. Good(tcp_ack_now(p))
  BY AckGood
<1>4. Good([p EXCEPT !.ack = {}])
  BY FieldsOfPcb DEF Good, IsPcb
<1>5. Good([p EXCEPT !.ack = {}, !.ooseq = OosInsert(@, s)])
  <2> HIDE DEF s
  <2> QED
    BY FieldsOfPcb DEF Good, IsPcb
<1>6. ASSUME NEW q, Good(q)
      PROVE  LET r == [Nothing(q) EXCEPT !.out = {EmptyAck(p)}]
             IN Good(r.p) /\ IsResult(r)
  BY <1>6 DEF Nothing, IsResult, ResultFields
<1> HIDE DEF s
<1> DEFINE old  == tcplen(i) = 0 \/ p.state \notin {"ESTABLISHED", "FIN_WAIT_1", "FIN_WAIT_2"}
           keep == IF s.seq < p.rcv_nxt THEN [p EXCEPT !.ack = {}]
                   ELSE [p EXCEPT !.ack = {}, !.ooseq = OosInsert(@, s)]
<1>7. CASE old
  BY <1>7, <1>1, <1>3 DEF ReceiveData
<1>8. CASE ~old /\ s.seq = p.rcv_nxt
  BY <1>8, <1>2 DEF ReceiveData, s
<1>9. CASE ~old /\ s.seq # p.rcv_nxt
  <2>1. Good(keep)
    BY <1>4, <1>5
  <2>2. ReceiveData(p, i) = [Nothing(keep) EXCEPT !.out = {EmptyAck(p)}]
    BY <1>9 DEF ReceiveData, s
  <2> QED
    BY <2>1, <2>2, <1>6
<1> QED
  BY <1>7, <1>8, <1>9

(* tcp_receive: the acknowledgment, then the data.                         *)
LEMMA ReceiveGood ==
  ASSUME NEW p, Good(p), NEW i
  PROVE  Good(tcp_receive(p, i).p) /\ IsResult(tcp_receive(p, i))
<1>1. ASSUME NEW q, Good(q), NEW out
      PROVE  LET r == [ReceiveData(q, i) EXCEPT !.out = @ \cup out]
             IN Good(r.p) /\ IsResult(r)
  BY <1>1, ReceiveDataGood DEF IsResult, ResultFields
<1> QED
  BY <1>1, ReceiveAckGood, ReceiveDataGood DEF tcp_receive

-----------------------------------------------------------------------------
(* tcp_process, state by state.                                            *)
LEMMA WithKeeps ==
  ASSUME NEW p, NEW out, NEW ev, NEW r
  PROVE  /\ With(r, ev).p = r.p
         /\ Keep(p).p = p
         /\ Answer(p, out).p = p
  BY DEF With, Keep, Answer, Nothing

(* A RST changes the ACK flags at most.                                    *)
LEMMA ProcessRstGood ==
  ASSUME NEW p, Good(p), NEW i
  PROVE  Good(ProcessRst(p, i).p)
<1>1. Good([p EXCEPT !.ack = @ \ {"DELAY"}])
  BY FieldsOfPcb DEF Good, IsPcb
<1>2. \A q : Nothing(q).p = q
  BY DEF Nothing
<1> QED
  BY <1>1, <1>2, AckGood, WithKeeps DEF ProcessRst

(* SYN_SENT: the SYN leaves its queue and the timer runs on only if data   *)
(* is outstanding; a wrong ACK retransmits with the timer set.             *)
LEMMA ProcessSynSentGood ==
  ASSUME NEW p, Good(p), NEW i
  PROVE  Good(ProcessSynSent(p, i).p)
<1> DEFINE q == IF p.unacked = << >> THEN [p EXCEPT !.unsent = Tail(@)]
                ELSE [p EXCEPT !.unacked = Tail(@)]
           e == [q EXCEPT !.state = "ESTABLISHED", !.rcv_nxt = i.seq + 1,
                          !.lastack = i.ackno, !.rtime = q.unacked # << >>,
                          !.nrtx = IF q.unacked = << >> THEN @ ELSE 0]
           t == [p EXCEPT !.rtime = TRUE]
<1>1. IsPcb(q)
  BY FieldsOfPcb DEF Good, IsPcb
<1>2. Good(e)
  <2> HIDE DEF q
  <2> QED
    BY <1>1, FieldsOfPcb DEF Good, IsPcb
<1>3. Good(t)
  BY FieldsOfPcb DEF Good, IsPcb
<1>4. Good(tcp_ack_now(e)) /\ Good(tcp_rexmit_rto(t))
  BY <1>2, <1>3, AckGood, RexmitGood
<1>5. \/ ProcessSynSent(p, i) = Keep(tcp_ack_now(e))
      \/ ProcessSynSent(p, i) = Answer(tcp_rexmit_rto(t), {RstFor(i)})
      \/ ProcessSynSent(p, i) = Keep(p)
  BY DEF ProcessSynSent
<1> HIDE DEF e, t
<1> QED
  BY <1>4, <1>5, WithKeeps

(* SYN_RCVD: the handshake ends with tcp_receive, or the SYN|ACK is sent   *)
(* again.                                                                  *)
LEMMA ProcessSynRcvdGood ==
  ASSUME NEW p, Good(p), NEW i, NEW a
  PROVE  Good(ProcessSynRcvd(p, i, a).p)
<1> DEFINE e == [p EXCEPT !.state = "ESTABLISHED"]
           r == tcp_receive(e, i)
           c == [r.p EXCEPT !.state = "CLOSE_WAIT"]
           w == [r EXCEPT !.p = tcp_ack_now(c)]
           x == [Nothing(p) EXCEPT !.out = {tcp_rst(p.snd_nxt, p.rcv_nxt)}]
<1>1. Good(e)
  BY FieldsOfPcb DEF Good, IsPcb
<1>2. Good(r.p) /\ IsResult(r)
  <2> HIDE DEF e
  <2> QED
    BY <1>1, ReceiveGood
<1>3. Good(c)
  <2> HIDE DEF r
  <2> QED
    BY <1>2, FieldsOfPcb DEF Good, IsPcb
<1>4. Good(w.p)
  <2> HIDE DEF r, c
  <2> QED
    BY <1>2, <1>3, AckGood DEF IsResult, ResultFields
<1>5. x.p = p
  BY DEF Nothing
<1>6. \/ ProcessSynRcvd(p, i, a) = With(x, "abort")
      \/ ProcessSynRcvd(p, i, a) = With(w, "none")
      \/ ProcessSynRcvd(p, i, a) = With(r, "none")
      \/ ProcessSynRcvd(p, i, a) = Answer(p, {RstFor(i)})
      \/ ProcessSynRcvd(p, i, a) = Keep(tcp_rexmit(p))
      \/ ProcessSynRcvd(p, i, a) = Keep(p)
  BY DEF ProcessSynRcvd, Accepted
<1> HIDE DEF r, w, x
<1> QED
  BY <1>2, <1>4, <1>5, <1>6, RexmitGood, WithKeeps

(* From ESTABLISHED on: tcp_receive, then the change of state, which       *)
(* purges the queues in TIME_WAIT.                                         *)
LEMMA ProcessSyncedGood ==
  ASSUME NEW p, Good(p), NEW i
  PROVE  Good(ProcessSynced(p, i).p)
<1> DEFINE r    == tcp_receive(p, i)
           q    == IF r.fin THEN tcp_ack_now(r.p) ELSE r.p
           next == NextState(r, i)
           left == IF next = "TIME_WAIT" THEN tcp_pcb_purge(q) ELSE q
           l    == [left EXCEPT !.state = next]
           w    == [r EXCEPT !.p = l]
<1>1. Good(r.p) /\ IsResult(r)
  BY ReceiveGood
<1> HIDE DEF r
<1>2. Good(q)
  BY <1>1, AckGood
<1> HIDE DEF q, next
<1>3. Good(left)
  BY <1>2, QueueGood
<1> HIDE DEF left
<1>4. Good(l)
  BY <1>3, FieldsOfPcb DEF Good, IsPcb
<1> HIDE DEF l
<1>5. Good(w.p)
  BY <1>1, <1>4 DEF IsResult, ResultFields
<1> HIDE DEF w
<1>6. ProcessSynced(p, i) = With(w,
        IF r.p.state = "LAST_ACK" /\ FinAcked(r.p, i) THEN "closed" ELSE "none")
  BY DEF ProcessSynced, StateChange, Received, r, q, next, left, l, w
<1> QED
  BY <1>5, <1>6, WithKeeps

(* tcp_process in every state.                                             *)
LEMMA ProcessGood ==
  ASSUME NEW p, Good(p), NEW i, NEW a
  PROVE  Good(tcp_process(p, i, a).p)
<1>1. /\ Good(ProcessRst(p, i).p)
      /\ Good(ProcessSynSent(p, i).p)
      /\ Good(ProcessSynRcvd(p, i, a).p)
      /\ Good(ProcessSynced(p, i).p)
  BY ProcessRstGood, ProcessSynSentGood, ProcessSynRcvdGood, ProcessSyncedGood
<1>2. Good(Keep(tcp_ack_now(p)).p)
  BY AckGood, WithKeeps
<1> QED
  BY <1>1, <1>2 DEF tcp_process

(* tcp_connect and tcp_listen_input make a pcb with an unsent SYN.         *)
LEMMA OpenGood ==
  ASSUME NEW iss, NEW i
  PROVE  Good(tcp_connect(iss)) /\ Good(tcp_listen_input(iss, i))
<1>1. Good([NoPcb EXCEPT !.state = "SYN_SENT", !.snd_nxt = iss + 1,
                         !.lastack = iss, !.snd_lbb = iss])
  BY NoPcbGood, FieldsOfPcb DEF Good, IsPcb
<1>2. Good([NoPcb EXCEPT !.state = "SYN_RCVD", !.snd_nxt = iss, !.lastack = iss,
                         !.snd_lbb = iss, !.rcv_nxt = i.seq + 1])
  BY NoPcbGood, FieldsOfPcb DEF Good, IsPcb
<1> QED
  BY <1>1, <1>2, QueueGood DEF tcp_connect, tcp_listen_input

-----------------------------------------------------------------------------
(* The inductive invariant and the actions.                                *)
IInv ==
  /\ pcb = [h \in Hosts |-> pcb[h]]
  /\ \A h \in Hosts : Good(pcb[h])

(* A step that stores a good pcb for one host keeps the invariant.         *)
LEMMA SetGood ==
  ASSUME IInv, NEW h \in Hosts, NEW p, Good(p), Set(h, p)
  PROVE  IInv'
<1>1. /\ pcb' = [k \in Hosts |-> pcb'[k]]
      /\ \A k \in Hosts : pcb'[k] = IF k = h THEN p ELSE pcb[k]
  BY DEF IInv, Set
<1> QED
  BY <1>1 DEF IInv

(* So does one that stores what tcp_output leaves of a good pcb.           *)
LEMMA SetOutputGood ==
  ASSUME IInv, NEW h \in Hosts, NEW p, Good(p), NEW F,
         NEW o \in Output(p, F), Set(h, o.p)
  PROVE  IInv'
  BY AnyOutputGood, SetGood

(* Every API call keeps the invariant.                                     *)
LEMMA CallsKeep ==
  ASSUME IInv, NEW h \in Hosts, NEW F, Call(h, F)
  PROVE  IInv'
<1>0. Good(pcb[h]) /\ Good(NoPcb)
  BY NoPcbGood DEF IInv
<1>1. CASE \E n \in 1 .. TCP_MSS : Write(h, n, F)
  <2>1. PICK n \in 1 .. TCP_MSS : Write(h, n, F)
    BY <1>1
  <2> DEFINE p == tcp_write(pcb[h], [j \in 1 .. n |-> app[h].wrote + j])
  <2>2. Good(p)
    BY <1>0, QueueGood
  <2>3. (\E o \in Output(p, F) : Set(h, o.p)) \/ Set(h, p)
    BY <2>1 DEF Write
  <2> HIDE DEF p
  <2> QED
    BY <2>2, <2>3, SetGood, SetOutputGood
<1>2. CASE ShutdownTx(h, F)
  <2>1. \E o \in Output(SendFin(pcb[h]), F) : Set(h, o.p)
    BY <1>2 DEF ShutdownTx
  <2>2. Good(SendFin(pcb[h]))
    BY <1>0, QueueGood
  <2> QED
    BY <2>1, <2>2, SetOutputGood
<1>3. CASE Close(h, F)
  <2> DEFINE p == [pcb[h] EXCEPT !.rxclosed = TRUE]
  <2>1. Good(p)
    BY <1>0, FieldsOfPcb DEF Good, IsPcb
  <2>2. Good(SendFin(p))
    BY <2>1, QueueGood
  <2>3. Set(h, NoPcb) \/ Set(h, p) \/ \E o \in Output(SendFin(p), F) : Set(h, o.p)
    BY <1>3 DEF Close
  <2> HIDE DEF p
  <2> QED
    BY <1>0, <2>1, <2>2, <2>3, SetGood, SetOutputGood
<1>4. CASE Recved(h, F)
  <2> DEFINE held == Len(pcb[h].refused) + (IF pcb[h].refusedfin THEN 1 ELSE 0)
             p    == [pcb[h] EXCEPT !.unread = held]
  <2>1. Good(p)
    BY <1>0, FieldsOfPcb DEF Good, IsPcb
  <2>2. Set(h, p) \/ \E o \in Output(tcp_ack_now(p), F) : Set(h, o.p)
    BY <1>4 DEF Recved
  <2> HIDE DEF p
  <2>3. Good(tcp_ack_now(p))
    BY <2>1, AckGood
  <2> QED
    BY <2>1, <2>2, <2>3, SetGood, SetOutputGood
<1>5. CASE CloseRst(h)
  <2> DEFINE p == [tcp_pcb_purge(pcb[h]) EXCEPT !.rxclosed = TRUE, !.state = "TIME_WAIT"]
  <2>1. Good(tcp_pcb_purge(pcb[h]))
    BY <1>0, QueueGood
  <2>2. Good(p)
    BY <2>1, FieldsOfPcb DEF Good, IsPcb
  <2>3. Set(h, p) \/ Set(h, NoPcb)
    BY <1>5 DEF CloseRst
  <2> HIDE DEF p
  <2> QED
    BY <1>0, <2>2, <2>3, SetGood
<1>6. CASE Abort(h)
  BY <1>0, <1>6, SetGood DEF Abort, Gone
<1> QED
  BY <1>1, <1>2, <1>3, <1>4, <1>5, <1>6 DEF Call

(* Delivering refused data does not touch the send queues.                 *)
LEMMA TakenGood ==
  ASSUME NEW p, Good(p)
  PROVE  Good(Taken(p))
  BY FieldsOfPcb DEF Good, IsPcb, Taken

(* Every packet keeps the invariant.                                       *)
LEMMA InputKeeps ==
  ASSUME IInv, NEW h \in Hosts, NEW i, NEW F, tcp_input(h, i, F)
  PROVE  IInv'
<1>0. Good(pcb[h]) /\ Good(NoPcb)
  BY NoPcbGood DEF IInv
<1>1. CASE UNCHANGED pcb
  BY <1>1 DEF IInv
<1>2. CASE InputListen(h, i, F)
  <2>1. \E o \in Output(tcp_listen_input(ISS[h], i), F) : Set(h, o.p)
    BY <1>2 DEF InputListen
  <2> QED
    BY <2>1, OpenGood, SetOutputGood
<1>3. CASE InputTimeWait(h, i, F)
  <2>1. Set(h, pcb[h]) \/ \E o \in Output(tcp_ack_now(pcb[h]), F) : Set(h, o.p)
    BY <1>3 DEF InputTimeWait
  <2> QED
    BY <1>0, <2>1, AckGood, SetGood, SetOutputGood
<1>4. CASE InputActive(h, i, F)
  <2> DEFINE p0 == IF Retries(pcb[h], F) THEN Taken(pcb[h]) ELSE pcb[h]
             r  == tcp_process(p0, i, "abort" \in F)
             d  == Delivered(r, F)
  <2>1. Good(p0)
    BY <1>0, TakenGood
  <2>2. Good(r.p)
    <3> HIDE DEF p0
    <3> QED
      BY <2>1, ProcessGood
  <2>3. Good(d)
    <3> HIDE DEF r
    <3> QED
      BY <2>2, FieldsOfPcb DEF Good, IsPcb, Delivered
  <2>4. Set(h, NoPcb) \/ \E o \in Output(d, F) : Set(h, o.p)
    BY <1>4 DEF InputActive, Processed
  <2> HIDE DEF d
  <2> QED
    BY <1>0, <2>3, <2>4, SetGood, SetOutputGood
<1> QED
  BY <1>1, <1>2, <1>3, <1>4 DEF tcp_input, InputNoPcb, InputRefused

(* Every timer keeps the invariant.                                        *)
LEMMA TimersKeep ==
  ASSUME IInv, NEW h \in Hosts, NEW F, tcp_slowtmr(h, F) \/ tcp_fasttmr(h, F)
  PROVE  IInv'
<1>0. Good(pcb[h]) /\ Good(NoPcb)
  BY NoPcbGood DEF IInv
<1>1. CASE SlowGiveUp(h) \/ SlowExpire(h) \/ SlowTimeWait(h)
  BY <1>0, <1>1, SetGood DEF SlowGiveUp, SlowExpire, SlowTimeWait, Gone
<1>2. CASE SlowOoseq(h)
  <2>1. Good([pcb[h] EXCEPT !.ooseq = << >>])
    BY <1>0, FieldsOfPcb DEF Good, IsPcb
  <2> QED
    BY <1>2, <2>1, SetGood DEF SlowOoseq
<1>3. CASE SlowRexmit(h, F)
  BY <1>0, <1>3, RexmitGood, SetOutputGood DEF SlowRexmit
<1>4. CASE SlowPoll(h, F)
  BY <1>0, <1>4, SetOutputGood DEF SlowPoll
<1>5. CASE FastAck(h, F)
  <2>1. PICK o \in Output(tcp_ack_now(pcb[h]), F) : Set(h, [o.p EXCEPT !.ack = {}])
    BY <1>5 DEF FastAck
  <2>2. Good(tcp_ack_now(pcb[h]))
    BY <1>0, AckGood
  <2>3. Good(o.p)
    BY <2>2, AnyOutputGood
  <2>4. Good([o.p EXCEPT !.ack = {}])
    BY <2>3, FieldsOfPcb DEF Good, IsPcb
  <2> QED
    BY <2>1, <2>4, SetGood
<1>6. CASE FastRefused(h)
  BY <1>0, <1>6, TakenGood, SetGood DEF FastRefused
<1> QED
  BY <1>1, <1>2, <1>3, <1>4, <1>5, <1>6 DEF tcp_slowtmr, tcp_fasttmr

(* Every step keeps the invariant.                                         *)
LEMMA NextKeeps == IInv /\ [Next]_vars => IInv'
<1> SUFFICES ASSUME IInv, [Next]_vars PROVE IInv'
  OBVIOUS
<1>1. CASE Connect
  <2>1. \E o \in tcp_output(tcp_connect(ISS["client"])) : Set("client", o.p)
    BY <1>1 DEF Connect
  <2>2. "client" \in Hosts
    BY DEF Hosts
  <2> QED
    BY <2>1, <2>2, OpenGood, OutputGood, SetGood
<1>2. CASE \E h \in Hosts : \E F \in SUBSET May({"neterr"}) :
             Call(h, F) \/ tcp_slowtmr(h, F) \/ tcp_fasttmr(h, F)
  BY <1>2, CallsKeep, TimersKeep
<1>3. CASE \E h \in Hosts : \E i \in net[h] : Lose(h, i)
  BY <1>3 DEF Lose, IInv
<1>4. CASE \E h \in Hosts : \E i \in net[h] :
             \E F \in SUBSET May(InputFaults) : tcp_input(h, i, F)
  BY <1>4, InputKeeps
<1>5. CASE UNCHANGED vars
  BY <1>5 DEF vars, IInv
<1> QED
  BY <1>1, <1>2, <1>3, <1>4, <1>5 DEF Next

(* Whatever the network, the applications and the timers do, a pcb with    *)
(* segments in unacked has rtime running (tcp_output_segment, tcp_receive, *)
(* tcp_rexmit_fast, tcp_slowtmr): no acknowledgment, retransmission or     *)
(* output error leaves data in flight that nothing would send again.       *)
THEOREM TimerRuns == Spec => []RetransmitTimer
<1>1. Init => IInv
  BY NoPcbGood DEF Init, IInv
<1>2. IInv /\ [Next]_vars => IInv'
  BY NextKeeps
<1>3. IInv => RetransmitTimer
  BY DEF IInv, Good, RetransmitTimer
<1> QED
  BY <1>1, <1>2, <1>3, PTL DEF Spec

-----------------------------------------------------------------------------
(***************************************************************************)
(* The send queues as linked lists.                                        *)
(***************************************************************************)

(* A segment of the send queues: its type, and it is not empty.            *)
LEMMA SegFacts ==
  ASSUME NEW w, w.base \in Nat, NEW s, SegOK(w, s)
  PROVE  /\ s \in Segment /\ s.seq \in Nat /\ EndSeq(s) \in Nat /\ s.seq < EndSeq(s)
         /\ w.base <= s.seq
         /\ s.syn => s = SynSeg(w) /\ s.seq = w.base /\ EndSeq(s) = w.base + 1
                      /\ s.data = << >> /\ ~s.fin
         /\ ~s.syn => w.base < s.seq /\ OfStream(w, s) /\ Len(s.data) <= TCP_MSS
<1>1. CASE s = SynSeg(w)
  <2>1. s.seq = w.base /\ s.syn /\ ~s.fin /\ s.data = << >> /\ s \in Segment
    BY <1>1 DEF SynSeg, NewSeg, Segment
  <2>2. EndSeq(s) = w.base + 1
    BY <2>1 DEF EndSeq, TCP_TCPLEN
  <2> QED
    BY <1>1, <2>1, <2>2
<1>2. CASE OfStream(w, s) /\ TCP_TCPLEN(s) > 0 /\ Len(s.data) <= TCP_MSS
  <2>1. s \in Segment /\ ~s.syn /\ w.base < s.seq
    BY <1>2 DEF OfStream
  <2>2. s.seq \in Nat /\ EndSeq(s) \in Nat
    BY <2>1, EndsAreNat
  <2>3. TCP_TCPLEN(s) \in Nat
    BY <2>1 DEF TCP_TCPLEN, Segment
  <2>4. s.seq < EndSeq(s)
    BY <1>2, <2>2, <2>3 DEF EndSeq
  <2> QED
    BY <1>2, <2>1, <2>2, <2>4
<1> QED
  BY <1>1, <1>2 DEF SegOK

(* The queue without its first segment.                                    *)
LEMMA LinkedTail ==
  ASSUME NEW w, NEW q, NEW y, Linked(w, q, y), q # << >>
  PROVE  /\ Linked(w, Tail(q), y) /\ SegOK(w, Head(q)) /\ Head(q) = q[1]
         /\ EndSeq(q[1]) = First(Tail(q), y) /\ First(q, y) = q[1].seq
         /\ Len(Tail(q)) = Len(q) - 1
<1>1. q \in Seq(Segment) /\ Len(q) \in Nat /\ Len(q) > 0
  BY DEF Linked
<1>2. /\ Tail(q) \in Seq(Segment) /\ Len(Tail(q)) = Len(q) - 1
      /\ \A j \in 1 .. Len(q) - 1 : Tail(q)[j] = q[j + 1]
      /\ Head(q) = q[1]
  BY <1>1
<1> DEFINE t == Tail(q)
<1> HIDE DEF t
<1>3. \A j \in 1 .. Len(q) : /\ SegOK(w, q[j])
                             /\ EndSeq(q[j]) = IF j = Len(q) THEN y ELSE q[j + 1].seq
  BY DEF Linked
<1>4. ASSUME NEW j \in 1 .. Len(t)
      PROVE  /\ SegOK(w, t[j])
             /\ EndSeq(t[j]) = IF j = Len(t) THEN y ELSE t[j + 1].seq
  <2>1. j \in 1 .. Len(q) - 1 /\ j + 1 \in 1 .. Len(q) /\ Len(t) = Len(q) - 1
    BY <1>1, <1>2, <1>4 DEF t
  <2>2. t[j] = q[j + 1]
    BY <2>1, <1>2 DEF t
  <2>3. CASE j = Len(t)
    <3>1. j + 1 = Len(q)
      BY <2>1, <2>3, <1>1
    <3> QED
      BY <2>1, <2>2, <2>3, <3>1, <1>3
  <2>4. CASE j # Len(t)
    <3>1. j + 1 # Len(q) /\ j + 1 \in 1 .. Len(q) - 1
      BY <2>1, <2>4, <1>1
    <3>2. t[j + 1] = q[(j + 1) + 1]
      BY <3>1, <1>2 DEF t
    <3> QED
      BY <2>1, <2>2, <2>4, <3>1, <3>2, <1>3
  <2> QED
    BY <2>3, <2>4
<1>5. Linked(w, t, y)
  BY <1>2, <1>4 DEF Linked, t
<1>6. EndSeq(q[1]) = First(t, y)
  <2>1. CASE Len(q) = 1
    <3>1. t = << >>
      <4>1. t \in Seq(Segment) /\ Len(t) = 0
        BY <2>1, <1>2 DEF t
      <4> QED
        BY <4>1
    <3> QED
      BY <3>1, <2>1, <1>3 DEF First
  <2>2. CASE Len(q) # 1
    <3>1. 1 \in 1 .. Len(q) /\ 1 \in 1 .. Len(q) - 1
      <4> DEFINE L == Len(q)
      <4>1. L \in Nat /\ L > 0 /\ L # 1
        BY <2>2, <1>1
      <4> HIDE DEF L
      <4>2. 1 \in 1 .. L /\ 1 \in 1 .. L - 1
        BY <4>1
      <4> QED
        BY <4>2 DEF L
    <3>2. t # << >> /\ t[1] = q[1 + 1]
      BY <3>1, <1>1, <1>2 DEF t
    <3> QED
      BY <3>1, <3>2, <2>2, <1>3 DEF First
  <2> QED
    BY <2>1, <2>2
<1>7. SegOK(w, q[1])
  BY <1>1, <1>3
<1> QED
  BY <1>2, <1>5, <1>6, <1>7 DEF t, First

(* Two queues, the first of which ends where the second starts.            *)
LEMMA LinkedConcat ==
  ASSUME NEW w, NEW a, NEW b, NEW y, Linked(w, a, First(b, y)), Linked(w, b, y)
  PROVE  Linked(w, a \o b, y) /\ First(a \o b, y) = First(a, First(b, y))
<1> DEFINE c == a \o b
<1>1. a \in Seq(Segment) /\ b \in Seq(Segment) /\ Len(a) \in Nat /\ Len(b) \in Nat
  BY DEF Linked
<1>2. /\ c \in Seq(Segment) /\ Len(c) = Len(a) + Len(b)
      /\ \A i \in 1 .. Len(a) + Len(b) :
           c[i] = IF i <= Len(a) THEN a[i] ELSE b[i - Len(a)]
  BY <1>1, ConcatProperties
<1>3. /\ \A j \in 1 .. Len(a) : /\ SegOK(w, a[j])
                                /\ EndSeq(a[j]) = IF j = Len(a) THEN First(b, y) ELSE a[j + 1].seq
      /\ \A j \in 1 .. Len(b) : /\ SegOK(w, b[j])
                                /\ EndSeq(b[j]) = IF j = Len(b) THEN y ELSE b[j + 1].seq
  BY DEF Linked
<1>4. b # << >> <=> Len(b) > 0
  BY <1>1
<1>5. a # << >> <=> Len(a) > 0
  BY <1>1
<1> HIDE DEF c
<1>6. ASSUME NEW j \in 1 .. Len(c)
      PROVE  /\ SegOK(w, c[j])
             /\ EndSeq(c[j]) = IF j = Len(c) THEN y ELSE c[j + 1].seq
  <2>0. j \in 1 .. Len(a) + Len(b)
    BY <1>2
  <2>1. CASE j < Len(a)
    <3>1. j \in 1 .. Len(a) /\ j + 1 \in 1 .. Len(a) + Len(b) /\ j + 1 <= Len(a) /\ j # Len(c)
      BY <2>0, <2>1, <1>1, <1>2
    <3>2. c[j] = a[j] /\ c[j + 1] = a[j + 1]
      BY <3>1, <2>0, <1>2
    <3> QED
      BY <3>1, <3>2, <2>1, <1>3
  <2>2. CASE j = Len(a)
    <3>1. j \in 1 .. Len(a) /\ c[j] = a[j]
      BY <2>0, <2>2, <1>2
    <3>2. SegOK(w, c[j]) /\ EndSeq(c[j]) = First(b, y)
      BY <3>1, <2>2, <1>3
    <3>3. CASE Len(b) = 0
      BY <3>2, <3>3, <2>2, <1>1, <1>2, <1>4 DEF First
    <3>4. CASE Len(b) # 0
      <4>1. j + 1 \in 1 .. Len(a) + Len(b) /\ ~(j + 1 <= Len(a)) /\ j + 1 - Len(a) = 1
            /\ j # Len(c)
        BY <3>4, <2>2, <1>1, <1>2
      <4>2. c[j + 1] = b[1]
        BY <4>1, <1>2
      <4>3. First(b, y) = b[1].seq
        BY <3>4, <1>1, <1>4 DEF First
      <4> QED
        BY <4>1, <4>2, <4>3, <3>2
    <3> QED
      BY <3>3, <3>4
  <2>3. CASE j > Len(a)
    <3>1. j - Len(a) \in 1 .. Len(b) /\ ~(j <= Len(a))
      BY <2>0, <2>3, <1>1
    <3>2. c[j] = b[j - Len(a)]
      BY <3>1, <2>0, <1>2
    <3>3. /\ SegOK(w, c[j])
          /\ EndSeq(c[j]) = IF j - Len(a) = Len(b) THEN y ELSE b[j - Len(a) + 1].seq
      BY <3>1, <3>2, <1>3
    <3>4. CASE j = Len(c)
      BY <3>3, <3>4, <1>1, <1>2
    <3>5. CASE j # Len(c)
      <4>1. j + 1 \in 1 .. Len(a) + Len(b) /\ ~(j + 1 <= Len(a))
            /\ (j + 1) - Len(a) = j - Len(a) + 1 /\ j - Len(a) # Len(b)
        BY <3>1, <3>5, <2>0, <1>1, <1>2
      <4>2. c[j + 1] = b[j - Len(a) + 1]
        BY <4>1, <1>2
      <4> QED
        BY <4>1, <4>2, <3>3, <3>5
    <3> QED
      BY <3>4, <3>5
  <2> QED
    BY <2>0, <2>1, <2>2, <2>3, <1>1
<1>7. Linked(w, c, y)
  BY <1>2, <1>6 DEF Linked
<1>8. First(c, y) = First(a, First(b, y))
  <2>1. CASE a = << >>
    <3>1. c = b
      BY <2>1, <1>1 DEF c
    <3> QED
      BY <3>1, <2>1 DEF First
  <2>2. CASE a # << >>
    <3>1. c # << >> /\ c[1] = a[1]
      BY <2>2, <1>1, <1>2, <1>5
    <3> QED
      BY <3>1, <2>2 DEF First
  <2> QED
    BY <2>1, <2>2
<1> QED
  BY <1>7, <1>8 DEF c

(* A segment alone, in front of a queue and behind it.                     *)
LEMMA LinkedOne ==
  ASSUME NEW w, w.base \in Nat, NEW s, SegOK(w, s)
  PROVE  Linked(w, <<s>>, EndSeq(s)) /\ \A y : First(<<s>>, y) = s.seq
<1>1. s \in Segment
  BY SegFacts
<1>2. <<s>> \in Seq(Segment) /\ Len(<<s>>) = 1 /\ <<s>>[1] = s /\ <<s>> # << >>
  BY <1>1
<1>3. \A j \in 1 .. Len(<<s>>) : j = 1
  BY <1>2
<1> QED
  BY <1>2, <1>3 DEF Linked, First

(* A segment in front of a queue that starts where it ends.                *)
LEMMA LinkedCons ==
  ASSUME NEW w, w.base \in Nat, NEW q, NEW y, Linked(w, q, y),
         NEW s, SegOK(w, s), EndSeq(s) = First(q, y)
  PROVE  Linked(w, <<s>> \o q, y) /\ First(<<s>> \o q, y) = s.seq
  BY LinkedOne, LinkedConcat

(* A segment behind a queue that ends where it starts.                     *)
LEMMA LinkedAppend ==
  ASSUME NEW w, w.base \in Nat, NEW q, NEW s, SegOK(w, s), Linked(w, q, s.seq)
  PROVE  /\ Linked(w, q \o <<s>>, EndSeq(s))
         /\ First(q \o <<s>>, EndSeq(s)) = First(q, s.seq)
  BY LinkedOne, LinkedConcat

(* The queue from its n-th segment on.                                     *)
LEMMA LinkedFrom ==
  ASSUME NEW w, NEW q, NEW y, Linked(w, q, y), NEW n \in 0 .. Len(q)
  PROVE  /\ Linked(w, From(q, n), y)
         /\ First(From(q, n), y) = IF n = 0 THEN First(q, y) ELSE EndSeq(q[n])
         /\ From(q, n) = << >> <=> n = Len(q)
         /\ n < Len(q) => From(q, n)[1] = q[n + 1]
<1> DEFINE r == From(q, n)
<1>1. q \in Seq(Segment) /\ Len(q) \in Nat
  BY DEF Linked
<1>2. /\ r \in Seq(Segment) /\ Len(r) = Len(q) - n
      /\ \A i \in 1 .. Len(q) - n : r[i] = q[n + i]
  BY <1>1, Suffix DEF From
<1>3. \A j \in 1 .. Len(q) : /\ SegOK(w, q[j])
                             /\ EndSeq(q[j]) = IF j = Len(q) THEN y ELSE q[j + 1].seq
  BY DEF Linked
<1> HIDE DEF r
<1>4. ASSUME NEW j \in 1 .. Len(r)
      PROVE  /\ SegOK(w, r[j])
             /\ EndSeq(r[j]) = IF j = Len(r) THEN y ELSE r[j + 1].seq
  <2>1. j \in 1 .. Len(q) - n /\ n + j \in 1 .. Len(q) /\ (j = Len(r) <=> n + j = Len(q))
    BY <1>1, <1>2
  <2>2. r[j] = q[n + j]
    BY <2>1, <1>2
  <2>3. CASE j = Len(r)
    BY <2>1, <2>2, <2>3, <1>3
  <2>4. CASE j # Len(r)
    <3>1. j + 1 \in 1 .. Len(q) - n /\ n + (j + 1) = n + j + 1
      <4> DEFINE L == Len(q)
      <4>1. L \in Nat /\ j # L - n /\ j \in 1 .. L - n
        BY <2>1, <2>4, <1>1, <1>2
      <4> HIDE DEF L
      <4>2. j + 1 \in 1 .. L - n /\ n + (j + 1) = n + j + 1
        BY <4>1
      <4> QED
        BY <4>2 DEF L
    <3>2. r[j + 1] = q[n + j + 1]
      BY <3>1, <1>2
    <3> QED
      BY <2>1, <2>2, <2>4, <3>2, <1>3
  <2> QED
    BY <2>3, <2>4
<1>5. Linked(w, r, y)
  BY <1>2, <1>4 DEF Linked
<1>6. r = << >> <=> n = Len(q)
  BY <1>1, <1>2
<1>7. n < Len(q) => r[1] = q[n + 1]
  BY <1>1, <1>2
<1>8. First(r, y) = IF n = 0 THEN First(q, y) ELSE EndSeq(q[n])
  <2>1. CASE n = 0
    <3>1. q = << >> <=> Len(q) = 0
      BY <1>1
    <3> QED
      BY <2>1, <3>1, <1>1, <1>6, <1>7 DEF First
  <2>2. CASE n # 0
    <3>1. n \in 1 .. Len(q)
      BY <2>2, <1>1
    <3> QED
      BY <2>2, <3>1, <1>1, <1>3, <1>6, <1>7 DEF First
  <2> QED
    BY <2>1, <2>2
<1> QED
  BY <1>5, <1>6, <1>7, <1>8 DEF r

(* What an acknowledgment removes from a queue.                            *)
LEMMA AckedPrefixIs ==
  ASSUME NEW q \in Seq(Segment), NEW ackno \in Nat
  PROVE  LET n == AckedPrefix(q, ackno)
         IN  /\ n \in 0 .. Len(q)
             /\ \A j \in 1 .. n : EndSeq(q[j]) <= ackno
             /\ n < Len(q) => EndSeq(q[n + 1]) > ackno
<1> DEFINE A == {j \in 1 .. Len(q) : EndSeq(q[j]) <= ackno}
           S == {n \in 0 .. Len(q) : \A j \in 1 .. n : EndSeq(q[j]) <= ackno}
           T == {n \in 0 .. Len(q) : \A j \in 1 .. n : j \in A}
<1>1. Len(q) \in Nat /\ \A j \in 1 .. Len(q) : q[j] \in Segment
  OBVIOUS
<1>2. S = T
  BY <1>1
<1>3. AckedPrefix(q, ackno) = Max(T)
  BY <1>2 DEF AckedPrefix
<1> HIDE DEF T
<1>4. /\ Max(T) \in 0 .. Len(q)
      /\ \A j \in 1 .. Max(T) : j \in A
      /\ Max(T) < Len(q) => Max(T) + 1 \notin A
  BY <1>1, LongestPrefix DEF T
<1> DEFINE n == Max(T)
<1> HIDE DEF n
<1>5. n < Len(q) => EndSeq(q[n + 1]) > ackno
  <2> HAVE n < Len(q)
  <2>1. n + 1 \in 1 .. Len(q) /\ n + 1 \notin A
    BY <1>1, <1>4 DEF n
  <2>2. EndSeq(q[n + 1]) \in Nat
    BY <2>1, <1>1, EndsAreNat
  <2> QED
    BY <2>1, <2>2
<1> QED
  BY <1>3, <1>4, <1>5 DEF n

(* Where a segment goes: in front of a queue that starts after it, behind  *)
(* one that lies before it.                                                *)
LEMMA InsertFront ==
  ASSUME NEW q \in Seq(Segment), NEW s \in Segment, q # << >> => s.seq <= q[1].seq
  PROVE  InsertSorted(q, s) = <<s>> \o q
<1> DEFINE n == Before(q, s.seq)
<1>0. \A j \in 1 .. Len(q) : q[j] \in Segment
  OBVIOUS
<1>1. s.seq \in Nat /\ Len(q) \in Nat /\ \A j \in 1 .. Len(q) : q[j].seq \in Nat
  BY <1>0 DEF Segment
<1>2. n \in 0 .. Len(q) /\ \A j \in 1 .. n : q[j].seq < s.seq
  BY <1>1, BeforeIs
<1>3. n = 0
  <2> SUFFICES ASSUME n # 0 PROVE FALSE
    OBVIOUS
  <2>1. 1 \in 1 .. n /\ 1 \in 1 .. Len(q) /\ q # << >>
    BY <1>1, <1>2
  <2> QED
    BY <2>1, <1>1, <1>2
<1>4. SubSeq(q, 1, 0) = << >> /\ From(q, 0) = q
  BY DEF From
<1> HIDE DEF n
<1> QED
  BY <1>3, <1>4 DEF InsertSorted, n

(* InsertSorted behind a queue that lies before the segment.               *)
LEMMA InsertBack ==
  ASSUME NEW q \in Seq(Segment), NEW s \in Segment, \A j \in 1 .. Len(q) : q[j].seq < s.seq
  PROVE  InsertSorted(q, s) = q \o <<s>>
<1> DEFINE n == Before(q, s.seq)
<1>0. \A j \in 1 .. Len(q) : q[j] \in Segment
  OBVIOUS
<1>1. s.seq \in Nat /\ Len(q) \in Nat /\ \A j \in 1 .. Len(q) : q[j].seq \in Nat
  BY <1>0 DEF Segment
<1>2. n \in 0 .. Len(q) /\ (n < Len(q) => q[n + 1].seq >= s.seq)
  BY <1>1, BeforeIs
<1> HIDE DEF n
<1>3. n = Len(q)
  <2> SUFFICES ASSUME n # Len(q) PROVE FALSE
    OBVIOUS
  <2>1. n < Len(q) /\ n + 1 \in 1 .. Len(q)
    BY <1>1, <1>2
  <2> QED
    BY <2>1, <1>1, <1>2
<1>4. SubSeq(q, 1, Len(q)) = q /\ From(q, Len(q)) = << >>
  BY DEF From
<1>5. InsertSorted(q, s) = q \o <<s>> \o << >>
  BY <1>3, <1>4 DEF InsertSorted, n
<1> QED
  BY <1>5

-----------------------------------------------------------------------------
(* In a linked queue a segment ends before every later one starts, and the *)
(* queue lies between its first number and its last.                       *)
LEMMA LinkedSorted ==
  ASSUME NEW w, w.base \in Nat, NEW q, NEW y, Linked(w, q, y)
  PROVE  /\ \A j, k \in 1 .. Len(q) : j < k => EndSeq(q[j]) <= q[k].seq
         /\ \A j \in 1 .. Len(q) : EndSeq(q[j]) <= y /\ First(q, y) <= q[j].seq
<1>1. q \in Seq(Segment) /\ Len(q) \in Nat
  BY DEF Linked
<1>2. \A j \in 1 .. Len(q) :
        EndSeq(q[j]) = IF j = Len(q) THEN y ELSE q[j + 1].seq
  BY DEF Linked
<1>3. \A j \in 1 .. Len(q) : q[j].seq \in Nat /\ EndSeq(q[j]) \in Nat /\ q[j].seq < EndSeq(q[j])
  BY SegFacts DEF Linked
<1>4. ASSUME NEW j \in 1 .. Len(q), NEW k \in 1 .. Len(q), j < k
      PROVE  EndSeq(q[j]) <= q[k].seq
  <2> SUFFICES ASSUME ~(EndSeq(q[j]) <= q[k].seq) PROVE FALSE
    OBVIOUS
  <2> DEFINE B == {n \in 1 .. Len(q) : j < n /\ ~(EndSeq(q[j]) <= q[n].seq)}
  <2>1. B \subseteq Nat /\ k \in B
    BY <1>4
  <2>2. PICK n \in B : \A m \in B : n <= m
    BY <2>1, LeastNat
  <2>3. n \in 1 .. Len(q) /\ j < n /\ ~(EndSeq(q[j]) <= q[n].seq)
    BY <2>2
  <2>4. n - 1 \in 1 .. Len(q) /\ n - 1 # Len(q) /\ (n - 1) + 1 = n /\ ~(n <= n - 1)
    BY <2>3, <1>1
  <2>5. EndSeq(q[n - 1]) = q[n].seq
    BY <2>4, <1>2
  <2>6. n - 1 \notin B
    BY <2>2, <2>4
  <2>7. CASE n - 1 = j
    BY <2>3, <2>5, <2>7, <1>3
  <2>8. CASE n - 1 # j
    <3>1. EndSeq(q[j]) <= q[n - 1].seq
      BY <2>3, <2>4, <2>6, <2>8
    <3> QED
      BY <3>1, <2>3, <2>4, <2>5, <1>3
  <2> QED
    BY <2>7, <2>8
<1>5. ASSUME NEW j \in 1 .. Len(q)
      PROVE  EndSeq(q[j]) <= y /\ First(q, y) <= q[j].seq
  <2>1. 1 \in 1 .. Len(q) /\ Len(q) \in 1 .. Len(q) /\ q # << >>
    BY <1>1
  <2>2. EndSeq(q[Len(q)]) = y /\ First(q, y) = q[1].seq
    BY <2>1, <1>2 DEF First
  <2>3. EndSeq(q[j]) <= y
    <3>1. CASE j = Len(q)
      BY <3>1, <2>2, <1>3
    <3>2. CASE j # Len(q)
      <4>1. j < Len(q)
        BY <3>2, <1>1
      <4>2. EndSeq(q[j]) <= q[Len(q)].seq
        BY <4>1, <2>1, <1>4
      <4> QED
        BY <4>2, <2>1, <2>2, <1>3
    <3> QED
      BY <3>1, <3>2
  <2>4. q[1].seq <= q[j].seq
    <3>1. CASE j = 1
      BY <3>1, <1>3
    <3>2. CASE j # 1
      <4>1. 1 < j
        BY <3>2
      <4>2. EndSeq(q[1]) <= q[j].seq
        BY <4>1, <2>1, <1>4
      <4> QED
        BY <4>2, <2>1, <1>3
    <3> QED
      BY <3>1, <3>2
  <2> QED
    BY <2>2, <2>3, <2>4
<1> QED
  BY <1>4, <1>5

(* Every number from its first to its last is in a segment of it.          *)
LEMMA LinkedCovers ==
  ASSUME NEW w, w.base \in Nat, NEW q, NEW y \in Nat, Linked(w, q, y),
         NEW n \in Nat, First(q, y) <= n, n < y
  PROVE  \E j \in 1 .. Len(q) : q[j].seq <= n /\ n < EndSeq(q[j])
<1> DEFINE S == {j \in 1 .. Len(q) : q[j].seq <= n}
<1>1. q \in Seq(Segment) /\ Len(q) \in Nat /\ q # << >>
  BY DEF Linked, First
<1>2. \A j \in 1 .. Len(q) :
        EndSeq(q[j]) = IF j = Len(q) THEN y ELSE q[j + 1].seq
  BY DEF Linked
<1>3. \A j \in 1 .. Len(q) : q[j].seq \in Nat /\ EndSeq(q[j]) \in Nat
  BY SegFacts DEF Linked
<1>4. 1 \in S /\ S \subseteq 0 .. Len(q)
  BY <1>1 DEF First
<1>5. PICK j \in S : \A k \in S : j >= k
  BY <1>1, <1>4, MaxIsGreatest
<1>6. j \in 1 .. Len(q) /\ q[j].seq <= n
  BY <1>5
<1>7. n < EndSeq(q[j])
  <2>1. CASE j = Len(q)
    BY <2>1, <1>2, <1>6
  <2>2. CASE j # Len(q)
    <3>1. j + 1 \in 1 .. Len(q) /\ ~(j >= j + 1)
      BY <2>2, <1>1, <1>6
    <3>2. ~(q[j + 1].seq <= n)
      BY <3>1, <1>5
    <3> QED
      BY <3>1, <3>2, <2>2, <1>2, <1>3, <1>6
  <2> QED
    BY <2>1, <2>2
<1> QED
  BY <1>6, <1>7

-----------------------------------------------------------------------------
(* A stream that has grown: nothing changes behind a known end.            *)
Grows(st, st2) ==
  /\ st2.base = st.base /\ st.top <= st2.top
  /\ st.closed => st2.closed /\ st2.top = st.top

(* What was a part of it still is.                                         *)
LEMMA OfStreamGrows ==
  ASSUME NEW st, NEW st2, st.top \in Nat, st2.top \in Nat, Grows(st, st2),
         NEW s, OfStream(st, s)
  PROVE  OfStream(st2, s)
<1>1. DataEnd(s) \in Nat
  BY EndsAreNat DEF OfStream
<1> QED
  BY <1>1 DEF OfStream, Grows

(* So with the out-of-sequence queue.                                      *)
LEMMA QueueGrows ==
  ASSUME NEW st, NEW st2, st.top \in Nat, st2.top \in Nat, Grows(st, st2),
         NEW q, StreamQueue(st, q)
  PROVE  StreamQueue(st2, q)
  BY OfStreamGrows DEF StreamQueue

(* So with the send queues.                                                *)
LEMMA LinkedGrows ==
  ASSUME NEW w, NEW w2, w.top \in Nat, w2.top \in Nat, Grows(w, w2),
         NEW q, NEW y, Linked(w, q, y)
  PROVE  Linked(w2, q, y)
<1>1. ASSUME NEW s, SegOK(w, s) PROVE SegOK(w2, s)
  <2>1. CASE s = SynSeg(w)
    BY <2>1 DEF SegOK, SynSeg, Grows
  <2>2. CASE OfStream(w, s) /\ TCP_TCPLEN(s) > 0 /\ Len(s.data) <= TCP_MSS
    BY <2>2, OfStreamGrows DEF SegOK
  <2> QED
    BY <1>1, <2>1, <2>2 DEF SegOK
<1> QED
  BY <1>1 DEF Linked

-----------------------------------------------------------------------------
(***************************************************************************)
(* What one function of TcpPcb does to the sending side.                   *)
(***************************************************************************)

(* The type of a pcb, field by field.                                      *)
SndTyped(p) ==
  /\ p.snd_nxt \in Nat /\ p.lastack \in Nat /\ p.snd_lbb \in Nat
  /\ p.unsent \in Seq(Segment) /\ p.unacked \in Seq(Segment)
RcvTyped(p) ==
  /\ p.rcv_nxt \in Nat /\ p.ooseq \in Seq(Segment) /\ p.unread \in Nat
  /\ p.refused \in Seq(Nat) /\ p.refusedfin \in BOOLEAN
CtlTyped(p) ==
  /\ p.state \in States /\ p.rtime \in BOOLEAN /\ p.nrtx \in 0 .. 255
  /\ p.dupacks \in Nat /\ p.infr \in BOOLEAN
  /\ p.ack \in SUBSET {"DELAY", "NOW"} /\ p.rxclosed \in BOOLEAN

(* A pcb is a function of its fields, each of its type.                    *)
LEMMA PcbIs ==
  ASSUME NEW p
  PROVE  p \in Pcb <=> IsPcb(p) /\ SndTyped(p) /\ RcvTyped(p) /\ CtlTyped(p)
<1>1. ASSUME p \in Pcb
      PROVE  IsPcb(p) /\ SndTyped(p) /\ RcvTyped(p) /\ CtlTyped(p)
  <2>1. SndTyped(p) /\ RcvTyped(p) /\ CtlTyped(p)
    BY <1>1 DEF Pcb, SndTyped, RcvTyped, CtlTyped
  <2>2. IsPcb(p)
    BY <1>1, FieldsOfPcb DEF Pcb, IsPcb
  <2> QED
    BY <2>1, <2>2
<1>2. ASSUME IsPcb(p), SndTyped(p), RcvTyped(p), CtlTyped(p) PROVE p \in Pcb
  BY <1>2, FieldsOfPcb DEF Pcb, IsPcb, SndTyped, RcvTyped, CtlTyped
<1> QED
  BY <1>1, <1>2

(* A stream whose numbers are numbers.                                     *)
IsStream(w) == w.base \in Nat /\ w.top \in Nat /\ w.closed \in BOOLEAN

End(w) == w.top + Bit(w.closed)

(* The number after the stream and its FIN.                                *)
LEMMA EndNat ==
  ASSUME NEW w, IsStream(w)
  PROVE  End(w) \in Nat /\ w.top <= End(w) /\ End(w) <= w.top + 1
         /\ (~w.closed => End(w) = w.top) /\ (w.closed => End(w) = w.top + 1)
  BY DEF IsStream, End, Bit

(* Sending, unfolded.                                                      *)
LEMMA SendingIs ==
  ASSUME NEW w, IsStream(w), NEW una, NEW uns, NEW nxt \in Nat, NEW ack \in Nat
  PROVE  Sending(w, una, uns, nxt, ack) <=>
           LET mid == First(uns, End(w))
           IN  /\ Linked(w, una, mid) /\ Linked(w, uns, End(w))
               /\ First(una, mid) <= ack
               /\ una # << >> => ack < EndSeq(una[1]) /\ mid <= nxt
               /\ una = << >> /\ uns # << >> => ack < EndSeq(uns[1])
               /\ w.base <= ack /\ ack <= nxt /\ nxt <= End(w)
  BY DEF Sending, End

(* Where the queues begin.                                                 *)
LEMMA FirstNat ==
  ASSUME NEW w, w.base \in Nat, NEW q, NEW y \in Nat, Linked(w, q, y)
  PROVE  /\ First(q, y) \in Nat /\ First(q, y) <= y
         /\ q # << >> => /\ 1 \in 1 .. Len(q) /\ First(q, y) = q[1].seq /\ SegOK(w, q[1])
                         /\ q[1] \in Segment /\ q[1].seq \in Nat /\ EndSeq(q[1]) \in Nat
                         /\ q[1].seq < EndSeq(q[1]) /\ EndSeq(q[1]) <= y
<1>1. CASE q = << >>
  BY <1>1 DEF First
<1>2. CASE q # << >>
  <2>1. q \in Seq(Segment)
    BY DEF Linked
  <2>2. 1 \in 1 .. Len(q)
    BY <1>2, <2>1
  <2>3. SegOK(w, q[1]) /\ EndSeq(q[1]) <= y
    BY <2>2, LinkedSorted DEF Linked
  <2>4. q[1] \in Segment /\ q[1].seq \in Nat /\ EndSeq(q[1]) \in Nat /\ q[1].seq < EndSeq(q[1])
    BY <2>3, SegFacts
  <2> QED
    BY <1>2, <2>2, <2>3, <2>4 DEF First
<1> QED
  BY <1>1, <1>2

(* tcp_output takes the first unsent segment: it becomes the last unacked. *)
LEMMA SendNext ==
  ASSUME NEW w, IsStream(w), NEW una, NEW uns, NEW nxt \in Nat, NEW ack \in Nat,
         Sending(w, una, uns, nxt, ack), uns # << >>
  PROVE  LET s == Head(uns)
             n == IF nxt < EndSeq(s) THEN EndSeq(s) ELSE nxt
         IN  /\ Sending(w, InsertSorted(una, s), Tail(uns), n, ack)
             /\ SegOK(w, s) /\ EndSeq(s) <= n /\ nxt <= n /\ n \in Nat
             /\ Tail(uns) \in Seq(Segment) /\ InsertSorted(una, s) \in Seq(Segment)
<1> DEFINE s == Head(uns)
           n == IF nxt < EndSeq(s) THEN EndSeq(s) ELSE nxt
           y == End(w)
           t == Tail(uns)
           u == una \o <<s>>
<1>0. w.base \in Nat /\ y \in Nat
  BY EndNat DEF IsStream
<1>1. /\ Linked(w, una, First(uns, y)) /\ Linked(w, uns, y)
      /\ First(una, First(uns, y)) <= ack
      /\ una # << >> => ack < EndSeq(una[1])
      /\ una = << >> => ack < EndSeq(uns[1])
      /\ w.base <= ack /\ ack <= nxt /\ nxt <= y
  BY SendingIs
<1>2. /\ Linked(w, t, y) /\ SegOK(w, s) /\ s = uns[1]
      /\ EndSeq(s) = First(t, y) /\ First(uns, y) = s.seq
  BY <1>1, LinkedTail
<1>3. s \in Segment /\ s.seq \in Nat /\ EndSeq(s) \in Nat /\ s.seq < EndSeq(s) /\ EndSeq(s) <= y
  BY <1>0, <1>1, <1>2, FirstNat
<1> HIDE DEF s, t
<1>4. una \in Seq(Segment) /\ \A j \in 1 .. Len(una) : una[j].seq < s.seq
  <2>1. una \in Seq(Segment)
    BY <1>1 DEF Linked
  <2>2. ASSUME NEW j \in 1 .. Len(una) PROVE una[j].seq < s.seq
    <3>1. EndSeq(una[j]) <= s.seq
      BY <1>0, <1>1, <1>2, LinkedSorted
    <3>2. una[j].seq \in Nat /\ EndSeq(una[j]) \in Nat /\ una[j].seq < EndSeq(una[j])
      BY <1>0, <1>1, SegFacts DEF Linked
    <3> QED
      BY <3>1, <3>2, <1>3
  <2> QED
    BY <2>1, <2>2
<1>5. InsertSorted(una, s) = u
  BY <1>3, <1>4, InsertBack
<1>6. Linked(w, u, EndSeq(s)) /\ First(u, EndSeq(s)) = First(una, s.seq)
  BY <1>0, <1>1, <1>2, LinkedAppend
<1>7. u \in Seq(Segment) /\ u # << >> /\ u[1] = IF una = << >> THEN s ELSE una[1]
  BY <1>3, <1>4
<1>8. n \in Nat /\ EndSeq(s) <= n /\ nxt <= n /\ n <= y
  BY <1>1, <1>3, <1>0
<1> HIDE DEF u, n, y
<1>9. ack < EndSeq(u[1])
  BY <1>1, <1>2, <1>7
<1>10. ack <= n
  BY <1>1, <1>8
<1>11. Sending(w, u, t, n, ack)
  <2>1. First(u, First(t, y)) <= ack
    BY <1>1, <1>2, <1>6
  <2> QED
    BY <2>1, <1>1, <1>2, <1>6, <1>7, <1>8, <1>9, <1>10, SendingIs DEF y
<1>12. t \in Seq(Segment)
  BY <1>2 DEF Linked
<1> QED
  BY <1>2, <1>5, <1>7, <1>8, <1>11, <1>12 DEF s, t, n

(* tcp_rexmit has put the first unacked segment in front of unsent.        *)
LEMMA SendAgain ==
  ASSUME NEW w, IsStream(w), NEW una \in Seq(Segment), NEW s, NEW rest, NEW nxt \in Nat, NEW ack \in Nat,
         Sending(w, <<s>> \o una, rest, nxt, ack)
  PROVE  /\ InsertSorted(una, s) = <<s>> \o una
         /\ SegOK(w, s) /\ s \in Segment /\ EndSeq(s) \in Nat /\ EndSeq(s) <= nxt
         /\ rest \in Seq(Segment) /\ <<s>> \o una \in Seq(Segment)
         /\ una # << >> => s.seq < una[1].seq
<1> DEFINE y == End(w)
           m == First(rest, y)
           u == <<s>> \o una
<1>0. w.base \in Nat /\ y \in Nat
  BY EndNat DEF IsStream
<1>1. Linked(w, u, m) /\ Linked(w, rest, y) /\ (u # << >> => m <= nxt)
  BY SendingIs
<1>2. m \in Nat
  BY <1>0, <1>1, FirstNat
<1>3. u \in Seq(Segment) /\ rest \in Seq(Segment)
  BY <1>1 DEF Linked
<1> HIDE DEF m, y
<1>4. u # << >> /\ u[1] = s /\ Tail(u) = una
  <2>1. Len(u) = 1 + Len(una) /\ u[1] = s
    OBVIOUS
  <2>2. Tail(u) = una
    OBVIOUS
  <2>3. Len(una) \in Nat
    OBVIOUS
  <2> QED
    BY <2>1, <2>2, <2>3
<1> HIDE DEF u
<1>5. SegOK(w, s) /\ EndSeq(s) = First(una, m) /\ Linked(w, una, m)
  BY <1>1, <1>4, LinkedTail
<1>6. s \in Segment /\ EndSeq(s) \in Nat /\ s.seq \in Nat /\ s.seq < EndSeq(s)
  BY <1>0, <1>5, SegFacts
<1>7. EndSeq(s) <= nxt
  <2>1. First(una, m) <= m
    BY <1>0, <1>2, <1>5, FirstNat
  <2> QED
    BY <2>1, <1>1, <1>2, <1>4, <1>5, <1>6
<1>8. una # << >> => s.seq < una[1].seq
  BY <1>5, <1>6 DEF First
<1>9. una # << >> => s.seq <= una[1].seq
  <2> HAVE una # << >>
  <2>1. EndSeq(s) = una[1].seq
    BY <1>5 DEF First
  <2> QED
    BY <2>1, <1>6
<1>10. InsertSorted(una, s) = <<s>> \o una
  BY <1>6, <1>9, InsertFront
<1> QED
  BY <1>3, <1>5, <1>6, <1>7, <1>8, <1>10 DEF u

(* Two pcbs that agree on what was received, or on the rest but the send   *)
(* queues, the timer and the flags.                                        *)
SameSnd(p, q) ==
  /\ q.snd_nxt = p.snd_nxt /\ q.lastack = p.lastack /\ q.snd_lbb = p.snd_lbb
  /\ q.unsent = p.unsent /\ q.unacked = p.unacked
SameRcv(p, q) ==
  /\ q.rcv_nxt = p.rcv_nxt /\ q.ooseq = p.ooseq /\ q.unread = p.unread
  /\ q.refused = p.refused /\ q.refusedfin = p.refusedfin
SameCtl(p, q) == q.state = p.state /\ q.rxclosed = p.rxclosed

(* The type follows the parts.                                             *)
LEMMA SameTyped ==
  ASSUME NEW p, NEW q
  PROVE  /\ SndTyped(p) /\ SameSnd(p, q) => SndTyped(q)
         /\ RcvTyped(p) /\ SameRcv(p, q) => RcvTyped(q)
  BY DEF SndTyped, SameSnd, RcvTyped, SameRcv

(* SndInv depends on the sending side only.                                *)
LEMMA SndSame ==
  ASSUME NEW p, NEW q, NEW w, SndInv(p, w), SameSnd(p, q)
  PROVE  SndInv(q, w)
  BY DEF SndInv, SameSnd

(* Sides that stay the same through two steps.                             *)
LEMMA SameTrans ==
  ASSUME NEW p, NEW q, NEW r
  PROVE  /\ SameSnd(p, q) /\ SameSnd(q, r) => SameSnd(p, r)
         /\ SameRcv(p, q) /\ SameRcv(q, r) => SameRcv(p, r)
         /\ SameCtl(p, q) /\ SameCtl(q, r) => SameCtl(p, r)
         /\ SameSnd(p, p) /\ SameRcv(p, p) /\ SameCtl(p, p)
  BY DEF SameSnd, SameRcv, SameCtl

(* The ACK flags.                                                          *)
LEMMA AckFlags ==
  ASSUME NEW p \in Pcb, NEW f \in SUBSET {"DELAY", "NOW"}
  PROVE  LET q == [p EXCEPT !.ack = f]
         IN  q \in Pcb /\ SameSnd(p, q) /\ SameRcv(p, q) /\ SameCtl(p, q) /\ q.ack = f
             /\ q.infr = p.infr
<1> DEFINE q == [p EXCEPT !.ack = f]
<1>1. IsPcb(p) /\ SndTyped(p) /\ RcvTyped(p) /\ CtlTyped(p)
  BY PcbIs
<1>2. /\ IsPcb(q) /\ SameSnd(p, q) /\ SameRcv(p, q) /\ SameCtl(p, q) /\ q.ack = f
      /\ q.infr = p.infr /\ q.rtime = p.rtime /\ q.nrtx = p.nrtx /\ q.dupacks = p.dupacks
  BY <1>1, FieldsOfPcb DEF IsPcb, SameSnd, SameRcv, SameCtl
<1> HIDE DEF q
<1>3. CtlTyped(q)
  BY <1>1, <1>2 DEF CtlTyped, SameCtl
<1> QED
  BY <1>1, <1>2, <1>3, SameTyped, PcbIs DEF q

(* tcp_ack_now changes the ACK flags only.                                 *)
LEMMA AckNow ==
  ASSUME NEW p \in Pcb
  PROVE  LET q == tcp_ack_now(p)
         IN  q \in Pcb /\ SameSnd(p, q) /\ SameRcv(p, q) /\ SameCtl(p, q) /\ q.infr = p.infr
<1>1. p.ack \cup {"NOW"} \in SUBSET {"DELAY", "NOW"}
  BY PcbIs DEF CtlTyped
<1>2. tcp_ack_now(p) = [p EXCEPT !.ack = p.ack \cup {"NOW"}]
  BY DEF tcp_ack_now
<1> QED
  BY <1>1, <1>2, AckFlags

-----------------------------------------------------------------------------
(* One turn of tcp_output's loop changes what it must and no more.         *)
LEMMA SendOneFields ==
  ASSUME NEW p \in Pcb, SendOne(p).unsent \in Seq(Segment), SendOne(p).unacked \in Seq(Segment),
         SendOne(p).snd_nxt \in Nat
  PROVE  LET q == SendOne(p)
             s == Head(p.unsent)
         IN  /\ q \in Pcb /\ SameRcv(p, q) /\ SameCtl(p, q)
             /\ q.lastack = p.lastack /\ q.snd_lbb = p.snd_lbb
             /\ q.unsent = Tail(p.unsent) /\ q.unacked = InsertSorted(p.unacked, s)
             /\ q.snd_nxt = IF p.snd_nxt < EndSeq(s) THEN EndSeq(s) ELSE p.snd_nxt
             /\ q.ack \in {p.ack, {}}
<1> DEFINE q == SendOne(p)
           s == Head(p.unsent)
           f == IF p.state = "SYN_SENT" THEN p.ack ELSE {}
           n == IF p.snd_nxt < EndSeq(s) THEN EndSeq(s) ELSE p.snd_nxt
           v == InsertSorted(p.unacked, s)
           u == Tail(p.unsent)
<1>1. IsPcb(p) /\ SndTyped(p) /\ RcvTyped(p) /\ CtlTyped(p)
  BY PcbIs
<1>2. q = [p EXCEPT !.unsent = u, !.unacked = v, !.snd_nxt = n, !.rtime = TRUE, !.ack = f]
  BY DEF SendOne
<1>3. f \in {p.ack, {}} /\ f \in SUBSET {"DELAY", "NOW"}
  BY <1>1 DEF CtlTyped
<1> HIDE DEF q, f, n, u, v, s
<1>4. /\ IsPcb(q) /\ SameRcv(p, q) /\ SameCtl(p, q)
      /\ q.lastack = p.lastack /\ q.snd_lbb = p.snd_lbb
      /\ q.unsent = u /\ q.unacked = v /\ q.snd_nxt = n /\ q.ack = f
      /\ q.infr = p.infr /\ q.rtime = TRUE /\ q.nrtx = p.nrtx /\ q.dupacks = p.dupacks
  BY <1>1, <1>2, FieldsOfPcb DEF IsPcb, SameRcv, SameCtl
<1>5. CtlTyped(q)
  BY <1>1, <1>3, <1>4 DEF CtlTyped, SameCtl
<1>6. SndTyped(q)
  BY <1>1, <1>4 DEF SndTyped, q
<1> QED
  BY <1>1, <1>3, <1>4, <1>5, <1>6, SameTyped, PcbIs DEF q, u, v, n, s

(* What tcp_output leaves of a pcb p: the same but for the send queues,    *)
(* the timer and the flags; all up to n was sent.                          *)
Sends(p, q, w) ==
  /\ q \in Pcb /\ SameRcv(p, q) /\ SameCtl(p, q) /\ SndInv(q, w)
  /\ q.lastack = p.lastack /\ q.snd_lbb = p.snd_lbb /\ p.snd_nxt <= q.snd_nxt
  /\ q.ack \in {p.ack, {}}

(* It takes a step with the queues in order.                               *)
LEMMA SendOneIs ==
  ASSUME NEW w, IsStream(w), NEW p \in Pcb, SndInv(p, w), p.unsent # << >>
  PROVE  /\ Sends(p, SendOne(p), w) /\ SendOne(p).unsent = Tail(p.unsent)
         /\ SegOK(w, Head(p.unsent)) /\ EndSeq(Head(p.unsent)) <= SendOne(p).snd_nxt
<1> DEFINE q == SendOne(p)
           s == Head(p.unsent)
           n == IF p.snd_nxt < EndSeq(s) THEN EndSeq(s) ELSE p.snd_nxt
<1>1. IsPcb(p) /\ SndTyped(p)
  BY PcbIs
<1>2. /\ Sending(w, InsertSorted(p.unacked, s), Tail(p.unsent), n, p.lastack)
      /\ SegOK(w, s) /\ EndSeq(s) <= n /\ p.snd_nxt <= n /\ n \in Nat
      /\ Tail(p.unsent) \in Seq(Segment) /\ InsertSorted(p.unacked, s) \in Seq(Segment)
  BY <1>1, SendNext DEF SndInv, SndTyped
<1>3. /\ q.unsent = Tail(p.unsent) /\ q.unacked = InsertSorted(p.unacked, s)
      /\ q.snd_nxt = n
  BY <1>1, FieldsOfPcb DEF IsPcb, SendOne
<1>4. /\ q \in Pcb /\ SameRcv(p, q) /\ SameCtl(p, q)
      /\ q.lastack = p.lastack /\ q.snd_lbb = p.snd_lbb /\ q.ack \in {p.ack, {}}
  BY <1>2, <1>3, SendOneFields
<1> HIDE DEF q, s, n
<1>5. SndInv(q, w)
  BY <1>2, <1>3, <1>4 DEF SndInv
<1> QED
  BY <1>2, <1>3, <1>4, <1>5 DEF Sends, q, s, n

(* After tcp_rexmit the first unsent segment belongs before unacked.       *)
FastInv(p, w) ==
  /\ p.unsent # << >>
  /\ Sending(w, <<Head(p.unsent)>> \o p.unacked, Tail(p.unsent), p.snd_nxt, p.lastack)
  /\ ~w.closed => p.snd_lbb = w.top

(* After a fast retransmit the first unsent segment goes back to the front *)
(* of unacked.                                                             *)
LEMMA SendOneAgain ==
  ASSUME NEW w, IsStream(w), NEW p \in Pcb, FastInv(p, w)
  PROVE  /\ Sends(p, SendOne(p), w) /\ SendOne(p).unsent = Tail(p.unsent)
         /\ SegOK(w, Head(p.unsent)) /\ EndSeq(Head(p.unsent)) <= SendOne(p).snd_nxt
         /\ MustSend(p)
<1> DEFINE q == SendOne(p)
           s == Head(p.unsent)
           n == IF p.snd_nxt < EndSeq(s) THEN EndSeq(s) ELSE p.snd_nxt
<1>1. IsPcb(p) /\ SndTyped(p)
  BY PcbIs
<1>2. /\ InsertSorted(p.unacked, s) = <<s>> \o p.unacked
      /\ SegOK(w, s) /\ s \in Segment /\ EndSeq(s) \in Nat /\ EndSeq(s) <= p.snd_nxt
      /\ Tail(p.unsent) \in Seq(Segment) /\ <<s>> \o p.unacked \in Seq(Segment)
      /\ p.unacked # << >> => s.seq < p.unacked[1].seq
  BY <1>1, SendAgain DEF FastInv, SndTyped
<1>3. n = p.snd_nxt /\ n \in Nat
  BY <1>1, <1>2 DEF SndTyped
<1>4. /\ q.unsent = Tail(p.unsent) /\ q.unacked = InsertSorted(p.unacked, s)
      /\ q.snd_nxt = n
  BY <1>1, FieldsOfPcb DEF IsPcb, SendOne
<1>5. /\ q \in Pcb /\ SameRcv(p, q) /\ SameCtl(p, q)
      /\ q.lastack = p.lastack /\ q.snd_lbb = p.snd_lbb /\ q.ack \in {p.ack, {}}
  <2>1. q.unsent \in Seq(Segment) /\ q.unacked \in Seq(Segment) /\ q.snd_nxt \in Nat
    BY <1>2, <1>3, <1>4
  <2> QED
    BY <2>1, SendOneFields
<1>6. SndInv(q, w)
  BY <1>2, <1>3, <1>4, <1>5 DEF SndInv, FastInv
<1>7. MustSend(p)
  <2>1. p.unacked # << >> => Head(p.unacked) = p.unacked[1]
    BY <1>1 DEF SndTyped
  <2> QED
    BY <2>1, <1>2 DEF MustSend, FastInv
<1>8. p.snd_nxt <= n /\ EndSeq(s) <= n
  BY <1>2, <1>3
<1> HIDE DEF q, s, n
<1> QED
  BY <1>2, <1>4, <1>5, <1>6, <1>7, <1>8 DEF Sends, q, s

(* A packet tcp_output sends for the pcb p and leaves q: an ACK that was   *)
(* due, or a segment, sent with it.                                        *)
PacketFrom(p, q, w, i) ==
  \/ i = EmptyAck(p) /\ "NOW" \in p.ack
  \/ \E s : i = PacketOf(p, s) /\ SegOK(w, s) /\ EndSeq(s) <= q.snd_nxt

(* The queues are in order, or tcp_rexmit has just moved a segment and     *)
(* Nagle's algorithm is off.                                               *)
Ready(p, w) == SndInv(p, w) \/ (FastInv(p, w) /\ ~NagleHolds(p))

(* Sending the first segment, in either form of the queues.                *)
LEMMA SendFirst ==
  ASSUME NEW w, IsStream(w), NEW p \in Pcb, Ready(p, w), p.unsent # << >>
  PROVE  /\ Sends(p, SendOne(p), w) /\ SendOne(p).unsent = Tail(p.unsent)
         /\ SegOK(w, Head(p.unsent)) /\ EndSeq(Head(p.unsent)) <= SendOne(p).snd_nxt
  BY SendOneIs, SendOneAgain DEF Ready

(* Two segments sent one after the other.                                  *)
LEMMA SendsTrans ==
  ASSUME NEW w, NEW p \in Pcb, NEW q, NEW r, Sends(p, q, w), Sends(q, r, w)
  PROVE  Sends(p, r, w)
<1>1. q \in Pcb /\ r \in Pcb
  BY DEF Sends
<1>2. p.snd_nxt \in Nat /\ q.snd_nxt \in Nat /\ r.snd_nxt \in Nat
  BY <1>1, PcbIs DEF SndTyped
<1>3. p.snd_nxt <= r.snd_nxt
  BY <1>2 DEF Sends
<1>4. SameRcv(p, r) /\ SameCtl(p, r)
  BY SameTrans DEF Sends
<1> QED
  BY <1>3, <1>4 DEF Sends

(* A burst of one or two segments.                                         *)
LEMMA BurstIs ==
  ASSUME NEW w, IsStream(w), NEW p \in Pcb, Ready(p, w), NEW n \in 1 .. 2, n <= Len(p.unsent)
  PROVE  LET o == Burst(p, n)
         IN  Sends(p, o.p, w) /\ \A i \in o.out : PacketFrom(p, o.p, w, i)
<1> DEFINE o == Burst(p, n)
           q == SendOne(p)
           u == p.unsent
<1>1. u \in Seq(Segment) /\ p.snd_nxt \in Nat
  BY PcbIs DEF SndTyped
<1>2. u # << >> /\ Head(u) = u[1]
  BY <1>1
<1>3. Sends(p, q, w) /\ q.unsent = Tail(u) /\ SegOK(w, u[1]) /\ EndSeq(u[1]) <= q.snd_nxt
  BY <1>2, SendFirst
<1>4. CASE n = 1
  <2>1. o.p = q /\ o.out = {PacketOf(p, u[j]) : j \in 1 .. 1}
    BY <1>4 DEF Burst
  <2>2. ASSUME NEW i \in o.out PROVE PacketFrom(p, q, w, i)
    <3>1. i = PacketOf(p, u[1])
      BY <2>1
    <3> QED
      BY <3>1, <1>3 DEF PacketFrom
  <2> QED
    BY <2>1, <2>2, <1>3
<1>5. CASE n = 2
  <2> DEFINE r == SendOne(q)
  <2>1. o.p = r /\ o.out = {PacketOf(p, u[j]) : j \in 1 .. 2}
    BY <1>5 DEF Burst
  <2>2. q \in Pcb /\ SndInv(q, w)
    BY <1>3 DEF Sends
  <2>3. Tail(u) # << >> /\ Head(Tail(u)) = u[2]
    <3>1. Len(u) \in Nat /\ Len(u) >= 2
      BY <1>1, <1>5
    <3>2. Tail(u) \in Seq(Segment) /\ Len(Tail(u)) = Len(u) - 1
      BY <1>1, <1>2
    <3>3. Tail(u)[1] = u[2]
      BY <1>1, <3>1
    <3> HIDE DEF u
    <3>4. Tail(u) # << >>
      <4>1. Len(Tail(u)) # 0
        BY <3>1, <3>2
      <4>2. Len(<< >>) = 0
        OBVIOUS
      <4> QED
        BY <4>1, <4>2, Zenon
    <3>5. Head(Tail(u)) = Tail(u)[1]
      BY <3>2, <3>4
    <3> QED
      BY <3>3, <3>4, <3>5
  <2>4. Sends(q, r, w) /\ SegOK(w, u[2]) /\ EndSeq(u[2]) <= r.snd_nxt
    BY <2>2, <2>3, <1>3, SendOneIs
  <2>5. Sends(p, r, w)
    BY <1>3, <2>4, SendsTrans
  <2>6. EndSeq(u[1]) <= r.snd_nxt
    <3>1. q.snd_nxt <= r.snd_nxt /\ r \in Pcb
      BY <2>4 DEF Sends
    <3>2. q.snd_nxt \in Nat /\ r.snd_nxt \in Nat
      BY <3>1, <2>2, PcbIs DEF SndTyped
    <3>3. EndSeq(u[1]) \in Nat
      BY <1>3, SegFacts DEF IsStream
    <3> QED
      BY <3>1, <3>2, <3>3, <1>3
  <2>7. ASSUME NEW i \in o.out PROVE PacketFrom(p, r, w, i)
    <3>1. i = PacketOf(p, u[1]) \/ i = PacketOf(p, u[2])
      BY <2>1
    <3> QED
      BY <3>1, <1>3, <2>4, <2>6 DEF PacketFrom
  <2> QED
    BY <2>1, <2>5, <2>7
<1> QED
  BY <1>4, <1>5

(* tcp_output: a burst, an empty ACK, or nothing.                          *)
LEMMA OutputIs ==
  ASSUME NEW w, IsStream(w), NEW p \in Pcb, Ready(p, w), NEW o \in tcp_output(p)
  PROVE  Sends(p, o.p, w) /\ \A i \in o.out : PacketFrom(p, o.p, w, i)
<1>1. CASE \E n \in 1 .. 2 : n <= Len(p.unsent) /\ o = Burst(p, n)
  BY <1>1, BurstIs
<1>2. CASE ~(\E n \in 1 .. 2 : n <= Len(p.unsent) /\ o = Burst(p, n))
  <2>1. \/ ~MustSend(p) /\ o = IF "NOW" \in p.ack THEN tcp_send_empty_ack(p) ELSE Quiet(p)
        \/ NagleHolds(p) /\ o = Quiet(p)
    BY <1>2 DEF tcp_output
  <2>2. SndInv(p, w)
    BY <2>1, SendOneAgain DEF Ready
  <2>3. p.snd_nxt \in Nat
    BY PcbIs DEF SndTyped
  <2>4. CASE o = Quiet(p)
    <3>1. o.p = p /\ o.out = {}
      BY <2>4 DEF Quiet
    <3>2. Sends(p, p, w)
      BY <2>2, <2>3, SameTrans DEF Sends
    <3> QED
      BY <3>1, <3>2
  <2>5. CASE "NOW" \in p.ack /\ o = tcp_send_empty_ack(p)
    <3> DEFINE q == [p EXCEPT !.ack = {}]
    <3>1. o.p = q /\ o.out = {EmptyAck(p)}
      BY <2>5 DEF tcp_send_empty_ack
    <3>2. q \in Pcb /\ SameSnd(p, q) /\ SameRcv(p, q) /\ SameCtl(p, q) /\ q.ack = {}
      BY AckFlags
    <3> HIDE DEF q
    <3>3. Sends(p, q, w)
      BY <3>2, <2>2, <2>3, SndSame DEF Sends, SameSnd
    <3> QED
      BY <3>1, <3>3, <2>5 DEF PacketFrom
  <2> QED
    BY <2>1, <2>4, <2>5
<1> QED
  BY <1>1, <1>2

(* tcp_rexmit_rto: everything is unsent again.                             *)
LEMMA SendAllAgain ==
  ASSUME NEW w, IsStream(w), NEW una, NEW uns, NEW nxt \in Nat, NEW ack \in Nat,
         Sending(w, una, uns, nxt, ack)
  PROVE  Sending(w, << >>, una \o uns, nxt, ack) /\ una \o uns \in Seq(Segment)
<1> DEFINE y == End(w)
           m == First(uns, y)
           u == una \o uns
<1>1. /\ Linked(w, una, m) /\ Linked(w, uns, y)
      /\ First(una, m) <= ack
      /\ una # << >> => ack < EndSeq(una[1])
      /\ una = << >> /\ uns # << >> => ack < EndSeq(uns[1])
      /\ w.base <= ack /\ ack <= nxt /\ nxt <= y
  BY SendingIs
<1>2. una \in Seq(Segment) /\ uns \in Seq(Segment)
  BY <1>1 DEF Linked
<1>3. Linked(w, u, y) /\ First(u, y) = First(una, m)
  BY <1>1, LinkedConcat
<1> HIDE DEF y, m
<1>4. ASSUME u # << >> PROVE ack < EndSeq(u[1])
  <2>1. CASE una = << >>
    <3>1. u = uns
      BY <2>1, <1>2
    <3> QED
      BY <3>1, <2>1, <1>1, <1>4
  <2>2. CASE una # << >>
    <3>1. u[1] = una[1]
      BY <2>2, <1>2
    <3> QED
      BY <3>1, <2>2, <1>1
  <2> QED
    BY <2>1, <2>2
<1>5. Linked(w, << >>, First(u, y))
  <2>1. << >> \in Seq(Segment) /\ 1 .. Len(<< >>) = {}
    OBVIOUS
  <2> QED
    BY <2>1 DEF Linked
<1>6. First(<< >>, First(u, y)) <= ack
  <2>1. First(<< >>, First(u, y)) = First(u, y)
    BY DEF First
  <2> QED
    BY <2>1, <1>1, <1>3
<1>7. u \in Seq(Segment)
  BY <1>3 DEF Linked
<1> HIDE DEF u
<1>8. Sending(w, << >>, u, nxt, ack)
  BY <1>1, <1>3, <1>4, <1>5, <1>6, SendingIs DEF y
<1> QED
  BY <1>7, <1>8 DEF u

(* The first segment of unsent ends after lastack.                         *)
LEMMA UnsentIsNew ==
  ASSUME NEW w, IsStream(w), NEW una, NEW uns, NEW nxt \in Nat, NEW ack \in Nat,
         Sending(w, una, uns, nxt, ack), uns # << >>
  PROVE  uns[1].seq \in Nat /\ EndSeq(uns[1]) \in Nat /\ ack < EndSeq(uns[1])
         /\ (una # << >> => una[1].seq < uns[1].seq)
<1> DEFINE y == End(w)
           m == First(uns, y)
<1>0. w.base \in Nat /\ y \in Nat
  BY EndNat DEF IsStream
<1>1. /\ Linked(w, una, m) /\ Linked(w, uns, y)
      /\ una # << >> => ack < EndSeq(una[1])
      /\ una = << >> => ack < EndSeq(uns[1])
  BY SendingIs
<1> HIDE DEF y
<1>2. m = uns[1].seq /\ uns[1].seq \in Nat /\ EndSeq(uns[1]) \in Nat /\ uns[1].seq < EndSeq(uns[1])
  BY <1>0, <1>1, FirstNat
<1> HIDE DEF m
<1>3. CASE una # << >>
  <2>1. una[1].seq \in Nat /\ EndSeq(una[1]) \in Nat /\ una[1].seq < EndSeq(una[1]) /\ EndSeq(una[1]) <= m
    BY <1>0, <1>1, <1>2, <1>3, FirstNat
  <2> QED
    BY <2>1, <1>1, <1>2, <1>3
<1> QED
  BY <1>1, <1>2, <1>3

(* tcp_rexmit: the first unacked segment goes in front of unsent.          *)
LEMMA SendFirstAgain ==
  ASSUME NEW w, IsStream(w), NEW una, NEW uns, NEW nxt \in Nat, NEW ack \in Nat,
         Sending(w, una, uns, nxt, ack), una # << >>
  PROVE  LET u == InsertSorted(uns, Head(una))
         IN  /\ u \in Seq(Segment) /\ u # << >> /\ Head(u) = Head(una) /\ Tail(u) = uns
             /\ <<Head(una)>> \o Tail(una) = una /\ Tail(una) \in Seq(Segment)
<1> DEFINE s == Head(una)
           v == <<s>> \o uns
<1>1. una \in Seq(Segment) /\ uns \in Seq(Segment)
  BY SendingIs DEF Linked
<1>2. s = una[1] /\ s \in Segment /\ Tail(una) \in Seq(Segment) /\ s.seq \in Nat
  BY <1>1, EndsAreNat
<1>3. uns # << >> => s.seq < uns[1].seq /\ uns[1].seq \in Nat
  BY <1>2, UnsentIsNew
<1>4. uns # << >> => s.seq <= uns[1].seq
  BY <1>2, <1>3
<1> HIDE DEF s
<1>5. InsertSorted(uns, s) = v
  BY <1>1, <1>2, <1>4, InsertFront
<1>6. v \in Seq(Segment) /\ Len(v) = 1 + Len(uns) /\ v[1] = s /\ Tail(v) = uns
  BY <1>1, <1>2
<1>7. Len(uns) \in Nat
  BY <1>1
<1> HIDE DEF v
<1>8. v # << >> /\ Head(v) = s
  BY <1>6, <1>7
<1>9. <<s>> \o Tail(una) = una
  BY <1>1 DEF s
<1> QED
  BY <1>2, <1>5, <1>6, <1>8, <1>9 DEF s

(* tcp_receive: all that ackno acknowledges leaves the queues.             *)
LEMMA AckIs ==
  ASSUME NEW w, IsStream(w), NEW una, NEW uns, NEW nxt \in Nat, NEW ack \in Nat,
         Sending(w, una, uns, nxt, ack), NEW a \in Nat, ack <= a, a <= nxt
  PROVE  /\ Sending(w, From(una, AckedPrefix(una, a)), From(uns, AckedPrefix(uns, a)), nxt, a)
         /\ From(una, AckedPrefix(una, a)) \in Seq(Segment)
         /\ From(uns, AckedPrefix(uns, a)) \in Seq(Segment)
<1> DEFINE y == End(w)
           m == First(uns, y)
           j == AckedPrefix(una, a)
           k == AckedPrefix(uns, a)
           u == From(una, j)
           v == From(uns, k)
<1>0. w.base \in Nat /\ y \in Nat
  BY EndNat DEF IsStream
<1>1. /\ Linked(w, una, m) /\ Linked(w, uns, y)
      /\ First(una, m) <= ack
      /\ una # << >> => ack < EndSeq(una[1]) /\ m <= nxt
      /\ una = << >> /\ uns # << >> => ack < EndSeq(uns[1])
      /\ w.base <= ack /\ ack <= nxt /\ nxt <= y
  BY SendingIs
<1>2. una \in Seq(Segment) /\ uns \in Seq(Segment) /\ Len(una) \in Nat /\ Len(uns) \in Nat
  BY <1>1 DEF Linked
<1>3. /\ j \in 0 .. Len(una) /\ (\A i \in 1 .. j : EndSeq(una[i]) <= a)
      /\ j < Len(una) => EndSeq(una[j + 1]) > a
  BY <1>2, AckedPrefixIs
<1>4. /\ k \in 0 .. Len(uns) /\ (\A i \in 1 .. k : EndSeq(uns[i]) <= a)
      /\ k < Len(uns) => EndSeq(uns[k + 1]) > a
  BY <1>2, AckedPrefixIs
<1> HIDE DEF j, k
<1>5. /\ Linked(w, u, m) /\ First(u, m) = IF j = 0 THEN First(una, m) ELSE EndSeq(una[j])
      /\ u = << >> <=> j = Len(una)
      /\ j < Len(una) => u[1] = una[j + 1]
  BY <1>1, <1>3, LinkedFrom
<1>6. /\ Linked(w, v, y) /\ First(v, y) = IF k = 0 THEN m ELSE EndSeq(uns[k])
      /\ v = << >> <=> k = Len(uns)
      /\ k < Len(uns) => v[1] = uns[k + 1]
  BY <1>1, <1>4, LinkedFrom
<1>7. m \in Nat /\ First(una, m) \in Nat
  BY <1>0, <1>1, FirstNat
<1>8. \A i \in 1 .. Len(una) : EndSeq(una[i]) \in Nat /\ EndSeq(una[i]) <= m
  <2> TAKE i \in 1 .. Len(una)
  <2>1. SegOK(w, una[i])
    BY <1>1 DEF Linked
  <2>2. EndSeq(una[i]) \in Nat
    BY <2>1, <1>0, SegFacts
  <2> QED
    BY <2>2, <1>0, <1>1, LinkedSorted
<1>9. \A i \in 1 .. Len(uns) : EndSeq(uns[i]) \in Nat /\ m <= uns[i].seq /\ uns[i].seq \in Nat
                               /\ uns[i].seq < EndSeq(uns[i])
  <2> TAKE i \in 1 .. Len(uns)
  <2>1. SegOK(w, uns[i])
    BY <1>1 DEF Linked
  <2> QED
    BY <2>1, <1>0, <1>1, LinkedSorted, SegFacts
<1>10. First(u, m) <= a
  <2>1. CASE j = 0
    BY <2>1, <1>1, <1>5, <1>7
  <2>2. CASE j # 0
    <3>1. j \in 1 .. j
      BY <2>2, <1>3
    <3> QED
      BY <3>1, <2>2, <1>3, <1>5
  <2> QED
    BY <2>1, <2>2
<1>11. u # << >> => a < EndSeq(u[1]) /\ k = 0 /\ m <= nxt
  <2> HAVE u # << >>
  <2>1. j < Len(una) /\ j + 1 \in 1 .. Len(una) /\ una # << >>
    BY <1>2, <1>3, <1>5
  <2>2. u[1] = una[j + 1] /\ EndSeq(una[j + 1]) > a /\ EndSeq(una[j + 1]) \in Nat /\ EndSeq(una[j + 1]) <= m
    BY <2>1, <1>3, <1>5, <1>8
  <2>3. k = 0
    <3> SUFFICES ASSUME k # 0 PROVE FALSE
      OBVIOUS
    <3>1. 1 \in 1 .. k /\ 1 \in 1 .. Len(uns)
      BY <1>2, <1>4
    <3>2. EndSeq(uns[1]) <= a
      BY <3>1, <1>4
    <3>3. EndSeq(uns[1]) \in Nat /\ m <= uns[1].seq /\ uns[1].seq \in Nat /\ uns[1].seq < EndSeq(uns[1])
      BY <3>1, <1>9
    <3> QED
      BY <3>2, <3>3, <2>2, <1>7
  <2> QED
    BY <2>1, <2>2, <2>3, <1>1
<1>12. v # << >> => a < EndSeq(v[1])
  <2> HAVE v # << >>
  <2>1. k < Len(uns) /\ k + 1 \in 1 .. Len(uns)
    BY <1>2, <1>4, <1>6
  <2>2. v[1] = uns[k + 1] /\ EndSeq(uns[k + 1]) > a /\ EndSeq(uns[k + 1]) \in Nat
    BY <2>1, <1>4, <1>6, <1>9
  <2> QED
    BY <2>2
<1>13. First(u, First(v, y)) <= a /\ Linked(w, u, First(v, y)) /\ (u # << >> => First(v, y) <= nxt)
  <2>1. CASE u # << >>
    <3>1. First(v, y) = m
      BY <2>1, <1>6, <1>11
    <3> QED
      BY <3>1, <2>1, <1>5, <1>10, <1>11
  <2>2. CASE u = << >>
    <3>1. First(u, m) = m /\ First(u, First(v, y)) = First(v, y)
      BY <2>2, Zenon DEF First
    <3>2. First(v, y) <= a
      <4>1. CASE k = 0
        BY <4>1, <3>1, <1>6, <1>10
      <4>2. CASE k # 0
        <5>1. k \in 1 .. k
          BY <4>2, <1>4
        <5> QED
          BY <5>1, <4>2, <1>4, <1>6
      <4> QED
        BY <4>1, <4>2
    <3>3. Linked(w, u, First(v, y))
      <4>1. << >> \in Seq(Segment) /\ 1 .. Len(<< >>) = {}
        OBVIOUS
      <4> QED
        BY <4>1, <2>2 DEF Linked
    <3> QED
      BY <3>1, <3>2, <3>3, <2>2
  <2> QED
    BY <2>1, <2>2
<1>14. u \in Seq(Segment) /\ v \in Seq(Segment)
  BY <1>5, <1>6 DEF Linked
<1>15. w.base <= a /\ a <= nxt /\ nxt <= y
  BY <1>0, <1>1
<1> HIDE DEF u, v, m
<1>16. Sending(w, u, v, nxt, a)
  BY <1>6, <1>11, <1>12, <1>13, <1>15, SendingIs DEF y
<1> QED
  BY <1>14, <1>16 DEF u, v, j, k

(* While nothing is acknowledged the SYN heads the queues.                 *)
LEMMA SynHeads ==
  ASSUME NEW w, IsStream(w), NEW una, NEW uns, NEW nxt \in Nat,
         Sending(w, una, uns, nxt, w.base), w.base < End(w)
  PROVE  /\ una # << >> => una[1] = SynSeg(w) /\ una[1].seq = w.base /\ EndSeq(una[1]) = w.base + 1
         /\ una = << >> => /\ uns # << >> /\ uns[1] = SynSeg(w)
                           /\ uns[1].seq = w.base /\ EndSeq(uns[1]) = w.base + 1
<1> DEFINE y == End(w)
           m == First(uns, y)
<1>0. w.base \in Nat /\ y \in Nat
  BY EndNat DEF IsStream
<1>1. /\ Linked(w, una, m) /\ Linked(w, uns, y) /\ First(una, m) <= w.base
  BY <1>0, SendingIs
<1> HIDE DEF y
<1>2. m \in Nat
  BY <1>0, <1>1, FirstNat
<1>3. ASSUME NEW s, SegOK(w, s), s.seq <= w.base
      PROVE  s = SynSeg(w) /\ s.seq = w.base /\ EndSeq(s) = w.base + 1
  <2>1. /\ s.seq \in Nat /\ w.base <= s.seq
        /\ s.syn => s = SynSeg(w) /\ s.seq = w.base /\ EndSeq(s) = w.base + 1
        /\ ~s.syn => w.base < s.seq
    BY <1>0, <1>3, SegFacts
  <2>2. s.syn
    BY <2>1, <1>0, <1>3
  <2> QED
    BY <2>1, <2>2
<1>4. CASE una # << >>
  <2>1. SegOK(w, una[1]) /\ First(una, m) = una[1].seq
    BY <1>0, <1>1, <1>2, <1>4, FirstNat
  <2> QED
    BY <2>1, <1>1, <1>3, <1>4
<1>5. CASE una = << >>
  <2>1. First(una, m) = m
    BY <1>5 DEF First
  <2>2. uns # << >>
    BY <2>1, <1>0, <1>1 DEF m, First, y
  <2>3. SegOK(w, uns[1]) /\ m = uns[1].seq
    BY <2>2, <1>0, <1>1, FirstNat
  <2> QED
    BY <2>1, <2>2, <2>3, <1>1, <1>3, <1>5
<1> QED
  BY <1>4, <1>5

(* It leaves the queues when it is acknowledged.                           *)
LEMMA SynLeaves ==
  ASSUME NEW w, IsStream(w), NEW una, NEW uns, NEW nxt \in Nat,
         Sending(w, una, uns, nxt, w.base), w.base < nxt
  PROVE  LET u == IF una = << >> THEN una ELSE Tail(una)
             v == IF una = << >> THEN Tail(uns) ELSE uns
         IN  Sending(w, u, v, nxt, w.base + 1) /\ u \in Seq(Segment) /\ v \in Seq(Segment)
<1> DEFINE y == End(w)
           m == First(uns, y)
           u == IF una = << >> THEN una ELSE Tail(una)
           v == IF una = << >> THEN Tail(uns) ELSE uns
           b == w.base + 1
<1>0. w.base \in Nat /\ y \in Nat /\ b \in Nat
  BY EndNat DEF IsStream
<1>1. /\ Linked(w, una, m) /\ Linked(w, uns, y)
      /\ una # << >> => m <= nxt
      /\ nxt <= y
  BY <1>0, SendingIs
<1>2. w.base < y /\ w.base <= b /\ b <= nxt
  BY <1>0, <1>1
<1>3. /\ una # << >> => EndSeq(una[1]) = b
      /\ una = << >> => uns # << >> /\ EndSeq(uns[1]) = b
  BY <1>2, SynHeads
<1>4. m \in Nat
  BY <1>0, <1>1, FirstNat
<1>5. CASE una # << >>
  <2>1. Linked(w, Tail(una), m) /\ First(Tail(una), m) = b
    BY <1>1, <1>3, <1>5, LinkedTail
  <2> DEFINE t == Tail(una)
  <2> HIDE DEF t
  <2>2. ASSUME t # << >> PROVE b < EndSeq(t[1])
    <3>1. First(t, m) = t[1].seq /\ t[1].seq \in Nat /\ EndSeq(t[1]) \in Nat /\ t[1].seq < EndSeq(t[1])
      BY <2>1, <2>2, <1>0, <1>4, FirstNat DEF t
    <3> QED
      BY <3>1, <2>1 DEF t
  <2>3. ASSUME t = << >>, uns # << >> PROVE b < EndSeq(uns[1])
    <3>1. m = uns[1].seq /\ uns[1].seq \in Nat /\ EndSeq(uns[1]) \in Nat /\ uns[1].seq < EndSeq(uns[1])
      BY <2>3, <1>0, <1>1, FirstNat
    <3>2. m = b
      BY <2>1, <2>3 DEF First, t
    <3> QED
      BY <3>1, <3>2
  <2>4. First(t, m) <= b
    BY <2>1, <1>0 DEF t
  <2>5. Linked(w, t, m)
    BY <2>1 DEF t
  <2> HIDE DEF b
  <2>6. Sending(w, t, uns, nxt, b)
    BY <2>2, <2>3, <2>4, <2>5, <1>0, <1>1, <1>2, <1>5, SendingIs
  <2>7. t \in Seq(Segment) /\ uns \in Seq(Segment)
    BY <2>5, <1>1 DEF Linked
  <2> QED
    BY <2>6, <2>7, <1>5 DEF t, b
<1>6. CASE una = << >>
  <2>1. Linked(w, Tail(uns), y) /\ First(Tail(uns), y) = b
    BY <1>1, <1>3, <1>6, LinkedTail
  <2> DEFINE t == Tail(uns)
  <2> HIDE DEF t
  <2>2. ASSUME t # << >> PROVE b < EndSeq(t[1])
    <3>1. First(t, y) = t[1].seq /\ t[1].seq \in Nat /\ EndSeq(t[1]) \in Nat /\ t[1].seq < EndSeq(t[1])
      BY <2>1, <2>2, <1>0, FirstNat DEF t
    <3> QED
      BY <3>1, <2>1 DEF t
  <2>3. Linked(w, una, First(t, y)) /\ First(una, First(t, y)) = b /\ b <= b
    <3>1. << >> \in Seq(Segment) /\ 1 .. Len(<< >>) = {}
      OBVIOUS
    <3>2. Linked(w, una, First(t, y))
      BY <3>1, <1>6 DEF Linked
    <3> QED
      BY <3>2, <2>1, <1>0, <1>6 DEF t, First
  <2> HIDE DEF b
  <2>5. Linked(w, t, y)
    BY <2>1 DEF t
  <2>6. Sending(w, una, t, nxt, b)
    BY <2>2, <2>3, <2>5, <1>0, <1>1, <1>2, <1>6, SendingIs
  <2>7. t \in Seq(Segment) /\ una \in Seq(Segment)
    BY <2>5, <1>1 DEF Linked
  <2> QED
    BY <2>6, <2>7, <1>6 DEF t, b
<1> QED
  BY <1>5, <1>6

(* Nothing is left to send and all that was sent is acknowledged: that is  *)
(* the whole stream.                                                       *)
LEMMA AllAcked ==
  ASSUME NEW w, IsStream(w), NEW una, NEW nxt \in Nat, NEW ack \in Nat,
         Sending(w, una, << >>, nxt, ack), nxt <= ack
  PROVE  ack = End(w) /\ nxt = End(w) /\ una = << >>
<1> DEFINE y == End(w)
<1>0. w.base \in Nat /\ y \in Nat
  BY EndNat DEF IsStream
<1>1. First(<< >>, y) = y
  BY DEF First
<1>2. /\ Linked(w, una, y) /\ First(una, y) <= ack
      /\ una # << >> => ack < EndSeq(una[1]) /\ y <= nxt
      /\ ack <= nxt /\ nxt <= y
  BY <1>1, SendingIs, Zenon
<1> HIDE DEF y
<1>3. una = << >>
  <2> SUFFICES ASSUME una # << >> PROVE FALSE
    OBVIOUS
  <2>1. EndSeq(una[1]) \in Nat /\ EndSeq(una[1]) <= y
    BY <1>0, <1>2, FirstNat
  <2> QED
    BY <2>1, <1>0, <1>2
<1>4. First(una, y) = y
  BY <1>3 DEF First
<1> QED
  BY <1>0, <1>2, <1>3, <1>4 DEF y

-----------------------------------------------------------------------------
(* More is queued: the stream grows and unsent with it.                    *)
LEMMA SendMore ==
  ASSUME NEW w, IsStream(w), NEW w2, IsStream(w2), Grows(w, w2), End(w) <= End(w2),
         NEW una, NEW uns, NEW nxt \in Nat, NEW ack \in Nat, Sending(w, una, uns, nxt, ack),
         NEW more, Linked(w2, more, End(w2)), more # << >>, more[1].seq = First(uns, End(w)),
         uns # << >> => EndSeq(uns[1]) <= EndSeq(more[1])
  PROVE  Sending(w2, una, more, nxt, ack)
<1> DEFINE y == End(w)
           z == End(w2)
           m == First(uns, y)
<1>0. w.base \in Nat /\ y \in Nat /\ z \in Nat /\ w2.base = w.base
  BY EndNat DEF IsStream, Grows
<1>1. /\ Linked(w, una, m) /\ Linked(w, uns, y)
      /\ First(una, m) <= ack
      /\ una # << >> => ack < EndSeq(una[1]) /\ m <= nxt
      /\ una = << >> /\ uns # << >> => ack < EndSeq(uns[1])
      /\ w.base <= ack /\ ack <= nxt /\ nxt <= y
  BY SendingIs
<1>2. Linked(w2, una, m)
  BY <1>1, LinkedGrows DEF IsStream
<1> HIDE DEF y, z
<1>3. /\ First(more, z) = m /\ EndSeq(more[1]) \in Nat /\ more[1].seq < EndSeq(more[1])
      /\ more[1].seq \in Nat /\ more[1].seq = m
  BY <1>0, FirstNat DEF z, y
<1>4. ASSUME una = << >> PROVE ack < EndSeq(more[1])
  <2>1. CASE uns = << >>
    <3>1. m = y
      BY <2>1 DEF First
    <3> QED
      BY <3>1, <1>0, <1>1, <1>3
  <2>2. CASE uns # << >>
    <3>1. EndSeq(uns[1]) \in Nat
      BY <2>2, <1>0, <1>1, FirstNat
    <3> QED
      BY <3>1, <2>2, <1>1, <1>3, <1>4
  <2> QED
    BY <2>1, <2>2
<1>5. nxt <= z
  BY <1>0, <1>1 DEF y, z
<1> HIDE DEF m
<1> QED
  BY <1>0, <1>1, <1>2, <1>3, <1>4, <1>5, SendingIs DEF z

(* The last segment of a queue changes and still starts where it did.      *)
LastChanged(q, s, r) == r = [q EXCEPT ![Len(q)] = s]

(* A queue and its last segment.                                           *)
LEMMA LinkedLast ==
  ASSUME NEW w, w.base \in Nat, NEW q, NEW y, Linked(w, q, y), q # << >>,
         NEW s, SegOK(w, s), s.seq = Last(q).seq, EndSeq(Last(q)) <= EndSeq(s),
         NEW r, LastChanged(q, s, r)
  PROVE  /\ Linked(w, r, EndSeq(s)) /\ r # << >>
         /\ r[1].seq = q[1].seq /\ EndSeq(q[1]) <= EndSeq(r[1])
<1> DEFINE L == Len(q)
<1>1. q \in Seq(Segment) /\ s \in Segment
  BY SegFacts DEF Linked
<1>2. L \in Nat /\ L > 0 /\ DOMAIN q = 1 .. L
  BY <1>1
<1>3. r \in Seq(Segment) /\ Len(r) = L
  BY <1>1, <1>2 DEF LastChanged
<1>4. \A j \in 1 .. L : r[j] = IF j = L THEN s ELSE q[j]
  BY <1>2 DEF LastChanged
<1>5. \A j \in 1 .. L : SegOK(w, q[j]) /\ EndSeq(q[j]) = IF j = L THEN y ELSE q[j + 1].seq
  BY DEF Linked
<1> HIDE DEF L
<1>6. ASSUME NEW j \in 1 .. L
      PROVE  SegOK(w, r[j]) /\ EndSeq(r[j]) = IF j = L THEN EndSeq(s) ELSE r[j + 1].seq
  <2>1. CASE j = L
    BY <2>1, <1>4
  <2>2. CASE j # L
    <3>1. j + 1 \in 1 .. L
      BY <2>2, <1>2
    <3>2. r[j + 1].seq = q[j + 1].seq
      BY <3>1, <1>4 DEF Last, L
    <3> QED
      BY <2>2, <3>2, <1>4, <1>5
  <2> QED
    BY <2>1, <2>2
<1>7. Linked(w, r, EndSeq(s))
  BY <1>3, <1>6 DEF Linked
<1>8. 1 \in 1 .. L
  BY <1>2
<1>9. r # << >>
  <2>1. Len(r) # 0
    BY <1>2, <1>3
  <2>2. Len(<< >>) = 0
    OBVIOUS
  <2> QED
    BY <2>1, <2>2, Zenon
<1>10. r[1].seq = q[1].seq /\ EndSeq(q[1]) <= EndSeq(r[1])
  <2>1. CASE L = 1
    BY <2>1, <1>4, <1>8 DEF Last, L
  <2>2. CASE L # 1
    <3>1. r[1] = q[1]
      BY <2>2, <1>4, <1>8
    <3>2. EndSeq(q[1]) \in Nat
      BY <1>5, <1>8, SegFacts
    <3> QED
      BY <3>1, <3>2
  <2> QED
    BY <2>1, <2>2
<1> QED
  BY <1>7, <1>9, <1>10

(* A new segment at the end of the queue.                                  *)
Pushed(q, s, r) == r = Append(q, s)

(* The last segment replaced by a longer one.                              *)
LEMMA LinkedPush ==
  ASSUME NEW w, w.base \in Nat, NEW q, NEW s, SegOK(w, s), Linked(w, q, s.seq),
         NEW r, Pushed(q, s, r)
  PROVE  /\ Linked(w, r, EndSeq(s)) /\ r # << >>
         /\ r[1].seq = First(q, s.seq)
         /\ q # << >> => r[1] = q[1]
<1>1. q \in Seq(Segment) /\ s \in Segment
  BY SegFacts DEF Linked
<1>2. r = q \o <<s>>
  BY <1>1 DEF Pushed
<1>3. Linked(w, r, EndSeq(s)) /\ First(r, EndSeq(s)) = First(q, s.seq)
  BY <1>2, LinkedAppend
<1>4. r # << >> /\ (q # << >> => r[1] = q[1])
  BY <1>1, <1>2
<1>5. r[1].seq = First(q, s.seq)
  BY <1>3, <1>4 DEF First
<1> QED
  BY <1>3, <1>4, <1>5

(* Data of the stream in a segment: the n-th unit after the number x.      *)
DataFrom(w, x, d) == \A n \in 1 .. Len(d) : d[n] = x + n - 1 - w.base

(* A new segment with the next data.                                       *)
LEMMA NewSegIs ==
  ASSUME NEW w, IsStream(w), NEW x \in Nat, w.base < x, NEW d \in Seq(Nat), d # << >>,
         Len(d) <= TCP_MSS, DataFrom(w, x, d), x + Len(d) <= w.top
  PROVE  LET s == NewSeg(x, FALSE, FALSE, d)
         IN  SegOK(w, s) /\ s.seq = x /\ EndSeq(s) = x + Len(d)
<1> DEFINE s == NewSeg(x, FALSE, FALSE, d)
<1>1. s \in Segment /\ s.seq = x /\ ~s.syn /\ ~s.fin /\ s.data = d
  BY DEF NewSeg, Segment
<1>2. Len(d) \in Nat /\ Len(d) > 0
  OBVIOUS
<1> HIDE DEF s
<1>3. EndSeq(s) = x + Len(d) /\ DataEnd(s) = x + Len(d) /\ TCP_TCPLEN(s) = Len(d)
  BY <1>1, <1>2 DEF EndSeq, DataEnd, TCP_TCPLEN
<1>4. OfStream(w, s)
  BY <1>1, <1>3 DEF OfStream, DataFrom
<1> QED
  BY <1>1, <1>2, <1>3, <1>4 DEF SegOK, s

(* A segment that takes more data at its end.                              *)
Extended(s, d, t) == t = [s EXCEPT !.data = @ \o d]

(* tcp_write fills the last unsent segment up to the MSS.                  *)
LEMMA FilledIs ==
  ASSUME NEW w, IsStream(w), ~w.closed,
         NEW s, OfStream(w, s), NEW d \in Seq(Nat), Len(s.data) + Len(d) <= TCP_MSS,
         s.data # << >>, DataFrom(w, EndSeq(s), d), EndSeq(s) + Len(d) <= w.top,
         NEW t, Extended(s, d, t)
  PROVE  SegOK(w, t) /\ t.seq = s.seq /\ EndSeq(t) = EndSeq(s) + Len(d)
<1> DEFINE e == s.data \o d
<1>1. s \in Segment /\ ~s.syn /\ ~s.fin /\ w.base < s.seq
  BY DEF OfStream
<1>2. s.seq \in Nat /\ s.data \in Seq(Nat)
  BY <1>1 DEF Segment
<1>3. \A n \in 1 .. Len(s.data) : s.data[n] = s.seq + n - 1 - w.base
  BY DEF OfStream
<1>4. EndSeq(s) = s.seq + Len(s.data)
  BY <1>1, EndIs DEF DataEnd, IsStream
<1>5. /\ e \in Seq(Nat) /\ Len(e) = Len(s.data) + Len(d)
      /\ \A n \in 1 .. Len(s.data) + Len(d) :
           e[n] = IF n <= Len(s.data) THEN s.data[n] ELSE d[n - Len(s.data)]
  BY <1>2, ConcatProperties
<1> HIDE DEF e
<1>6. t \in Segment /\ t.seq = s.seq /\ ~t.syn /\ ~t.fin /\ t.data = e
  BY <1>1, <1>2, <1>5 DEF Segment, e, Extended
<1>7. Len(s.data) \in Nat /\ Len(s.data) > 0 /\ Len(d) \in Nat
  BY <1>2
<1>8. EndSeq(t) = EndSeq(s) + Len(d) /\ DataEnd(t) = EndSeq(s) + Len(d) /\ TCP_TCPLEN(t) = Len(s.data) + Len(d)
  <2>1. TCP_TCPLEN(t) = Len(e)
    <3>1. Len(e) \in Nat
      BY <1>5, <1>7
    <3>2. TCP_TCPLEN(t) = Len(e) + 0
      BY <1>6, Zenon DEF TCP_TCPLEN
    <3> QED
      BY <3>1, <3>2
  <2>2. EndSeq(t) = s.seq + Len(e) /\ DataEnd(t) = s.seq + Len(e)
    BY <2>1, <1>6 DEF EndSeq, DataEnd
  <2> QED
    BY <2>1, <2>2, <1>2, <1>4, <1>5, <1>7
<1>9. ASSUME NEW n \in 1 .. Len(e) PROVE e[n] = s.seq + n - 1 - w.base
  <2>1. n \in 1 .. Len(s.data) + Len(d)
    BY <1>5
  <2>2. CASE n <= Len(s.data)
    BY <2>1, <2>2, <1>3, <1>5, <1>7
  <2>3. CASE ~(n <= Len(s.data))
    <3>1. n - Len(s.data) \in 1 .. Len(d)
      BY <2>1, <2>3, <1>7
    <3>2. d[n - Len(s.data)] = EndSeq(s) + (n - Len(s.data)) - 1 - w.base
      BY <3>1 DEF DataFrom
    <3>3. w.base \in Nat
      BY DEF IsStream
    <3>4. EndSeq(s) + (n - Len(s.data)) - 1 - w.base = s.seq + n - 1 - w.base
      BY <3>3, <2>1, <1>2, <1>4, <1>7
    <3> QED
      BY <3>2, <3>4, <2>1, <2>3, <1>5
  <2> QED
    BY <2>2, <2>3
<1>10. OfStream(w, t)
  BY <1>1, <1>6, <1>8, <1>9 DEF OfStream
<1>11. TCP_TCPLEN(t) > 0
  BY <1>7, <1>8
<1>12. Len(t.data) <= TCP_MSS
  BY <1>5, <1>6
<1> QED
  BY <1>6, <1>8, <1>10, <1>11, <1>12 DEF SegOK

(* The parts of tcp_write: the space in the last unsent segment, the units *)
(* that go there, the queue with them, and the queue with all units, x the *)
(* number of the first one.                                                *)
Space(q) == IF Len(q) > 0 /\ Last(q).data # << >> THEN TCP_MSS - Len(Last(q).data) ELSE 0
WritePos(q, d) == Min({Space(q), Len(d)})
Filled(q, d) ==
  IF WritePos(q, d) = 0 THEN q
  ELSE [q EXCEPT ![Len(q)].data = @ \o SubSeq(d, 1, WritePos(q, d))]
WriteRest(q, d) == SubSeq(d, WritePos(q, d) + 1, Len(d))
Written(q, x, d) ==
  IF WriteRest(q, d) = << >> THEN Filled(q, d)
  ELSE Append(Filled(q, d), NewSeg(x + WritePos(q, d), FALSE, FALSE, WriteRest(q, d)))

(* tcp_write in these parts.                                               *)
LEMMA WriteIsWritten ==
  ASSUME NEW p, NEW d
  PROVE  tcp_write(p, d) = [p EXCEPT !.unsent = Written(p.unsent, p.snd_lbb, d),
                                     !.snd_lbb = @ + Len(d)]
  BY DEF tcp_write, Written, WriteRest, Filled, WritePos, Space

(* The smaller of two numbers.                                             *)
LEMMA MinOfTwo ==
  ASSUME NEW a \in Nat, NEW b \in Nat
  PROVE  Min({a, b}) \in {a, b} /\ Min({a, b}) <= a /\ Min({a, b}) <= b
<1> DEFINE S == {a, b}
<1>1. \E x \in S : \A y \in S : x <= y
  <2>1. CASE a <= b
    BY <2>1
  <2>2. CASE b <= a
    BY <2>2
  <2> QED
    BY <2>1, <2>2
<1>2. Min(S) = CHOOSE x \in S : \A y \in S : x <= y
  BY DEF Min
<1> HIDE DEF S
<1>3. Min(S) \in S /\ \A y \in S : Min(S) <= y
  BY <1>1, <1>2
<1> QED
  BY <1>3 DEF S

(* The queue unsent before the rest is appended.                           *)
LEMMA FilledQueue ==
  ASSUME NEW w, IsStream(w), ~w.closed, NEW q, Linked(w, q, w.top),
         NEW d \in Seq(Nat), d # << >>, DataFrom(w, w.top, d),
         NEW w2, IsStream(w2), ~w2.closed, w2.base = w.base, w2.top = w.top + Len(d)
  PROVE  LET pos == WritePos(q, d)
             r == Filled(q, d)
         IN  /\ pos \in 0 .. Len(d) /\ Linked(w2, r, w.top + pos)
             /\ q = << >> => r = << >> /\ pos = 0
             /\ q # << >> => r # << >> /\ r[1].seq = q[1].seq /\ EndSeq(q[1]) <= EndSeq(r[1])
<1> DEFINE pos == WritePos(q, d)
           r == Filled(q, d)
           s == Last(q)
           e == SubSeq(d, 1, pos)
<1>1. /\ w.base \in Nat /\ w.top \in Nat /\ w2.base \in Nat /\ w2.top \in Nat
      /\ Len(d) \in Nat /\ Len(d) > 0 /\ w.top <= w2.top
  BY DEF IsStream
<1>2. q \in Seq(Segment) /\ Len(q) \in Nat
  BY DEF Linked
<1>3. Grows(w, w2)
  BY <1>1 DEF Grows
<1>4. Linked(w2, q, w.top)
  BY <1>1, <1>3, LinkedGrows
<1>5. q # << >> => Len(q) \in 1 .. Len(q) /\ SegOK(w, s) /\ EndSeq(s) = w.top
  BY <1>2 DEF Linked, Last
<1>6. q # << >> => /\ s \in Segment /\ s.data \in Seq(Nat) /\ Len(s.data) \in Nat
                   /\ s.data # << >> => OfStream(w, s) /\ Len(s.data) <= TCP_MSS
  BY <1>1, <1>5, SegFacts DEF Segment
<1>7. Space(q) \in Nat /\ (Space(q) # 0 => q # << >> /\ s.data # << >> /\ Space(q) = TCP_MSS - Len(s.data))
  <2>1. CASE Len(q) > 0 /\ s.data # << >>
    <3>1. q # << >>
      BY <2>1
    <3>2. Space(q) = TCP_MSS - Len(s.data)
      BY <2>1 DEF Space
    <3> QED
      BY <2>1, <3>1, <3>2, <1>6, MssAssumption
  <2>2. CASE ~(Len(q) > 0 /\ s.data # << >>)
    <3>1. Space(q) = 0
      BY <2>2, Zenon DEF Space
    <3> QED
      BY <3>1
  <2> QED
    BY <2>1, <2>2
<1>8. pos \in {Space(q), Len(d)} /\ pos <= Space(q) /\ pos <= Len(d)
  BY <1>1, <1>7, MinOfTwo DEF WritePos
<1>9. pos \in 0 .. Len(d) /\ (pos # 0 => Space(q) # 0)
  BY <1>1, <1>7, <1>8
<1> HIDE DEF pos, s
<1>10. CASE pos = 0
  <2>1. r = q
    BY <1>10 DEF Filled, pos
  <2>2. w.top + pos = w.top
    BY <1>1, <1>10
  <2>3. q # << >> => EndSeq(q[1]) <= EndSeq(q[1])
    <3> HAVE q # << >>
    <3>1. EndSeq(q[1]) \in Nat
      BY <1>1, FirstNat
    <3> QED
      BY <3>1
  <2> QED
    BY <2>1, <2>2, <2>3, <1>4, <1>9, <1>10 DEF pos
<1>11. CASE pos # 0
  <2> DEFINE t == [s EXCEPT !.data = @ \o e]
  <2>1. q # << >> /\ s.data # << >> /\ Space(q) = TCP_MSS - Len(s.data)
    BY <1>7, <1>9, <1>11 DEF s
  <2>2. OfStream(w, s) /\ Len(s.data) \in Nat /\ EndSeq(s) = w.top /\ Len(q) \in 1 .. Len(q)
    BY <2>1, <1>5, <1>6 DEF s
  <2>3. e \in Seq(Nat) /\ Len(e) = pos /\ \A n \in 1 .. pos : n \in 1 .. Len(d) /\ e[n] = d[n]
    BY <1>1, <1>9
  <2>4. DataFrom(w, EndSeq(s), e)
    BY <2>2, <2>3 DEF DataFrom
  <2>5. Len(s.data) + Len(e) <= TCP_MSS /\ EndSeq(s) + Len(e) <= w2.top
    <3>1. pos <= TCP_MSS - Len(s.data) /\ pos \in Nat /\ pos <= Len(d) /\ TCP_MSS \in Nat
      BY <2>1, <1>1, <1>8, <1>9, MssAssumption DEF pos
    <3>2. Len(s.data) + pos <= TCP_MSS
      BY <3>1, <2>2
    <3>3. w.top + pos <= w2.top
      BY <3>1, <1>1
    <3> QED
      BY <3>2, <3>3, <2>2, <2>3
  <2> HIDE DEF e
  <2>6. SegOK(w2, t) /\ t.seq = s.seq /\ EndSeq(t) = EndSeq(s) + Len(e)
    <3>1. Extended(s, e, t)
      BY DEF Extended
    <3>2. OfStream(w2, s)
      BY <2>2, <1>1, <1>3, OfStreamGrows
    <3>3. DataFrom(w2, EndSeq(s), e)
      BY <2>4 DEF DataFrom
    <3> HIDE DEF t
    <3> QED
      BY <3>1, <3>2, <3>3, <2>1, <2>3, <2>5, FilledIs
  <2>7. EndSeq(t) = w.top + pos /\ EndSeq(s) <= EndSeq(t)
    BY <2>2, <2>3, <2>6, <1>1, <1>9
  <2>8. r = [q EXCEPT ![Len(q)] = t]
    <3>1. r = [q EXCEPT ![Len(q)].data = @ \o e]
      BY <1>11 DEF Filled, pos, e
    <3>2. Len(q) \in DOMAIN q
      BY <2>2, <1>2
    <3> QED
      BY <3>1, <3>2 DEF s, Last
  <2> HIDE DEF t, r
  <2>9. /\ Linked(w2, r, EndSeq(t)) /\ r # << >>
        /\ r[1].seq = q[1].seq /\ EndSeq(q[1]) <= EndSeq(r[1])
    <3>1. t.seq = Last(q).seq /\ EndSeq(Last(q)) <= EndSeq(t)
      BY <2>6, <2>7 DEF s
    <3>2. LastChanged(q, t, r)
      BY <2>8 DEF LastChanged
    <3> QED
      BY <3>1, <3>2, <2>1, <2>6, <1>1, <1>4, LinkedLast
  <2> QED
    BY <2>1, <2>7, <2>9, <1>9 DEF r, pos
<1> QED
  BY <1>10, <1>11

(* tcp_write keeps unsent in order.                                        *)
LEMMA WrittenQueue ==
  ASSUME NEW w, IsStream(w), ~w.closed, w.base < w.top, NEW q, Linked(w, q, w.top),
         NEW d \in Seq(Nat), d # << >>, Len(d) <= TCP_MSS, DataFrom(w, w.top, d),
         NEW w2, IsStream(w2), ~w2.closed, w2.base = w.base, w2.top = w.top + Len(d)
  PROVE  LET r == Written(q, w.top, d)
         IN  /\ Linked(w2, r, w2.top) /\ r # << >> /\ r[1].seq = First(q, w.top)
             /\ q # << >> => EndSeq(q[1]) <= EndSeq(r[1])
<1> DEFINE pos == WritePos(q, d)
           f == Filled(q, d)
           e == WriteRest(q, d)
           r == Written(q, w.top, d)
           s == NewSeg(w.top + pos, FALSE, FALSE, e)
<1>1. /\ w.base \in Nat /\ w.top \in Nat /\ w2.base \in Nat /\ w2.top \in Nat
      /\ Len(d) \in Nat /\ Len(d) > 0 /\ w.top <= w2.top
  BY DEF IsStream
<1>2. /\ pos \in 0 .. Len(d) /\ Linked(w2, f, w.top + pos)
      /\ q = << >> => f = << >> /\ pos = 0
      /\ q # << >> => f # << >> /\ f[1].seq = q[1].seq /\ EndSeq(q[1]) <= EndSeq(f[1])
  BY FilledQueue
<1> HIDE DEF pos, f
<1>3. /\ e \in Seq(Nat) /\ Len(e) = Len(d) - pos
      /\ \A n \in 1 .. Len(d) - pos : n + pos \in 1 .. Len(d) /\ e[n] = d[n + pos]
  <2>1. e = SubSeq(d, pos + 1, Len(d))
    BY DEF WriteRest, pos
  <2>2. pos + 1 \in 1 .. Len(d) + 1
    BY <1>1, <1>2
  <2>3. e \in Seq(Nat) /\ Len(e) = Len(d) - pos
    BY <2>1, <2>2, <1>1, <1>2
  <2>4. ASSUME NEW n \in 1 .. Len(d) - pos PROVE n + pos \in 1 .. Len(d) /\ e[n] = d[n + pos]
    BY <2>1, <2>2, <1>1, <1>2
  <2> QED
    BY <2>3, <2>4
<1>4. CASE e = << >>
  <2>1. r = f
    BY <1>4 DEF Written, f
  <2>2. pos = Len(d)
    BY <1>1, <1>2, <1>3, <1>4
  <2>3. q # << >>
    BY <2>2, <1>1, <1>2
  <2>4. First(q, w.top) = q[1].seq
    BY <2>3 DEF First
  <2> QED
    BY <2>1, <2>2, <2>3, <2>4, <1>2
<1>5. CASE e # << >>
  <2>1. r = Append(f, s)
    BY <1>5 DEF Written, f, pos
  <2>2. w.top + pos \in Nat /\ w2.base < w.top + pos /\ Len(e) <= TCP_MSS /\ w.top + pos + Len(e) = w2.top
        /\ w.top + pos + Len(e) <= w2.top
    BY <1>1, <1>2, <1>3, MssAssumption
  <2>3. DataFrom(w2, w.top + pos, e)
    <3> SUFFICES ASSUME NEW n \in 1 .. Len(e) PROVE e[n] = (w.top + pos) + n - 1 - w2.base
      BY DEF DataFrom
    <3>1. n \in 1 .. Len(d) - pos /\ n + pos \in 1 .. Len(d) /\ e[n] = d[n + pos]
      BY <1>3
    <3>2. d[n + pos] = w.top + (n + pos) - 1 - w.base
      BY <3>1 DEF DataFrom
    <3>3. n \in Nat /\ pos \in Nat
      BY <3>1, <1>1, <1>2
    <3>4. w.top + (n + pos) - 1 - w.base = (w.top + pos) + n - 1 - w2.base
      BY <3>3, <1>1
    <3> QED
      BY <3>1, <3>2, <3>4
  <2> HIDE DEF e
  <2>4. SegOK(w2, s) /\ s.seq = w.top + pos /\ EndSeq(s) = w.top + pos + Len(e)
    BY <2>2, <2>3, <1>3, <1>5, NewSegIs
  <2> HIDE DEF s, r
  <2>5. /\ Linked(w2, r, EndSeq(s)) /\ r # << >>
        /\ r[1].seq = First(f, s.seq)
        /\ f # << >> => r[1] = f[1]
    <3>1. Pushed(f, s, r)
      BY <2>1 DEF Pushed
    <3>2. Linked(w2, f, s.seq)
      BY <2>4, <1>2
    <3> QED
      BY <3>1, <3>2, <2>4, <1>1, LinkedPush
  <2>6. EndSeq(s) = w2.top
    BY <2>2, <2>4
  <2>7. CASE q = << >>
    <3>1. f = << >> /\ s.seq = w.top
      BY <2>4, <2>7, <1>1, <1>2
    <3> QED
      BY <3>1, <2>5, <2>6, <2>7 DEF First, r
  <2>8. CASE q # << >>
    <3>1. r[1] = f[1]
      BY <2>5, <2>8, <1>2
    <3> QED
      BY <3>1, <2>5, <2>6, <2>8, <1>2 DEF First, r
  <2> QED
    BY <2>7, <2>8
<1> QED
  BY <1>4, <1>5

(* Only the send queues, the timer and its counters may change.            *)
Queues(p, q) ==
  /\ q \in Pcb /\ SameRcv(p, q) /\ SameCtl(p, q)
  /\ q.snd_nxt = p.snd_nxt /\ q.lastack = p.lastack /\ q.ack = p.ack

(* New queues in a pcb.                                                    *)
NewQueues(p, u, v, l, n, q) ==
  /\ u \in Seq(Segment) /\ v \in Seq(Segment) /\ l \in Nat /\ n \in 0 .. 255
  /\ q = [p EXCEPT !.unsent = u, !.unacked = v, !.snd_lbb = l, !.nrtx = n]
NewUnsent(p, u, l, q) == q = [p EXCEPT !.unsent = u, !.snd_lbb = l]

(* Such a pcb keeps its type, its receiving side and its state.            *)
LEMMA QueuesIs ==
  ASSUME NEW p \in Pcb, NEW u, NEW v, NEW l, NEW n, NEW q, NewQueues(p, u, v, l, n, q)
  PROVE  Queues(p, q) /\ q.unsent = u /\ q.unacked = v /\ q.snd_lbb = l /\ q.infr = p.infr
<1>1. IsPcb(p) /\ SndTyped(p) /\ RcvTyped(p) /\ CtlTyped(p)
  BY PcbIs
<1>2. /\ IsPcb(q) /\ SameRcv(p, q) /\ SameCtl(p, q)
      /\ q.lastack = p.lastack /\ q.snd_lbb = l
      /\ q.unsent = u /\ q.unacked = v /\ q.snd_nxt = p.snd_nxt /\ q.ack = p.ack
      /\ q.infr = p.infr /\ q.rtime = p.rtime /\ q.nrtx = n /\ q.dupacks = p.dupacks
  BY <1>1, FieldsOfPcb DEF IsPcb, SameRcv, SameCtl, NewQueues
<1>3. CtlTyped(q)
  BY <1>1, <1>2 DEF CtlTyped, SameCtl, NewQueues
<1>4. SndTyped(q)
  BY <1>1, <1>2 DEF SndTyped, NewQueues
<1> QED
  BY <1>1, <1>2, <1>3, <1>4, SameTyped, PcbIs DEF Queues

(* A pcb whose unsent queue and snd_lbb change.                            *)
LEMMA UnsentIs ==
  ASSUME NEW p \in Pcb, NEW u \in Seq(Segment), NEW l \in Nat, NEW q,
         NewUnsent(p, u, l, q)
  PROVE  Queues(p, q) /\ q.unsent = u /\ q.unacked = p.unacked /\ q.snd_lbb = l /\ q.infr = p.infr
<1>1. IsPcb(p) /\ SndTyped(p) /\ RcvTyped(p) /\ CtlTyped(p)
  BY PcbIs
<1>2. /\ IsPcb(q) /\ SameRcv(p, q) /\ SameCtl(p, q)
      /\ q.lastack = p.lastack /\ q.snd_lbb = l
      /\ q.unsent = u /\ q.unacked = p.unacked /\ q.snd_nxt = p.snd_nxt /\ q.ack = p.ack
      /\ q.infr = p.infr /\ q.rtime = p.rtime /\ q.nrtx = p.nrtx /\ q.dupacks = p.dupacks
  BY <1>1, FieldsOfPcb DEF IsPcb, SameRcv, SameCtl, NewUnsent
<1>3. CtlTyped(q)
  BY <1>1, <1>2 DEF CtlTyped, SameCtl
<1>4. SndTyped(q)
  BY <1>1, <1>2 DEF SndTyped
<1> QED
  BY <1>1, <1>2, <1>3, <1>4, SameTyped, PcbIs DEF Queues

(* tcp_write: the stream is longer and in the queues.                      *)
LEMMA WriteIs ==
  ASSUME NEW w, IsStream(w), ~w.closed, w.base < w.top, NEW p \in Pcb, SndInv(p, w),
         NEW d \in Seq(Nat), d # << >>, Len(d) <= TCP_MSS, DataFrom(w, w.top, d),
         NEW w2, IsStream(w2), ~w2.closed, w2.base = w.base, w2.top = w.top + Len(d)
  PROVE  Queues(p, tcp_write(p, d)) /\ SndInv(tcp_write(p, d), w2)
<1> DEFINE q == tcp_write(p, d)
           u == Written(p.unsent, w.top, d)
           l == w.top + Len(d)
<1>1. /\ SndTyped(p) /\ p.snd_lbb = w.top /\ Len(d) \in Nat /\ Len(d) > 0
      /\ Sending(w, p.unacked, p.unsent, p.snd_nxt, p.lastack)
  BY PcbIs DEF SndInv
<1>2. End(w) = w.top /\ End(w2) = w2.top /\ w.top \in Nat /\ w2.top \in Nat /\ w2.base \in Nat
  BY EndNat DEF IsStream
<1>3. q = [p EXCEPT !.unsent = u, !.snd_lbb = l]
  BY <1>1, WriteIsWritten
<1>4. Linked(w, p.unsent, w.top)
  <2>1. Linked(w, p.unsent, End(w))
    BY <1>1 DEF Sending, End
  <2> QED
    BY <2>1, <1>2
<1>5. /\ Linked(w2, u, w2.top) /\ u # << >> /\ u[1].seq = First(p.unsent, w.top)
      /\ p.unsent # << >> => EndSeq(p.unsent[1]) <= EndSeq(u[1])
  BY <1>4, WrittenQueue
<1>6. u \in Seq(Segment) /\ l \in Nat
  BY <1>1, <1>2, <1>5 DEF Linked
<1> HIDE DEF q, u, l
<1>7. Queues(p, q) /\ q.unsent = u /\ q.unacked = p.unacked /\ q.snd_lbb = l /\ q.infr = p.infr
  <2>1. NewUnsent(p, u, l, q)
    BY <1>3 DEF NewUnsent
  <2> QED
    BY <2>1, <1>6, UnsentIs
<1>8. Grows(w, w2) /\ End(w) <= End(w2)
  BY <1>1, <1>2 DEF Grows
<1>9. Sending(w2, p.unacked, u, p.snd_nxt, p.lastack)
  BY <1>1, <1>2, <1>5, <1>8, SendMore DEF SndTyped
<1>10. SndInv(q, w2)
  BY <1>7, <1>9 DEF SndInv, Queues, l
<1> QED
  BY <1>7, <1>10 DEF q

-----------------------------------------------------------------------------
(* The FIN joins the last unsent segment.                                  *)
FinSet(s, t) == t = [s EXCEPT !.fin = TRUE]

(* That segment is a part of the closed stream.                            *)
LEMMA FinSetIs ==
  ASSUME NEW w, IsStream(w), w.closed, NEW s, OfStream(w, s), ~s.fin, EndSeq(s) = w.top,
         Len(s.data) <= TCP_MSS, NEW t, FinSet(s, t)
  PROVE  SegOK(w, t) /\ t.seq = s.seq /\ EndSeq(t) = w.top + 1
<1>1. s \in Segment /\ ~s.syn /\ w.base < s.seq /\ DataEnd(s) = EndSeq(s) /\ w.top \in Nat
  BY EndIs DEF OfStream, IsStream
<1>2. s.seq \in Nat /\ s.data \in Seq(Nat) /\ Len(s.data) \in Nat
  BY <1>1 DEF Segment
<1>3. t \in Segment /\ t.seq = s.seq /\ ~t.syn /\ t.fin /\ t.data = s.data
  BY <1>1 DEF Segment, FinSet
<1>4. DataEnd(t) = DataEnd(s)
  BY <1>3 DEF DataEnd
<1>5. TCP_TCPLEN(t) = Len(s.data) + 1
  BY <1>3, Zenon DEF TCP_TCPLEN
<1>6. OfStream(w, t)
  <2>1. \A n \in 1 .. Len(s.data) : s.data[n] = s.seq + n - 1 - w.base
    BY DEF OfStream
  <2>2. DataEnd(t) = w.top /\ w.top <= w.top
    BY <1>1, <1>4
  <2> QED
    BY <2>1, <2>2, <1>1, <1>3 DEF OfStream
<1>7. EndSeq(t) = w.top + 1
  BY <1>6, <1>3, <1>1, <1>4, EndIs DEF IsStream
<1>8. TCP_TCPLEN(t) > 0 /\ Len(t.data) <= TCP_MSS
  BY <1>2, <1>3, <1>5
<1> QED
  BY <1>3, <1>6, <1>7, <1>8 DEF SegOK

(* The FIN in a segment of its own.                                        *)
LEMMA NewFinIs ==
  ASSUME NEW w, IsStream(w), w.closed, w.base < w.top
  PROVE  LET s == NewSeg(w.top, FALSE, TRUE, << >>)
         IN  SegOK(w, s) /\ s.seq = w.top /\ EndSeq(s) = w.top + 1
<1> DEFINE s == NewSeg(w.top, FALSE, TRUE, << >>)
<1>1. s \in Segment /\ s.seq = w.top /\ ~s.syn /\ s.fin /\ s.data = << >> /\ w.top \in Nat
  BY DEF NewSeg, Segment, IsStream
<1>2. Len(<< >>) = 0
  OBVIOUS
<1> HIDE DEF s
<1>3. TCP_TCPLEN(s) = 1 /\ DataEnd(s) = w.top /\ EndSeq(s) = w.top + 1
  BY <1>1, <1>2 DEF TCP_TCPLEN, DataEnd, EndSeq
<1>4. OfStream(w, s)
  BY <1>1, <1>2, <1>3 DEF OfStream
<1>5. Len(s.data) <= TCP_MSS /\ TCP_TCPLEN(s) > 0
  BY <1>1, <1>2, <1>3, MssAssumption
<1> QED
  BY <1>1, <1>3, <1>4, <1>5 DEF SegOK, s

(* What tcp_send_fin makes of unsent.                                      *)
FinQueue(q, x) ==
  IF Len(q) > 0 /\ ~Last(q).syn /\ ~Last(q).fin
  THEN [q EXCEPT ![Len(q)].fin = TRUE] ELSE Append(q, NewSeg(x, FALSE, TRUE, << >>))

(* It ends with the FIN, and begins where it did.                          *)
LEMMA FinQueueIs ==
  ASSUME NEW w, IsStream(w), ~w.closed, w.base < w.top, NEW q, Linked(w, q, w.top),
         NEW w2, IsStream(w2), w2.closed, w2.base = w.base, w2.top = w.top
  PROVE  LET r == FinQueue(q, w.top)
         IN  /\ Linked(w2, r, w2.top + 1) /\ r # << >> /\ r[1].seq = First(q, w.top)
             /\ q # << >> => EndSeq(q[1]) <= EndSeq(r[1])
<1> DEFINE r == FinQueue(q, w.top)
           s == Last(q)
<1>1. w.base \in Nat /\ w.top \in Nat /\ w2.base \in Nat /\ w2.top \in Nat
  BY DEF IsStream
<1>2. q \in Seq(Segment) /\ Len(q) \in Nat
  BY DEF Linked
<1>3. Grows(w, w2)
  BY <1>1 DEF Grows
<1>4. Linked(w2, q, w2.top)
  BY <1>1, <1>3, LinkedGrows
<1>5. CASE Len(q) > 0 /\ ~s.syn /\ ~s.fin
  <2> DEFINE t == [s EXCEPT !.fin = TRUE]
  <2>1. q # << >> /\ Len(q) \in 1 .. Len(q)
    BY <1>2, <1>5
  <2>2. SegOK(w2, s) /\ EndSeq(s) = w2.top
    BY <2>1, <1>4 DEF Linked, Last
  <2>3. OfStream(w2, s) /\ Len(s.data) <= TCP_MSS
    BY <2>2, <1>1, <1>5, SegFacts
  <2>4. FinSet(s, t)
    BY DEF FinSet
  <2>5. r = [q EXCEPT ![Len(q)].fin = TRUE]
    BY <1>5 DEF FinQueue
  <2>6. LastChanged(q, t, r)
    <3>1. Len(q) \in DOMAIN q
      BY <2>1, <1>2
    <3> QED
      BY <3>1, <2>5 DEF LastChanged, Last
  <2> HIDE DEF s, t, r
  <2>7. SegOK(w2, t) /\ t.seq = s.seq /\ EndSeq(t) = w2.top + 1
    BY <2>2, <2>3, <2>4, <1>5, FinSetIs DEF s
  <2>8. EndSeq(s) <= EndSeq(t)
    BY <2>2, <2>7, <1>1
  <2>9. t.seq = Last(q).seq /\ EndSeq(Last(q)) <= EndSeq(t)
    BY <2>7, <2>8 DEF s
  <2>10. /\ Linked(w2, r, EndSeq(t)) /\ r # << >>
         /\ r[1].seq = q[1].seq /\ EndSeq(q[1]) <= EndSeq(r[1])
    BY <2>1, <2>6, <2>7, <2>9, <1>1, <1>4, LinkedLast
  <2> QED
    BY <2>1, <2>7, <2>10 DEF First, r
<1>6. CASE ~(Len(q) > 0 /\ ~s.syn /\ ~s.fin)
  <2> DEFINE t == NewSeg(w.top, FALSE, TRUE, << >>)
  <2>1. r = Append(q, t)
    BY <1>6, Zenon DEF FinQueue
  <2>2. t = NewSeg(w2.top, FALSE, TRUE, << >>) /\ w2.base < w2.top
    OBVIOUS
  <2>3. SegOK(w2, t) /\ t.seq = w2.top /\ EndSeq(t) = w2.top + 1
    BY <2>2, NewFinIs
  <2> HIDE DEF t, r
  <2>4. /\ Linked(w2, r, EndSeq(t)) /\ r # << >>
        /\ r[1].seq = First(q, t.seq)
        /\ q # << >> => r[1] = q[1]
    <3>1. Pushed(q, t, r)
      BY <2>1 DEF Pushed
    <3>2. Linked(w2, q, t.seq)
      BY <2>3, <1>4
    <3>3. SegOK(w2, t) /\ w2.base \in Nat
      BY <2>3, <1>1
    <3> HIDE DEF s
    <3> QED
      BY <3>1, <3>2, <3>3, LinkedPush
  <2>5. q # << >> => EndSeq(q[1]) \in Nat
    BY <1>1, FirstNat
  <2>6. q # << >> => EndSeq(q[1]) <= EndSeq(r[1])
    BY <2>4, <2>5
  <2> QED
    BY <2>3, <2>4, <2>6 DEF r
<1> QED
  BY <1>5, <1>6

(* tcp_send_fin: the stream has its end.                                   *)
LEMMA FinIs ==
  ASSUME NEW w, IsStream(w), ~w.closed, w.base < w.top, NEW p \in Pcb, SndInv(p, w),
         NEW w2, IsStream(w2), w2.closed, w2.base = w.base, w2.top = w.top
  PROVE  Queues(p, tcp_send_fin(p)) /\ SndInv(tcp_send_fin(p), w2)
<1> DEFINE q == tcp_send_fin(p)
           u == FinQueue(p.unsent, w.top)
           c == Len(p.unsent) > 0 /\ ~Last(p.unsent).syn /\ ~Last(p.unsent).fin
           l == IF c THEN p.snd_lbb ELSE p.snd_lbb + 1
<1>1. /\ SndTyped(p) /\ p.snd_lbb = w.top /\ IsPcb(p)
      /\ Sending(w, p.unacked, p.unsent, p.snd_nxt, p.lastack)
  BY PcbIs DEF SndInv
<1>2. End(w) = w.top /\ End(w2) = w2.top + 1 /\ w.top \in Nat /\ w2.top \in Nat /\ w2.base \in Nat
  BY EndNat DEF IsStream
<1>3. q = [p EXCEPT !.unsent = u, !.snd_lbb = l]
  <2>1. CASE c
    <3>1. q = [p EXCEPT !.unsent[Len(p.unsent)].fin = TRUE]
      BY <2>1 DEF tcp_send_fin
    <3>2. u = [p.unsent EXCEPT ![Len(p.unsent)].fin = TRUE]
      BY <2>1 DEF FinQueue
    <3> HIDE DEF q, u
    <3> QED
      BY <3>1, <3>2, <2>1, <1>1, FieldsOfPcb DEF IsPcb
  <2>2. CASE ~c
    <3>1. q = tcp_enqueue_flags(p, FALSE)
      BY <2>2, Zenon DEF tcp_send_fin
    <3>2. u = Append(p.unsent, NewSeg(p.snd_lbb, FALSE, TRUE, << >>)) /\ l = p.snd_lbb + 1
      BY <2>2, <1>1, Zenon DEF FinQueue
    <3>3. q = [p EXCEPT !.unsent = Append(@, NewSeg(p.snd_lbb, FALSE, TRUE, << >>)), !.snd_lbb = @ + 1]
      BY <3>1 DEF tcp_enqueue_flags
    <3> HIDE DEF q, u, l
    <3> QED
      BY <3>2, <3>3
  <2> QED
    BY <2>1, <2>2
<1>4. Linked(w, p.unsent, w.top)
  <2>1. Linked(w, p.unsent, End(w))
    BY <1>1 DEF Sending, End
  <2> QED
    BY <2>1, <1>2
<1>5. /\ Linked(w2, u, w2.top + 1) /\ u # << >> /\ u[1].seq = First(p.unsent, w.top)
      /\ p.unsent # << >> => EndSeq(p.unsent[1]) <= EndSeq(u[1])
  BY <1>4, FinQueueIs
<1>6. u \in Seq(Segment) /\ l \in Nat
  BY <1>1, <1>5 DEF Linked, SndTyped
<1> HIDE DEF q, u, l
<1>7. Queues(p, q) /\ q.unsent = u /\ q.unacked = p.unacked /\ q.snd_lbb = l /\ q.infr = p.infr
  <2>1. NewUnsent(p, u, l, q)
    BY <1>3 DEF NewUnsent
  <2> QED
    BY <2>1, <1>6, UnsentIs
<1>8. Grows(w, w2) /\ End(w) <= End(w2)
  BY <1>2 DEF Grows
<1>9. Sending(w2, p.unacked, u, p.snd_nxt, p.lastack)
  BY <1>1, <1>2, <1>5, <1>8, SendMore DEF SndTyped
<1>10. SndInv(q, w2)
  BY <1>7, <1>9 DEF SndInv, Queues
<1> QED
  BY <1>7, <1>10 DEF q

(* The width of nrtx.                                                      *)
LEMMA u8Is ==
  ASSUME NEW n \in 0 .. 255
  PROVE  u8(n + 1) \in 0 .. 255
  BY DEF u8

(* tcp_rexmit_rto: all outstanding segments are unsent again, in order.    *)
LEMMA RtoIs ==
  ASSUME NEW w, IsStream(w), NEW p \in Pcb, SndInv(p, w)
  PROVE  Queues(p, tcp_rexmit_rto(p)) /\ SndInv(tcp_rexmit_rto(p), w)
<1> DEFINE q == tcp_rexmit_rto(p)
           u == p.unacked \o p.unsent
           n == u8(p.nrtx + 1)
<1>1. SndTyped(p) /\ CtlTyped(p) /\ IsPcb(p)
  BY PcbIs
<1>2. CASE p.unacked = << >>
  <2>1. q = p
    BY <1>2 DEF tcp_rexmit_rto
  <2> QED
    BY <2>1, SameTrans DEF Queues
<1>3. CASE p.unacked # << >>
  <2>1. q = [p EXCEPT !.unsent = u, !.unacked = << >>, !.nrtx = n]
    BY <1>3 DEF tcp_rexmit_rto
  <2>2. p.nrtx \in 0 .. 255
    BY <1>1 DEF CtlTyped
  <2>3. n \in 0 .. 255
    BY <2>2, u8Is
  <2>4. Sending(w, << >>, u, p.snd_nxt, p.lastack) /\ u \in Seq(Segment)
    BY <1>1, SendAllAgain DEF SndInv, SndTyped
  <2> HIDE DEF q, u, n
  <2>5. NewQueues(p, u, << >>, p.snd_lbb, n, q)
    <3>1. << >> \in Seq(Segment) /\ p.snd_lbb \in Nat
      BY <1>1 DEF SndTyped
    <3>2. q = [p EXCEPT !.unsent = u, !.unacked = << >>, !.snd_lbb = p.snd_lbb, !.nrtx = n]
      BY <2>1, <1>1, FieldsOfPcb DEF IsPcb
    <3> QED
      BY <3>1, <3>2, <2>3, <2>4 DEF NewQueues
  <2>6. Queues(p, q) /\ q.unsent = u /\ q.unacked = << >> /\ q.snd_lbb = p.snd_lbb /\ q.infr = p.infr
    BY <2>5, QueuesIs
  <2> QED
    BY <2>4, <2>6 DEF SndInv, Queues, q
<1> QED
  BY <1>2, <1>3

(* tcp_rexmit: the first outstanding segment is unsent again.              *)
LEMMA RexmitIs ==
  ASSUME NEW w, IsStream(w), NEW p \in Pcb, SndInv(p, w), p.unacked # << >>
  PROVE  LET q == tcp_rexmit(p)
         IN  Queues(p, q) /\ FastInv(q, w) /\ q.unacked = Tail(p.unacked)
<1> DEFINE q == tcp_rexmit(p)
           s == Head(p.unacked)
           u == InsertSorted(p.unsent, s)
           v == Tail(p.unacked)
           n == u8(p.nrtx + 1)
<1>1. SndTyped(p) /\ CtlTyped(p) /\ IsPcb(p)
  BY PcbIs
<1>2. q = [p EXCEPT !.unsent = u, !.unacked = v, !.nrtx = n]
  BY DEF tcp_rexmit
<1>3. p.nrtx \in 0 .. 255
  BY <1>1 DEF CtlTyped
<1>4. n \in 0 .. 255
  BY <1>3, u8Is
<1>5. /\ u \in Seq(Segment) /\ u # << >> /\ Head(u) = s /\ Tail(u) = p.unsent
      /\ <<s>> \o v = p.unacked /\ v \in Seq(Segment)
  BY <1>1, SendFirstAgain DEF SndInv, SndTyped
<1> HIDE DEF q, u, v, n, s
<1>6. NewQueues(p, u, v, p.snd_lbb, n, q)
  <2>1. p.snd_lbb \in Nat
    BY <1>1 DEF SndTyped
  <2>2. q = [p EXCEPT !.unsent = u, !.unacked = v, !.snd_lbb = p.snd_lbb, !.nrtx = n]
    BY <1>2, <1>1, FieldsOfPcb DEF IsPcb
  <2> QED
    BY <2>1, <2>2, <1>4, <1>5 DEF NewQueues
<1>7. Queues(p, q) /\ q.unsent = u /\ q.unacked = v /\ q.snd_lbb = p.snd_lbb /\ q.infr = p.infr
  BY <1>6, QueuesIs
<1>8. FastInv(q, w)
  BY <1>5, <1>7 DEF FastInv, Queues, SndInv
<1> QED
  BY <1>7, <1>8 DEF q, v

(* The counters, the timer and the fast retransmit flag.                   *)
NewCounters(p, n, f, t, q) == q = [p EXCEPT !.dupacks = n, !.infr = f, !.rtime = t]

(* They are no part of the queues.                                         *)
LEMMA CountersIs ==
  ASSUME NEW p \in Pcb, NEW n \in Nat, NEW f \in BOOLEAN, NEW t \in BOOLEAN, NEW q,
         NewCounters(p, n, f, t, q)
  PROVE  q \in Pcb /\ SameSnd(p, q) /\ SameRcv(p, q) /\ SameCtl(p, q) /\ q.ack = p.ack /\ q.infr = f
<1>1. IsPcb(p) /\ SndTyped(p) /\ RcvTyped(p) /\ CtlTyped(p)
  BY PcbIs
<1>2. /\ IsPcb(q) /\ SameSnd(p, q) /\ SameRcv(p, q) /\ SameCtl(p, q) /\ q.ack = p.ack
      /\ q.infr = f /\ q.rtime = t /\ q.nrtx = p.nrtx /\ q.dupacks = n
  BY <1>1, FieldsOfPcb DEF IsPcb, SameSnd, SameRcv, SameCtl, NewCounters
<1>3. CtlTyped(q)
  BY <1>1, <1>2 DEF CtlTyped, SameCtl
<1> QED
  BY <1>1, <1>2, <1>3, SameTyped, PcbIs

(* tcp_rexmit_fast leaves the queues as tcp_output may find them.          *)
LEMMA RexmitFastIs ==
  ASSUME NEW w, IsStream(w), NEW p \in Pcb, SndInv(p, w)
  PROVE  Queues(p, tcp_rexmit_fast(p)) /\ Ready(tcp_rexmit_fast(p), w)
<1> DEFINE q == tcp_rexmit_fast(p)
           r == tcp_rexmit(p)
<1>1. CASE p.unacked = << >> \/ p.infr
  <2>1. q = p
    BY <1>1 DEF tcp_rexmit_fast
  <2> QED
    BY <2>1, SameTrans DEF Queues, Ready
<1>2. CASE ~(p.unacked = << >> \/ p.infr)
  <2>1. q = [r EXCEPT !.infr = TRUE, !.rtime = TRUE]
    BY <1>2, Zenon DEF tcp_rexmit_fast
  <2>2. Queues(p, r) /\ FastInv(r, w)
    BY <1>2, RexmitIs
  <2> HIDE DEF q, r
  <2>3. r \in Pcb
    BY <2>2 DEF Queues
  <2>4. IsPcb(r) /\ r.dupacks \in Nat
    BY <2>3, PcbIs DEF CtlTyped
  <2>5. NewCounters(r, r.dupacks, TRUE, TRUE, q)
    BY <2>1, <2>4, FieldsOfPcb DEF NewCounters, IsPcb
  <2>6. q \in Pcb /\ SameSnd(r, q) /\ SameRcv(r, q) /\ SameCtl(r, q) /\ q.ack = r.ack /\ q.infr = TRUE
    BY <2>3, <2>4, <2>5, CountersIs
  <2>7. FastInv(q, w)
    BY <2>2, <2>6 DEF FastInv, SameSnd
  <2>8. ~NagleHolds(q)
    BY <2>6 DEF NagleHolds
  <2>9. SameRcv(p, q) /\ SameCtl(p, q)
    BY <2>2, <2>6, SameTrans DEF Queues
  <2> QED
    BY <2>2, <2>6, <2>7, <2>8, <2>9 DEF Queues, Ready, SameSnd, q
<1> QED
  BY <1>1, <1>2

(* An ACK that acknowledges nothing new may start a fast retransmit.       *)
LEMMA OldAckIs ==
  ASSUME NEW w, IsStream(w), NEW p \in Pcb, SndInv(p, w), NEW i
  PROVE  Queues(p, OldAck(p, i)) /\ Ready(OldAck(p, i), w)
<1> DEFINE n == IF DupAck(p, i) THEN Min({p.dupacks + 1, DUPACKS + 1}) ELSE 0
           q == [p EXCEPT !.dupacks = n]
           r == tcp_rexmit_fast(q)
<1>1. IsPcb(p) /\ p.dupacks \in Nat /\ p.infr \in BOOLEAN /\ p.rtime \in BOOLEAN
  BY PcbIs DEF CtlTyped
<1>2. n \in Nat
  <2>1. p.dupacks + 1 \in Nat /\ DUPACKS + 1 \in Nat
    BY <1>1, DupacksAssumption
  <2>2. Min({p.dupacks + 1, DUPACKS + 1}) \in {p.dupacks + 1, DUPACKS + 1}
    BY <2>1, MinOfTwo
  <2> QED
    BY <2>1, <2>2
<1>3. OldAck(p, i) = IF n = DUPACKS THEN r ELSE q
  BY DEF OldAck
<1> HIDE DEF n
<1>4. NewCounters(p, n, p.infr, p.rtime, q)
  BY <1>1, FieldsOfPcb DEF NewCounters, IsPcb
<1> HIDE DEF q
<1>5. q \in Pcb /\ SameSnd(p, q) /\ SameRcv(p, q) /\ SameCtl(p, q) /\ q.ack = p.ack /\ q.infr = p.infr
  BY <1>1, <1>2, <1>4, CountersIs
<1>6. SndInv(q, w)
  BY <1>5, SndSame
<1>7. Queues(q, r) /\ Ready(r, w)
  BY <1>5, <1>6, RexmitFastIs
<1> HIDE DEF r
<1>8. Queues(p, r)
  BY <1>5, <1>7, SameTrans DEF Queues, SameSnd
<1>9. Queues(p, q) /\ Ready(q, w)
  BY <1>5, <1>6 DEF Queues, SameSnd, Ready
<1> QED
  BY <1>3, <1>7, <1>8, <1>9

(* An old ACK takes nothing from unsent.                                   *)
LEMMA UnsentStays ==
  ASSUME NEW w, IsStream(w), NEW p \in Pcb, Ready(p, w), NEW a \in Nat, a <= p.lastack
  PROVE  From(p.unsent, AckedPrefix(p.unsent, a)) = p.unsent
<1> DEFINE u == p.unsent
           k == AckedPrefix(u, a)
<1>1. u \in Seq(Segment) /\ p.unacked \in Seq(Segment) /\ p.lastack \in Nat /\ p.snd_nxt \in Nat
  BY PcbIs DEF SndTyped
<1>2. u # << >> => EndSeq(u[1]) \in Nat /\ p.lastack < EndSeq(u[1])
  <2> HAVE u # << >>
  <2>1. CASE SndInv(p, w)
    BY <2>1, <1>1, UnsentIsNew DEF SndInv
  <2>2. CASE FastInv(p, w)
    <3> DEFINE s == Head(u)
               v == <<s>> \o p.unacked
    <3>1. s = u[1] /\ s \in Segment
      BY <1>1
    <3>2. Sending(w, v, Tail(u), p.snd_nxt, p.lastack)
      BY <2>2 DEF FastInv
    <3>3. v # << >> => p.lastack < EndSeq(v[1])
      BY <3>2 DEF Sending
    <3>4. v # << >> /\ v[1] = s
      BY <3>1, <1>1
    <3>5. EndSeq(s) \in Nat
      BY <3>1, EndsAreNat
    <3> QED
      BY <3>1, <3>3, <3>4, <3>5
  <2> QED
    BY <2>1, <2>2 DEF Ready
<1>3. /\ k \in 0 .. Len(u) /\ \A j \in 1 .. k : EndSeq(u[j]) <= a
  BY <1>1, AckedPrefixIs
<1> HIDE DEF k
<1>4. k = 0
  <2> SUFFICES ASSUME k # 0 PROVE FALSE
    OBVIOUS
  <2>1. 1 \in 1 .. k /\ u # << >>
    BY <1>1, <1>3
  <2>2. EndSeq(u[1]) <= a
    BY <2>1, <1>3
  <2> QED
    BY <2>1, <2>2, <1>1, <1>2
<1>5. From(u, 0) = u
  BY <1>1 DEF From
<1> QED
  BY <1>4, <1>5 DEF k

(* A new ACK in a pcb.                                                     *)
Acked(p, a, u, v, q) ==
  /\ a \in Nat /\ u \in Seq(Segment) /\ v \in Seq(Segment)
  /\ q = [[p EXCEPT !.infr = FALSE, !.nrtx = 0, !.dupacks = 0, !.lastack = a,
                    !.unacked = u, !.rtime = u # << >>] EXCEPT !.unsent = v]

(* Only the sending side changes.                                          *)
LEMMA AckedIs ==
  ASSUME NEW p \in Pcb, NEW a, NEW u, NEW v, NEW q, Acked(p, a, u, v, q)
  PROVE  /\ q \in Pcb /\ SameRcv(p, q) /\ SameCtl(p, q) /\ q.ack = p.ack
         /\ q.snd_nxt = p.snd_nxt /\ q.snd_lbb = p.snd_lbb
         /\ q.lastack = a /\ q.unacked = u /\ q.unsent = v
<1>1. IsPcb(p) /\ SndTyped(p) /\ RcvTyped(p) /\ CtlTyped(p)
  BY PcbIs
<1>2. /\ IsPcb(q) /\ SameRcv(p, q) /\ SameCtl(p, q) /\ q.ack = p.ack
      /\ q.snd_nxt = p.snd_nxt /\ q.snd_lbb = p.snd_lbb
      /\ q.lastack = a /\ q.unacked = u /\ q.unsent = v
      /\ q.infr = FALSE /\ q.rtime = (u # << >>) /\ q.nrtx = 0 /\ q.dupacks = 0
  BY <1>1, FieldsOfPcb DEF IsPcb, SameRcv, SameCtl, Acked
<1>3. CtlTyped(q)
  <2>1. q.rtime \in BOOLEAN
    BY <1>2, Zenon
  <2>2. q.nrtx \in 0 .. 255 /\ q.dupacks \in Nat /\ q.infr \in BOOLEAN
    <3>1. 0 \in 0 .. 255 /\ 0 \in Nat
      OBVIOUS
    <3> QED
      BY <3>1, <1>2, Zenon
  <2> QED
    BY <2>1, <2>2, <1>1, <1>2, Zenon DEF CtlTyped, SameCtl
<1>4. SndTyped(q)
  BY <1>1, <1>2 DEF SndTyped, Acked
<1> QED
  BY <1>1, <1>2, <1>3, <1>4, SameTyped, PcbIs

(* The acknowledgment part of tcp_receive: what is received and the state  *)
(* stay, the queues are in order, and when all is acknowledged (FinAcked)  *)
(* it is the whole stream.                                                 *)
AckTaken(p, i, w, q) ==
  /\ q \in Pcb /\ SameRcv(p, q) /\ SameCtl(p, q) /\ q.snd_nxt = p.snd_nxt /\ Ready(q, w)
  /\ q.ack \in {p.ack, {}}
  /\ p.lastack <= q.lastack /\ (q.lastack = p.lastack \/ q.lastack = i.ackno)
  /\ i.ackno = q.snd_nxt /\ q.unsent = << >> => q.lastack = End(w) /\ q.snd_nxt = End(w)

(* The acknowledgment part of tcp_receive, whatever number the packet      *)
(* acknowledges.                                                           *)
LEMMA ReceiveAckIs ==
  ASSUME NEW w, IsStream(w), NEW p \in Pcb, SndInv(p, w), NEW i, i.ackno \in Nat
  PROVE  AckTaken(p, i, w, ReceiveAck(p, i))
<1> DEFINE a == i.ackno
           q == ReceiveAck(p, i)
<1>1. SndTyped(p) /\ IsPcb(p) /\ Sending(w, p.unacked, p.unsent, p.snd_nxt, p.lastack)
  BY PcbIs DEF SndInv
<1>2. p.lastack \in Nat /\ p.snd_nxt \in Nat /\ p.lastack <= p.snd_nxt
  BY <1>1 DEF SndTyped, Sending
<1>3. ASSUME NEW r, SndInv(r, w), r \in Pcb, r.unsent = << >>, r.snd_nxt <= r.lastack
      PROVE  r.lastack = End(w) /\ r.snd_nxt = End(w)
  BY <1>3, AllAcked, PcbIs DEF SndInv, SndTyped
<1>4. CASE a <= p.lastack
  <2> DEFINE r == OldAck(p, i)
  <2>1. q = IF a <= r.snd_nxt THEN [r EXCEPT !.unsent = From(@, AckedPrefix(@, a))] ELSE r
    BY <1>4 DEF ReceiveAck
  <2>2. Queues(p, r) /\ Ready(r, w)
    BY OldAckIs
  <2> HIDE DEF r, q
  <2>3. r \in Pcb /\ IsPcb(r) /\ r.lastack = p.lastack /\ r.snd_nxt = p.snd_nxt
    BY <2>2, PcbIs DEF Queues
  <2>4. From(r.unsent, AckedPrefix(r.unsent, a)) = r.unsent
    BY <2>2, <2>3, <1>4, UnsentStays
  <2>5. q = r
    BY <2>1, <2>3, <2>4, FieldsOfPcb DEF IsPcb
  <2>6. ASSUME a = r.snd_nxt, r.unsent = << >> PROVE r.lastack = End(w) /\ r.snd_nxt = End(w)
    <3>1. SndInv(r, w)
      BY <2>2, <2>6 DEF Ready, FastInv
    <3> QED
      BY <3>1, <2>3, <2>6, <1>3, <1>4
  <2> QED
    BY <2>2, <2>3, <2>5, <2>6, <1>2 DEF AckTaken, Queues, q
<1>5. CASE ~(a <= p.lastack) /\ a <= p.snd_nxt
  <2> DEFINE u == From(p.unacked, AckedPrefix(p.unacked, a))
             v == From(p.unsent, AckedPrefix(p.unsent, a))
             r == NewAck(p, a)
  <2>1. q = IF a <= r.snd_nxt THEN [r EXCEPT !.unsent = From(@, AckedPrefix(@, a))] ELSE r
    BY <1>5 DEF ReceiveAck
  <2>2. r = [p EXCEPT !.infr = FALSE, !.nrtx = 0, !.dupacks = 0, !.lastack = a,
                      !.unacked = u, !.rtime = u # << >>]
    BY DEF NewAck
  <2>3. p.lastack <= a
    BY <1>2, <1>5
  <2>4. Sending(w, u, v, p.snd_nxt, a) /\ u \in Seq(Segment) /\ v \in Seq(Segment)
    BY <2>3, <1>1, <1>2, <1>5, AckIs
  <2> HIDE DEF u, r, q
  <2>5. r.snd_nxt = p.snd_nxt /\ r.unsent = p.unsent
    BY <2>2, <1>1, FieldsOfPcb DEF IsPcb
  <2>6. q = [r EXCEPT !.unsent = v]
    BY <2>1, <2>5, <1>5
  <2> HIDE DEF v
  <2>7. Acked(p, a, u, v, q)
    BY <2>2, <2>4, <2>6 DEF Acked
  <2>8. /\ q \in Pcb /\ SameRcv(p, q) /\ SameCtl(p, q) /\ q.ack = p.ack
        /\ q.snd_nxt = p.snd_nxt /\ q.snd_lbb = p.snd_lbb
        /\ q.lastack = a /\ q.unacked = u /\ q.unsent = v
    BY <2>7, AckedIs
  <2>9. SndInv(q, w)
    BY <2>4, <2>8 DEF SndInv
  <2>10. ASSUME a = q.snd_nxt, q.unsent = << >> PROVE q.lastack = End(w) /\ q.snd_nxt = End(w)
    BY <2>8, <2>9, <2>10, <1>2, <1>3
  <2> QED
    BY <2>3, <2>8, <2>9, <2>10 DEF AckTaken, Ready, q
<1>6. CASE ~(a <= p.lastack) /\ ~(a <= p.snd_nxt)
  <2> DEFINE r == [p EXCEPT !.ack = {}]
  <2>1. r \in Pcb /\ SameSnd(p, r) /\ SameRcv(p, r) /\ SameCtl(p, r) /\ r.ack = {}
    BY AckFlags
  <2>2. q = IF a <= r.snd_nxt THEN [r EXCEPT !.unsent = From(@, AckedPrefix(@, a))] ELSE r
    BY <1>6 DEF ReceiveAck
  <2> HIDE DEF r, q
  <2>3. r.snd_nxt = p.snd_nxt /\ r.lastack = p.lastack
    BY <2>1 DEF SameSnd
  <2>4. q = r
    BY <2>2, <2>3, <1>6
  <2>5. SndInv(r, w)
    BY <2>1, SndSame
  <2>6. a # r.snd_nxt
    BY <2>3, <1>2, <1>6
  <2> QED
    BY <2>1, <2>3, <2>4, <2>5, <2>6, <1>2 DEF AckTaken, Ready, q
<1> QED
  BY <1>4, <1>5, <1>6

-----------------------------------------------------------------------------
(***************************************************************************)
(* The receiving side.                                                     *)
(***************************************************************************)

(* What tcp_receive leaves of a pcb that takes a packet, whatever it is.   *)
SameHeld(p, q) == q.refused = p.refused /\ q.refusedfin = p.refusedfin
OnlyReceives(p, q) ==
  IsPcb(q) /\ SameSnd(p, q) /\ SameCtl(p, q) /\ SameHeld(p, q) /\ q.infr = p.infr

(* The data part of tcp_receive leaves the sending side alone.             *)
LEMMA ReceiveDataTakes ==
  ASSUME NEW p, IsPcb(p), NEW i
  PROVE  LET r == ReceiveData(p, i)
         IN  IsResult(r) /\ OnlyReceives(p, r.p) /\ r.out \subseteq {EmptyAck(p)}
<1> DEFINE s == TrimFront(NewSeg(i.seq, FALSE, i.fin, i.data), p.rcv_nxt)
<1>1. \A q : Nothing(q).p = q /\ Nothing(q).out = {} /\ IsResult(Nothing(q))
  BY DEF Nothing, IsResult, ResultFields
<1>2. LET r == InSequence(p, s)
      IN  IsResult(r) /\ OnlyReceives(p, r.p) /\ r.out = {}
  <2> HIDE DEF s
  <2> DEFINE seg  == InSeqSeg(p.ooseq, s)
             rest == InSeqRest(p.ooseq, s)
             n    == Drained(rest, EndSeq(seg))
             next == EndSeq(IF n = 0 THEN seg ELSE rest[n])
             q    == [p EXCEPT !.rcv_nxt = next, !.ooseq = From(rest, n),
                               !.unread = @ + (next - p.rcv_nxt)]
  <2>1. /\ InSequence(p, s).p = tcp_ack(q) /\ InSequence(p, s).out = {}
        /\ IsResult(InSequence(p, s))
    BY DEF InSequence, CloseGap, DeliverRun, IsResult, ResultFields
  <2>2. OnlyReceives(p, q)
    <3> HIDE DEF next, rest, n
    <3> QED
      BY FieldsOfPcb DEF OnlyReceives, SameSnd, SameCtl, SameHeld, IsPcb
  <2> HIDE DEF q
  <2>3. OnlyReceives(p, tcp_ack(q))
    BY <2>2, FieldsOfPcb DEF OnlyReceives, SameSnd, SameCtl, SameHeld, IsPcb, tcp_ack
  <2> QED
    BY <2>1, <2>3
<1>3. OnlyReceives(p, p) /\ OnlyReceives(p, tcp_ack_now(p))
  BY FieldsOfPcb DEF OnlyReceives, SameSnd, SameCtl, SameHeld, IsPcb, tcp_ack_now
<1>4. OnlyReceives(p, [p EXCEPT !.ack = {}])
  BY FieldsOfPcb DEF OnlyReceives, SameSnd, SameCtl, SameHeld, IsPcb
<1>5. OnlyReceives(p, [p EXCEPT !.ack = {}, !.ooseq = OosInsert(@, s)])
  <2> HIDE DEF s
  <2> QED
    BY FieldsOfPcb DEF OnlyReceives, SameSnd, SameCtl, SameHeld, IsPcb
<1>6. ASSUME NEW q
      PROVE  LET r == [Nothing(q) EXCEPT !.out = {EmptyAck(p)}]
             IN r.p = q /\ r.out = {EmptyAck(p)} /\ IsResult(r)
  BY <1>6 DEF Nothing, IsResult, ResultFields
<1> HIDE DEF s
<1> DEFINE old  == tcplen(i) = 0 \/ p.state \notin {"ESTABLISHED", "FIN_WAIT_1", "FIN_WAIT_2"}
           keep == IF s.seq < p.rcv_nxt THEN [p EXCEPT !.ack = {}]
                   ELSE [p EXCEPT !.ack = {}, !.ooseq = OosInsert(@, s)]
<1>7. CASE old
  BY <1>7, <1>1, <1>3 DEF ReceiveData
<1>8. CASE ~old /\ s.seq = p.rcv_nxt
  BY <1>8, <1>2 DEF ReceiveData, s
<1>9. CASE ~old /\ s.seq # p.rcv_nxt
  <2>1. OnlyReceives(p, keep)
    BY <1>4, <1>5
  <2>2. ReceiveData(p, i) = [Nothing(keep) EXCEPT !.out = {EmptyAck(p)}]
    BY <1>9 DEF ReceiveData, s
  <2> QED
    BY <2>1, <2>2, <1>6
<1> QED
  BY <1>7, <1>8, <1>9

(* The states in which the peer's FIN cannot have come.                    *)
NoFinYet == {"SYN_RCVD", "ESTABLISHED", "FIN_WAIT_1", "FIN_WAIT_2"}

(* What it gains: data d from rcv_nxt on and perhaps the end of the        *)
(* stream.                                                                 *)
Gains(st, p, q, d, fin) ==
  /\ d \in Seq(Nat) /\ fin \in BOOLEAN /\ q.rcv_nxt = p.rcv_nxt + Len(d) + Bit(fin)
  /\ StreamQueue(st, q.ooseq) /\ Beyond(q.ooseq, q.rcv_nxt)
  /\ d # << >> \/ fin => p.state \in NoFinYet
  /\ DataFrom(st, p.rcv_nxt, d)
  /\ d # << >> => p.rcv_nxt + Len(d) <= st.top
  /\ fin => st.closed /\ p.rcv_nxt + Len(d) = st.top

(* A packet of the stream st, or without data, or a repeated SYN.          *)
FromStream(st, i) ==
  /\ i.seq \in Nat
  /\ i.syn => i.seq = st.base /\ i.data = << >> /\ ~i.fin
  /\ ~i.syn /\ tcplen(i) # 0 => OfStream(st, SegOf(i))

(* Nothing is gained when rcv_nxt stays.                                   *)
LEMMA StaysGains ==
  ASSUME NEW st, NEW p \in Pcb, NEW q, q.rcv_nxt = p.rcv_nxt,
         StreamQueue(st, q.ooseq), Beyond(q.ooseq, q.rcv_nxt)
  PROVE  Gains(st, p, q, << >>, FALSE)
<1>1. p.rcv_nxt \in Nat
  BY PcbIs DEF RcvTyped
<1>2. << >> \in Seq(Nat) /\ Len(<< >>) = 0 /\ p.rcv_nxt = p.rcv_nxt + 0 + 0
  BY <1>1
<1>3. DataFrom(st, p.rcv_nxt, << >>)
  BY DEF DataFrom
<1> QED
  BY <1>2, <1>3 DEF Gains, Bit

(* A run of segments that is delivered.                                    *)
LEMMA DeliversGains ==
  ASSUME NEW st, st.base \in Nat, st.top \in Nat, NEW p \in Pcb, p.state \in Receiving,
         StreamQueue(st, p.ooseq), NEW u, OfStream(st, u), NEW r, Delivers(p, u, r)
  PROVE  Gains(st, p, r.p, r.data, r.fin)
<1> DEFINE run == Run(p.ooseq, u)
           x == p.rcv_nxt
           e == DataEnd(Last(run))
           fin == \E j \in DOMAIN run : run[j].fin
           d == DataOf(run)
<1>1. /\ u.seq = x /\ Follows(p.ooseq, u)
      /\ r.p.rcv_nxt = EndSeq(Last(run)) /\ r.p.ooseq = Kept(p.ooseq, u)
      /\ r.data = d /\ r.fin = fin
  BY Zenon DEF Delivers
<1>2. x \in Nat
  BY PcbIs DEF RcvTyped
<1>3. /\ IsRun(st, run) /\ run[1].seq = x
      /\ StreamQueue(st, Kept(p.ooseq, u)) /\ Beyond(Kept(p.ooseq, u), EndSeq(Last(run)))
  BY <1>1, RunIs
<1>4. /\ fin => st.closed /\ e = st.top /\ EndSeq(Last(run)) = e + 1
      /\ ~fin => EndSeq(Last(run)) = e
  BY <1>3, FinOfRun
<1>5. /\ e - x \in Nat /\ d \in Seq(Nat) /\ Len(d) = e - x
      /\ \A n \in 1 .. e - x : d[n] = x + n - 1 - st.base
  BY <1>3, DataOfRun
<1>6. e \in Nat /\ e <= st.top
  <2>1. OfStream(st, Last(run))
    BY <1>3, RunGrows
  <2> QED
    BY <2>1, EndsAreNat DEF OfStream
<1>7. fin \in BOOLEAN
  BY Zenon
<1> HIDE DEF fin, d, e, run
<1>8. x + Len(d) = e
  BY <1>2, <1>5, <1>6
<1>9. EndSeq(Last(run)) = e + Bit(fin)
  BY <1>4, <1>6, <1>7 DEF Bit
<1>10. DataFrom(st, x, d)
  BY <1>5 DEF DataFrom
<1>11. r.p.rcv_nxt = x + Len(d) + Bit(r.fin)
  <2>1. Bit(fin) \in Nat /\ Len(d) \in Nat
    BY <1>5 DEF Bit
  <2> QED
    BY <2>1, <1>1, <1>2, <1>8, <1>9
<1> QED
  BY <1>1, <1>3, <1>4, <1>5, <1>6, <1>7, <1>8, <1>10, <1>11 DEF Gains, Receiving, NoFinYet

(* A repeated SYN is older than rcv_nxt: nothing is delivered.             *)
LEMMA OldSynStays ==
  ASSUME NEW st, st.base \in Nat, NEW p \in Pcb, st.base < p.rcv_nxt,
         NEW i, i.syn, FromStream(st, i), p.state \in Receiving
  PROVE  LET r == ReceiveData(p, i)
         IN  r.p \in Pcb /\ SameRcv(p, r.p) /\ r.data = << >> /\ r.fin = FALSE
<1> DEFINE g == NewSeg(i.seq, FALSE, i.fin, i.data)
           s == TrimFront(g, p.rcv_nxt)
           r == ReceiveData(p, i)
<1>1. i.seq = st.base /\ i.data = << >> /\ ~i.fin
  BY DEF FromStream
<1>2. p.rcv_nxt \in Nat
  BY PcbIs DEF RcvTyped
<1>3. g.seq = st.base /\ EndSeq(g) = st.base
  BY <1>1 DEF NewSeg, EndSeq, TCP_TCPLEN
<1> HIDE DEF g
<1>4. s = g
  BY <1>2, <1>3 DEF TrimFront
<1> HIDE DEF s
<1>5. s.seq < p.rcv_nxt /\ s.seq # p.rcv_nxt
  BY <1>2, <1>3, <1>4
<1>6. tcplen(i) # 0
  BY <1>1 DEF tcplen, TCP_TCPLEN
<1>7. p.state \in {"ESTABLISHED", "FIN_WAIT_1", "FIN_WAIT_2"}
  BY DEF Receiving
<1>8. r = [Nothing([p EXCEPT !.ack = {}]) EXCEPT !.out = {EmptyAck(p)}]
  BY <1>5, <1>6, <1>7, Zenon DEF ReceiveData, s, g
<1>9. [p EXCEPT !.ack = {}] \in Pcb /\ SameRcv(p, [p EXCEPT !.ack = {}])
  BY AckFlags
<1> QED
  BY <1>8, <1>9 DEF Nothing

(* What tcp_receive makes of any packet of the other end.                  *)
LEMMA ReceiveDataIs ==
  ASSUME NEW st, st.base \in Nat, st.top \in Nat, NEW p \in Pcb,
         StreamQueue(st, p.ooseq), Beyond(p.ooseq, p.rcv_nxt), st.base < p.rcv_nxt,
         NEW i, FromStream(st, i)
  PROVE  LET r == ReceiveData(p, i)
         IN  r.p \in Pcb /\ Gains(st, p, r.p, r.data, r.fin)
<1> DEFINE r == ReceiveData(p, i)
<1>1. ASSUME NEW q, q \in Pcb, SameRcv(p, q), r.p = q, r.data = << >>, r.fin = FALSE
      PROVE  r.p \in Pcb /\ Gains(st, p, r.p, r.data, r.fin)
  <2>1. Gains(st, p, q, << >>, FALSE)
    BY <1>1, StaysGains DEF SameRcv
  <2> QED
    BY <1>1, <2>1
<1>2. tcp_ack_now(p) \in Pcb /\ SameRcv(p, tcp_ack_now(p)) /\ SameRcv(p, p)
  BY AckNow, SameTrans
<1> DEFINE q == IF i.seq < p.rcv_nxt THEN tcp_ack_now(p) ELSE p
<1>3. q \in Pcb /\ SameRcv(p, q)
  BY <1>2
<1>4. CASE tcplen(i) = 0 \/ p.state \notin Receiving
  <2>1. r = Nothing(q)
    BY <1>4 DEF ReceiveData, Receiving
  <2> HIDE DEF q, r
  <2>2. r.p = q /\ r.data = << >> /\ r.fin = FALSE
    BY <2>1 DEF Nothing
  <2> QED
    BY <2>2, <1>1, <1>3 DEF r
<1>5. CASE p.state \in Receiving /\ i.syn
  <2>1. r.p \in Pcb /\ SameRcv(p, r.p) /\ r.data = << >> /\ r.fin = FALSE
    BY <1>5, OldSynStays
  <2> HIDE DEF r
  <2> QED
    BY <2>1, <1>1 DEF r
<1>6. CASE p.state \in Receiving /\ ~i.syn /\ tcplen(i) # 0
  <2> DEFINE u == TrimFront(SegOf(i), p.rcv_nxt)
  <2>1. OfStream(st, SegOf(i)) /\ p.rcv_nxt \in Nat
    BY <1>6, PcbIs DEF FromStream, RcvTyped
  <2>2. /\ ReceiveResult(r)
        /\ Delivers(p, u, r) \/ Stays(st, p, r)
    BY <2>1, <1>6, ReceiveIs
  <2>3. OfStream(st, u)
    BY <2>1, TrimFrontIs
  <2> HIDE DEF r, u
  <2>4. r.p \in Pcb
    BY <2>2 DEF ReceiveResult
  <2>5. CASE Delivers(p, u, r)
    BY <2>3, <2>4, <2>5, <1>6, DeliversGains DEF r
  <2>6. CASE Stays(st, p, r)
    <3>1. Gains(st, p, r.p, << >>, FALSE)
      BY <2>4, <2>6, StaysGains DEF Stays
    <3> QED
      BY <3>1, <2>4, <2>6 DEF Stays, r
  <2> QED
    BY <2>2, <2>5, <2>6
<1> QED
  BY <1>4, <1>5, <1>6

(* A packet that only acknowledges, or resets.                             *)
AckOf(p, i) ==
  /\ i \in Packet
  /\ i.rst \/ (~i.syn /\ tcplen(i) = 0 /\ i.ack /\ p.state # "SYN_SENT" /\ i.ackno <= p.rcv_nxt)

(* The packet of tcp_send_empty_ack acknowledges what was received.        *)
LEMMA EmptyAckIs ==
  ASSUME NEW p \in Pcb, p.state # "SYN_SENT", NEW q \in Pcb, q.state # "SYN_SENT",
         p.rcv_nxt <= q.rcv_nxt
  PROVE  AckOf(q, EmptyAck(p)) /\ AckOf(p, EmptyAck(p))
<1> DEFINE i == EmptyAck(p)
<1>1. p.snd_nxt \in Nat /\ p.rcv_nxt \in Nat
  BY PcbIs DEF SndTyped, RcvTyped
<1>2. << >> \in Seq(Nat)
  OBVIOUS
<1>3. i \in Packet
  BY <1>1, <1>2 DEF EmptyAck, Packet
<1>4. /\ ~i.syn /\ ~i.fin /\ i.data = << >> /\ i.ack /\ i.ackno = p.rcv_nxt
  BY DEF EmptyAck
<1>5. tcplen(i) = 0
  BY <1>4 DEF tcplen, TCP_TCPLEN
<1> QED
  BY <1>1, <1>3, <1>4, <1>5 DEF AckOf

(* tcp_receive: the acknowledgment and the data.                           *)
ReceivedOK(p, i, w, st, r) ==
  /\ IsResult(r) /\ r.p \in Pcb
  /\ SameCtl(p, r.p) /\ SameHeld(p, r.p) /\ r.p.snd_nxt = p.snd_nxt /\ Ready(r.p, w)
  /\ p.lastack <= r.p.lastack
  /\ r.p.lastack = p.lastack \/ (i.ack /\ r.p.lastack = i.ackno)
  /\ FinAcked(r.p, i) => r.p.lastack = End(w) /\ r.p.snd_nxt = End(w)
  /\ Gains(st, p, r.p, r.data, r.fin)
  /\ \A k \in r.out : AckOf(r.p, k)

(* Ready depends on the queues, the flag infr and the state only.          *)
LEMMA ReadySame ==
  ASSUME NEW w, NEW p, NEW q, Ready(p, w), SameSnd(p, q), q.infr = p.infr,
         q.state \in {"SYN_SENT", "SYN_RCVD", "ESTABLISHED", "CLOSE_WAIT"} =>
           p.state \in {"SYN_SENT", "SYN_RCVD", "ESTABLISHED", "CLOSE_WAIT"}
  PROVE  Ready(q, w)
<1>1. NagleHolds(q) => NagleHolds(p)
  BY DEF NagleHolds, SameSnd
<1>2. FastInv(p, w) => FastInv(q, w)
  BY DEF FastInv, SameSnd
<1>3. SndInv(p, w) => SndInv(q, w)
  BY SndSame
<1> QED
  BY <1>1, <1>2, <1>3 DEF Ready

(* rcv_nxt never moves back.                                               *)
LEMMA GainsUp ==
  ASSUME NEW st, NEW p \in Pcb, NEW q \in Pcb, NEW d, NEW fin, Gains(st, p, q, d, fin)
  PROVE  p.rcv_nxt <= q.rcv_nxt
<1>1. p.rcv_nxt \in Nat /\ Len(d) \in Nat /\ Bit(fin) \in Nat
  BY PcbIs DEF RcvTyped, Gains, Bit
<1>2. q.rcv_nxt = p.rcv_nxt + Len(d) + Bit(fin)
  BY DEF Gains
<1> QED
  BY <1>1, <1>2

(* The hypotheses under which a pcb takes a packet.                        *)
CanTake(st, p, i) ==
  /\ p \in Pcb /\ st.base \in Nat /\ st.top \in Nat /\ p.state # "SYN_SENT"
  /\ StreamQueue(st, p.ooseq) /\ Beyond(p.ooseq, p.rcv_nxt) /\ st.base < p.rcv_nxt
  /\ i.rst \/ FromStream(st, i)
  /\ i \in Packet

(* tcp_receive with any packet of the other end that is no RST.            *)
LEMMA TcpReceiveIs ==
  ASSUME NEW w, IsStream(w), NEW p, SndInv(p, w), NEW st, NEW i, CanTake(st, p, i), ~i.rst
  PROVE  ReceivedOK(p, i, w, st, tcp_receive(p, i))
<1> DEFINE q == IF i.ack THEN ReceiveAck(p, i) ELSE p
           m == IF i.ack THEN AckAnswer(p, i) ELSE {}
           r == ReceiveData(q, i)
           t == tcp_receive(p, i)
<1>0. p \in Pcb /\ i.ackno \in Nat
  BY DEF CanTake, Packet
<1>1. /\ q \in Pcb /\ SameRcv(p, q) /\ SameCtl(p, q) /\ q.snd_nxt = p.snd_nxt /\ Ready(q, w)
      /\ p.lastack <= q.lastack
      /\ q.lastack = p.lastack \/ (i.ack /\ q.lastack = i.ackno)
      /\ i.ack /\ i.ackno = q.snd_nxt /\ q.unsent = << >> => q.lastack = End(w) /\ q.snd_nxt = End(w)
  <2>1. CASE i.ack
    <3>1. AckTaken(p, i, w, ReceiveAck(p, i))
      BY <1>0, ReceiveAckIs
    <3> QED
      BY <3>1, <2>1 DEF AckTaken
  <2>2. CASE ~i.ack
    <3>1. p.lastack \in Nat
      BY <1>0, PcbIs DEF SndTyped
    <3> QED
      BY <2>2, <3>1, <1>0, SameTrans DEF Ready
  <2> QED
    BY <2>1, <2>2
<1>2. t = IF i.ack THEN [r EXCEPT !.out = @ \cup m] ELSE r
  BY DEF tcp_receive
<1> HIDE DEF q, m, t
<1>3. IsPcb(q)
  BY <1>1, PcbIs
<1>4. IsResult(r) /\ OnlyReceives(q, r.p) /\ r.out \subseteq {EmptyAck(q)}
  BY <1>3, ReceiveDataTakes
<1>5. CanTake(st, q, i)
  BY <1>1 DEF CanTake, SameRcv, SameCtl
<1>6. r.p \in Pcb /\ Gains(st, q, r.p, r.data, r.fin)
  BY <1>5, ReceiveDataIs DEF CanTake
<1> HIDE DEF r
<1>7. /\ IsResult(t) /\ t.p = r.p /\ t.data = r.data /\ t.fin = r.fin
      /\ t.out \subseteq r.out \cup (IF i.ack THEN m ELSE {})
  BY <1>2, <1>4 DEF IsResult, ResultFields
<1>8. Gains(st, p, r.p, r.data, r.fin)
  BY <1>1, <1>6 DEF Gains, SameRcv, SameCtl
<1>9. SameCtl(p, r.p) /\ SameHeld(p, r.p) /\ SameSnd(q, r.p)
  BY <1>1, <1>4 DEF OnlyReceives, SameCtl, SameHeld, SameRcv
<1>10. Ready(r.p, w)
  BY <1>1, <1>4, ReadySame DEF OnlyReceives, SameCtl
<1>11. ASSUME NEW k \in t.out PROVE AckOf(r.p, k)
  <2>1. k = EmptyAck(p) \/ k = EmptyAck(q)
    BY <1>11, <1>7, <1>4 DEF m, AckAnswer
  <2>2. p.rcv_nxt <= r.p.rcv_nxt /\ q.rcv_nxt = p.rcv_nxt
    BY <1>0, <1>1, <1>6, <1>8, GainsUp DEF SameRcv
  <2>3. p.state # "SYN_SENT" /\ q.state # "SYN_SENT" /\ r.p.state # "SYN_SENT"
    BY <1>1, <1>9 DEF CanTake, SameCtl
  <2> QED
    BY <2>1, <2>2, <2>3, <1>0, <1>1, <1>6, EmptyAckIs
<1>12. FinAcked(r.p, i) => i.ack /\ i.ackno = q.snd_nxt /\ q.unsent = << >>
  BY <1>9 DEF FinAcked, SameSnd
<1>13. r.p.lastack = q.lastack /\ r.p.snd_nxt = q.snd_nxt
  BY <1>9 DEF SameSnd
<1> QED
  BY <1>1, <1>6, <1>7, <1>8, <1>9, <1>10, <1>11, <1>12, <1>13 DEF ReceivedOK, t

(* Counting goes on over a concatenation.                                  *)
LEMMA CountConcat ==
  ASSUME NEW x \in Seq(Nat), NEW y \in Seq(Nat), NEW k \in Nat,
         Counting(x, k), Counting(y, k + Len(x))
  PROVE  Counting(x \o y, k) /\ Len(x \o y) = Len(x) + Len(y) /\ x \o y \in Seq(Nat)
<1>1. Len(x \o y) = Len(x) + Len(y) /\ x \o y \in Seq(Nat) /\ Len(x) \in Nat /\ Len(y) \in Nat
  OBVIOUS
<1>2. ASSUME NEW n \in 1 .. Len(x) + Len(y) PROVE (x \o y)[n] = k + n
  <2>1. CASE n <= Len(x)
    <3>1. n \in 1 .. Len(x) /\ (x \o y)[n] = x[n]
      BY <2>1, <1>1, <1>2
    <3> QED
      BY <3>1 DEF Counting
  <2>2. CASE ~(n <= Len(x))
    <3>1. n - Len(x) \in 1 .. Len(y) /\ (x \o y)[n] = y[n - Len(x)]
      BY <2>2, <1>1, <1>2
    <3>2. y[n - Len(x)] = (k + Len(x)) + (n - Len(x))
      BY <3>1 DEF Counting
    <3> QED
      BY <3>1, <3>2, <1>1, <1>2
  <2> QED
    BY <2>1, <2>2
<1> QED
  BY <1>1, <1>2 DEF Counting

(* The types of an application.                                            *)
AppTyped(a) ==
  /\ a.open \in BOOLEAN /\ a.wrote \in Nat /\ a.rcvd \in Seq(Nat) /\ a.eof \in BOOLEAN
  /\ a.shut \in BOOLEAN /\ a.err \in {"none", "ERR_RST", "ERR_ABRT", "ERR_CLSD"}
AppFields == {"open", "wrote", "rcvd", "eof", "shut", "err"}
IsApp(a) == a = [f \in AppFields |-> a[f]]

(* An application is a function of its fields, each of its type.           *)
LEMMA AppIs ==
  ASSUME NEW a
  PROVE  a \in App <=> IsApp(a) /\ AppTyped(a)
<1>1. a \in App => IsApp(a) /\ AppTyped(a)
  BY DEF App, IsApp, AppFields, AppTyped
<1>2. IsApp(a) /\ AppTyped(a) => a \in App
  BY DEF App, IsApp, AppFields, AppTyped
<1> QED
  BY <1>1, <1>2

(* A stream of which g has sent a part.                                    *)
PartOf(st, g, b) ==
  /\ IsStream(st) /\ st.base = ISS[g] /\ st.top <= DataTop(g, b)
  /\ st.closed => b.shut /\ st.top = DataTop(g, b)

(* What was gained is what comes next.                                     *)
LEMMA GainsNext ==
  ASSUME NEW st, IsStream(st), NEW p \in Pcb, NEW a \in App, RcvInv(p, a, st), NEW q, NEW d, NEW fin,
         Gains(st, p, q, d, fin), p.refused = << >>
  PROVE  /\ Counting(d, Len(a.rcvd)) /\ d \in Seq(Nat) /\ ~p.refusedfin
         /\ d # << >> \/ fin => ~a.eof
         /\ ~a.eof => q.rcv_nxt = st.base + 1 + (Len(a.rcvd) + Len(d)) + Bit(fin)
         /\ st.base + 1 + (Len(a.rcvd) + Len(d)) <= st.top
         /\ fin => st.closed /\ st.base + 1 + (Len(a.rcvd) + Len(d)) = st.top
<1>1. /\ st.base \in Nat /\ st.top \in Nat /\ p.rcv_nxt \in Nat
      /\ a.rcvd \in Seq(Nat) /\ a.eof \in BOOLEAN /\ p.refusedfin \in BOOLEAN
  BY PcbIs, AppIs DEF IsStream, RcvTyped, AppTyped
<1>2. ~p.refusedfin
  BY DEF RcvInv
<1>3. Len(a.rcvd) \in Nat /\ Len(p.refused) = 0
  BY <1>1
<1>4. Got(p, a) = Len(a.rcvd) /\ GotFin(p, a) = a.eof
  <2>1. Got(p, a) = Len(a.rcvd)
    BY <1>3 DEF Got
  <2> QED
    BY <2>1, <1>1, <1>2, Zenon DEF GotFin
<1>5. p.rcv_nxt = st.base + 1 + Len(a.rcvd) + Bit(a.eof) /\ st.base + 1 + Len(a.rcvd) <= st.top
  BY <1>4 DEF RcvInv
<1>6. /\ d \in Seq(Nat) /\ fin \in BOOLEAN /\ q.rcv_nxt = p.rcv_nxt + Len(d) + Bit(fin)
      /\ d # << >> \/ fin => p.state \in NoFinYet
      /\ DataFrom(st, p.rcv_nxt, d)
      /\ d # << >> => p.rcv_nxt + Len(d) <= st.top
      /\ fin => st.closed /\ p.rcv_nxt + Len(d) = st.top
  BY DEF Gains
<1>7. Len(d) \in Nat /\ (d # << >> => Len(d) > 0) /\ (d = << >> => Len(d) = 0) /\ Bit(fin) \in Nat
  BY <1>6 DEF Bit
<1>8. d # << >> \/ fin => ~a.eof
  BY <1>4, <1>6 DEF RcvInv, NoFinYet
<1>9. ~a.eof => p.rcv_nxt = st.base + 1 + Len(a.rcvd)
  <2>1. ~a.eof => Bit(a.eof) = 0
    BY DEF Bit
  <2> QED
    BY <2>1, <1>1, <1>3, <1>5
<1>10. Counting(d, Len(a.rcvd))
  <2> SUFFICES ASSUME NEW n \in 1 .. Len(d) PROVE d[n] = Len(a.rcvd) + n
    BY DEF Counting
  <2>1. d # << >> /\ d[n] = p.rcv_nxt + n - 1 - st.base
    BY <1>6, <1>7 DEF DataFrom
  <2>2. p.rcv_nxt = st.base + 1 + Len(a.rcvd)
    BY <2>1, <1>8, <1>9
  <2> QED
    BY <2>1, <2>2, <1>1, <1>3, <1>7
<1>11. ~a.eof => q.rcv_nxt = st.base + 1 + (Len(a.rcvd) + Len(d)) + Bit(fin)
  <2> HAVE ~a.eof
  <2>1. p.rcv_nxt = st.base + 1 + Len(a.rcvd) /\ q.rcv_nxt = p.rcv_nxt + Len(d) + Bit(fin)
    BY <1>6, <1>9
  <2> QED
    BY <2>1, <1>1, <1>3, <1>7
<1>12. st.base + 1 + (Len(a.rcvd) + Len(d)) <= st.top
  <2>1. CASE d = << >>
    BY <2>1, <1>1, <1>3, <1>5, <1>7
  <2>2. CASE d # << >>
    BY <2>2, <1>1, <1>3, <1>6, <1>7, <1>8, <1>9
  <2> QED
    BY <2>1, <2>2
<1>13. fin => st.closed /\ st.base + 1 + (Len(a.rcvd) + Len(d)) = st.top
  BY <1>1, <1>3, <1>6, <1>7, <1>8, <1>9
<1> QED
  BY <1>2, <1>6, <1>8, <1>10, <1>11, <1>12, <1>13

(* What the application makes of it: it takes what came, or nothing.       *)
TakesIn(a, c, d, fin) == c.rcvd = a.rcvd \o d /\ c.eof = (a.eof \/ fin)
TakesNone(a, c) == c.rcvd = a.rcvd /\ c.eof = a.eof

(* What the application has after that is still the start of the stream.   *)
LEMMA AppAfter ==
  ASSUME NEW st, NEW g, NEW b \in App, ISS[g] \in Nat, PartOf(st, g, b), NEW p \in Pcb, NEW a \in App,
         RcvInv(p, a, st), NEW q, NEW d, NEW fin, Gains(st, p, q, d, fin), p.refused = << >>,
         AppInv(a, b), NEW c, TakesIn(a, c, d, fin) \/ TakesNone(a, c)
  PROVE  AppInv(c, b)
<1>1. CASE TakesNone(a, c)
  BY <1>1 DEF AppInv, TakesNone
<1>2. CASE TakesIn(a, c, d, fin)
  <2>1. /\ IsStream(st) /\ st.base \in Nat /\ st.top \in Nat /\ st.base = ISS[g]
        /\ st.top <= ISS[g] + 1 + b.wrote
        /\ st.closed => b.shut /\ st.top = ISS[g] + 1 + b.wrote
    BY DEF PartOf, IsStream, DataTop
  <2>2. a.rcvd \in Seq(Nat) /\ b.wrote \in Nat /\ Len(a.rcvd) \in Nat
    BY AppIs DEF AppTyped
  <2>3. /\ Counting(d, Len(a.rcvd)) /\ d \in Seq(Nat)
        /\ d # << >> \/ fin => ~a.eof
        /\ st.base + 1 + (Len(a.rcvd) + Len(d)) <= st.top
        /\ fin => st.closed /\ st.base + 1 + (Len(a.rcvd) + Len(d)) = st.top
    BY <2>1, GainsNext
  <2>4. 0 + Len(a.rcvd) = Len(a.rcvd)
    BY <2>2
  <2>5. Counting(c.rcvd, 0) /\ Len(c.rcvd) = Len(a.rcvd) + Len(d)
    BY <2>2, <2>3, <2>4, <1>2, CountConcat DEF AppInv, TakesIn
  <2>6. Len(d) \in Nat /\ (d = << >> => Len(d) = 0)
    BY <2>3
  <2>7. Len(c.rcvd) <= b.wrote
    BY <2>1, <2>2, <2>3, <2>5, <2>6
  <2>8. CASE a.eof
    <3>1. d = << >> /\ ~fin
      BY <2>8, <2>3
    <3>2. Len(c.rcvd) = Len(a.rcvd)
      BY <3>1, <2>2, <2>5, <2>6
    <3> QED
      BY <3>2, <2>5, <2>7, <2>8 DEF AppInv
  <2>9. CASE ~a.eof
    <3>1. c.eof => fin
      BY <2>9, <1>2 DEF TakesIn
    <3>2. fin => b.shut /\ Len(c.rcvd) = b.wrote
      BY <2>1, <2>2, <2>3, <2>5, <2>6
    <3> QED
      BY <3>1, <3>2, <2>5, <2>7 DEF AppInv
  <2> QED
    BY <2>8, <2>9
<1> QED
  BY <1>1, <1>2

(* The receiving side after a packet was taken: the application has the    *)
(* data, or the pcb keeps it.                                              *)
Refuses(q, d, fin) == d # << >> /\ q.refused = d /\ q.refusedfin = fin

(* The receiving side after it is right again.                             *)
LEMMA RcvAfter ==
  ASSUME NEW st, IsStream(st), NEW p \in Pcb, NEW a \in App, RcvInv(p, a, st),
         NEW q \in Pcb, NEW c \in App, NEW d, NEW fin, Gains(st, p, q, d, fin),
         p.refused = << >>,
         \/ TakesIn(a, c, d, fin) /\ SameHeld(p, q)
         \/ TakesNone(a, c) /\ Refuses(q, d, fin),
         fin => q.state \notin NoFinYet, q.state \in NoFinYet => p.state \in NoFinYet
  PROVE  RcvInv(q, c, st)
<1>1. /\ st.base \in Nat /\ st.top \in Nat /\ q.rcv_nxt \in Nat /\ a.eof \in BOOLEAN
      /\ a.rcvd \in Seq(Nat) /\ c.rcvd \in Seq(Nat) /\ c.eof \in BOOLEAN
      /\ q.refused \in Seq(Nat) /\ q.refusedfin \in BOOLEAN /\ p.rcv_nxt \in Nat
  BY PcbIs, AppIs DEF IsStream, RcvTyped, AppTyped
<1>2. /\ Counting(d, Len(a.rcvd)) /\ d \in Seq(Nat) /\ ~p.refusedfin
      /\ d # << >> \/ fin => ~a.eof
      /\ ~a.eof => q.rcv_nxt = st.base + 1 + (Len(a.rcvd) + Len(d)) + Bit(fin)
      /\ st.base + 1 + (Len(a.rcvd) + Len(d)) <= st.top
      /\ fin => st.closed /\ st.base + 1 + (Len(a.rcvd) + Len(d)) = st.top
  BY GainsNext
<1>3. StreamQueue(st, q.ooseq) /\ Beyond(q.ooseq, q.rcv_nxt) /\ fin \in BOOLEAN
  BY DEF Gains
<1>4. Len(a.rcvd) \in Nat /\ Len(d) \in Nat /\ 0 + Len(a.rcvd) = Len(a.rcvd)
  BY <1>1, <1>2
<1>5. Counting(a.rcvd, 0) /\ Counting(<< >>, Len(c.rcvd)) /\ Len(p.refused) = 0
  BY DEF RcvInv, Counting
<1>6. /\ Counting(c.rcvd, 0) /\ Counting(q.refused, Len(c.rcvd))
      /\ Got(q, c) = Len(a.rcvd) + Len(d) /\ GotFin(q, c) = (a.eof \/ fin)
      /\ q.refusedfin => q.refused # << >>
  <2>1. CASE TakesIn(a, c, d, fin) /\ SameHeld(p, q)
    <3>1. Counting(c.rcvd, 0) /\ Len(c.rcvd) = Len(a.rcvd) + Len(d)
      BY <2>1, <1>1, <1>2, <1>4, <1>5, CountConcat DEF TakesIn
    <3>2. q.refused = << >> /\ ~q.refusedfin
      BY <2>1, <1>2 DEF SameHeld
    <3>3. Counting(q.refused, Len(c.rcvd))
      BY <3>2, <1>5
    <3>4. Got(q, c) = Len(a.rcvd) + Len(d)
      BY <3>1, <3>2, <1>4, <1>5 DEF Got
    <3>5. GotFin(q, c) = (a.eof \/ fin)
      BY <3>2, <2>1, Zenon DEF GotFin, TakesIn
    <3> QED
      BY <3>1, <3>2, <3>3, <3>4, <3>5
  <2>2. CASE TakesNone(a, c) /\ Refuses(q, d, fin)
    <3>1. Counting(c.rcvd, 0) /\ Counting(q.refused, Len(c.rcvd)) /\ Got(q, c) = Len(a.rcvd) + Len(d)
      BY <2>2, <1>2, <1>5 DEF TakesNone, Refuses, Got
    <3>2. GotFin(q, c) = (a.eof \/ fin)
      BY <2>2, <1>1, <1>3, Zenon DEF TakesNone, Refuses, GotFin
    <3> QED
      BY <3>1, <3>2, <2>2 DEF Refuses
  <2> QED
    BY <2>1, <2>2
<1>7. CASE a.eof
  <2>1. d = << >> /\ ~fin
    BY <1>2, <1>7
  <2>2. /\ p.rcv_nxt = st.base + 1 + Got(p, a) + Bit(GotFin(p, a))
        /\ st.closed /\ st.base + 1 + Got(p, a) = st.top
        /\ p.state \notin NoFinYet
    BY <1>7 DEF RcvInv, GotFin, NoFinYet
  <2>3. Got(p, a) = Len(a.rcvd) /\ Len(d) = 0
    BY <2>1, <1>4, <1>5 DEF Got
  <2>4. Got(q, c) = Got(p, a) /\ GotFin(q, c) /\ GotFin(p, a)
    BY <2>3, <1>4, <1>6, <1>7 DEF GotFin
  <2>5. q.rcv_nxt = p.rcv_nxt
    <3>1. q.rcv_nxt = p.rcv_nxt + Len(d) + Bit(fin) /\ Bit(fin) = 0
      BY <2>1 DEF Gains, Bit
    <3> QED
      BY <3>1, <2>3, <1>1
  <2>6. q.rcv_nxt = st.base + 1 + Got(q, c) + Bit(GotFin(q, c))
    BY <2>2, <2>4, <2>5 DEF Bit
  <2>7. st.base + 1 + Got(q, c) = st.top /\ st.base + 1 + Got(q, c) <= st.top
    BY <2>2, <2>4, <1>1
  <2> QED
    BY <2>2, <2>6, <2>7, <1>3, <1>6 DEF RcvInv, NoFinYet
<1>8. CASE ~a.eof
  <2>1. GotFin(q, c) = fin
    BY <1>3, <1>6, <1>8, Zenon
  <2>2. q.rcv_nxt = st.base + 1 + Got(q, c) + Bit(GotFin(q, c))
    BY <2>1, <1>2, <1>6, <1>8
  <2>3. st.base + 1 + Got(q, c) <= st.top
    BY <1>2, <1>6
  <2>4. fin => st.closed /\ st.base + 1 + Got(q, c) = st.top
    BY <1>2, <1>6
  <2> QED
    BY <2>1, <2>2, <2>3, <2>4, <1>3, <1>6, Zenon DEF RcvInv, NoFinYet
<1> QED
  BY <1>7, <1>8

(* Data that was refused is taken later.                                   *)
LEMMA TakenIs ==
  ASSUME NEW p \in Pcb, NEW a \in App
  PROVE  /\ Taken(p) \in Pcb /\ SameSnd(p, Taken(p)) /\ SameCtl(p, Taken(p))
         /\ Taken(p).rcv_nxt = p.rcv_nxt /\ Taken(p).ooseq = p.ooseq /\ Taken(p).ack = p.ack
         /\ Taken(p).refused = << >> /\ ~Taken(p).refusedfin /\ Taken(p).infr = p.infr
         /\ TakenApp(p, a) \in App /\ TakesIn(a, TakenApp(p, a), p.refused, p.refusedfin)
         /\ TakenApp(p, a).wrote = a.wrote /\ TakenApp(p, a).shut = a.shut
         /\ TakenApp(p, a).open = a.open
<1>1. IsPcb(p) /\ SndTyped(p) /\ RcvTyped(p) /\ CtlTyped(p) /\ IsApp(a) /\ AppTyped(a)
  BY PcbIs, AppIs
<1> DEFINE u == IF p.refusedfin /\ p.unread > 0 THEN p.unread - 1 ELSE p.unread
           q == Taken(p)
           c == TakenApp(p, a)
<1>2. u \in Nat
  BY <1>1 DEF RcvTyped
<1>3. q = [p EXCEPT !.refused = << >>, !.refusedfin = FALSE, !.unread = u]
  BY DEF Taken
<1> HIDE DEF u, q
<1>4. /\ IsPcb(q) /\ SameSnd(p, q) /\ SameCtl(p, q) /\ q.rcv_nxt = p.rcv_nxt
      /\ q.ooseq = p.ooseq /\ q.ack = p.ack /\ q.refused = << >> /\ q.refusedfin = FALSE
      /\ q.unread = u /\ q.infr = p.infr /\ q.rtime = p.rtime /\ q.nrtx = p.nrtx /\ q.dupacks = p.dupacks
  BY <1>1, <1>3, FieldsOfPcb DEF IsPcb, SameSnd, SameCtl
<1>5. << >> \in Seq(Nat)
  OBVIOUS
<1>6. SndTyped(q) /\ RcvTyped(q) /\ CtlTyped(q)
  BY <1>1, <1>2, <1>4, <1>5 DEF SndTyped, RcvTyped, CtlTyped, SameSnd, SameCtl
<1>7. q \in Pcb
  BY <1>4, <1>6, PcbIs
<1>8. c = [a EXCEPT !.rcvd = @ \o p.refused, !.eof = @ \/ p.refusedfin]
  BY DEF TakenApp
<1>9. a.rcvd \o p.refused \in Seq(Nat) /\ (a.eof \/ p.refusedfin) \in BOOLEAN
  BY <1>1 DEF AppTyped, RcvTyped
<1> HIDE DEF c
<1>10. /\ IsApp(c) /\ c.rcvd = a.rcvd \o p.refused /\ c.wrote = a.wrote
       /\ c.shut = a.shut /\ c.open = a.open /\ c.err = a.err
  BY <1>1, <1>8 DEF IsApp, AppFields
<1>11. c.eof = (a.eof \/ p.refusedfin)
  BY <1>1, <1>8, Zenon DEF App, AppTyped, IsApp, AppFields
<1>12. AppTyped(c)
  BY <1>1, <1>9, <1>10, <1>11, Zenon DEF AppTyped
<1> QED
  BY <1>4, <1>7, <1>10, <1>11, <1>12, AppIs DEF TakesIn, q, c

(* tcp_process_refused_data keeps the receiving side right.                *)
LEMMA TakenKeeps ==
  ASSUME NEW st, NEW g, NEW b \in App, ISS[g] \in Nat, PartOf(st, g, b), NEW p \in Pcb, NEW a \in App,
         RcvInv(p, a, st), AppInv(a, b), p.refused # << >>
  PROVE  RcvInv(Taken(p), TakenApp(p, a), st) /\ AppInv(TakenApp(p, a), b)
<1> DEFINE q == Taken(p)
           c == TakenApp(p, a)
<1>1. /\ q \in Pcb /\ SameCtl(p, q) /\ q.rcv_nxt = p.rcv_nxt /\ q.ooseq = p.ooseq
      /\ q.refused = << >> /\ ~q.refusedfin /\ c \in App /\ TakesIn(a, c, p.refused, p.refusedfin)
  BY TakenIs
<1> HIDE DEF q, c
<1>2. /\ st.base \in Nat /\ st.top \in Nat /\ st.base = ISS[g]
      /\ st.top <= ISS[g] + 1 + b.wrote
      /\ st.closed => b.shut /\ st.top = ISS[g] + 1 + b.wrote
  BY DEF PartOf, IsStream, DataTop
<1>3. /\ a.rcvd \in Seq(Nat) /\ b.wrote \in Nat /\ Len(a.rcvd) \in Nat
      /\ p.refused \in Seq(Nat) /\ Len(p.refused) \in Nat /\ 0 + Len(a.rcvd) = Len(a.rcvd)
  BY AppIs, PcbIs DEF AppTyped, RcvTyped
<1>4. Counting(c.rcvd, 0) /\ Len(c.rcvd) = Len(a.rcvd) + Len(p.refused)
  BY <1>1, <1>3, CountConcat DEF RcvInv, TakesIn
<1>5. Got(q, c) = Got(p, a) /\ Got(p, a) = Len(c.rcvd) /\ GotFin(q, c) = GotFin(p, a) /\ c.eof = GotFin(p, a)
  <2>1. Got(q, c) = Got(p, a) /\ Got(p, a) = Len(c.rcvd)
    BY <1>1, <1>3, <1>4 DEF Got
  <2>2. c.eof = GotFin(p, a)
    BY <1>1, Zenon DEF TakesIn, GotFin
  <2>3. c.eof \in BOOLEAN
    BY <1>1, AppIs DEF AppTyped
  <2>4. GotFin(q, c) = c.eof
    BY <2>3, <1>1, Zenon DEF GotFin
  <2> QED
    BY <2>1, <2>2, <2>4, Zenon
<1>6. RcvInv(q, c, st)
  <2>1. Counting(q.refused, Len(c.rcvd))
    BY <1>1 DEF Counting
  <2>2. q.state = p.state
    BY <1>1 DEF SameCtl
  <2> QED
    BY <1>1, <1>4, <1>5, <2>1, <2>2, Zenon DEF RcvInv
<1>8. Len(c.rcvd) \in Nat
  BY <1>1, AppIs DEF AppTyped
<1>7. AppInv(c, b)
  <2>1. Len(c.rcvd) <= b.wrote
    <3>1. st.base + 1 + Len(c.rcvd) <= st.top /\ Len(c.rcvd) \in Nat
      <4>1. st.base + 1 + Got(p, a) <= st.top /\ Got(p, a) = Len(c.rcvd)
        BY <1>5 DEF RcvInv
      <4> QED
        BY <4>1, <1>8, Zenon
    <3> QED
      BY <3>1, <1>2, <1>3
  <2>2. c.eof => b.shut /\ Len(c.rcvd) = b.wrote
    <3> HAVE c.eof
    <3>1. st.closed /\ st.base + 1 + Len(c.rcvd) = st.top /\ Len(c.rcvd) \in Nat
      <4>1. GotFin(p, a)
        BY <1>5, Zenon
      <4>2. st.closed /\ st.base + 1 + Got(p, a) = st.top /\ Got(p, a) = Len(c.rcvd)
        BY <4>1, <1>5, Zenon DEF RcvInv
      <4> QED
        BY <4>2, <1>8, Zenon
    <3>2. b.shut /\ st.top = ISS[g] + 1 + b.wrote
      BY <3>1, <1>2
    <3>3. Len(c.rcvd) = b.wrote
      BY <3>1, <3>2, <1>2, <1>3
    <3> QED
      BY <3>2, <3>3
  <2> QED
    BY <2>1, <2>2, <1>4 DEF AppInv
<1> QED
  BY <1>6, <1>7 DEF q, c

-----------------------------------------------------------------------------
(***************************************************************************)
(* tcp_process.                                                            *)
(***************************************************************************)

(* The results of tcp_process, field by field.                             *)
LEMMA WithIs ==
  ASSUME NEW r, NEW ev
  PROVE  /\ With(r, ev).p = r.p /\ With(r, ev).out = r.out /\ With(r, ev).data = r.data
         /\ With(r, ev).fin = r.fin /\ With(r, ev).ev = ev
  BY DEF With

(* A pcb that is kept.                                                     *)
LEMMA KeepIs ==
  ASSUME NEW p
  PROVE  /\ Keep(p).p = p /\ Keep(p).out = {} /\ Keep(p).data = << >>
         /\ Keep(p).fin = FALSE /\ Keep(p).ev = "none"
  BY DEF Keep, With, Nothing

(* One that is kept with an answer.                                        *)
LEMMA AnswerIs ==
  ASSUME NEW p, NEW out
  PROVE  /\ Answer(p, out).p = p /\ Answer(p, out).out = out /\ Answer(p, out).data = << >>
         /\ Answer(p, out).fin = FALSE /\ Answer(p, out).ev = "none"
  BY DEF Answer, Keep, With, Nothing

(* RSTs are packets.                                                       *)
LEMMA RstIs ==
  ASSUME NEW x \in Nat, NEW y \in Nat
  PROVE  tcp_rst(x, y) \in Packet /\ tcp_rst(x, y).rst
  BY DEF tcp_rst, Packet

(* So is the answer to a packet that fits no connection.                   *)
LEMMA RstForIs ==
  ASSUME NEW i \in Packet
  PROVE  RstFor(i) \in Packet /\ RstFor(i).rst
<1>1. i.ackno \in Nat /\ i.seq \in Nat /\ i.data \in Seq(Nat)
  BY DEF Packet
<1>2. i.seq + tcplen(i) \in Nat
  <2>1. Len(i.data) \in Nat
    BY <1>1
  <2>2. tcplen(i) = Len(i.data) \/ tcplen(i) = Len(i.data) + 1
    <3>1. tcplen(i) = Len(i.data) + (IF i.syn \/ i.fin THEN 1 ELSE 0)
      BY DEF tcplen, TCP_TCPLEN
    <3> DEFINE c == i.syn \/ i.fin
    <3> HIDE DEF c
    <3>2. tcplen(i) = Len(i.data) + (IF c THEN 1 ELSE 0)
      BY <3>1 DEF c
    <3>3. CASE c
      BY <2>1, <3>2, <3>3
    <3>4. CASE ~c
      BY <2>1, <3>2, <3>4
    <3> QED
      BY <3>3, <3>4
  <2> QED
    BY <1>1, <2>1, <2>2
<1> QED
  BY <1>1, <1>2, RstIs DEF RstFor

(* What tcp_process does with a packet in a state with a rcv_nxt: the pcb  *)
(* it leaves, what it delivers and answers.                                *)
NagleStates == {"SYN_SENT", "SYN_RCVD", "ESTABLISHED", "CLOSE_WAIT"}

(* An acknowledgment that counts.                                          *)
Acks(i) == i.ack /\ ~i.rst

StateMoves(p, i, w, r) ==
  LET s == p.state
      t == r.p.state
  IN  /\ t \notin {"CLOSED", "SYN_SENT"}
      /\ t \in NoFinYet => s \in NoFinYet /\ ~r.fin
      /\ t # "TIME_WAIT" => (t \in FinStates <=> s \in FinStates)
      /\ t = "TIME_WAIT" => s \in FinStates
      /\ t = "SYN_RCVD" => s = "SYN_RCVD" /\ r.p.lastack = p.lastack
      /\ s = "SYN_RCVD" /\ t # "SYN_RCVD" => Acks(i)
      /\ t \in {"FIN_WAIT_2", "TIME_WAIT"} =>
           s = "FIN_WAIT_2" \/ (Acks(i) /\ i.ackno = p.snd_nxt /\ p.snd_nxt = End(w))

Outcome(p, i, w, st, r) ==
  /\ r.p \in Pcb
  /\ \A k \in r.out : AckOf(r.p, k)
  /\ r.ev \in {"none", "reset", "closed", "abort"}
  /\ r.ev = "none" =>
       /\ Gains(st, p, r.p, r.data, r.fin)
       /\ tcplen(i) = 0 => r.data = << >> /\ ~r.fin
       /\ StateMoves(p, i, w, r)
       /\ Live(r.p) => /\ Ready(r.p, w) /\ SameHeld(p, r.p) /\ r.p.snd_nxt = p.snd_nxt
                       /\ r.p.lastack = p.lastack \/ (Acks(i) /\ r.p.lastack = i.ackno)
       /\ ~Live(r.p) => r.p.unsent = << >> /\ r.p.unacked = << >>

(* The state of such a pcb: it is synchronised or in SYN_RCVD.             *)
Ongoing(p, st, i, w) ==
  /\ CanTake(st, p, i) /\ IsStream(w) /\ SndInv(p, w) /\ Live(p) /\ Receives(p)

(* A pcb that keeps its receiving side and its state.                      *)
LEMMA KeepOutcome ==
  ASSUME NEW w, NEW st, NEW p, NEW i, Ongoing(p, st, i, w),
         NEW q \in Pcb, SameRcv(p, q), SameCtl(p, q), q.snd_nxt = p.snd_nxt,
         q.lastack = p.lastack, Ready(q, w),
         NEW r, r.p = q, r.data = << >>, r.fin = FALSE, r.ev = "none",
         \A k \in r.out : AckOf(q, k)
  PROVE  Outcome(p, i, w, st, r)
<1>1. p \in Pcb /\ Live(p) /\ Receives(p)
  BY DEF Ongoing, CanTake
<1>2. Gains(st, p, q, << >>, FALSE)
  BY <1>1, StaysGains DEF Ongoing, CanTake, SameRcv
<1>3. StateMoves(p, i, w, r)
  BY <1>1 DEF StateMoves, SameCtl, Live, Receives
<1>4. SameHeld(p, q) /\ Live(q)
  BY <1>1 DEF SameHeld, SameRcv, Live, SameCtl
<1> QED
  BY <1>2, <1>3, <1>4 DEF Outcome

(* Such a pcb is kept.                                                     *)
LEMMA KeptOutcome ==
  ASSUME NEW w, NEW st, NEW p, NEW i, Ongoing(p, st, i, w),
         NEW q \in Pcb, SameRcv(p, q), SameCtl(p, q), q.snd_nxt = p.snd_nxt,
         q.lastack = p.lastack, Ready(q, w)
  PROVE  Outcome(p, i, w, st, Keep(q))
<1> DEFINE r == Keep(q)
<1>1. r.p = q /\ r.data = << >> /\ r.fin = FALSE /\ r.ev = "none" /\ r.out = {}
  BY KeepIs
<1> HIDE DEF r
<1> QED
  BY <1>1, KeepOutcome DEF r

(* ACK flags do not matter.                                                *)
LEMMA AckNowOutcome ==
  ASSUME NEW w, NEW st, NEW p, NEW i, Ongoing(p, st, i, w)
  PROVE  Outcome(p, i, w, st, Keep(tcp_ack_now(p))) /\ Outcome(p, i, w, st, Keep(p))
<1>1. p \in Pcb /\ Ready(p, w)
  BY DEF Ongoing, CanTake, Ready
<1> DEFINE q == tcp_ack_now(p)
<1>2. q \in Pcb /\ SameSnd(p, q) /\ SameRcv(p, q) /\ SameCtl(p, q)
  BY <1>1, AckNow
<1> HIDE DEF q
<1>3. q.snd_nxt = p.snd_nxt /\ q.lastack = p.lastack /\ Ready(q, w)
  BY <1>2, SndSame DEF SameSnd, Ready, Ongoing
<1>4. Outcome(p, i, w, st, Keep(q))
  BY <1>2, <1>3, KeptOutcome
<1>5. Outcome(p, i, w, st, Keep(p))
  BY <1>1, SameTrans, KeptOutcome
<1> QED
  BY <1>4, <1>5 DEF q

(* A RST.                                                                  *)
LEMMA RstOutcome ==
  ASSUME NEW w, NEW st, NEW p, NEW i, Ongoing(p, st, i, w)
  PROVE  Outcome(p, i, w, st, ProcessRst(p, i))
<1>1. p \in Pcb /\ p.state # "SYN_SENT" /\ p.ack \in SUBSET {"DELAY", "NOW"}
  BY PcbIs DEF Ongoing, CanTake, CtlTyped
<1> DEFINE q == [p EXCEPT !.ack = @ \ {"DELAY"}]
           r == With(Nothing(q), "reset")
<1>2. q \in Pcb
  BY <1>1, AckFlags
<1>3. Outcome(p, i, w, st, r)
  <2> HIDE DEF q
  <2>1. r.p = q /\ r.out = {} /\ r.ev = "reset"
    BY DEF With, Nothing
  <2> HIDE DEF r
  <2> QED
    BY <1>2, <2>1 DEF Outcome
<1>4. \/ ProcessRst(p, i) = r
      \/ ProcessRst(p, i) = Keep(tcp_ack_now(p))
      \/ ProcessRst(p, i) = Keep(p)
  BY <1>1 DEF ProcessRst
<1> HIDE DEF r
<1> QED
  BY <1>3, <1>4, AckNowOutcome

(* tcp_receive with a packet that occupies no sequence space.              *)
LEMMA ReceiveEmpty ==
  ASSUME NEW p, IsPcb(p), NEW i, tcplen(i) = 0
  PROVE  tcp_receive(p, i).data = << >> /\ tcp_receive(p, i).fin = FALSE
<1>1. ASSUME NEW q PROVE \E v : ReceiveData(q, i) = Nothing(v)
  BY DEF ReceiveData
<1>2. ASSUME NEW q, NEW out
      PROVE  LET r == [ReceiveData(q, i) EXCEPT !.out = @ \cup out]
             IN  /\ r.data = << >> /\ r.fin = FALSE
                 /\ ReceiveData(q, i).data = << >> /\ ReceiveData(q, i).fin = FALSE
  <2>1. PICK v : ReceiveData(q, i) = Nothing(v)
    BY <1>1
  <2> QED
    BY <2>1 DEF Nothing
<1> QED
  BY <1>2 DEF tcp_receive

(* SYN_RCVD holds the SYN only.                                            *)
LEMMA OnlySyn ==
  ASSUME NEW w, IsStream(w), NEW p \in Pcb, SndInv(p, w), End(w) = w.base + 1,
         p.unacked # << >>
  PROVE  Tail(p.unacked) = << >>
<1> DEFINE u == p.unacked
           mid == First(p.unsent, End(w))
<1>1. u \in Seq(Segment) /\ p.unsent \in Seq(Segment) /\ p.snd_nxt \in Nat /\ p.lastack \in Nat
  BY PcbIs DEF SndTyped
<1>2. Linked(w, u, mid) /\ Linked(w, p.unsent, End(w)) /\ w.base \in Nat /\ End(w) \in Nat
  BY <1>1, SendingIs, EndNat DEF SndInv, IsStream
<1>3. mid \in Nat /\ mid <= End(w)
  BY <1>2, FirstNat
<1> HIDE DEF mid
<1>4. /\ Tail(u) \in Seq(Segment) /\ Len(Tail(u)) = Len(u) - 1
      /\ Len(u) \in Nat /\ Len(u) # 0
  BY <1>1, <1>2, LinkedTail DEF Linked
<1> HIDE DEF u
<1>5. SUFFICES ASSUME Len(u) # 1 PROVE FALSE
  <2>1. Len(u) = 1 => Len(Tail(u)) = 0
    BY <1>4
  <2> DEFINE v == Tail(u)
  <2>2. v \in Seq(Segment) /\ (Len(u) = 1 => Len(v) = 0)
    BY <2>1, <1>4
  <2> HIDE DEF v
  <2>3. Len(u) = 1 => v = << >>
    BY <2>2
  <2> QED
    BY <2>3 DEF u, v
<1>9. 1 \in 1 .. Len(u) /\ 2 \in 1 .. Len(u)
  BY <1>4, <1>5
<1>6. SegOK(w, u[1]) /\ SegOK(w, u[2])
  BY <1>2, <1>9 DEF Linked
<1>7. EndSeq(u[1]) <= u[2].seq /\ EndSeq(u[2]) <= mid
  BY <1>2, <1>9, LinkedSorted
<1>8. /\ w.base <= u[1].seq /\ u[1].seq < EndSeq(u[1]) /\ u[2].seq < EndSeq(u[2])
      /\ u[1].seq \in Nat /\ u[2].seq \in Nat /\ EndSeq(u[1]) \in Nat /\ EndSeq(u[2]) \in Nat
  BY <1>2, <1>6, SegFacts
<1> QED
  BY <1>2, <1>3, <1>7, <1>8

(* A repeated SYN makes SYN_RCVD send its own again.                       *)
LEMMA RexmitOutcome ==
  ASSUME NEW w, NEW st, NEW p, NEW i, Ongoing(p, st, i, w), End(w) = w.base + 1
  PROVE  Outcome(p, i, w, st, Keep(tcp_rexmit(p)))
<1>1. p \in Pcb /\ IsStream(w) /\ SndInv(p, w)
  BY DEF Ongoing, CanTake
<1>2. CASE p.unacked = << >>
  BY <1>2, AckNowOutcome DEF tcp_rexmit
<1>3. CASE p.unacked # << >>
  <2> DEFINE q == tcp_rexmit(p)
  <2>1. Queues(p, q) /\ FastInv(q, w) /\ q.unacked = Tail(p.unacked)
    BY <1>1, <1>3, RexmitIs
  <2>2. q.unacked = << >>
    BY <2>1, <1>1, <1>3, OnlySyn
  <2> HIDE DEF q
  <2>3. Ready(q, w)
    BY <2>1, <2>2 DEF Ready, NagleHolds
  <2> QED
    BY <2>1, <2>3, KeptOutcome DEF Queues, q
<1> QED
  BY <1>2, <1>3

(* A change of state.                                                      *)
NewState(p, s, q) == s \in States /\ q = [p EXCEPT !.state = s]

(* Nothing else changes.                                                   *)
LEMMA StateSet ==
  ASSUME NEW p \in Pcb, NEW s, NEW q, NewState(p, s, q)
  PROVE  /\ q \in Pcb /\ SameSnd(p, q) /\ SameRcv(p, q) /\ q.infr = p.infr /\ q.ack = p.ack
         /\ q.state = s /\ q.rxclosed = p.rxclosed
<1>1. IsPcb(p) /\ SndTyped(p) /\ RcvTyped(p) /\ CtlTyped(p)
  BY PcbIs
<1>2. /\ IsPcb(q) /\ SameSnd(p, q) /\ SameRcv(p, q) /\ q.infr = p.infr /\ q.ack = p.ack
      /\ q.state = s /\ q.rxclosed = p.rxclosed
      /\ q.rtime = p.rtime /\ q.nrtx = p.nrtx /\ q.dupacks = p.dupacks
  BY <1>1, FieldsOfPcb DEF IsPcb, SameSnd, SameRcv, NewState
<1>3. CtlTyped(q)
  BY <1>1, <1>2 DEF CtlTyped, NewState
<1> QED
  BY <1>1, <1>2, <1>3, SameTyped, PcbIs

(* tcp_pcb_purge with a change of state.                                   *)
LEMMA PurgeIs ==
  ASSUME NEW p \in Pcb
  PROVE  LET q == tcp_pcb_purge(p)
         IN  /\ q \in Pcb /\ q.unsent = << >> /\ q.unacked = << >> /\ q.ooseq = << >>
             /\ q.refused = << >> /\ ~q.refusedfin /\ q.rcv_nxt = p.rcv_nxt /\ SameCtl(p, q)
             /\ q.ack = p.ack
<1> DEFINE q == tcp_pcb_purge(p)
<1>1. IsPcb(p) /\ SndTyped(p) /\ RcvTyped(p) /\ CtlTyped(p)
  BY PcbIs
<1>2. /\ IsPcb(q) /\ q.unsent = << >> /\ q.unacked = << >> /\ q.ooseq = << >>
      /\ q.refused = << >> /\ q.refusedfin = FALSE /\ q.rcv_nxt = p.rcv_nxt /\ SameCtl(p, q)
      /\ q.ack = p.ack /\ q.rtime = FALSE /\ q.nrtx = p.nrtx /\ q.dupacks = p.dupacks
      /\ q.infr = p.infr /\ q.unread = p.unread
      /\ q.snd_nxt = p.snd_nxt /\ q.lastack = p.lastack /\ q.snd_lbb = p.snd_lbb
  BY <1>1, FieldsOfPcb DEF IsPcb, SameCtl, tcp_pcb_purge
<1>3. << >> \in Seq(Segment) /\ << >> \in Seq(Nat)
  OBVIOUS
<1> HIDE DEF q
<1>4. SndTyped(q) /\ RcvTyped(q) /\ CtlTyped(q)
  BY <1>1, <1>2, <1>3 DEF SndTyped, RcvTyped, CtlTyped, SameCtl
<1> QED
  BY <1>2, <1>4, PcbIs DEF q

(* What the states from ESTABLISHED on become.                             *)
LEMMA NextStateIs ==
  ASSUME NEW r, NEW i, r.fin \in BOOLEAN
  PROVE  LET s == r.p.state
             t == NextState(r, i)
         IN  \/ t = "TIME_WAIT" /\ (s = "FIN_WAIT_2" \/ (s \in {"FIN_WAIT_1", "CLOSING"} /\ FinAcked(r.p, i)))
             \/ t = "CLOSING" /\ s = "FIN_WAIT_1"
             \/ t = "FIN_WAIT_2" /\ s = "FIN_WAIT_1" /\ ~r.fin /\ FinAcked(r.p, i)
             \/ t = "CLOSE_WAIT" /\ s \in {"ESTABLISHED", "CLOSE_WAIT"}
             \/ t = s /\ (r.fin => s \notin {"ESTABLISHED", "FIN_WAIT_1", "FIN_WAIT_2"})
<1> DEFINE f == FinAcked(r.p, i)
           s == r.p.state
<1> HIDE DEF f, s
<1>1. NextState(r, i) =
        CASE s = "FIN_WAIT_1" /\ r.fin /\ f  -> "TIME_WAIT"
          [] s = "FIN_WAIT_1" /\ r.fin /\ ~f -> "CLOSING"
          [] s = "FIN_WAIT_1" /\ ~r.fin /\ f -> "FIN_WAIT_2"
          [] s = "FIN_WAIT_2" /\ r.fin       -> "TIME_WAIT"
          [] s = "CLOSING" /\ f              -> "TIME_WAIT"
          [] s \in {"ESTABLISHED", "CLOSE_WAIT"} /\ r.fin -> "CLOSE_WAIT"
          [] OTHER -> s
  BY Zenon DEF NextState, f, s
<1> QED
  BY <1>1 DEF s, f

(* The pcb after tcp_receive and a change of state that keeps the queues.  *)
LEMMA MovedOutcome ==
  ASSUME NEW w, NEW st, NEW p, NEW i, Ongoing(p, st, i, w), ~i.rst,
         NEW e, SameRcv(p, e), SameSnd(p, e), p.state \in NoFinYet \/ e.state = p.state,
         NEW t, ReceivedOK(e, i, w, st, t), tcplen(i) = 0 => t.data = << >> /\ t.fin = FALSE,
         NEW q \in Pcb, SameSnd(t.p, q), SameRcv(t.p, q), q.infr = t.p.infr,
         q.state # "TIME_WAIT", q.state \in NagleStates => t.p.state \in NagleStates,
         NEW r, r.p = q, r.data = t.data, r.fin = t.fin, r.out = t.out, r.ev \in {"none", "closed"},
         StateMoves(p, i, w, r)
  PROVE  Outcome(p, i, w, st, r)
<1>1. q.state # "SYN_SENT" /\ Live(q)
  BY DEF StateMoves, Live
<1>2. \A k \in r.out : AckOf(q, k)
  BY <1>1 DEF ReceivedOK, AckOf, SameRcv
<1>3. Gains(st, p, q, r.data, r.fin)
  BY DEF ReceivedOK, Gains, SameRcv
<1>4. Ready(q, w)
  BY ReadySame DEF ReceivedOK, NagleStates
<1>5. SameHeld(p, q) /\ q.snd_nxt = p.snd_nxt
  BY DEF ReceivedOK, SameHeld, SameRcv, SameSnd
<1>6. q.lastack = p.lastack \/ (Acks(i) /\ q.lastack = i.ackno)
  BY DEF ReceivedOK, SameSnd, Acks
<1> QED
  BY <1>1, <1>2, <1>3, <1>4, <1>5, <1>6, Zenon DEF Outcome

(* SYN_RCVD: the handshake ends, or the SYN is sent again.                 *)
LEMMA SynRcvdOutcome ==
  ASSUME NEW w, NEW st, NEW p, NEW i, Ongoing(p, st, i, w), p.state = "SYN_RCVD",
         End(w) = w.base + 1, ~i.rst, NEW acceptfails
  PROVE  Outcome(p, i, w, st, ProcessSynRcvd(p, i, acceptfails))
<1>1. p \in Pcb /\ i \in Packet /\ SndInv(p, w) /\ IsStream(w) /\ Ready(p, w) /\ p.snd_nxt \in Nat /\ p.rcv_nxt \in Nat
  BY PcbIs DEF Ongoing, CanTake, SndTyped, RcvTyped, Ready
<1> DEFINE e == [p EXCEPT !.state = "ESTABLISHED"]
           t == tcp_receive(e, i)
           c == [t.p EXCEPT !.state = "CLOSE_WAIT"]
           f == [t EXCEPT !.p = tcp_ack_now(c)]
           x == [Nothing(p) EXCEPT !.out = {tcp_rst(p.snd_nxt, p.rcv_nxt)}]
<1>2. Outcome(p, i, w, st, With(x, "abort"))
  <2> DEFINE r == With(x, "abort")
  <2>1. r.p = p /\ r.out = {tcp_rst(p.snd_nxt, p.rcv_nxt)} /\ r.ev = "abort"
    BY DEF With, Nothing
  <2>2. AckOf(p, tcp_rst(p.snd_nxt, p.rcv_nxt))
    BY <1>1, RstIs DEF AckOf
  <2> HIDE DEF r
  <2> QED
    BY <1>1, <2>1, <2>2 DEF Outcome, r
<1>3. Outcome(p, i, w, st, Answer(p, {RstFor(i)}))
  <2> DEFINE m == {RstFor(i)}
             r == Answer(p, m)
  <2> HIDE DEF m
  <2>1. r.p = p /\ r.out = m /\ r.data = << >> /\ r.fin = FALSE /\ r.ev = "none"
    BY DEF Answer, Keep, With, Nothing
  <2>2. AckOf(p, RstFor(i))
    BY <1>1, RstForIs DEF AckOf
  <2> HIDE DEF r
  <2> QED
    BY <1>1, <2>1, <2>2, KeepOutcome, SameTrans DEF r, m
<1>4. NewState(p, "ESTABLISHED", e)
  BY DEF NewState, States
<1> HIDE DEF e
<1>5. /\ e \in Pcb /\ SameSnd(p, e) /\ SameRcv(p, e) /\ e.infr = p.infr /\ e.ack = p.ack
      /\ e.state = "ESTABLISHED" /\ e.rxclosed = p.rxclosed
  BY <1>1, <1>4, StateSet
<1>6. CanTake(st, e, i) /\ SndInv(e, w)
  BY <1>1, <1>5, SndSame DEF CanTake, Ongoing, SameRcv
<1>7. ReceivedOK(e, i, w, st, t)
  BY <1>1, <1>6, TcpReceiveIs
<1>8. tcplen(i) = 0 => t.data = << >> /\ t.fin = FALSE
  BY <1>5, PcbIs, ReceiveEmpty
<1> HIDE DEF t
<1>9. t.p \in Pcb /\ IsResult(t) /\ t.p.state = "ESTABLISHED" /\ t.fin \in BOOLEAN
  BY <1>5, <1>7 DEF ReceivedOK, SameCtl, Gains
<1>10. ASSUME i.ack, ~t.fin PROVE Outcome(p, i, w, st, With(t, "none"))
  <2> DEFINE r == With(t, "none")
  <2>1. r.p = t.p /\ r.data = t.data /\ r.fin = t.fin /\ r.out = t.out /\ r.ev = "none"
    BY WithIs
  <2> HIDE DEF r
  <2>2. StateMoves(p, i, w, r)
    BY <1>9, <1>10, <2>1 DEF StateMoves, NoFinYet, FinStates, Acks
  <2>3. SameSnd(t.p, t.p) /\ SameRcv(t.p, t.p)
    BY SameTrans
  <2>4. p.state \in NoFinYet /\ t.p.state # "TIME_WAIT"
    BY <1>9 DEF NoFinYet
  <2> QED
    BY <1>5, <1>7, <1>8, <1>9, <2>1, <2>2, <2>3, <2>4, MovedOutcome DEF r
<1>11. ASSUME i.ack, t.fin PROVE Outcome(p, i, w, st, With(f, "none"))
  <2>1. NewState(t.p, "CLOSE_WAIT", c)
    BY DEF NewState, States
  <2> HIDE DEF c
  <2>2. /\ c \in Pcb /\ SameSnd(t.p, c) /\ SameRcv(t.p, c) /\ c.infr = t.p.infr /\ c.state = "CLOSE_WAIT"
    BY <1>9, <2>1, StateSet
  <2> DEFINE q == tcp_ack_now(c)
  <2>3. q \in Pcb /\ SameSnd(c, q) /\ SameRcv(c, q) /\ SameCtl(c, q) /\ q.infr = c.infr
    BY <2>2, AckNow
  <2> HIDE DEF q
  <2>4. f.p = q /\ f.data = t.data /\ f.fin = t.fin /\ f.out = t.out
    BY <1>9 DEF IsResult, ResultFields, q
  <2> HIDE DEF f
  <2> DEFINE r == With(f, "none")
  <2>5. r.p = q /\ r.data = t.data /\ r.fin = t.fin /\ r.out = t.out /\ r.ev = "none"
    BY <2>4, WithIs
  <2> HIDE DEF r
  <2>6. SameSnd(t.p, q) /\ SameRcv(t.p, q) /\ q.infr = t.p.infr /\ q.state = "CLOSE_WAIT"
    BY <2>2, <2>3, SameTrans DEF SameCtl
  <2>7. StateMoves(p, i, w, r)
    BY <1>11, <2>5, <2>6 DEF StateMoves, NoFinYet, FinStates, Acks
  <2>8. p.state \in NoFinYet /\ q.state # "TIME_WAIT" /\ t.p.state \in NagleStates
    BY <1>9, <2>6 DEF NoFinYet, NagleStates
  <2> QED
    BY <1>5, <1>7, <1>8, <2>3, <2>5, <2>6, <2>7, <2>8, MovedOutcome DEF r
<1>12. \/ ProcessSynRcvd(p, i, acceptfails) = With(x, "abort")
       \/ i.ack /\ t.fin /\ ProcessSynRcvd(p, i, acceptfails) = With(f, "none")
       \/ i.ack /\ ~t.fin /\ ProcessSynRcvd(p, i, acceptfails) = With(t, "none")
       \/ ProcessSynRcvd(p, i, acceptfails) = Answer(p, {RstFor(i)})
       \/ ProcessSynRcvd(p, i, acceptfails) = Keep(tcp_rexmit(p))
       \/ ProcessSynRcvd(p, i, acceptfails) = Keep(p)
  BY DEF ProcessSynRcvd, Accepted, t, e
<1> HIDE DEF x, f
<1> QED
  BY <1>2, <1>3, <1>10, <1>11, <1>12, RexmitOutcome, AckNowOutcome

(* The states from ESTABLISHED on.                                         *)
SyncedStates == {"ESTABLISHED", "FIN_WAIT_1", "FIN_WAIT_2", "CLOSE_WAIT", "CLOSING", "LAST_ACK"}

(* tcp_receive and the change of state after it.                           *)
LEMMA SyncedOutcome ==
  ASSUME NEW w, NEW st, NEW p, NEW i, Ongoing(p, st, i, w), ~i.rst, p.state \in SyncedStates
  PROVE  Outcome(p, i, w, st, ProcessSynced(p, i))
<1> DEFINE t    == tcp_receive(p, i)
           q    == IF t.fin THEN tcp_ack_now(t.p) ELSE t.p
           next == NextState(t, i)
           left == IF next = "TIME_WAIT" THEN tcp_pcb_purge(q) ELSE q
           l    == [left EXCEPT !.state = next]
           x    == [t EXCEPT !.p = l]
           ev   == IF t.p.state = "LAST_ACK" /\ FinAcked(t.p, i) THEN "closed" ELSE "none"
           r    == With(x, ev)
<1>1. p \in Pcb /\ i \in Packet /\ SndInv(p, w) /\ IsStream(w) /\ CanTake(st, p, i)
  BY DEF Ongoing, CanTake
<1>2. ReceivedOK(p, i, w, st, t)
  BY <1>1, TcpReceiveIs
<1>3. tcplen(i) = 0 => t.data = << >> /\ t.fin = FALSE
  BY <1>1, PcbIs, ReceiveEmpty
<1>4. ProcessSynced(p, i) = r
  BY DEF ProcessSynced, StateChange, Received
<1> HIDE DEF t
<1>5. t.p \in Pcb /\ IsResult(t) /\ t.p.state = p.state /\ t.fin \in BOOLEAN
  BY <1>2 DEF ReceivedOK, SameCtl, Gains
<1>6. /\ q \in Pcb /\ SameSnd(t.p, q) /\ SameRcv(t.p, q) /\ SameCtl(t.p, q) /\ q.infr = t.p.infr
  BY <1>5, AckNow, SameTrans
<1>7. \/ next = "TIME_WAIT" /\ (p.state = "FIN_WAIT_2" \/ (p.state \in {"FIN_WAIT_1", "CLOSING"} /\ FinAcked(t.p, i)))
      \/ next = "CLOSING" /\ p.state = "FIN_WAIT_1"
      \/ next = "FIN_WAIT_2" /\ p.state = "FIN_WAIT_1" /\ ~t.fin /\ FinAcked(t.p, i)
      \/ next = "CLOSE_WAIT" /\ p.state \in {"ESTABLISHED", "CLOSE_WAIT"}
      \/ next = p.state /\ (t.fin => p.state \notin {"ESTABLISHED", "FIN_WAIT_1", "FIN_WAIT_2"})
  BY <1>5, NextStateIs
<1> HIDE DEF q, next
<1>8. FinAcked(t.p, i) => i.ack /\ i.ackno = p.snd_nxt /\ p.snd_nxt = End(w)
  BY <1>2 DEF ReceivedOK, FinAcked
<1>9. next \in States /\ ev \in {"none", "closed"}
  BY <1>7 DEF States, SyncedStates
<1> HIDE DEF ev
<1>10. left \in Pcb
  BY <1>6, PurgeIs
<1> HIDE DEF left
<1>11. NewState(left, next, l)
  BY <1>9 DEF NewState
<1> HIDE DEF l
<1>12. l \in Pcb /\ SameSnd(left, l) /\ SameRcv(left, l) /\ l.infr = left.infr /\ l.state = next
  BY <1>10, <1>11, StateSet
<1>13. x.p = l /\ x.data = t.data /\ x.fin = t.fin /\ x.out = t.out
  BY <1>5 DEF IsResult, ResultFields
<1> HIDE DEF x
<1>14. r.p = l /\ r.data = t.data /\ r.fin = t.fin /\ r.out = t.out /\ r.ev = ev
  BY <1>13, WithIs
<1> HIDE DEF r
<1>15. StateMoves(p, i, w, r)
  BY <1>7, <1>8, <1>12, <1>14 DEF StateMoves, NoFinYet, FinStates, SyncedStates, Acks
<1>16. CASE next # "TIME_WAIT"
  <2>1. left = q
    BY <1>16 DEF left
  <2>2. SameSnd(t.p, l) /\ SameRcv(t.p, l) /\ l.infr = t.p.infr
    BY <2>1, <1>6, <1>12, SameTrans
  <2>3. l.state \in NagleStates => t.p.state \in NagleStates
    BY <1>5, <1>7, <1>12 DEF NagleStates, SyncedStates
  <2>4. SameRcv(p, p) /\ SameSnd(p, p)
    BY SameTrans
  <2> QED
    BY <1>2, <1>3, <1>4, <1>9, <1>12, <1>14, <1>15, <1>16, <2>2, <2>3, <2>4, MovedOutcome
<1>17. CASE next = "TIME_WAIT"
  <2>1. /\ left.unsent = << >> /\ left.unacked = << >> /\ left.ooseq = << >> /\ left.rcv_nxt = q.rcv_nxt
    BY <1>6, <1>17, PurgeIs DEF left
  <2>2. l.unsent = << >> /\ l.unacked = << >> /\ l.ooseq = << >> /\ l.rcv_nxt = t.p.rcv_nxt
    BY <2>1, <1>6, <1>12 DEF SameSnd, SameRcv
  <2>3. StreamQueue(st, << >>) /\ Beyond(<< >>, l.rcv_nxt)
    BY DEF StreamQueue, Sorted, Beyond
  <2>4. Gains(st, p, l, r.data, r.fin)
    BY <1>2, <1>14, <2>2, <2>3 DEF ReceivedOK, Gains
  <2>5. \A k \in r.out : AckOf(l, k)
    BY <1>2, <1>12, <1>14, <1>17, <2>2 DEF ReceivedOK, AckOf
  <2>6. ~Live(l)
    BY <1>12, <1>17 DEF Live
  <2> QED
    BY <1>3, <1>4, <1>9, <1>12, <1>14, <1>15, <2>2, <2>4, <2>5, <2>6 DEF Outcome
<1> QED
  BY <1>16, <1>17

(* tcp_process in every state with a rcv_nxt.                              *)
LEMMA ProcessOutcome ==
  ASSUME NEW w, NEW st, NEW p, NEW i, Ongoing(p, st, i, w),
         p.state = "SYN_RCVD" => End(w) = w.base + 1, NEW acceptfails
  PROVE  Outcome(p, i, w, st, tcp_process(p, i, acceptfails))
<1>1. p.state \in SyncedStates \/ p.state = "SYN_RCVD"
  <2>1. p.state \in States /\ p.state \notin {"CLOSED", "TIME_WAIT", "SYN_SENT"}
    BY PcbIs DEF Ongoing, CanTake, CtlTyped, Live
  <2> QED
    BY <2>1 DEF States, SyncedStates
<1>2. p.state # "SYN_SENT"
  BY <1>1 DEF SyncedStates
<1>3. /\ Outcome(p, i, w, st, ProcessRst(p, i))
      /\ Outcome(p, i, w, st, Keep(tcp_ack_now(p)))
  BY RstOutcome, AckNowOutcome
<1>4. ~i.rst /\ p.state = "SYN_RCVD" => Outcome(p, i, w, st, ProcessSynRcvd(p, i, acceptfails))
  BY SynRcvdOutcome
<1>5. ~i.rst /\ p.state # "SYN_RCVD" => Outcome(p, i, w, st, ProcessSynced(p, i))
  BY <1>1, SyncedOutcome
<1> QED
  BY <1>2, <1>3, <1>4, <1>5, Zenon DEF tcp_process

(* SYN_SENT: the SYN|ACK opens the connection.                             *)
Opens(p, u, v, x, y, t, n, q) ==
  /\ u \in Seq(Segment) /\ v \in Seq(Segment) /\ x \in Nat /\ y \in Nat
  /\ t \in BOOLEAN /\ n \in 0 .. 255
  /\ q = [p EXCEPT !.unacked = u, !.unsent = v, !.state = "ESTABLISHED", !.rcv_nxt = x,
                   !.lastack = y, !.rtime = t, !.nrtx = n]

(* The pcb it leaves.                                                      *)
LEMMA OpensIs ==
  ASSUME NEW p \in Pcb, NEW u, NEW v, NEW x, NEW y, NEW t, NEW n, NEW q, Opens(p, u, v, x, y, t, n, q)
  PROVE  /\ q \in Pcb /\ q.unacked = u /\ q.unsent = v /\ q.state = "ESTABLISHED" /\ q.rcv_nxt = x
         /\ q.lastack = y /\ q.snd_nxt = p.snd_nxt /\ q.snd_lbb = p.snd_lbb
         /\ SameHeld(p, q) /\ q.ooseq = p.ooseq
<1>1. IsPcb(p) /\ SndTyped(p) /\ RcvTyped(p) /\ CtlTyped(p)
  BY PcbIs
<1>2. /\ IsPcb(q) /\ q.unacked = u /\ q.unsent = v /\ q.state = "ESTABLISHED" /\ q.rcv_nxt = x
      /\ q.lastack = y /\ q.snd_nxt = p.snd_nxt /\ q.snd_lbb = p.snd_lbb
      /\ SameHeld(p, q) /\ q.ooseq = p.ooseq /\ q.unread = p.unread
      /\ q.rtime = t /\ q.nrtx = n /\ q.dupacks = p.dupacks /\ q.infr = p.infr /\ q.ack = p.ack
      /\ q.rxclosed = p.rxclosed
  BY <1>1, FieldsOfPcb DEF IsPcb, SameHeld, Opens
<1>3. u \in Seq(Segment) /\ v \in Seq(Segment) /\ x \in Nat /\ y \in Nat /\ t \in BOOLEAN /\ n \in 0 .. 255
  BY DEF Opens
<1>4. SndTyped(q)
  BY <1>1, <1>2, <1>3 DEF SndTyped
<1>5. RcvTyped(q)
  BY <1>1, <1>2, <1>3 DEF RcvTyped, SameHeld
<1>6. CtlTyped(q)
  BY <1>1, <1>2, <1>3, Zenon DEF CtlTyped, States
<1> QED
  BY <1>2, <1>4, <1>5, <1>6, PcbIs

SynSent(p, w) ==
  /\ p \in Pcb /\ IsStream(w) /\ SndInv(p, w) /\ p.state = "SYN_SENT" /\ p.lastack = w.base
  /\ p.snd_nxt > w.base

Opened(p, i, w, q) ==
  /\ i.ack /\ i.syn /\ i.ackno = w.base + 1 /\ q.lastack = w.base + 1
  /\ q.state = "ESTABLISHED" /\ q.rcv_nxt = i.seq + 1

SynSentOutcome(p, i, w, r) ==
  /\ r.p \in Pcb /\ r.ev \in {"none", "reset"} /\ r.data = << >> /\ r.fin = FALSE
  /\ \A k \in r.out : k \in Packet /\ k.rst
  /\ r.ev = "none" =>
       /\ SndInv(r.p, w) /\ r.p.snd_nxt = p.snd_nxt /\ SameHeld(p, r.p) /\ r.p.ooseq = p.ooseq
       /\ \/ SameRcv(p, r.p) /\ SameCtl(p, r.p) /\ r.p.lastack = p.lastack /\ r.p.ack = p.ack
          \/ ~i.rst /\ Opened(p, i, w, r.p)

(* The SYN|ACK of our SYN.                                                 *)
LEMMA SynSentOpens ==
  ASSUME NEW w, NEW p, SynSent(p, w), NEW i \in Packet, ~i.rst, i.ack, i.syn, i.ackno = p.lastack + 1
  PROVE  SynSentOutcome(p, i, w, ProcessSynSent(p, i))
<1> DEFINE q == IF p.unacked = << >> THEN [p EXCEPT !.unsent = Tail(@)]
                ELSE [p EXCEPT !.unacked = Tail(@)]
           e == [q EXCEPT !.state = "ESTABLISHED", !.rcv_nxt = i.seq + 1,
                          !.lastack = i.ackno, !.rtime = q.unacked # << >>,
                          !.nrtx = IF q.unacked = << >> THEN @ ELSE 0]
           u == IF p.unacked = << >> THEN p.unacked ELSE Tail(p.unacked)
           v == IF p.unacked = << >> THEN Tail(p.unsent) ELSE p.unsent
           t == u # << >>
           n == IF u = << >> THEN p.nrtx ELSE 0
           x == i.seq + 1
           y == i.ackno
<1>1. /\ p \in Pcb /\ IsPcb(p) /\ SndTyped(p) /\ CtlTyped(p) /\ IsStream(w) /\ w.base \in Nat
      /\ p.snd_nxt \in Nat /\ p.lastack = w.base /\ w.base < p.snd_nxt
  BY PcbIs DEF SynSent, SndTyped, IsStream
<1>2. Sending(w, u, v, p.snd_nxt, w.base + 1) /\ u \in Seq(Segment) /\ v \in Seq(Segment)
  BY <1>1, SynLeaves DEF SynSent, SndInv
<1>3. q = [p EXCEPT !.unacked = u, !.unsent = v]
  BY <1>1, FieldsOfPcb DEF IsPcb
<1> HIDE DEF u, v, q
<1>4. IsPcb(q) /\ q.unacked = u /\ q.nrtx = p.nrtx
  BY <1>1, <1>3, FieldsOfPcb DEF IsPcb
<1>5. e = [q EXCEPT !.state = "ESTABLISHED", !.rcv_nxt = x, !.lastack = y, !.rtime = t, !.nrtx = n]
  BY <1>4, FieldsOfPcb DEF IsPcb
<1>6. x \in Nat /\ y \in Nat /\ y = w.base + 1
  BY <1>1 DEF Packet
<1>7. t \in BOOLEAN /\ n \in 0 .. 255
  <2>1. 0 \in 0 .. 255
    OBVIOUS
  <2>2. n \in 0 .. 255
    BY <1>1, <2>1, Zenon DEF CtlTyped
  <2> QED
    BY <2>2, Zenon
<1> HIDE DEF e, t, n, x, y
<1>8. e = [p EXCEPT !.unacked = u, !.unsent = v, !.state = "ESTABLISHED", !.rcv_nxt = x,
                    !.lastack = y, !.rtime = t, !.nrtx = n]
  BY <1>1, <1>3, <1>4, <1>5, FieldsOfPcb DEF IsPcb
<1>9. Opens(p, u, v, x, y, t, n, e)
  BY <1>2, <1>6, <1>7, <1>8, Zenon DEF Opens
<1>10. /\ e \in Pcb /\ e.unacked = u /\ e.unsent = v /\ e.state = "ESTABLISHED" /\ e.rcv_nxt = x
       /\ e.lastack = y /\ e.snd_nxt = p.snd_nxt /\ e.snd_lbb = p.snd_lbb
       /\ SameHeld(p, e) /\ e.ooseq = p.ooseq
  BY <1>1, <1>9, OpensIs
<1>11. SndInv(e, w)
  BY <1>2, <1>6, <1>10 DEF SndInv, SynSent
<1> DEFINE f == tcp_ack_now(e)
           r == Keep(f)
<1>12. f \in Pcb /\ SameSnd(e, f) /\ SameRcv(e, f) /\ SameCtl(e, f)
  BY <1>10, AckNow
<1> HIDE DEF f
<1>13. SndInv(f, w)
  BY <1>11, <1>12, SndSame
<1>14. SameHeld(p, f) /\ f.ooseq = p.ooseq /\ f.snd_nxt = p.snd_nxt
  BY <1>10, <1>12 DEF SameHeld, SameRcv, SameSnd
<1>15. Opened(p, i, w, f)
  BY <1>6, <1>10, <1>12 DEF Opened, SameRcv, SameSnd, SameCtl, x, y
<1>16. r.p = f /\ r.data = << >> /\ r.fin = FALSE /\ r.ev = "none" /\ r.out = {}
  BY KeepIs
<1>17. ProcessSynSent(p, i) = r
  BY DEF ProcessSynSent, f, e, q
<1> HIDE DEF r
<1> QED
  BY <1>12, <1>13, <1>14, <1>15, <1>16, <1>17 DEF SynSentOutcome

(* Any other packet.                                                       *)
LEMMA SynSentKeeps ==
  ASSUME NEW w, NEW p, SynSent(p, w), NEW i \in Packet, NEW q \in Pcb, SndInv(q, w),
         q.snd_nxt = p.snd_nxt, SameRcv(p, q), SameCtl(p, q), q.lastack = p.lastack, q.ack = p.ack,
         NEW r, r.p = q, r.data = << >>, r.fin = FALSE, r.ev = "none",
         \A k \in r.out : k \in Packet /\ k.rst
  PROVE  SynSentOutcome(p, i, w, r)
  BY DEF SynSentOutcome, SameHeld, SameRcv

(* tcp_process in SYN_SENT.                                                *)
LEMMA SynSentIs ==
  ASSUME NEW w, NEW p, SynSent(p, w), NEW i \in Packet, NEW acceptfails
  PROVE  SynSentOutcome(p, i, w, tcp_process(p, i, acceptfails))
<1>1. p \in Pcb /\ p.state = "SYN_SENT" /\ SndInv(p, w) /\ IsStream(w) /\ p.ack \in SUBSET {"DELAY", "NOW"}
  BY PcbIs DEF SynSent, CtlTyped
<1>2. SynSentOutcome(p, i, w, Keep(p))
  <2> DEFINE r == Keep(p)
  <2>1. r.p = p /\ r.data = << >> /\ r.fin = FALSE /\ r.ev = "none" /\ r.out = {}
    BY KeepIs
  <2> HIDE DEF r
  <2> QED
    BY <1>1, <2>1, SameTrans, SynSentKeeps DEF r
<1>3. CASE i.rst
  <2> DEFINE q == [p EXCEPT !.ack = @ \ {"DELAY"}]
             r == With(Nothing(q), "reset")
  <2>1. q \in Pcb
    BY <1>1, AckFlags
  <2> HIDE DEF q
  <2>2. r.p = q /\ r.out = {} /\ r.ev = "reset" /\ r.data = << >> /\ r.fin = FALSE
    BY DEF With, Nothing
  <2>3. tcp_process(p, i, acceptfails) = r \/ tcp_process(p, i, acceptfails) = Keep(p)
    BY <1>1, <1>3 DEF tcp_process, ProcessRst, q
  <2> HIDE DEF r
  <2>4. SynSentOutcome(p, i, w, r)
    BY <2>1, <2>2 DEF SynSentOutcome
  <2> QED
    BY <1>2, <2>3, <2>4
<1>4. CASE ~i.rst
  <2>1. tcp_process(p, i, acceptfails) = ProcessSynSent(p, i)
    BY <1>1, <1>4 DEF tcp_process
  <2>2. CASE i.ack /\ i.syn /\ i.ackno = p.lastack + 1
    BY <1>4, <2>1, <2>2, SynSentOpens
  <2>3. CASE ~(i.ack /\ i.syn /\ i.ackno = p.lastack + 1) /\ i.ack
    <3> DEFINE e == [p EXCEPT !.rtime = TRUE]
               q == tcp_rexmit_rto(e)
               m == {RstFor(i)}
               r == Answer(q, m)
    <3>1. ProcessSynSent(p, i) = r
      BY <2>3, Zenon DEF ProcessSynSent
    <3>2. /\ IsPcb(p) /\ SndTyped(p) /\ RcvTyped(p) /\ CtlTyped(p)
      BY <1>1, PcbIs
    <3>3. /\ IsPcb(e) /\ SameSnd(p, e) /\ SameRcv(p, e) /\ SameCtl(p, e) /\ e.ack = p.ack
          /\ e.rtime = TRUE /\ e.nrtx = p.nrtx /\ e.dupacks = p.dupacks /\ e.infr = p.infr
      BY <3>2, FieldsOfPcb DEF IsPcb, SameSnd, SameRcv, SameCtl
    <3> HIDE DEF e
    <3>4. CtlTyped(e)
      BY <3>2, <3>3 DEF CtlTyped, SameCtl
    <3>5. e \in Pcb /\ SndInv(e, w)
      BY <1>1, <3>2, <3>3, <3>4, SameTyped, PcbIs, SndSame
    <3>6. Queues(e, q) /\ SndInv(q, w)
      BY <1>1, <3>5, RtoIs
    <3> HIDE DEF q, m
    <3>7. r.p = q /\ r.out = m /\ r.data = << >> /\ r.fin = FALSE /\ r.ev = "none"
      BY DEF Answer, Keep, With, Nothing
    <3>8. \A k \in m : k \in Packet /\ k.rst
      BY RstForIs DEF m
    <3>9. q \in Pcb /\ q.snd_nxt = p.snd_nxt /\ q.lastack = p.lastack /\ q.ack = p.ack
      BY <3>3, <3>6 DEF Queues, SameSnd
    <3>10. SameRcv(p, q) /\ SameCtl(p, q)
      BY <3>3, <3>6, SameTrans DEF Queues
    <3> HIDE DEF r
    <3> QED
      BY <2>1, <3>1, <3>6, <3>7, <3>8, <3>9, <3>10, SynSentKeeps
  <2>4. CASE ~i.ack
    BY <1>2, <2>1, <2>4 DEF ProcessSynSent
  <2> QED
    BY <2>2, <2>3, <2>4
<1> QED
  BY <1>3, <1>4

-----------------------------------------------------------------------------
(***************************************************************************)
(* The two ends.                                                           *)
(***************************************************************************)

(* The stream of an application and its end.                               *)
LEMMA WholeIs ==
  ASSUME NEW h \in Hosts, NEW a \in App
  PROVE  LET w == Whole(h, a)
         IN  /\ IsStream(w) /\ w.base = ISS[h] /\ w.base < w.top /\ End(w) = EndOf(h, a)
             /\ w.top = DataTop(h, a) /\ w.closed = a.shut /\ DataTop(h, a) \in Nat
             /\ EndOf(h, a) \in Nat /\ ISS[h] \in Nat /\ ISS[h] + 1 <= DataTop(h, a)
             /\ a.shut => EndOf(h, a) = DataTop(h, a) + 1
             /\ ~a.shut => EndOf(h, a) = DataTop(h, a)
<1>1. ISS[h] \in Nat /\ a.wrote \in Nat /\ a.shut \in BOOLEAN
  BY ConnAssumption, AppIs DEF AppTyped
<1>2. DataTop(h, a) \in Nat /\ ISS[h] + 1 <= DataTop(h, a) /\ ISS[h] < DataTop(h, a)
  BY <1>1 DEF DataTop
<1>3. /\ Whole(h, a).base = ISS[h] /\ Whole(h, a).top = DataTop(h, a) /\ Whole(h, a).closed = a.shut
  BY DEF Whole
<1>4. /\ a.shut => EndOf(h, a) = DataTop(h, a) + 1
      /\ ~a.shut => EndOf(h, a) = DataTop(h, a)
  BY <1>2 DEF EndOf, Bit
<1>5. EndOf(h, a) \in Nat
  BY <1>1, <1>2, <1>4
<1>6. End(Whole(h, a)) = EndOf(h, a)
  BY <1>3 DEF End, EndOf
<1> QED
  BY <1>1, <1>2, <1>3, <1>4, <1>5, <1>6 DEF IsStream

(* What was sent of it.                                                    *)
SndOK(h, p, a) == Live(p) => SndInv(p, Whole(h, a))

(* It is a part of the stream, and the FIN is sent with all of it.         *)
LEMMA SentIs ==
  ASSUME NEW h \in Hosts, NEW p \in Pcb, NEW a \in App, SndOK(h, p, a)
  PROVE  /\ SentTo(h, p, a) \in Nat /\ SentTo(h, p, a) <= EndOf(h, a)
         /\ PartOf(SentPart(h, p, a), h, a)
         /\ FinSent(h, p, a) => a.shut /\ SentTo(h, p, a) = EndOf(h, a)
         /\ SentPart(h, p, a).closed = FinSent(h, p, a)
<1>1. /\ DataTop(h, a) \in Nat /\ EndOf(h, a) \in Nat /\ ISS[h] \in Nat
      /\ a.shut => EndOf(h, a) = DataTop(h, a) + 1
      /\ ~a.shut => EndOf(h, a) = DataTop(h, a)
      /\ IsStream(Whole(h, a)) /\ End(Whole(h, a)) = EndOf(h, a)
  BY WholeIs
<1>2. SentTo(h, p, a) \in Nat /\ SentTo(h, p, a) <= EndOf(h, a)
  <2>1. CASE Live(p)
    <3>1. p.snd_nxt \in Nat /\ p.lastack \in Nat
      BY PcbIs DEF SndTyped
    <3>2. p.snd_nxt <= EndOf(h, a)
      BY <1>1, <2>1, <3>1, SendingIs DEF SndOK, SndInv
    <3> QED
      BY <2>1, <3>1, <3>2 DEF SentTo
  <2>2. CASE ~Live(p)
    BY <1>1, <2>2 DEF SentTo
  <2> QED
    BY <2>1, <2>2
<1>3. FinSent(h, p, a) => a.shut /\ SentTo(h, p, a) = EndOf(h, a)
  <2> HAVE FinSent(h, p, a)
  <2>1. SentTo(h, p, a) > DataTop(h, a)
    BY DEF FinSent
  <2>2. a.shut
    BY <2>1, <1>1, <1>2
  <2> QED
    BY <2>1, <2>2, <1>1, <1>2
<1> DEFINE st == SentPart(h, p, a)
<1>4. /\ st.base = ISS[h] /\ st.closed = FinSent(h, p, a)
      /\ st.top = IF FinSent(h, p, a) THEN DataTop(h, a) ELSE SentTo(h, p, a)
  BY DEF SentPart
<1> HIDE DEF st
<1>5. FinSent(h, p, a) \in BOOLEAN /\ (~FinSent(h, p, a) => SentTo(h, p, a) <= DataTop(h, a))
  BY <1>1, <1>2 DEF FinSent
<1>6. st.top \in Nat /\ st.top <= DataTop(h, a)
  BY <1>1, <1>2, <1>4, <1>5
<1>7. st.closed => a.shut /\ st.top = DataTop(h, a)
  BY <1>3, <1>4
<1>8. IsStream(st)
  BY <1>1, <1>4, <1>5, <1>6 DEF IsStream
<1> QED
  BY <1>2, <1>3, <1>4, <1>6, <1>7, <1>8 DEF PartOf, st

(* What the other end may rely on in every step.                           *)
Advance(h, p, a, p2, a2) ==
  /\ a.wrote <= a2.wrote
  /\ a.shut => a2.shut /\ a2.wrote = a.wrote
  /\ SentTo(h, p, a) <= SentTo(h, p2, a2)
  /\ p2.state = "SYN_SENT" => p.state = "SYN_SENT"
  /\ Receives(p2) => p.state = "SYN_SENT" \/ (Receives(p) /\ p.rcv_nxt <= p2.rcv_nxt)

(* What was sent only grows.                                               *)
LEMMA PartGrows ==
  ASSUME NEW h \in Hosts, NEW p \in Pcb, NEW a \in App, SndOK(h, p, a),
         NEW p2 \in Pcb, NEW a2 \in App, SndOK(h, p2, a2), Advance(h, p, a, p2, a2)
  PROVE  Grows(SentPart(h, p, a), SentPart(h, p2, a2))
<1>1. /\ SentTo(h, p, a) \in Nat /\ SentTo(h, p, a) <= EndOf(h, a)
      /\ FinSent(h, p, a) => a.shut /\ SentTo(h, p, a) = EndOf(h, a)
      /\ SentTo(h, p2, a2) \in Nat /\ SentTo(h, p2, a2) <= EndOf(h, a2)
      /\ FinSent(h, p2, a2) => a2.shut /\ SentTo(h, p2, a2) = EndOf(h, a2)
  BY SentIs
<1>2. /\ DataTop(h, a) \in Nat /\ EndOf(h, a) \in Nat /\ ISS[h] \in Nat
      /\ DataTop(h, a2) \in Nat /\ EndOf(h, a2) \in Nat
  BY WholeIs
<1>3. a.wrote \in Nat /\ a2.wrote \in Nat
  BY AppIs DEF AppTyped
<1>4. DataTop(h, a) <= DataTop(h, a2) /\ (a2.wrote = a.wrote => DataTop(h, a2) = DataTop(h, a))
  BY <1>2, <1>3 DEF DataTop, Advance
<1>5. SentTo(h, p, a) <= SentTo(h, p2, a2) /\ (a.shut => a2.wrote = a.wrote)
  BY DEF Advance
<1>6. CASE FinSent(h, p, a)
  <2>1. DataTop(h, a2) = DataTop(h, a) /\ SentTo(h, p, a) > DataTop(h, a)
    BY <1>1, <1>4, <1>5, <1>6 DEF FinSent
  <2>2. FinSent(h, p2, a2)
    BY <2>1, <1>1, <1>2, <1>5 DEF FinSent
  <2> QED
    BY <2>1, <2>2, <1>2, <1>6 DEF Grows, SentPart
<1>7. CASE ~FinSent(h, p, a)
  <2>1. SentTo(h, p, a) <= DataTop(h, a2)
    BY <1>1, <1>2, <1>4, <1>7 DEF FinSent
  <2> QED
    BY <2>1, <1>1, <1>2, <1>5, <1>7 DEF Grows, SentPart
<1> QED
  BY <1>6, <1>7

(* What was received stays right when more is sent.                        *)
LEMMA RcvGrows ==
  ASSUME NEW st, NEW st2, IsStream(st), IsStream(st2), Grows(st, st2),
         NEW q \in Pcb, NEW b \in App, RcvInv(q, b, st)
  PROVE  RcvInv(q, b, st2)
<1>1. st.base \in Nat /\ st.top \in Nat /\ st2.top \in Nat /\ st2.base = st.base /\ st.top <= st2.top
      /\ (st.closed => st2.closed /\ st2.top = st.top)
  BY DEF IsStream, Grows
<1>2. StreamQueue(st2, q.ooseq)
  BY <1>1, QueueGrows DEF RcvInv
<1>3. Got(q, b) \in Nat
  <2>1. q.refused \in Seq(Nat) /\ b.rcvd \in Seq(Nat)
    BY PcbIs, AppIs DEF RcvTyped, AppTyped
  <2> DEFINE x == Len(q.refused)
             y == Len(b.rcvd)
  <2>2. x \in Nat /\ y \in Nat
    BY <2>1
  <2>3. Got(q, b) = y + x
    BY Zenon DEF Got
  <2> HIDE DEF x, y
  <2> QED
    BY <2>2, <2>3
<1>4. st.base + 1 + Got(q, b) <= st.top
  BY DEF RcvInv
<1>5. st2.base + 1 + Got(q, b) <= st2.top
  BY <1>1, <1>3, <1>4
<1> QED
  BY <1>1, <1>2, <1>5, Zenon DEF RcvInv

(* What the stepping end now believes of the other one is true.            *)
Believes(h, p2, a2, q) ==
  Receives(q) => /\ Live(p2) => p2.lastack <= q.rcv_nxt
                 /\ FinDone(p2, a2) => q.rcv_nxt = EndOf(h, a2)

(* So what the other end has received and believes stays true.             *)
LEMMA PeerKeeps ==
  ASSUME NEW h \in Hosts, NEW p \in Pcb, NEW a \in App, SndOK(h, p, a),
         NEW p2 \in Pcb, NEW a2 \in App, SndOK(h, p2, a2), Advance(h, p, a, p2, a2),
         NEW q \in Pcb, NEW b \in App, PairInv(q, b, h, p, a), Believes(h, p2, a2, q)
  PROVE  PairInv(q, b, h, p2, a2)
<1>1. /\ SentTo(h, p, a) \in Nat /\ SentTo(h, p2, a2) \in Nat
      /\ IsStream(SentPart(h, p, a)) /\ IsStream(SentPart(h, p2, a2))
  BY SentIs DEF PartOf
<1>2. Live(q) /\ Receives(q) => RcvInv(q, b, SentPart(h, p2, a2))
  BY <1>1, PartGrows, RcvGrows DEF PairInv
<1>3. Receives(q) => HeardOf(q, h, p2, a2)
  <2> HAVE Receives(q)
  <2>1. q.rcv_nxt \in Nat /\ q.rcv_nxt <= SentTo(h, p, a) /\ SentTo(h, p, a) <= SentTo(h, p2, a2)
    BY PcbIs DEF PairInv, HeardOf, Advance, RcvTyped
  <2>2. q.rcv_nxt <= SentTo(h, p2, a2)
    BY <1>1, <2>1
  <2> QED
    BY <2>2 DEF HeardOf, Believes
<1>4. AppInv(b, a2)
  <2>1. b.rcvd \in Seq(Nat) /\ a.wrote \in Nat /\ a2.wrote \in Nat /\ Len(b.rcvd) \in Nat
    BY AppIs DEF AppTyped
  <2>2. AppInv(b, a)
    BY DEF PairInv
  <2>3. Len(b.rcvd) <= a2.wrote
    BY <2>1, <2>2 DEF AppInv, Advance
  <2>4. b.eof => a2.shut /\ Len(b.rcvd) = a2.wrote
    BY <2>2 DEF AppInv, Advance
  <2> QED
    BY <2>2, <2>3, <2>4 DEF AppInv
<1>5. Handshaken(q, p2)
  BY DEF PairInv, Handshaken, Advance
<1> QED
  BY <1>2, <1>3, <1>4, <1>5 DEF PairInv

(* The packets on their way stay right.                                    *)
LEMMA PacketGrows ==
  ASSUME NEW h \in Hosts, NEW p \in Pcb, NEW a \in App, SndOK(h, p, a),
         NEW p2 \in Pcb, NEW a2 \in App, SndOK(h, p2, a2), Advance(h, p, a, p2, a2),
         NEW U, NEW U2, U \subseteq U2, NEW i \in Packet, PacketInv(h, p, a, U, i)
  PROVE  PacketInv(h, p2, a2, U2, i)
<1>1. /\ SentTo(h, p, a) \in Nat /\ SentTo(h, p2, a2) \in Nat /\ SentTo(h, p, a) <= SentTo(h, p2, a2)
      /\ IsStream(SentPart(h, p, a)) /\ IsStream(SentPart(h, p2, a2))
  BY SentIs DEF PartOf, Advance
<1>2. i.seq \in Nat /\ i.ackno \in Nat /\ p.rcv_nxt \in Nat /\ p2.rcv_nxt \in Nat
  BY PcbIs DEF Packet, RcvTyped
<1>3. i.syn => i.seq = ISS[h] /\ i.data = << >> /\ ~i.fin /\ i.seq + 1 <= SentTo(h, p2, a2)
  <2> HAVE i.syn
  <2>1. i.seq = ISS[h] /\ i.data = << >> /\ ~i.fin /\ i.seq + 1 <= SentTo(h, p, a)
    BY DEF PacketInv
  <2>2. i.seq + 1 <= SentTo(h, p2, a2)
    BY <1>1, <1>2, <2>1
  <2> QED
    BY <2>1, <2>2
<1>4. ~i.syn /\ tcplen(i) > 0 => OfStream(SentPart(h, p2, a2), SegOf(i))
  <2> HAVE ~i.syn /\ tcplen(i) > 0
  <2>1. OfStream(SentPart(h, p, a), SegOf(i))
    BY DEF PacketInv
  <2>2. Grows(SentPart(h, p, a), SentPart(h, p2, a2))
    BY PartGrows
  <2> QED
    BY <1>1, <2>1, <2>2, OfStreamGrows DEF IsStream
<1>5. i.ack => p2.state # "SYN_SENT" /\ (Receives(p2) => i.ackno <= p2.rcv_nxt)
  <2> HAVE i.ack
  <2>1. p.state # "SYN_SENT" /\ (Receives(p) => i.ackno <= p.rcv_nxt)
    BY DEF PacketInv
  <2>2. p2.state # "SYN_SENT"
    BY <2>1 DEF Advance
  <2>3. ASSUME Receives(p2) PROVE i.ackno <= p2.rcv_nxt
    <3>1. i.ackno <= p.rcv_nxt /\ p.rcv_nxt <= p2.rcv_nxt
      BY <2>1, <2>3 DEF Advance
    <3> QED
      BY <3>1, <1>2
  <2> QED
    BY <2>2, <2>3
<1>6. h \in U2
  BY DEF PacketInv
<1> QED
  BY <1>3, <1>4, <1>5, <1>6 DEF PacketInv

(* There are two hosts.                                                    *)
LEMMA Peers ==
  ASSUME NEW h \in Hosts
  PROVE  Peer(h) \in Hosts /\ Peer(Peer(h)) = h /\ Peer(h) # h /\ \A k \in Hosts : k = h \/ k = Peer(h)
  BY DEF Hosts, Peer

(* The invariant, for one host.                                            *)
LEMMA InvOf ==
  ASSUME ConnInv, NEW h \in Hosts
  PROVE  LET g == Peer(h)
         IN  /\ pcb[h] \in Pcb /\ app[h] \in App /\ net[h] \subseteq Packet
             /\ pcb[g] \in Pcb /\ app[g] \in App /\ net[g] \subseteq Packet
             /\ HostInv(h, pcb[h], app[h], used) /\ HostInv(g, pcb[g], app[g], used)
             /\ PairInv(pcb[h], app[h], g, pcb[g], app[g])
             /\ PairInv(pcb[g], app[g], h, pcb[h], app[h])
             /\ PacketsInv(h, pcb[h], app[h], used, net[g])
             /\ PacketsInv(g, pcb[g], app[g], used, net[h])
             /\ SndOK(h, pcb[h], app[h]) /\ SndOK(g, pcb[g], app[g])
<1> DEFINE g == Peer(h)
<1>1. g \in Hosts /\ Peer(g) = h
  BY Peers
<1>2. TypeOK
  BY DEF ConnInv
<1>3. /\ pcb[h] \in Pcb /\ app[h] \in App /\ net[h] \subseteq Packet
      /\ pcb[g] \in Pcb /\ app[g] \in App /\ net[g] \subseteq Packet
  BY <1>1, <1>2 DEF TypeOK
<1>4. /\ HostInv(h, pcb[h], app[h], used) /\ HostInv(g, pcb[g], app[g], used)
      /\ PairInv(pcb[h], app[h], g, pcb[g], app[g])
      /\ PairInv(pcb[g], app[g], h, pcb[h], app[h])
      /\ PacketsInv(h, pcb[h], app[h], used, net[g])
      /\ PacketsInv(g, pcb[g], app[g], used, net[h])
  <2> HIDE DEF g
  <2>1. ASSUME NEW k \in Hosts
        PROVE  /\ HostInv(k, pcb[k], app[k], used)
               /\ PairInv(pcb[k], app[k], Peer(k), pcb[Peer(k)], app[Peer(k)])
               /\ PacketsInv(k, pcb[k], app[k], used, net[Peer(k)])
    BY <2>1, Zenon DEF ConnInv
  <2>2. Peer(h) = g
    BY DEF g
  <2> QED
    BY <2>1, <2>2, <1>1
<1>5. SndOK(h, pcb[h], app[h]) /\ SndOK(g, pcb[g], app[g])
  BY <1>4 DEF HostInv, SndOK
<1> QED
  BY <1>3, <1>4, <1>5

(* What a step of host h has to leave.                                     *)
StepOK(h, p2, a2, U2, out) ==
  /\ p2 \in Pcb /\ a2 \in App /\ out \subseteq Packet
  /\ HostInv(h, p2, a2, U2)
  /\ PairInv(p2, a2, Peer(h), pcb[Peer(h)], app[Peer(h)])
  /\ PacketsInv(h, p2, a2, U2, out)
  /\ \/ Advance(h, pcb[h], app[h], p2, a2) /\ Believes(h, p2, a2, pcb[Peer(h)])
     \/ h \notin used /\ app[h].wrote <= a2.wrote

(* A pcb that was never used does not matter to the other end.             *)
LEMMA FirstUse ==
  ASSUME NEW h \in Hosts, NEW p, NEW a \in App, NEW p2, NEW a2 \in App, NEW q \in Pcb, NEW b \in App,
         NEW U, HostInv(h, p, a, U), HostInv(Peer(h), q, b, U), PairInv(q, b, h, p, a),
         h \notin U, a.wrote <= a2.wrote
  PROVE  PairInv(q, b, h, p2, a2)
<1>1. ~Receives(q)
  BY Peers DEF HostInv
<1>2. ~a.shut
  BY DEF HostInv, Unused
<1>3. AppInv(b, a)
  BY DEF PairInv
<1>4. a.wrote \in Nat /\ a2.wrote \in Nat /\ Len(b.rcvd) \in Nat
  <2>1. b.rcvd \in Seq(Nat) /\ a.wrote \in Nat /\ a2.wrote \in Nat
    BY AppIs DEF AppTyped
  <2> QED
    BY <2>1
<1>5. Len(b.rcvd) <= a2.wrote
  BY <1>3, <1>4 DEF AppInv
<1>6. AppInv(b, a2)
  BY <1>2, <1>3, <1>5 DEF AppInv
<1> QED
  BY <1>1, <1>6 DEF PairInv, Handshaken, Receives

(* A step of host h that leaves StepOK keeps the invariant.                *)
LEMMA HostStep ==
  ASSUME ConnInv, NEW h \in Hosts, NEW p2, NEW a2, NEW out, StepOK(h, p2, a2, used', out),
         pcb' = [pcb EXCEPT ![h] = p2], app' = [app EXCEPT ![h] = a2],
         net' \in [Hosts -> SUBSET Packet],
         net'[h] \subseteq net[h], net'[Peer(h)] \subseteq net[Peer(h)] \cup out,
         used \subseteq used', used' \subseteq Hosts,
         budget' \in [Faults \cup Hosts -> Nat], budget'["neterr"] = 0
  PROVE  ConnInv'
<1> DEFINE g == Peer(h)
           p == pcb[h]
           a == app[h]
           q == pcb[g]
           b == app[g]
<1>1. g \in Hosts /\ Peer(g) = h /\ g # h /\ \A k \in Hosts : k = h \/ k = g
  BY Peers
<1>2. /\ p \in Pcb /\ a \in App /\ net[h] \subseteq Packet
      /\ q \in Pcb /\ b \in App /\ net[g] \subseteq Packet
      /\ HostInv(h, p, a, used) /\ HostInv(g, q, b, used)
      /\ PairInv(p, a, g, q, b) /\ PairInv(q, b, h, p, a)
      /\ PacketsInv(h, p, a, used, net[g]) /\ PacketsInv(g, q, b, used, net[h])
      /\ SndOK(h, p, a) /\ SndOK(g, q, b)
  BY InvOf
<1>3. pcb \in [Hosts -> Pcb] /\ app \in [Hosts -> App]
  BY DEF ConnInv, TypeOK
<1>4. /\ p2 \in Pcb /\ a2 \in App /\ out \subseteq Packet /\ HostInv(h, p2, a2, used')
      /\ PairInv(p2, a2, g, q, b) /\ PacketsInv(h, p2, a2, used', out)
      /\ \/ Advance(h, p, a, p2, a2) /\ Believes(h, p2, a2, q)
         \/ h \notin used /\ a.wrote <= a2.wrote
  BY DEF StepOK
<1>5. pcb'[h] = p2 /\ app'[h] = a2 /\ pcb'[g] = q /\ app'[g] = b
  BY <1>1, <1>3
<1>6. pcb' \in [Hosts -> Pcb] /\ app' \in [Hosts -> App]
  BY <1>3, <1>4
<1>7. TypeOK'
  BY <1>6 DEF TypeOK
<1> HIDE DEF g, p, a, q, b
<1>8. SndOK(h, p2, a2)
  BY <1>4 DEF HostInv, SndOK
<1>9. PairInv(q, b, h, p2, a2)
  <2>1. CASE Advance(h, p, a, p2, a2) /\ Believes(h, p2, a2, q)
    BY <2>1, <1>2, <1>4, <1>8, PeerKeeps
  <2>2. CASE h \notin used /\ a.wrote <= a2.wrote
    BY <2>2, <1>2, <1>4, FirstUse DEF g
  <2> QED
    BY <2>1, <2>2, <1>4
<1>10. HostInv(g, q, b, used')
  BY <1>2 DEF HostInv
<1>11. PacketsInv(g, q, b, used', net'[h])
  <2> SUFFICES ASSUME NEW i \in net'[h], ~i.rst PROVE PacketInv(g, q, b, used', i)
    BY DEF PacketsInv
  <2>1. i \in net[h] /\ PacketInv(g, q, b, used, i)
    BY <1>2 DEF PacketsInv
  <2> QED
    BY <2>1 DEF PacketInv
<1>12. PacketsInv(h, p2, a2, used', net'[g])
  <2> SUFFICES ASSUME NEW i \in net'[g], ~i.rst PROVE PacketInv(h, p2, a2, used', i)
    BY DEF PacketsInv
  <2>1. i \in net[g] \/ i \in out
    BY DEF g
  <2>2. CASE i \in out
    BY <2>2, <1>4 DEF PacketsInv
  <2>3. CASE i \in net[g]
    <3>1. i \in Packet /\ PacketInv(h, p, a, used, i)
      BY <2>3, <1>2 DEF PacketsInv
    <3>2. h \in used
      BY <3>1 DEF PacketInv
    <3>3. Advance(h, p, a, p2, a2)
      BY <3>2, <1>4
    <3> QED
      BY <3>1, <3>3, <1>2, <1>4, <1>8, PacketGrows
  <2> QED
    BY <2>1, <2>2, <2>3
<1>13. ASSUME NEW k \in Hosts
       PROVE  /\ HostInv(k, pcb'[k], app'[k], used')
              /\ PairInv(pcb'[k], app'[k], Peer(k), pcb'[Peer(k)], app'[Peer(k)])
              /\ PacketsInv(k, pcb'[k], app'[k], used', net'[Peer(k)])
  <2>1. CASE k = h
    <3>1. Peer(k) = g
      BY <2>1 DEF g
    <3> QED
      BY <2>1, <3>1, <1>4, <1>5, <1>12
  <2>2. CASE k = g
    <3>1. Peer(k) = h
      BY <2>2, <1>1
    <3> QED
      BY <2>2, <3>1, <1>5, <1>9, <1>10, <1>11
  <2> QED
    BY <2>1, <2>2, <1>1
<1> QED
  BY <1>7, <1>13 DEF ConnInv

(* What the faults a step uses leave of the budget.                        *)
LEMMA SpendIs ==
  ASSUME ConnInv, NEW F, Spend(F)
  PROVE  budget' \in [Faults \cup Hosts -> Nat] /\ budget'["neterr"] = 0 /\ "neterr" \notin F
<1>1. budget \in [Faults \cup Hosts -> Nat] /\ budget["neterr"] = 0
  BY DEF ConnInv, TypeOK
<1>2. /\ \A f \in F : budget[f] > 0
      /\ budget' = [f \in Faults \cup Hosts |-> IF f \in F THEN budget[f] - 1 ELSE budget[f]]
  BY DEF Spend
<1>3. "neterr" \notin F
  BY <1>1, <1>2
<1>4. "neterr" \in Faults \cup Hosts
  BY DEF Faults
<1>5. budget'["neterr"] = 0
  BY <1>1, <1>2, <1>3, <1>4
<1>6. ASSUME NEW f \in Faults \cup Hosts
      PROVE  (IF f \in F THEN budget[f] - 1 ELSE budget[f]) \in Nat
  <2>1. budget[f] \in Nat
    BY <1>1
  <2>2. CASE f \in F
    BY <2>1, <2>2, <1>2
  <2>3. CASE f \notin F
    BY <2>1, <2>3
  <2> QED
    BY <2>2, <2>3
<1> QED
  BY <1>2, <1>3, <1>5, <1>6

(* What is sent and received.                                              *)
LEMMA SendIs ==
  ASSUME ConnInv, NEW h \in Hosts, NEW out, out \subseteq Packet, Send(h, out)
  PROVE  /\ net' \in [Hosts -> SUBSET Packet] /\ net'[h] \subseteq net[h]
         /\ net'[Peer(h)] \subseteq net[Peer(h)] \cup out
<1>1. net \in [Hosts -> SUBSET Packet] /\ Peer(h) \in Hosts /\ Peer(h) # h
  BY Peers DEF ConnInv, TypeOK
<1> QED
  BY <1>1 DEF Send

(* So with an answer to a packet.                                          *)
LEMMA ReplyIs ==
  ASSUME ConnInv, NEW h \in Hosts, NEW i, NEW F, NEW out, out \subseteq Packet, Reply(h, i, F, out)
  PROVE  /\ net' \in [Hosts -> SUBSET Packet] /\ net'[h] \subseteq net[h]
         /\ net'[Peer(h)] \subseteq net[Peer(h)] \cup out
<1>1. net \in [Hosts -> SUBSET Packet] /\ Peer(h) \in Hosts /\ Peer(h) # h
  BY Peers DEF ConnInv, TypeOK
<1> QED
  BY <1>1 DEF Reply

(* NoPcb is a pcb.                                                         *)
LEMMA NoPcbIs == NoPcb \in Pcb
  BY DEF NoPcb, Pcb, States

(* An end between its input and tcp_output: its queues are as tcp_output   *)
(* may find them.                                                          *)
HostMid(h, p, a, U) ==
  /\ h \in U
  /\ Live(p) => Ready(p, Whole(h, a)) /\ (a.shut <=> p.state \in FinStates)
  /\ ~Live(p) => p.unsent = << >> /\ p.unacked = << >>
  /\ p.state = "SYN_SENT" => Connecting(h, p, a)
  /\ p.state = "SYN_RCVD" => Accepting(h, p, a)
  /\ Receives(p) => Peer(h) \in U

MidOK(h, m, a2, U2) ==
  /\ m \in Pcb /\ a2 \in App
  /\ HostMid(h, m, a2, U2)
  /\ PairInv(m, a2, Peer(h), pcb[Peer(h)], app[Peer(h)])
  /\ \/ Advance(h, pcb[h], app[h], m, a2) /\ Believes(h, m, a2, pcb[Peer(h)])
     \/ h \notin used /\ app[h].wrote <= a2.wrote

(* What tcp_output may change.                                             *)
OutSame(h, m, a, q) ==
  /\ q \in Pcb /\ SameRcv(m, q) /\ SameCtl(m, q) /\ q.lastack = m.lastack
  /\ m.snd_nxt <= q.snd_nxt /\ q.ack \in {m.ack, {}}
  /\ Live(q) => SndInv(q, Whole(h, a))
  /\ ~Live(q) => q.unsent = << >> /\ q.unacked = << >>

(* What was received and heard does not depend on the sending side.        *)
LEMMA PairSame ==
  ASSUME NEW p, NEW q, NEW a, NEW g, NEW r, NEW b, PairInv(p, a, g, r, b), SameRcv(p, q), SameCtl(p, q)
  PROVE  PairInv(q, a, g, r, b)
<1>1. q.rcv_nxt = p.rcv_nxt /\ q.ooseq = p.ooseq /\ q.refused = p.refused /\ q.refusedfin = p.refusedfin
      /\ q.state = p.state
  BY DEF SameRcv, SameCtl
<1>2. Got(q, a) = Got(p, a) /\ GotFin(q, a) = GotFin(p, a)
  BY <1>1, Zenon DEF Got, GotFin
<1>3. Live(q) /\ Receives(q) => RcvInv(q, a, SentPart(g, r, b))
  BY <1>1, <1>2, Zenon DEF PairInv, RcvInv, Live, Receives
<1> QED
  BY <1>1, <1>3, Zenon DEF PairInv, HeardOf, Handshaken, Receives

(* An ACK, a RST.                                                          *)
LEMMA AckPacket ==
  ASSUME NEW h, NEW q, NEW a, NEW U, h \in U, NEW i, AckOf(q, i), ~i.rst
  PROVE  PacketInv(h, q, a, U, i)
<1>1. ~i.syn /\ tcplen(i) = 0 /\ i.ack /\ q.state # "SYN_SENT" /\ i.ackno <= q.rcv_nxt
  BY DEF AckOf
<1> QED
  BY <1>1 DEF PacketInv

(* A segment of the queues that was sent.                                  *)
LEMMA SegPacket ==
  ASSUME NEW h \in Hosts, NEW q \in Pcb, NEW a \in App, Live(q), SndInv(q, Whole(h, a)), NEW U, h \in U,
         NEW m \in Pcb, SameRcv(m, q), SameCtl(m, q),
         NEW s, SegOK(Whole(h, a), s), EndSeq(s) <= q.snd_nxt
  PROVE  PacketOf(m, s) \in Packet /\ PacketInv(h, q, a, U, PacketOf(m, s))
<1> DEFINE i == PacketOf(m, s)
           w == Whole(h, a)
<1>1. /\ i.seq = s.seq /\ i.ackno = m.rcv_nxt /\ i.ack = (m.state # "SYN_SENT") /\ i.syn = s.syn
      /\ i.fin = s.fin /\ i.rst = FALSE /\ i.data = s.data
  BY DEF PacketOf
<1>2. /\ IsStream(w) /\ w.base = ISS[h] /\ w.top = DataTop(h, a) /\ w.closed = a.shut
      /\ DataTop(h, a) \in Nat /\ ISS[h] \in Nat
  BY WholeIs
<1>3. /\ s \in Segment /\ s.seq \in Nat /\ EndSeq(s) \in Nat
      /\ s.syn => s.seq = ISS[h] /\ EndSeq(s) = ISS[h] + 1 /\ s.data = << >> /\ ~s.fin
      /\ ~s.syn => OfStream(w, s)
  BY <1>2, SegFacts DEF IsStream
<1>4. m.rcv_nxt \in Nat /\ q.rcv_nxt = m.rcv_nxt /\ q.snd_nxt \in Nat /\ q.state = m.state
  BY PcbIs DEF SameRcv, SameCtl, RcvTyped, SndTyped
<1>5. i \in Packet
  <2>1. s.data \in Seq(Nat) /\ s.syn \in BOOLEAN /\ s.fin \in BOOLEAN
    BY <1>3 DEF Segment
  <2> QED
    BY <1>3, <1>4, <2>1 DEF PacketOf, Packet
<1>6. SentTo(h, q, a) = q.snd_nxt
  BY DEF SentTo
<1>7. i.syn => i.seq = ISS[h] /\ i.data = << >> /\ ~i.fin /\ i.seq + 1 <= SentTo(h, q, a)
  BY <1>1, <1>2, <1>3, <1>4, <1>6
<1>8. ~i.syn => OfStream(SentPart(h, q, a), SegOf(i))
  <2> HAVE ~i.syn
  <2>1. OfStream(w, s) /\ ~s.syn
    BY <1>1, <1>3
  <2>2. SegOf(i) = s
    BY <1>1, <1>3, <2>1 DEF SegOf, NewSeg, Segment
  <2> DEFINE st == SentPart(h, q, a)
  <2>3. /\ st.base = ISS[h] /\ st.closed = FinSent(h, q, a)
        /\ st.top = IF FinSent(h, q, a) THEN DataTop(h, a) ELSE SentTo(h, q, a)
    BY DEF SentPart
  <2>4. /\ FinSent(h, q, a) <=> q.snd_nxt > DataTop(h, a)
        /\ st.top = IF FinSent(h, q, a) THEN DataTop(h, a) ELSE q.snd_nxt
    BY <1>6, <2>3 DEF FinSent
  <2> HIDE DEF st, i, w
  <2>5. DataEnd(s) \in Nat /\ (s.fin => EndSeq(s) = DataEnd(s) + 1) /\ (~s.fin => EndSeq(s) = DataEnd(s))
    <3> DEFINE n == Len(s.data)
    <3>1. n \in Nat
      BY <1>3 DEF Segment
    <3>2. DataEnd(s) = s.seq + n /\ EndSeq(s) = s.seq + TCP_TCPLEN(s)
      BY DEF DataEnd, EndSeq
    <3>3. TCP_TCPLEN(s) = n + (IF s.fin THEN 1 ELSE 0)
      BY <2>1 DEF TCP_TCPLEN
    <3> HIDE DEF n
    <3> QED
      BY <1>3, <3>1, <3>2, <3>3
  <2>6. DataEnd(s) <= DataTop(h, a) /\ (s.fin => DataEnd(s) = DataTop(h, a))
    BY <1>2, <2>1 DEF OfStream
  <2>7. s.fin => FinSent(h, q, a)
    BY <1>2, <1>3, <1>4, <2>4, <2>5, <2>6
  <2>8. DataEnd(s) <= st.top
    BY <1>2, <1>3, <1>4, <2>4, <2>5, <2>6
  <2>9. s.fin => st.closed /\ DataEnd(s) = st.top
    BY <2>3, <2>6, <2>7
  <2>10. OfStream(st, s)
    BY <1>2, <2>1, <2>3, <2>8, <2>9 DEF OfStream
  <2> QED
    BY <2>2, <2>10 DEF st
<1>9. i.ack => q.state # "SYN_SENT" /\ (Receives(q) => i.ackno <= q.rcv_nxt)
  <2>1. i.ackno = q.rcv_nxt /\ q.rcv_nxt \in Nat
    BY <1>1, <1>4
  <2>2. i.ackno <= q.rcv_nxt
    BY <2>1
  <2>3. i.ack => q.state # "SYN_SENT"
    BY <1>1, <1>4, Zenon
  <2> QED
    BY <2>2, <2>3
<1> HIDE DEF i
<1> QED
  BY <1>5, <1>7, <1>8, <1>9 DEF PacketInv, i

(* A packet that may be sent.                                              *)
MaySend(h, q, a, U, i) == AckOf(q, i) \/ (i \in Packet /\ PacketInv(h, q, a, U, i))

(* A step that ends with what tcp_output leaves.                           *)
LEMMA OutStep ==
  ASSUME ConnInv, NEW h \in Hosts, NEW m, NEW a2, NEW U2, MidOK(h, m, a2, U2), NEW q, OutSame(h, m, a2, q),
         NEW out, \A i \in out : MaySend(h, q, a2, U2, i)
  PROVE  StepOK(h, q, a2, U2, out)
<1>1. /\ m \in Pcb /\ a2 \in App /\ q \in Pcb /\ HostMid(h, m, a2, U2) /\ h \in U2
      /\ PairInv(m, a2, Peer(h), pcb[Peer(h)], app[Peer(h)])
      /\ SameRcv(m, q) /\ SameCtl(m, q)
  BY DEF MidOK, OutSame, HostMid
<1>2. q.state = m.state /\ q.lastack = m.lastack /\ q.rcv_nxt = m.rcv_nxt /\ q.ooseq = m.ooseq
      /\ q.unread = m.unread /\ q.refused = m.refused /\ q.refusedfin = m.refusedfin
      /\ m.snd_nxt <= q.snd_nxt /\ m.snd_nxt \in Nat /\ q.snd_nxt \in Nat /\ m.rcv_nxt \in Nat
  BY <1>1, PcbIs DEF OutSame, SameRcv, SameCtl, SndTyped, RcvTyped
<1>3. (Live(q) <=> Live(m)) /\ (Receives(q) <=> Receives(m)) /\ (FinDone(q, a2) <=> FinDone(m, a2))
  BY <1>2 DEF Live, Receives, FinDone
<1>4. out \subseteq Packet /\ PacketsInv(h, q, a2, U2, out)
  <2>1. ASSUME NEW i \in out PROVE i \in Packet /\ (i.rst \/ PacketInv(h, q, a2, U2, i))
    <3>1. AckOf(q, i) => i \in Packet /\ (i.rst \/ PacketInv(h, q, a2, U2, i))
      BY <1>1, AckPacket DEF AckOf
    <3> QED
      BY <3>1 DEF MaySend
  <2> QED
    BY <2>1 DEF PacketsInv
<1>5. PairInv(q, a2, Peer(h), pcb[Peer(h)], app[Peer(h)])
  BY <1>1, PairSame
<1>6. q.state = "SYN_SENT" => Connecting(h, q, a2)
  <2> HAVE q.state = "SYN_SENT"
  <2>1. Connecting(h, m, a2)
    BY <1>1, <1>2 DEF HostMid
  <2>2. q.ack = {}
    BY <2>1 DEF Connecting, OutSame
  <2>3. q.snd_nxt > ISS[h]
    BY <1>2, <2>1, WholeIs, <1>1 DEF Connecting
  <2> QED
    BY <1>2, <2>1, <2>2, <2>3 DEF Connecting
<1>7. HostInv(h, q, a2, U2)
  BY <1>1, <1>2, <1>3, <1>6 DEF HostInv, HostMid, Accepting, OutSame
<1>8. ASSUME Advance(h, pcb[h], app[h], m, a2), Believes(h, m, a2, pcb[Peer(h)])
      PROVE  Advance(h, pcb[h], app[h], q, a2) /\ Believes(h, q, a2, pcb[Peer(h)])
  <2>1. SentTo(h, pcb[h], app[h]) <= SentTo(h, q, a2)
    <3> DEFINE x == SentTo(h, pcb[h], app[h])
    <3>1. x \in Nat /\ x <= SentTo(h, m, a2)
      BY <1>8, InvOf, SentIs DEF Advance
    <3>2. SentTo(h, m, a2) \in Nat /\ SentTo(h, m, a2) <= SentTo(h, q, a2) /\ SentTo(h, q, a2) \in Nat
      BY <1>1, <1>2, <1>3, WholeIs DEF SentTo
    <3> HIDE DEF x
    <3> QED
      BY <3>1, <3>2 DEF x
  <2> QED
    BY <1>2, <1>3, <1>8, <2>1 DEF Advance, Believes
<1> QED
  BY <1>1, <1>4, <1>5, <1>7, <1>8 DEF StepOK, MidOK

(* tcp_output of a pcb with empty queues.                                  *)
LEMMA OutputIdle ==
  ASSUME NEW m \in Pcb, m.unsent = << >>, m.unacked = << >>, NEW o \in tcp_output(m)
  PROVE  /\ o.p \in Pcb /\ SameSnd(m, o.p) /\ SameRcv(m, o.p) /\ SameCtl(m, o.p)
         /\ o.p.ack \in {m.ack, {}} /\ o.out \subseteq {EmptyAck(m)}
<1>1. Len(m.unsent) = 0 /\ ~MustSend(m) /\ ~NagleHolds(m)
  BY DEF MustSend, NagleHolds
<1>2. o \in {IF "NOW" \in m.ack THEN tcp_send_empty_ack(m) ELSE Quiet(m)}
  BY <1>1 DEF tcp_output
<1>3. CASE o = Quiet(m)
  BY <1>3, SameTrans DEF Quiet
<1>4. CASE o = tcp_send_empty_ack(m)
  <2> DEFINE q == [m EXCEPT !.ack = {}]
  <2>1. o.p = q /\ o.out = {EmptyAck(m)}
    BY <1>4 DEF tcp_send_empty_ack
  <2>2. q \in Pcb /\ SameSnd(m, q) /\ SameRcv(m, q) /\ SameCtl(m, q) /\ q.ack = {}
    BY AckFlags
  <2> HIDE DEF q
  <2> QED
    BY <2>1, <2>2
<1> QED
  BY <1>2, <1>3, <1>4

(* tcp_output at the end of a step.                                        *)
LEMMA OutputMid ==
  ASSUME NEW h \in Hosts, NEW m, NEW a2, NEW U2, MidOK(h, m, a2, U2), NEW o \in tcp_output(m)
  PROVE  OutSame(h, m, a2, o.p) /\ \A i \in o.out : MaySend(h, o.p, a2, U2, i)
<1>1. m \in Pcb /\ a2 \in App /\ HostMid(h, m, a2, U2) /\ h \in U2
  BY DEF MidOK, HostMid
<1>2. CASE Live(m)
  <2> DEFINE w == Whole(h, a2)
  <2>1. IsStream(w) /\ Ready(m, w)
    BY <1>1, <1>2, WholeIs DEF HostMid
  <2>2. Sends(m, o.p, w) /\ \A i \in o.out : PacketFrom(m, o.p, w, i)
    BY <1>1, <2>1, OutputIs
  <2>3. o.p \in Pcb /\ SameRcv(m, o.p) /\ SameCtl(m, o.p) /\ SndInv(o.p, w) /\ Live(o.p)
    BY <1>2, <2>2 DEF Sends, Live, SameCtl
  <2>4. OutSame(h, m, a2, o.p)
    BY <2>2, <2>3 DEF OutSame, Sends
  <2>5. ASSUME NEW i \in o.out PROVE MaySend(h, o.p, a2, U2, i)
    <3>1. CASE i = EmptyAck(m) /\ "NOW" \in m.ack
      <4>1. m.state # "SYN_SENT"
        BY <1>1, <3>1 DEF HostMid, Connecting
      <4>2. o.p.state # "SYN_SENT" /\ m.rcv_nxt \in Nat /\ o.p.rcv_nxt = m.rcv_nxt
        BY <1>1, <4>1, <2>3, PcbIs DEF SameCtl, SameRcv, RcvTyped
      <4>3. m.rcv_nxt <= o.p.rcv_nxt
        BY <4>2
      <4> QED
        BY <1>1, <2>3, <3>1, <4>1, <4>2, <4>3, EmptyAckIs DEF MaySend
    <3>2. CASE \E s : i = PacketOf(m, s) /\ SegOK(w, s) /\ EndSeq(s) <= o.p.snd_nxt
      <4>1. PICK s : i = PacketOf(m, s) /\ SegOK(w, s) /\ EndSeq(s) <= o.p.snd_nxt
        BY <3>2
      <4> QED
        BY <1>1, <2>3, <4>1, SegPacket DEF MaySend
    <3> QED
      BY <2>2, <3>1, <3>2 DEF PacketFrom
  <2> QED
    BY <2>4, <2>5
<1>3. CASE ~Live(m)
  <2>1. /\ o.p \in Pcb /\ SameSnd(m, o.p) /\ SameRcv(m, o.p) /\ SameCtl(m, o.p)
        /\ o.p.ack \in {m.ack, {}} /\ o.out \subseteq {EmptyAck(m)}
        /\ m.unsent = << >> /\ m.unacked = << >>
    BY <1>1, <1>3, OutputIdle DEF HostMid
  <2>2. m.snd_nxt \in Nat /\ o.p.snd_nxt = m.snd_nxt /\ m.rcv_nxt \in Nat /\ o.p.rcv_nxt = m.rcv_nxt
        /\ o.p.lastack = m.lastack /\ o.p.unsent = << >> /\ o.p.unacked = << >>
    BY <1>1, <2>1, PcbIs DEF SameSnd, SameRcv, SndTyped, RcvTyped
  <2>3. m.snd_nxt <= o.p.snd_nxt /\ m.rcv_nxt <= o.p.rcv_nxt
    BY <2>2
  <2>4. m.state # "SYN_SENT" /\ o.p.state # "SYN_SENT" /\ ~Live(o.p)
    BY <1>3, <2>1 DEF Live, SameCtl
  <2>5. OutSame(h, m, a2, o.p)
    BY <2>1, <2>2, <2>3, <2>4 DEF OutSame
  <2> QED
    BY <1>1, <2>1, <2>3, <2>4, <2>5, EmptyAckIs DEF MaySend
<1> QED
  BY <1>2, <1>3

(* A step that ends with tcp_output, after the answers more.               *)
LEMMA AnswerStep ==
  ASSUME ConnInv, NEW h \in Hosts, NEW m, NEW a2, NEW U2, MidOK(h, m, a2, U2), NEW o \in tcp_output(m),
         NEW more, \A i \in more : AckOf(m, i)
  PROVE  StepOK(h, o.p, a2, U2, more \cup o.out)
<1>1. OutSame(h, m, a2, o.p) /\ \A i \in o.out : MaySend(h, o.p, a2, U2, i)
  BY OutputMid
<1>2. \A i \in more : AckOf(o.p, i)
  BY <1>1 DEF AckOf, OutSame, SameRcv, SameCtl
<1>3. \A i \in more \cup o.out : MaySend(h, o.p, a2, U2, i)
  BY <1>1, <1>2 DEF MaySend
<1> QED
  BY <1>1, <1>3, OutStep

(* A step that ends with tcp_output.                                       *)
LEMMA OutputStep ==
  ASSUME ConnInv, NEW h \in Hosts, NEW m, NEW a2, NEW U2, MidOK(h, m, a2, U2), NEW o \in tcp_output(m)
  PROVE  StepOK(h, o.p, a2, U2, o.out)
  BY OutputMid, OutStep

(* A step without tcp_output, with the answers out.                        *)
Settled(h, m, a) == Live(m) => SndInv(m, Whole(h, a))

(* The queues must be in order already.                                    *)
LEMMA QuietStep ==
  ASSUME ConnInv, NEW h \in Hosts, NEW m, NEW a2, NEW U2, MidOK(h, m, a2, U2), Settled(h, m, a2),
         NEW out, \A i \in out : AckOf(m, i)
  PROVE  StepOK(h, m, a2, U2, out)
<1>1. m \in Pcb /\ m.snd_nxt \in Nat
  BY PcbIs DEF MidOK, SndTyped
<1>2. m.snd_nxt <= m.snd_nxt
  BY <1>1
<1>3. OutSame(h, m, a2, m)
  BY <1>1, <1>2, SameTrans DEF OutSame, Settled, MidOK, HostMid
<1> QED
  BY <1>3, OutStep DEF MaySend

(* tcp_fasttmr clears the ACK flags after tcp_output.                      *)
LEMMA ClearedStep ==
  ASSUME ConnInv, NEW h \in Hosts, NEW m, NEW a2, NEW U2, MidOK(h, m, a2, U2), NEW o \in tcp_output(m),
         NEW q, q = [o.p EXCEPT !.ack = {}]
  PROVE  StepOK(h, q, a2, U2, o.out)
<1>1. OutSame(h, m, a2, o.p) /\ \A i \in o.out : MaySend(h, o.p, a2, U2, i)
  BY OutputMid
<1>2. q \in Pcb /\ SameSnd(o.p, q) /\ SameRcv(o.p, q) /\ SameCtl(o.p, q) /\ q.ack = {}
  BY <1>1, AckFlags DEF OutSame
<1>3. SameRcv(m, q) /\ SameCtl(m, q)
  BY <1>1, <1>2, SameTrans DEF OutSame
<1>4. Live(q) => SndInv(q, Whole(h, a2))
  BY <1>1, <1>2, SndSame DEF OutSame, Live, SameCtl
<1>5. OutSame(h, m, a2, q)
  BY <1>1, <1>2, <1>3, <1>4 DEF OutSame, SameSnd, Live, SameCtl
<1>6. SentTo(h, q, a2) = SentTo(h, o.p, a2) /\ SentPart(h, q, a2) = SentPart(h, o.p, a2)
  BY <1>2 DEF SentTo, SentPart, FinSent, Live, SameCtl, SameSnd
<1>7. ASSUME NEW i \in o.out PROVE MaySend(h, q, a2, U2, i)
  <2>1. AckOf(o.p, i) => AckOf(q, i)
    BY <1>2 DEF AckOf, SameRcv, SameCtl
  <2>2. PacketInv(h, o.p, a2, U2, i) => PacketInv(h, q, a2, U2, i)
    BY <1>2, <1>6 DEF PacketInv, Receives, SameRcv, SameCtl
  <2> QED
    BY <1>1, <2>1, <2>2 DEF MaySend
<1> QED
  BY <1>5, <1>7, OutStep

(* A host with a pcb has used it.                                          *)
LEMMA UsedIs ==
  ASSUME ConnInv, NEW h \in Hosts, pcb[h] # NoPcb \/ pcb[h].state # "CLOSED" \/ app[h].open
  PROVE  h \in used
<1>1. HostInv(h, pcb[h], app[h], used)
  BY InvOf
<1>2. NoPcb.state = "CLOSED"
  BY DEF NoPcb
<1> QED
  BY <1>1, <1>2 DEF HostInv, Unused

(* A pcb that stays where it is, but for its queues, timers and flags.     *)
KeptPcb(h, p, a, m, a2) ==
  /\ m \in Pcb /\ a2 \in App
  /\ m.state = p.state /\ m.rcv_nxt = p.rcv_nxt /\ SameHeld(p, m)
  /\ m.ooseq \in {p.ooseq, << >>}
  /\ m.snd_nxt = p.snd_nxt /\ m.lastack = p.lastack
  /\ a2.wrote = a.wrote /\ a2.rcvd = a.rcvd /\ a2.eof = a.eof /\ a2.shut = a.shut
  /\ Live(m) => Ready(m, Whole(h, a2))
  /\ ~Live(m) => m.unsent = << >> /\ m.unacked = << >>
  /\ m.state = "SYN_SENT" => m.ack = {} /\ m.unread = 0
  /\ m.state = "SYN_RCVD" => a2.open = a.open

(* The rest of the step is then right.                                     *)
LEMMA KeptMid ==
  ASSUME ConnInv, NEW h \in Hosts, h \in used, NEW m, NEW a2, KeptPcb(h, pcb[h], app[h], m, a2)
  PROVE  MidOK(h, m, a2, used)
<1> DEFINE g == Peer(h)
           p == pcb[h]
           a == app[h]
           q == pcb[g]
           b == app[g]
           st == SentPart(g, q, b)
<1>1. /\ p \in Pcb /\ a \in App /\ q \in Pcb /\ b \in App
      /\ HostInv(h, p, a, used) /\ PairInv(p, a, g, q, b) /\ PairInv(q, b, h, p, a) /\ SndOK(h, p, a)
  BY InvOf
<1> HIDE DEF g, p, a, q, b
<1>2. KeptPcb(h, p, a, m, a2)
  BY DEF p, a
<1>3. (Live(m) <=> Live(p)) /\ (Receives(m) <=> Receives(p)) /\ (FinDone(m, a2) <=> FinDone(p, a))
  BY <1>2 DEF KeptPcb, Live, Receives, FinDone
<1>4. SentTo(h, m, a2) = SentTo(h, p, a) /\ EndOf(h, a2) = EndOf(h, a)
  BY <1>2, <1>3 DEF KeptPcb, SentTo, EndOf, DataTop
<1>5. HostMid(h, m, a2, used)
  BY <1>1, <1>2, <1>3, Zenon DEF HostMid, HostInv, KeptPcb, Connecting, Accepting, SameHeld
<1>6. Live(m) /\ Receives(m) => RcvInv(m, a2, st)
  <2> HAVE Live(m) /\ Receives(m)
  <2>1. RcvInv(p, a, st)
    BY <1>1, <1>3 DEF PairInv
  <2>2. Got(m, a2) = Got(p, a) /\ GotFin(m, a2) = GotFin(p, a)
    BY <1>2, Zenon DEF Got, GotFin, KeptPcb, SameHeld
  <2>3. StreamQueue(st, m.ooseq) /\ Beyond(m.ooseq, m.rcv_nxt)
    <3>1. StreamQueue(st, << >>) /\ Beyond(<< >>, m.rcv_nxt)
      BY DEF StreamQueue, Sorted, Beyond
    <3>2. StreamQueue(st, p.ooseq) /\ Beyond(p.ooseq, p.rcv_nxt) /\ m.ooseq \in {p.ooseq, << >>}
          /\ m.rcv_nxt = p.rcv_nxt
      BY <1>2, <2>1 DEF RcvInv, KeptPcb
    <3> QED
      BY <3>1, <3>2, Zenon
  <2>4. /\ m.state = p.state /\ m.rcv_nxt = p.rcv_nxt /\ m.refused = p.refused
        /\ m.refusedfin = p.refusedfin /\ a2.rcvd = a.rcvd
    BY <1>2, Zenon DEF KeptPcb, SameHeld
  <2> HIDE DEF st
  <2> QED
    BY <2>1, <2>2, <2>3, <2>4, Zenon DEF RcvInv
<1>7. PairInv(m, a2, g, q, b)
  BY <1>1, <1>2, <1>3, <1>6, Zenon DEF PairInv, HeardOf, AppInv, Handshaken, KeptPcb
<1>8. Advance(h, p, a, m, a2)
  <2>1. a.wrote \in Nat /\ p.rcv_nxt \in Nat /\ SentTo(h, p, a) \in Nat
    BY <1>1, AppIs, PcbIs, SentIs DEF AppTyped, RcvTyped
  <2> QED
    BY <1>2, <1>3, <1>4, <2>1 DEF Advance, KeptPcb
<1>9. Believes(h, m, a2, q)
  BY <1>1, <1>2, <1>3, <1>4, Zenon DEF Believes, PairInv, HeardOf, KeptPcb
<1> QED
  BY <1>2, <1>5, <1>7, <1>8, <1>9 DEF MidOK, KeptPcb, g, p, a, q, b

(* The pcb is gone.                                                        *)
Harmless(i) == i \in Packet /\ (i.rst \/ (~i.syn /\ tcplen(i) = 0))

(* The other end keeps what it has; nothing more will be sent.             *)
LEMMA GoneStep ==
  ASSUME ConnInv, NEW h \in Hosts, h \in used, NEW a2 \in App, a2.wrote = app[h].wrote,
         app[h].shut => a2.shut, AppInv(a2, app[Peer(h)]),
         NEW out, \A i \in out : Harmless(i)
  PROVE  StepOK(h, NoPcb, a2, used, out)
<1> DEFINE g == Peer(h)
           p == pcb[h]
           a == app[h]
<1>1. p \in Pcb /\ a \in App /\ SndOK(h, p, a)
  BY InvOf
<1>2. /\ NoPcb.state = "CLOSED" /\ NoPcb.unsent = << >> /\ NoPcb.unacked = << >>
      /\ ~Live(NoPcb) /\ ~Receives(NoPcb) /\ ~FinDone(NoPcb, a2)
  BY DEF NoPcb, Live, Receives, FinDone
<1>3. NoPcb \in Pcb
  BY NoPcbIs
<1>4. HostInv(h, NoPcb, a2, used)
  BY <1>2 DEF HostInv
<1>5. PairInv(NoPcb, a2, g, pcb[g], app[g])
  BY <1>2 DEF PairInv, Handshaken
<1>6. out \subseteq Packet /\ PacketsInv(h, NoPcb, a2, used, out)
  <2>1. ASSUME NEW i \in out PROVE i \in Packet /\ (i.rst \/ PacketInv(h, NoPcb, a2, used, i))
    BY <1>2 DEF Harmless, PacketInv
  <2> QED
    BY <2>1 DEF PacketsInv
<1>7. Advance(h, p, a, NoPcb, a2)
  <2>1. a.wrote \in Nat /\ a.wrote = a2.wrote
    BY <1>1, AppIs DEF AppTyped
  <2>2. SentTo(h, p, a) \in Nat /\ SentTo(h, p, a) <= EndOf(h, a) /\ SentTo(h, NoPcb, a2) = EndOf(h, a2)
    BY <1>1, <1>2, SentIs DEF SentTo
  <2>3. DataTop(h, a2) = DataTop(h, a)
    BY <2>1 DEF DataTop
  <2>4. /\ DataTop(h, a) \in Nat /\ EndOf(h, a) \in Nat
        /\ a.shut => EndOf(h, a) = DataTop(h, a) + 1
        /\ ~a.shut => EndOf(h, a) = DataTop(h, a)
    BY <1>1, WholeIs
  <2>5. /\ EndOf(h, a2) \in Nat
        /\ a2.shut => EndOf(h, a2) = DataTop(h, a2) + 1
        /\ ~a2.shut => EndOf(h, a2) = DataTop(h, a2)
    BY WholeIs
  <2>6. a.shut => a2.shut
    OBVIOUS
  <2> HIDE DEF p, a
  <2>7. EndOf(h, a) <= EndOf(h, a2)
    BY <2>3, <2>4, <2>5, <2>6
  <2>8. SentTo(h, p, a) <= SentTo(h, NoPcb, a2)
    BY <2>2, <2>4, <2>5, <2>7
  <2> QED
    BY <1>2, <2>1, <2>6, <2>8 DEF Advance
<1>8. Believes(h, NoPcb, a2, pcb[g])
  BY <1>2 DEF Believes
<1> QED
  BY <1>3, <1>4, <1>5, <1>6, <1>7, <1>8 DEF StepOK

(* Nothing happens but an answer with a RST.                               *)
LEMMA StutterStep ==
  ASSUME ConnInv, NEW h \in Hosts, NEW out, \A i \in out : i \in Packet /\ i.rst
  PROVE  StepOK(h, pcb[h], app[h], used, out)
<1> DEFINE g == Peer(h)
           p == pcb[h]
           a == app[h]
           q == pcb[g]
           b == app[g]
<1>1. /\ p \in Pcb /\ a \in App /\ q \in Pcb /\ b \in App
      /\ HostInv(h, p, a, used) /\ PairInv(p, a, g, q, b) /\ PairInv(q, b, h, p, a) /\ SndOK(h, p, a)
  BY InvOf
<1>2. out \subseteq Packet /\ PacketsInv(h, p, a, used, out)
  BY DEF PacketsInv
<1> HIDE DEF g, p, a, q, b
<1>3. Advance(h, p, a, p, a)
  <2>1. a.wrote \in Nat /\ p.rcv_nxt \in Nat /\ SentTo(h, p, a) \in Nat
    BY <1>1, AppIs, PcbIs, SentIs DEF AppTyped, RcvTyped
  <2> QED
    BY <2>1 DEF Advance, Receives
<1>4. Believes(h, p, a, q)
  BY <1>1 DEF Believes, PairInv, HeardOf
<1> QED
  BY <1>1, <1>2, <1>3, <1>4 DEF StepOK, g, p, a, q, b

-----------------------------------------------------------------------------
(***************************************************************************)
(* The API calls.                                                          *)
(***************************************************************************)

(* The variables of one host after a step.                                 *)
Becomes(h, p2, a2) ==
  /\ pcb' = [pcb EXCEPT ![h] = p2]
  /\ app' = [app EXCEPT ![h] = a2] \/ (app' = app /\ a2 = app[h])

Spent == budget' = budget \/ \E F : Spend(F)

(* A step that sends packets, and one that answers a packet.               *)
LEMMA SpentIs ==
  ASSUME ConnInv, Spent
  PROVE  budget' \in [Faults \cup Hosts -> Nat] /\ budget'["neterr"] = 0
  BY SpendIs DEF Spent, ConnInv, TypeOK

(* The invariant after a step of a host.                                   *)
LEMMA StepKeepsConn ==
  ASSUME ConnInv, NEW h \in Hosts, NEW p2, NEW a2, NEW out, StepOK(h, p2, a2, used', out),
         Becomes(h, p2, a2), Spent, used \subseteq used', used' \subseteq Hosts,
         Send(h, out) \/ \E i, F : Reply(h, i, F, out)
  PROVE  ConnInv'
<1>1. app \in [Hosts -> App]
  BY DEF ConnInv, TypeOK
<1>2. pcb' = [pcb EXCEPT ![h] = p2] /\ app' = [app EXCEPT ![h] = a2]
  BY <1>1 DEF Becomes
<1>3. out \subseteq Packet
  BY DEF StepOK
<1>4. /\ net' \in [Hosts -> SUBSET Packet] /\ net'[h] \subseteq net[h]
      /\ net'[Peer(h)] \subseteq net[Peer(h)] \cup out
  BY <1>3, SendIs, ReplyIs
<1>5. budget' \in [Faults \cup Hosts -> Nat] /\ budget'["neterr"] = 0
  BY SpentIs
<1> QED
  BY <1>2, <1>4, <1>5, HostStep

(* One whose hosts in use do not change.                                   *)
LEMMA SameUsed ==
  ASSUME ConnInv, NEW h \in Hosts, NEW p2, NEW a2, NEW out, StepOK(h, p2, a2, used, out),
         Becomes(h, p2, a2), Spent, used' = used,
         Send(h, out) \/ \E i, F : Reply(h, i, F, out)
  PROVE  ConnInv'
<1>1. StepOK(h, p2, a2, used', out) /\ used \subseteq used' /\ used' \subseteq Hosts
  BY DEF ConnInv, TypeOK
<1> QED
  BY <1>1, StepKeepsConn

(* Nothing is sent: net does not change.                                   *)
LEMMA NetSame ==
  ASSUME ConnInv, NEW h \in Hosts, net' = net
  PROVE  Send(h, {})
<1>1. net \in [Hosts -> SUBSET Packet] /\ Peer(h) \in Hosts
  BY Peers DEF ConnInv, TypeOK
<1> QED
  BY <1>1 DEF Send

(* The stream gets longer or ends.                                         *)
Adds(h, p, a, m, a2) ==
  /\ m \in Pcb /\ a2 \in App /\ SameRcv(p, m) /\ Live(p)
  /\ m.snd_nxt = p.snd_nxt /\ m.lastack = p.lastack /\ m.ack = p.ack
  /\ a2.rcvd = a.rcvd /\ a2.eof = a.eof /\ a.wrote <= a2.wrote
  /\ SndInv(m, Whole(h, a2))
  /\ \/ m.state = p.state /\ p.state \notin FinStates \cup {"SYN_RCVD"} /\ ~a2.shut
     \/ p.state = "ESTABLISHED" /\ m.state = "FIN_WAIT_1" /\ a2.shut
     \/ p.state = "CLOSE_WAIT" /\ m.state = "LAST_ACK" /\ a2.shut

(* tcp_output may follow.                                                  *)
LEMMA AddsMid ==
  ASSUME ConnInv, NEW h \in Hosts, h \in used, NEW m, NEW a2, Adds(h, pcb[h], app[h], m, a2)
  PROVE  MidOK(h, m, a2, used)
<1> DEFINE g == Peer(h)
           p == pcb[h]
           a == app[h]
           q == pcb[g]
           b == app[g]
           st == SentPart(g, q, b)
<1>1. /\ p \in Pcb /\ a \in App /\ q \in Pcb /\ b \in App
      /\ HostInv(h, p, a, used) /\ PairInv(p, a, g, q, b) /\ PairInv(q, b, h, p, a)
  BY InvOf
<1> HIDE DEF g, p, a, q, b
<1>2. Adds(h, p, a, m, a2)
  BY DEF p, a
<1>3. Live(p) /\ ~a.shut
  BY <1>1, <1>2 DEF Adds, HostInv, FinStates
<1>4. Live(m) /\ (Receives(m) <=> Receives(p)) /\ ~FinDone(m, a2) /\ (a2.shut <=> m.state \in FinStates)
  BY <1>2, <1>3 DEF Adds, Live, Receives, FinDone, FinStates
<1>5. m.state \in {"SYN_SENT", "SYN_RCVD"} => m.state = p.state /\ p.state = "SYN_SENT"
  BY <1>2 DEF Adds
<1>6. HostMid(h, m, a2, used)
  BY <1>1, <1>2, <1>4, <1>5, Zenon DEF HostMid, HostInv, Adds, Connecting, SameRcv, Ready
<1>7. Receives(m) => RcvInv(m, a2, st)
  <2> HAVE Receives(m)
  <2>1. RcvInv(p, a, st)
    BY <1>1, <1>3, <1>4 DEF PairInv
  <2>2. /\ m.rcv_nxt = p.rcv_nxt /\ m.refused = p.refused /\ m.ooseq = p.ooseq
        /\ m.refusedfin = p.refusedfin /\ a2.rcvd = a.rcvd /\ a2.eof = a.eof
    BY <1>2, Zenon DEF Adds, SameRcv
  <2>3. Got(m, a2) = Got(p, a) /\ GotFin(m, a2) = GotFin(p, a)
    BY <2>2, Zenon DEF Got, GotFin
  <2>4. m.state \in {"SYN_RCVD", "ESTABLISHED", "FIN_WAIT_1", "FIN_WAIT_2"} =>
          p.state \in {"SYN_RCVD", "ESTABLISHED", "FIN_WAIT_1", "FIN_WAIT_2"}
    BY <1>2 DEF Adds
  <2> HIDE DEF st
  <2> QED
    BY <2>1, <2>2, <2>3, <2>4, Zenon DEF RcvInv
<1>8. m.state \notin {"CLOSED", "SYN_SENT", "SYN_RCVD"} => p.state \notin {"CLOSED", "SYN_SENT", "SYN_RCVD"}
  BY <1>2 DEF Adds
<1>9. PairInv(m, a2, g, q, b)
  BY <1>1, <1>2, <1>4, <1>7, <1>8, Zenon DEF PairInv, HeardOf, AppInv, Handshaken, Adds, SameRcv
<1>10. Advance(h, p, a, m, a2)
  <2>1. p.rcv_nxt \in Nat /\ p.snd_nxt \in Nat /\ m.rcv_nxt = p.rcv_nxt
    BY <1>1, <1>2, PcbIs DEF RcvTyped, SndTyped, Adds, SameRcv
  <2>2. SentTo(h, p, a) = p.snd_nxt /\ SentTo(h, m, a2) = p.snd_nxt
    BY <1>2, <1>3, <1>4 DEF SentTo, Adds
  <2> QED
    BY <1>2, <1>3, <1>4, <1>5, <2>1, <2>2 DEF Advance, Adds
<1>11. Believes(h, m, a2, q)
  BY <1>1, <1>2, <1>3, <1>4, Zenon DEF Believes, PairInv, HeardOf, Adds
<1> QED
  BY <1>2, <1>6, <1>9, <1>10, <1>11 DEF MidOK, Adds, g, p, a, q, b

(* The sequence of the units an application writes next.                   *)
LEMMA UnitsAre ==
  ASSUME NEW k \in Nat, NEW n \in 1 .. TCP_MSS
  PROVE  LET d == [j \in 1 .. n |-> k + j]
         IN  d \in Seq(Nat) /\ Len(d) = n /\ d # << >> /\ \A j \in 1 .. n : d[j] = k + j
<1>0. n \in Nat /\ n > 0
  BY MssAssumption
<1> DEFINE d == [j \in 1 .. n |-> k + j]
<1>1. d \in [1 .. n -> Nat]
  BY <1>0
<1>2. d \in Seq(Nat) /\ Len(d) = n
  BY <1>0, <1>1
<1>3. d # << >>
  <2>1. Len(<< >>) = 0
    OBVIOUS
  <2> HIDE DEF d
  <2> QED
    BY <1>0, <1>2, <2>1
<1> QED
  BY <1>2, <1>3

(* Output without errors.                                                  *)
LEMMA OutputPlain ==
  ASSUME NEW p, NEW F, "neterr" \notin F
  PROVE  Output(p, F) = tcp_output(p)
  BY DEF Output

(* What the actions change in an application.                              *)
Wrote(a, n, c) == n \in Nat /\ c = [a EXCEPT !.wrote = @ + n]
Over(a, e, c) ==
  /\ e \in {"none", "ERR_RST", "ERR_ABRT", "ERR_CLSD"}
  /\ c = [a EXCEPT !.open = FALSE, !.err = e]
Closed(a, s, c) == s \in BOOLEAN /\ c = [a EXCEPT !.open = FALSE, !.shut = s]
Shut(a, c) == c = [a EXCEPT !.shut = TRUE]
Opening(a, s, c) == s \in BOOLEAN /\ c = [a EXCEPT !.open = s]

(* tcp_write.                                                              *)
LEMMA WroteIs ==
  ASSUME NEW a \in App, NEW n, NEW c, Wrote(a, n, c)
  PROVE  c \in App /\ TakesNone(a, c) /\ c.wrote = a.wrote + n /\ c.shut = a.shut /\ c.open = a.open
<1>1. IsApp(a) /\ AppTyped(a) /\ n \in Nat
  BY AppIs DEF Wrote
<1>2. /\ IsApp(c) /\ c.wrote = a.wrote + n /\ c.rcvd = a.rcvd /\ c.eof = a.eof /\ c.shut = a.shut
      /\ c.open = a.open /\ c.err = a.err
  BY <1>1 DEF Wrote, IsApp, AppFields
<1>3. AppTyped(c)
  BY <1>1, <1>2 DEF AppTyped
<1> QED
  BY <1>2, <1>3, AppIs DEF TakesNone

(* The error callback.                                                     *)
LEMMA OverIs ==
  ASSUME NEW a \in App, NEW e, NEW c, Over(a, e, c)
  PROVE  c \in App /\ TakesNone(a, c) /\ c.wrote = a.wrote /\ c.shut = a.shut
<1>1. IsApp(a) /\ AppTyped(a)
  BY AppIs
<1>2. /\ IsApp(c) /\ c.wrote = a.wrote /\ c.rcvd = a.rcvd /\ c.eof = a.eof /\ c.shut = a.shut
      /\ c.open = FALSE /\ c.err = e
  BY <1>1 DEF Over, IsApp, AppFields
<1>3. AppTyped(c)
  BY <1>1, <1>2 DEF AppTyped, Over
<1> QED
  BY <1>2, <1>3, AppIs DEF TakesNone

(* tcp_close.                                                              *)
LEMMA ClosedIs ==
  ASSUME NEW a \in App, NEW s, NEW c, Closed(a, s, c)
  PROVE  c \in App /\ TakesNone(a, c) /\ c.wrote = a.wrote /\ c.shut = s /\ c.open = FALSE
<1>1. IsApp(a) /\ AppTyped(a) /\ s \in BOOLEAN
  BY AppIs DEF Closed
<1>2. /\ IsApp(c) /\ c.wrote = a.wrote /\ c.rcvd = a.rcvd /\ c.eof = a.eof /\ c.shut = s
      /\ c.open = FALSE /\ c.err = a.err
  BY <1>1 DEF Closed, IsApp, AppFields
<1>3. AppTyped(c)
  BY <1>1, <1>2 DEF AppTyped
<1> QED
  BY <1>2, <1>3, AppIs DEF TakesNone

(* tcp_shutdown.                                                           *)
LEMMA ShutIs ==
  ASSUME NEW a \in App, NEW c, Shut(a, c)
  PROVE  c \in App /\ TakesNone(a, c) /\ c.wrote = a.wrote /\ c.shut = TRUE /\ c.open = a.open
<1>1. IsApp(a) /\ AppTyped(a)
  BY AppIs
<1>2. /\ IsApp(c) /\ c.wrote = a.wrote /\ c.rcvd = a.rcvd /\ c.eof = a.eof /\ c.shut = TRUE
      /\ c.open = a.open /\ c.err = a.err
  BY <1>1 DEF Shut, IsApp, AppFields
<1>3. AppTyped(c)
  BY <1>1, <1>2 DEF AppTyped
<1> QED
  BY <1>2, <1>3, AppIs DEF TakesNone

(* tcp_connect and the accept callback.                                    *)
LEMMA OpeningIs ==
  ASSUME NEW a \in App, NEW s, NEW c, Opening(a, s, c)
  PROVE  c \in App /\ TakesNone(a, c) /\ c.wrote = a.wrote /\ c.shut = a.shut /\ c.open = s
<1>1. IsApp(a) /\ AppTyped(a) /\ s \in BOOLEAN
  BY AppIs DEF Opening
<1>2. /\ IsApp(c) /\ c.wrote = a.wrote /\ c.rcvd = a.rcvd /\ c.eof = a.eof /\ c.shut = a.shut
      /\ c.open = s /\ c.err = a.err
  BY <1>1 DEF Opening, IsApp, AppFields
<1>3. AppTyped(c)
  BY <1>1, <1>2 DEF AppTyped
<1> QED
  BY <1>2, <1>3, AppIs DEF TakesNone

(* What an application without new data knows.                             *)
LEMMA NoneKeeps ==
  ASSUME NEW a, NEW c, NEW b, AppInv(a, b), TakesNone(a, c)
  PROVE  AppInv(c, b)
  BY DEF AppInv, TakesNone, Counting

(* tcp_write.                                                              *)
LEMMA WriteAdds ==
  ASSUME ConnInv, NEW h \in Hosts, app[h].open, tcp_write_ok(pcb[h]), NEW n \in 1 .. TCP_MSS,
         NEW m, m = tcp_write(pcb[h], [j \in 1 .. n |-> app[h].wrote + j]),
         NEW a2, a2 = [app[h] EXCEPT !.wrote = @ + n]
  PROVE  Adds(h, pcb[h], app[h], m, a2)
<1> DEFINE p == pcb[h]
           a == app[h]
           d == [j \in 1 .. n |-> a.wrote + j]
           w == Whole(h, a)
           w2 == Whole(h, a2)
<1>1. p \in Pcb /\ a \in App /\ HostInv(h, p, a, used)
  BY InvOf
<1>2. a.wrote \in Nat /\ n \in Nat
  BY <1>1, AppIs, MssAssumption DEF AppTyped
<1>3. Wrote(a, n, a2)
  BY <1>2 DEF Wrote
<1>4. a2 \in App /\ a2.wrote = a.wrote + n /\ a2.rcvd = a.rcvd /\ a2.eof = a.eof /\ a2.shut = a.shut
  BY <1>1, <1>3, WroteIs DEF TakesNone
<1>5. d \in Seq(Nat) /\ Len(d) = n /\ d # << >> /\ \A j \in 1 .. n : d[j] = a.wrote + j
  BY <1>2, UnitsAre
<1>6. m = tcp_write(p, d)
  OBVIOUS
<1>7. p.state \in {"ESTABLISHED", "CLOSE_WAIT", "SYN_SENT", "SYN_RCVD"}
  BY DEF tcp_write_ok
<1>8. Live(p) /\ p.state \notin FinStates
  BY <1>7 DEF Live, FinStates
<1>9. SndInv(p, w) /\ ~a.shut /\ p.state # "SYN_RCVD"
  BY <1>1, <1>8 DEF HostInv, Accepting
<1>10. /\ IsStream(w) /\ w.base = ISS[h] /\ w.base < w.top /\ w.top = DataTop(h, a) /\ w.closed = a.shut
       /\ ISS[h] \in Nat /\ DataTop(h, a) \in Nat
       /\ IsStream(w2) /\ w2.base = ISS[h] /\ w2.top = DataTop(h, a2) /\ w2.closed = a2.shut
  BY <1>1, <1>4, WholeIs
<1>11. DataTop(h, a) = ISS[h] + 1 + a.wrote /\ DataTop(h, a2) = ISS[h] + 1 + a2.wrote
  BY DEF DataTop
<1> HIDE DEF d, w, w2, p, a
<1>12. w2.top = w.top + Len(d)
  BY <1>2, <1>4, <1>5, <1>10, <1>11
<1>13. DataFrom(w, w.top, d)
  <2>1. ASSUME NEW j \in 1 .. n PROVE d[j] = w.top + j - 1 - w.base
    BY <1>2, <1>5, <1>10, <1>11
  <2> QED
    BY <1>5, <2>1 DEF DataFrom
<1>14. Len(d) <= TCP_MSS
  BY <1>5, MssAssumption
<1>15. ~w.closed /\ ~w2.closed /\ w2.base = w.base
  BY <1>4, <1>9, <1>10
<1>16. Queues(p, tcp_write(p, d)) /\ SndInv(tcp_write(p, d), w2)
  BY <1>1, <1>5, <1>9, <1>10, <1>12, <1>13, <1>14, <1>15, WriteIs
<1>17. Queues(p, m) /\ SndInv(m, w2)
  BY <1>6, <1>16
<1>18. a.wrote <= a2.wrote
  BY <1>2, <1>4
<1> QED
  BY <1>4, <1>8, <1>9, <1>17, <1>18 DEF Adds, Queues, SameCtl, w2, p, a

(* The action Write.                                                       *)
LEMMA WriteKeeps ==
  ASSUME ConnInv, NEW h \in Hosts, NEW F, NEW n \in 1 .. TCP_MSS, Write(h, n, F)
  PROVE  ConnInv'
<1> DEFINE m == tcp_write(pcb[h], [j \in 1 .. n |-> app[h].wrote + j])
           a2 == [app[h] EXCEPT !.wrote = @ + n]
<1>1. /\ app[h].open /\ tcp_write_ok(pcb[h]) /\ SetApp(h, a2) /\ used' = used
      /\ \/ \E o \in Output(m, F) : Set(h, o.p) /\ Send(h, o.out) /\ Spend(F)
         \/ F = {} /\ Set(h, m) /\ Send(h, {}) /\ Spend({"hold"})
  BY DEF Write
<1>2. Adds(h, pcb[h], app[h], m, a2)
  BY <1>1, WriteAdds
<1>3. h \in used
  BY <1>1, UsedIs
<1> HIDE DEF m, a2
<1>4. MidOK(h, m, a2, used)
  BY <1>2, <1>3, AddsMid
<1>5. CASE \E o \in Output(m, F) : Set(h, o.p) /\ Send(h, o.out) /\ Spend(F)
  <2>1. PICK o \in Output(m, F) : Set(h, o.p) /\ Send(h, o.out) /\ Spend(F)
    BY <1>5
  <2>2. o \in tcp_output(m)
    BY <2>1, SpendIs, OutputPlain
  <2>3. StepOK(h, o.p, a2, used, o.out)
    BY <1>4, <2>2, OutputStep
  <2>4. Becomes(h, o.p, a2) /\ Spent
    BY <1>1, <2>1 DEF Becomes, Spent, Set, SetApp
  <2> QED
    BY <1>1, <2>1, <2>3, <2>4, SameUsed
<1>6. CASE Set(h, m) /\ Send(h, {}) /\ Spend({"hold"})
  <2>1. Settled(h, m, a2)
    BY <1>2 DEF Settled, Adds
  <2>2. StepOK(h, m, a2, used, {})
    BY <1>4, <2>1, QuietStep
  <2>3. Becomes(h, m, a2) /\ Spent
    BY <1>1, <1>6 DEF Becomes, Spent, Set, SetApp
  <2> QED
    BY <1>1, <1>6, <2>2, <2>3, SameUsed
<1> QED
  BY <1>1, <1>5, <1>6

(* A pcb whose send queues do not change.                                  *)
LEMMA KeptSnd ==
  ASSUME ConnInv, NEW h \in Hosts, h \in used, NEW m \in Pcb, NEW a2 \in App,
         SameSnd(pcb[h], m), SameHeld(pcb[h], m), m.rcv_nxt = pcb[h].rcv_nxt, m.state = pcb[h].state,
         m.ooseq \in {pcb[h].ooseq, << >>}, pcb[h].state = "SYN_SENT" => m.ack = {} /\ m.unread = 0,
         TakesNone(app[h], a2), a2.wrote = app[h].wrote, a2.shut = app[h].shut,
         pcb[h].state = "SYN_RCVD" => a2.open = app[h].open
  PROVE  MidOK(h, m, a2, used) /\ Settled(h, m, a2)
<1> DEFINE p == pcb[h]
           a == app[h]
<1>1. p \in Pcb /\ a \in App /\ HostInv(h, p, a, used)
  BY InvOf
<1>2. Whole(h, a2) = Whole(h, a)
  BY DEF Whole, DataTop
<1>3. Live(m) <=> Live(p)
  BY DEF Live
<1>4. Live(m) => SndInv(m, Whole(h, a2))
  BY <1>1, <1>2, <1>3, SndSame DEF HostInv
<1>5. ~Live(m) => m.unsent = << >> /\ m.unacked = << >>
  BY <1>1, <1>3 DEF HostInv, SameSnd
<1>6. m.snd_nxt = p.snd_nxt /\ m.lastack = p.lastack
  BY DEF SameSnd
<1>7. a2.rcvd = a.rcvd /\ a2.eof = a.eof
  BY Zenon DEF TakesNone
<1>8. KeptPcb(h, p, a, m, a2)
  BY <1>4, <1>5, <1>6, <1>7, Zenon DEF KeptPcb, Ready
<1> QED
  BY <1>4, <1>8, KeptMid DEF Settled

(* tcp_recved: the window opens.                                           *)
NewUnread(p, n, q) == n \in Nat /\ q = [p EXCEPT !.unread = n]

(* Only unread changes.                                                    *)
LEMMA UnreadIs ==
  ASSUME NEW p \in Pcb, NEW n, NEW q, NewUnread(p, n, q)
  PROVE  /\ q \in Pcb /\ SameSnd(p, q) /\ SameHeld(p, q) /\ q.rcv_nxt = p.rcv_nxt /\ q.ooseq = p.ooseq
         /\ q.state = p.state /\ q.ack = p.ack
<1>1. IsPcb(p) /\ SndTyped(p) /\ RcvTyped(p) /\ CtlTyped(p) /\ n \in Nat
  BY PcbIs DEF NewUnread
<1>2. /\ IsPcb(q) /\ SameSnd(p, q) /\ SameCtl(p, q) /\ SameHeld(p, q) /\ q.rcv_nxt = p.rcv_nxt
      /\ q.ooseq = p.ooseq /\ q.unread = n /\ q.ack = p.ack /\ q.infr = p.infr /\ q.rtime = p.rtime
      /\ q.nrtx = p.nrtx /\ q.dupacks = p.dupacks
  BY <1>1, FieldsOfPcb DEF NewUnread, IsPcb, SameSnd, SameCtl, SameHeld
<1>3. SndTyped(q) /\ RcvTyped(q) /\ CtlTyped(q)
  BY <1>1, <1>2 DEF SndTyped, RcvTyped, CtlTyped, SameSnd, SameCtl, SameHeld
<1> QED
  BY <1>2, <1>3, PcbIs DEF SameCtl

(* The action Recved.                                                      *)
LEMMA RecvedKeeps ==
  ASSUME ConnInv, NEW h \in Hosts, NEW F, Recved(h, F)
  PROVE  ConnInv'
<1> DEFINE held == Len(pcb[h].refused) + (IF pcb[h].refusedfin THEN 1 ELSE 0)
           p == [pcb[h] EXCEPT !.unread = held]
           n == tcp_ack_now(p)
<1>1. /\ app[h].open /\ pcb[h] # NoPcb /\ pcb[h].unread > held
      /\ \/ F = {} /\ Set(h, p) /\ Send(h, {})
         \/ \E o \in Output(n, F) : Set(h, o.p) /\ Send(h, o.out)
      /\ Spend(F) /\ app' = app /\ used' = used
  BY DEF Recved
<1>2. h \in used
  BY <1>1, UsedIs
<1>3. pcb[h] \in Pcb /\ app[h] \in App /\ HostInv(h, pcb[h], app[h], used)
  BY InvOf
<1>4. held \in Nat
  <2>1. pcb[h].refused \in Seq(Nat)
    BY <1>3, PcbIs DEF RcvTyped
  <2> DEFINE x == Len(pcb[h].refused)
             y == IF pcb[h].refusedfin THEN 1 ELSE 0
  <2>2. x \in Nat
    BY <2>1
  <2>3. y \in Nat
    OBVIOUS
  <2>4. held = x + y
    OBVIOUS
  <2> HIDE DEF x, y, held
  <2> QED
    BY <2>2, <2>3, <2>4
<1>5. NewUnread(pcb[h], held, p)
  BY <1>4 DEF NewUnread
<1> HIDE DEF held, p
<1>6. /\ p \in Pcb /\ SameSnd(pcb[h], p) /\ SameHeld(pcb[h], p) /\ p.rcv_nxt = pcb[h].rcv_nxt
      /\ p.ooseq = pcb[h].ooseq /\ p.state = pcb[h].state
  BY <1>3, <1>5, UnreadIs
<1>7. n \in Pcb /\ SameSnd(p, n) /\ SameRcv(p, n) /\ SameCtl(p, n)
  BY <1>6, AckNow
<1>8. pcb[h].state # "SYN_SENT"
  <2>1. pcb[h].unread # 0
    BY <1>1, <1>4
  <2> QED
    BY <1>3, <2>1 DEF HostInv, Connecting
<1> HIDE DEF n
<1>9. /\ SameSnd(pcb[h], n) /\ SameHeld(pcb[h], n) /\ n.rcv_nxt = pcb[h].rcv_nxt
      /\ n.ooseq = pcb[h].ooseq /\ n.state = pcb[h].state
  BY <1>6, <1>7, SameTrans DEF SameRcv, SameCtl, SameHeld
<1>10. TakesNone(app[h], app[h])
  BY DEF TakesNone
<1>11. MidOK(h, p, app[h], used) /\ Settled(h, p, app[h])
  BY <1>2, <1>3, <1>6, <1>8, <1>10, KeptSnd
<1>12. MidOK(h, n, app[h], used)
  BY <1>2, <1>3, <1>7, <1>8, <1>9, <1>10, KeptSnd
<1>13. Spent
  BY <1>1 DEF Spent
<1>14. CASE Set(h, p) /\ Send(h, {})
  <2>1. StepOK(h, p, app[h], used, {})
    BY <1>11, QuietStep
  <2>2. Becomes(h, p, app[h])
    BY <1>1, <1>14 DEF Becomes, Set
  <2> QED
    BY <1>1, <1>13, <1>14, <2>1, <2>2, SameUsed
<1>15. CASE \E o \in Output(n, F) : Set(h, o.p) /\ Send(h, o.out)
  <2>1. PICK o \in Output(n, F) : Set(h, o.p) /\ Send(h, o.out)
    BY <1>15
  <2>2. o \in tcp_output(n)
    BY <1>1, <2>1, SpendIs, OutputPlain
  <2>3. StepOK(h, o.p, app[h], used, o.out)
    BY <1>12, <2>2, OutputStep
  <2>4. Becomes(h, o.p, app[h])
    BY <1>1, <2>1 DEF Becomes, Set
  <2> QED
    BY <1>1, <1>13, <2>1, <2>3, <2>4, SameUsed
<1> QED
  BY <1>1, <1>14, <1>15

(* tcp_send_fin with its change of state.                                  *)
LEMMA FinAdds ==
  ASSUME ConnInv, NEW h \in Hosts, pcb[h].state \in {"ESTABLISHED", "CLOSE_WAIT"},
         NEW p \in Pcb, SameSnd(pcb[h], p), SameRcv(pcb[h], p), p.state = pcb[h].state, p.ack = pcb[h].ack,
         NEW a2 \in App, TakesNone(app[h], a2), a2.wrote = app[h].wrote, a2.shut
  PROVE  Adds(h, pcb[h], app[h], SendFin(p), a2)
<1> DEFINE a == app[h]
           w == Whole(h, a)
           w2 == Whole(h, a2)
           f == tcp_send_fin(p)
           s == IF p.state = "CLOSE_WAIT" THEN "LAST_ACK" ELSE "FIN_WAIT_1"
           m == [f EXCEPT !.state = s]
<1>1. pcb[h] \in Pcb /\ a \in App /\ HostInv(h, pcb[h], a, used)
  BY InvOf
<1>2. Live(pcb[h]) /\ pcb[h].state \notin FinStates
  BY DEF Live, FinStates
<1>3. SndInv(pcb[h], w) /\ ~a.shut
  BY <1>1, <1>2 DEF HostInv
<1>4. /\ IsStream(w) /\ w.base = ISS[h] /\ w.base < w.top /\ w.top = DataTop(h, a) /\ w.closed = a.shut
      /\ IsStream(w2) /\ w2.base = ISS[h] /\ w2.top = DataTop(h, a2) /\ w2.closed = a2.shut
  BY <1>1, WholeIs
<1>5. DataTop(h, a2) = DataTop(h, a)
  BY DEF DataTop
<1>6. SndInv(p, w)
  BY <1>3, SndSame
<1> HIDE DEF w, w2
<1>7. Queues(p, f) /\ SndInv(f, w2)
  <2>1. ~w.closed /\ w2.closed /\ w2.base = w.base /\ w2.top = w.top
    BY <1>3, <1>4, <1>5
  <2> QED
    BY <1>4, <1>6, <2>1, FinIs
<1>8. SendFin(p) = m
  BY DEF SendFin
<1> HIDE DEF f
<1>9. NewState(f, s, m)
  BY DEF NewState, States
<1> HIDE DEF m
<1>10. m \in Pcb /\ SameSnd(f, m) /\ SameRcv(f, m) /\ m.ack = f.ack /\ m.state = s
  BY <1>7, <1>9, StateSet DEF Queues
<1>11. SndInv(m, w2) /\ SameRcv(pcb[h], m)
  BY <1>7, <1>10, SndSame, SameTrans DEF Queues
<1>12. m.snd_nxt = pcb[h].snd_nxt /\ m.lastack = pcb[h].lastack /\ m.ack = pcb[h].ack
  BY <1>7, <1>10 DEF Queues, SameSnd
<1>13. a.wrote <= a2.wrote /\ a2.rcvd = a.rcvd /\ a2.eof = a.eof
  <2>1. a.wrote \in Nat
    BY <1>1, AppIs DEF AppTyped
  <2>2. a2.rcvd = a.rcvd /\ a2.eof = a.eof
    BY DEF TakesNone
  <2> QED
    BY <2>1, <2>2
<1>14. \/ pcb[h].state = "ESTABLISHED" /\ m.state = "FIN_WAIT_1"
       \/ pcb[h].state = "CLOSE_WAIT" /\ m.state = "LAST_ACK"
  BY <1>10
<1> QED
  BY <1>2, <1>8, <1>10, <1>11, <1>12, <1>13, <1>14, Zenon DEF Adds, w2

(* tcp_shutdown of the sending side.                                       *)
LEMMA ShutdownKeeps ==
  ASSUME ConnInv, NEW h \in Hosts, NEW F, ShutdownTx(h, F)
  PROVE  ConnInv'
<1> DEFINE a2 == [app[h] EXCEPT !.shut = TRUE]
           m == SendFin(pcb[h])
<1>1. /\ app[h].open /\ pcb[h].state \in {"ESTABLISHED", "CLOSE_WAIT"} /\ SetApp(h, a2)
      /\ \E o \in Output(m, F) : Set(h, o.p) /\ Send(h, o.out)
      /\ Spend(F \cup {"shutdown"}) /\ used' = used
  BY DEF ShutdownTx
<1>2. h \in used
  BY <1>1, UsedIs
<1>3. pcb[h] \in Pcb /\ app[h] \in App
  BY InvOf
<1>4. Shut(app[h], a2)
  BY DEF Shut
<1> HIDE DEF a2
<1>5. a2 \in App /\ TakesNone(app[h], a2) /\ a2.wrote = app[h].wrote /\ a2.shut
  BY <1>3, <1>4, ShutIs
<1>6. Adds(h, pcb[h], app[h], m, a2)
  BY <1>1, <1>3, <1>5, FinAdds, SameTrans
<1> HIDE DEF m
<1>7. MidOK(h, m, a2, used)
  BY <1>2, <1>6, AddsMid
<1>8. PICK o \in Output(m, F) : Set(h, o.p) /\ Send(h, o.out)
  BY <1>1
<1>9. "neterr" \notin F
  BY <1>1, SpendIs
<1>10. o \in tcp_output(m)
  BY <1>8, <1>9, OutputPlain
<1>11. StepOK(h, o.p, a2, used, o.out)
  BY <1>7, <1>10, OutputStep
<1>12. Becomes(h, o.p, a2) /\ Spent
  BY <1>1, <1>8 DEF Becomes, Set, SetApp, Spent
<1> QED
  BY <1>1, <1>8, <1>11, <1>12, SameUsed

(* TF_RXCLOSED.                                                            *)
RxClosed(p, q) == q = [p EXCEPT !.rxclosed = TRUE]

(* The flag is no part of the queues.                                      *)
LEMMA RxClosedIs ==
  ASSUME NEW p \in Pcb, NEW q, RxClosed(p, q)
  PROVE  q \in Pcb /\ SameSnd(p, q) /\ SameRcv(p, q) /\ q.state = p.state /\ q.ack = p.ack
<1>1. IsPcb(p) /\ SndTyped(p) /\ RcvTyped(p) /\ CtlTyped(p)
  BY PcbIs
<1>2. /\ IsPcb(q) /\ SameSnd(p, q) /\ SameRcv(p, q) /\ q.state = p.state /\ q.ack = p.ack
      /\ q.infr = p.infr /\ q.rtime = p.rtime /\ q.rxclosed = TRUE
      /\ q.nrtx = p.nrtx /\ q.dupacks = p.dupacks
  BY <1>1, FieldsOfPcb DEF RxClosed, IsPcb, SameSnd, SameRcv
<1>3. SndTyped(q) /\ RcvTyped(q) /\ CtlTyped(q)
  BY <1>1, <1>2, SameTyped DEF CtlTyped
<1> QED
  BY <1>2, <1>3, PcbIs

(* The action Close.                                                       *)
LEMMA CloseKeeps ==
  ASSUME ConnInv, NEW h \in Hosts, NEW F, Close(h, F)
  PROVE  ConnInv'
<1> DEFINE p == [pcb[h] EXCEPT !.rxclosed = TRUE]
           fin == p.state \in {"ESTABLISHED", "CLOSE_WAIT"}
           s == app[h].shut \/ fin \/ p.state = "SYN_SENT"
           a2 == [app[h] EXCEPT !.open = FALSE, !.shut = s]
           m == SendFin(p)
<1>1. /\ app[h].open /\ pcb[h] # NoPcb /\ SetApp(h, a2) /\ Spend(F) /\ used' = used
      /\ IF p.state = "SYN_SENT" THEN Set(h, NoPcb) /\ Send(h, {}) /\ F = {}
         ELSE IF fin
         THEN \E o \in Output(m, F) : Set(h, o.p) /\ Send(h, o.out)
         ELSE Set(h, p) /\ Send(h, {}) /\ F = {}
  BY DEF Close
<1>2. h \in used
  BY <1>1, UsedIs
<1>3. /\ pcb[h] \in Pcb /\ app[h] \in App /\ HostInv(h, pcb[h], app[h], used)
      /\ AppInv(app[h], app[Peer(h)])
  BY InvOf DEF PairInv
<1>4. RxClosed(pcb[h], p)
  BY DEF RxClosed
<1> HIDE DEF p
<1>5. p \in Pcb /\ SameSnd(pcb[h], p) /\ SameRcv(pcb[h], p) /\ p.state = pcb[h].state /\ p.ack = pcb[h].ack
  BY <1>3, <1>4, RxClosedIs
<1>6. s \in BOOLEAN /\ app[h].shut \in BOOLEAN
  BY <1>3, AppIs DEF AppTyped
<1>7. Closed(app[h], s, a2)
  BY <1>6 DEF Closed
<1> HIDE DEF s, a2
<1>8. a2 \in App /\ TakesNone(app[h], a2) /\ a2.wrote = app[h].wrote /\ a2.shut = s /\ a2.open = FALSE
  BY <1>3, <1>7, ClosedIs
<1>9. Spent
  BY <1>1 DEF Spent
<1>10. CASE p.state = "SYN_SENT"
  <2>1. Set(h, NoPcb) /\ Send(h, {})
    BY <1>1, <1>10
  <2>2. AppInv(a2, app[Peer(h)])
    BY <1>3, <1>8, NoneKeeps
  <2>3. a2.shut
    BY <1>8, <1>10 DEF s
  <2>4. StepOK(h, NoPcb, a2, used, {})
    BY <1>2, <1>8, <2>2, <2>3, GoneStep
  <2>5. Becomes(h, NoPcb, a2)
    BY <1>1, <2>1 DEF Becomes, Set, SetApp
  <2> QED
    BY <1>1, <1>9, <2>1, <2>4, <2>5, SameUsed
<1>11. CASE fin
  <2>1. p.state # "SYN_SENT" /\ pcb[h].state \in {"ESTABLISHED", "CLOSE_WAIT"}
    BY <1>5, <1>11
  <2>2. PICK o \in Output(m, F) : Set(h, o.p) /\ Send(h, o.out)
    BY <1>1, <1>11, <2>1
  <2>3. a2.shut
    BY <1>8, <1>11 DEF s
  <2>4. Adds(h, pcb[h], app[h], m, a2)
    BY <1>5, <1>8, <2>1, <2>3, FinAdds
  <2> HIDE DEF m
  <2>5. MidOK(h, m, a2, used)
    BY <1>2, <2>4, AddsMid
  <2>6. o \in tcp_output(m)
    BY <1>1, <2>2, SpendIs, OutputPlain
  <2>7. StepOK(h, o.p, a2, used, o.out)
    BY <2>5, <2>6, OutputStep
  <2>8. Becomes(h, o.p, a2)
    BY <1>1, <2>2 DEF Becomes, Set, SetApp
  <2> QED
    BY <1>1, <1>9, <2>2, <2>7, <2>8, SameUsed
<1>12. CASE ~fin /\ p.state # "SYN_SENT"
  <2>1. Set(h, p) /\ Send(h, {})
    BY <1>1, <1>12
  <2>2. a2.shut = app[h].shut
    BY <1>6, <1>8, <1>12, Zenon DEF s
  <2>3. pcb[h].state \notin {"SYN_SENT", "SYN_RCVD"}
    BY <1>1, <1>3, <1>5, <1>12 DEF HostInv, Accepting
  <2>4. SameHeld(pcb[h], p) /\ p.rcv_nxt = pcb[h].rcv_nxt /\ p.ooseq = pcb[h].ooseq
    BY <1>5 DEF SameRcv, SameHeld
  <2>5. MidOK(h, p, a2, used) /\ Settled(h, p, a2)
    BY <1>2, <1>5, <1>8, <2>2, <2>3, <2>4, KeptSnd
  <2>6. StepOK(h, p, a2, used, {})
    BY <2>5, QuietStep
  <2>7. Becomes(h, p, a2)
    BY <1>1, <2>1 DEF Becomes, Set, SetApp
  <2> QED
    BY <1>1, <1>9, <2>1, <2>6, <2>7, SameUsed
<1> QED
  BY <1>10, <1>11, <1>12

(* What is sent of a pcb that goes away.                                   *)
LEMMA HarmlessAre ==
  ASSUME NEW p \in Pcb
  PROVE  /\ Harmless(EmptyAck(p)) /\ Harmless(tcp_rst(p.snd_nxt, p.rcv_nxt))
         /\ tcp_rst(p.snd_nxt, p.rcv_nxt) \in Packet /\ tcp_rst(p.snd_nxt, p.rcv_nxt).rst
<1>1. p.snd_nxt \in Nat /\ p.rcv_nxt \in Nat
  BY PcbIs DEF SndTyped, RcvTyped
<1>2. tcp_rst(p.snd_nxt, p.rcv_nxt) \in Packet /\ tcp_rst(p.snd_nxt, p.rcv_nxt).rst
  BY <1>1, RstIs
<1> DEFINE i == EmptyAck(p)
<1>3. i \in Packet
  <2>1. << >> \in Seq(Nat)
    OBVIOUS
  <2> QED
    BY <1>1, <2>1 DEF EmptyAck, Packet
<1>4. i.syn = FALSE /\ i.fin = FALSE /\ i.data = << >>
  BY DEF EmptyAck
<1> HIDE DEF i
<1>5. tcplen(i) = 0
  BY <1>4 DEF tcplen, TCP_TCPLEN
<1> QED
  BY <1>2, <1>3, <1>4, <1>5 DEF Harmless, i

(* tcp_close with unread data leaves a purged pcb in TIME_WAIT.            *)
Ended(p, q) == q = [tcp_pcb_purge(p) EXCEPT !.rxclosed = TRUE, !.state = "TIME_WAIT"]

(* It has nothing more to send.                                            *)
LEMMA EndedIs ==
  ASSUME NEW p \in Pcb, NEW q, Ended(p, q)
  PROVE  /\ q \in Pcb /\ q.unsent = << >> /\ q.unacked = << >> /\ q.rcv_nxt = p.rcv_nxt
         /\ q.state = "TIME_WAIT"
<1> DEFINE r == tcp_pcb_purge(p)
<1>1. r \in Pcb /\ r.unsent = << >> /\ r.unacked = << >> /\ r.rcv_nxt = p.rcv_nxt
  BY PurgeIs
<1>2. q = [r EXCEPT !.rxclosed = TRUE, !.state = "TIME_WAIT"]
  BY DEF Ended
<1> HIDE DEF r
<1>3. IsPcb(r) /\ SndTyped(r) /\ RcvTyped(r) /\ CtlTyped(r)
  BY <1>1, PcbIs
<1>4. /\ IsPcb(q) /\ SameSnd(r, q) /\ SameRcv(r, q) /\ q.state = "TIME_WAIT" /\ q.ack = r.ack
      /\ q.infr = r.infr /\ q.rtime = r.rtime /\ q.rxclosed = TRUE
      /\ q.nrtx = r.nrtx /\ q.dupacks = r.dupacks
  BY <1>2, <1>3, FieldsOfPcb DEF IsPcb, SameSnd, SameRcv
<1>5. SndTyped(q) /\ RcvTyped(q) /\ CtlTyped(q)
  BY <1>3, <1>4, SameTyped DEF CtlTyped, States
<1> QED
  BY <1>1, <1>4, <1>5, PcbIs DEF SameSnd, SameRcv

(* A connection that ends in TIME_WAIT without a FIN of its own.           *)
LEMMA EndedMid ==
  ASSUME ConnInv, NEW h \in Hosts, pcb[h].state = "ESTABLISHED", NEW m, Ended(pcb[h], m),
         NEW a2 \in App, TakesNone(app[h], a2), a2.wrote = app[h].wrote, a2.shut = app[h].shut
  PROVE  MidOK(h, m, a2, used) /\ Settled(h, m, a2)
<1> DEFINE g == Peer(h)
           p == pcb[h]
           a == app[h]
           q == pcb[g]
           b == app[g]
<1>1. /\ p \in Pcb /\ a \in App /\ q \in Pcb /\ b \in App
      /\ HostInv(h, p, a, used) /\ PairInv(p, a, g, q, b) /\ SndOK(h, p, a)
  BY InvOf
<1>2. h \in used
  BY UsedIs
<1>3. m \in Pcb /\ m.unsent = << >> /\ m.unacked = << >> /\ m.rcv_nxt = p.rcv_nxt /\ m.state = "TIME_WAIT"
  BY <1>1, EndedIs
<1>4. Live(p) /\ Receives(p) /\ ~Live(m) /\ Receives(m)
  BY <1>3 DEF Live, Receives
<1>5. ~a.shut
  BY <1>1, <1>4 DEF HostInv, FinStates
<1>6. HostMid(h, m, a2, used)
  BY <1>1, <1>2, <1>3, <1>4 DEF HostMid, HostInv
<1>7. AppInv(a2, b)
  BY <1>1, NoneKeeps DEF PairInv
<1>8. PairInv(m, a2, g, q, b)
  BY <1>1, <1>3, <1>4, <1>7 DEF PairInv, HeardOf, Handshaken
<1>9. Believes(h, m, a2, q)
  BY <1>3, <1>4, <1>5 DEF Believes, FinDone
<1>10. Advance(h, p, a, m, a2)
  <2>1. a.wrote \in Nat /\ p.rcv_nxt \in Nat /\ SentTo(h, p, a) <= EndOf(h, a)
    BY <1>1, AppIs, PcbIs, SentIs DEF AppTyped, RcvTyped
  <2>2. SentTo(h, m, a2) = EndOf(h, a)
    BY <1>4 DEF SentTo, EndOf, DataTop
  <2> HIDE DEF p, a
  <2> QED
    BY <1>3, <1>4, <1>5, <2>1, <2>2 DEF Advance, a, p
<1> QED
  BY <1>3, <1>4, <1>6, <1>8, <1>9, <1>10 DEF MidOK, Settled

(* The action CloseRst.                                                    *)
LEMMA CloseRstKeeps ==
  ASSUME ConnInv, NEW h \in Hosts, CloseRst(h)
  PROVE  ConnInv'
<1> DEFINE p == pcb[h]
           a2 == [app[h] EXCEPT !.open = FALSE]
           x == tcp_rst(p.snd_nxt, p.rcv_nxt)
           m == [tcp_pcb_purge(p) EXCEPT !.rxclosed = TRUE, !.state = "TIME_WAIT"]
<1>1. /\ app[h].open /\ Send(h, {x}) /\ SetApp(h, a2) /\ used' = used /\ budget' = budget
      /\ p.state = "ESTABLISHED" => Set(h, m)
      /\ p.state # "ESTABLISHED" => Set(h, NoPcb)
  BY DEF CloseRst
<1>2. h \in used
  BY <1>1, UsedIs
<1>3. p \in Pcb /\ app[h] \in App /\ AppInv(app[h], app[Peer(h)])
  BY InvOf DEF PairInv
<1> DEFINE f == FALSE
<1>4. Opening(app[h], f, a2) /\ Ended(p, m)
  BY DEF Opening, Ended
<1> HIDE DEF a2, m, f
<1>5. a2 \in App /\ TakesNone(app[h], a2) /\ a2.wrote = app[h].wrote /\ a2.shut = app[h].shut
  BY <1>3, <1>4, OpeningIs
<1>6. Harmless(x) /\ x \in Packet /\ x.rst
  BY <1>3, HarmlessAre
<1> HIDE DEF x
<1>7. Spent
  BY <1>1 DEF Spent
<1>8. CASE p.state = "ESTABLISHED"
  <2>1. MidOK(h, m, a2, used) /\ Settled(h, m, a2)
    BY <1>4, <1>5, <1>8, EndedMid
  <2>2. StepOK(h, m, a2, used, {x})
    BY <1>6, <2>1, QuietStep DEF AckOf
  <2>3. Becomes(h, m, a2)
    BY <1>1, <1>8 DEF Becomes, Set, SetApp
  <2> QED
    BY <1>1, <1>7, <2>2, <2>3, SameUsed
<1>9. CASE p.state # "ESTABLISHED"
  <2>1. AppInv(a2, app[Peer(h)])
    BY <1>3, <1>5, NoneKeeps
  <2>2. StepOK(h, NoPcb, a2, used, {x})
    BY <1>2, <1>5, <1>6, <2>1, GoneStep
  <2>3. Becomes(h, NoPcb, a2)
    BY <1>1, <1>9 DEF Becomes, Set, SetApp
  <2> QED
    BY <1>1, <1>7, <2>2, <2>3, SameUsed
<1> QED
  BY <1>8, <1>9

(* The pcb is removed with an error for the application.                   *)
LEMMA GoneKeeps ==
  ASSUME ConnInv, NEW h \in Hosts, h \in used, NEW e \in {"none", "ERR_RST", "ERR_ABRT", "ERR_CLSD"},
         Gone(h, e), Spent, used' = used, NEW out, \A i \in out : Harmless(i), Send(h, out)
  PROVE  ConnInv'
<1> DEFINE a2 == [app[h] EXCEPT !.open = FALSE, !.err = e]
<1>1. Set(h, NoPcb) /\ SetApp(h, a2)
  BY DEF Gone
<1>2. app[h] \in App /\ AppInv(app[h], app[Peer(h)])
  BY InvOf DEF PairInv
<1>3. Over(app[h], e, a2)
  BY DEF Over
<1> HIDE DEF a2
<1>4. a2 \in App /\ TakesNone(app[h], a2) /\ a2.wrote = app[h].wrote /\ a2.shut = app[h].shut
  BY <1>2, <1>3, OverIs
<1>5. AppInv(a2, app[Peer(h)])
  BY <1>2, <1>4, NoneKeeps
<1>6. StepOK(h, NoPcb, a2, used, out)
  BY <1>4, <1>5, GoneStep
<1>7. Becomes(h, NoPcb, a2)
  BY <1>1 DEF Becomes, Set, SetApp
<1> QED
  BY <1>6, <1>7, SameUsed

(* The action Abort.                                                       *)
LEMMA AbortKeeps ==
  ASSUME ConnInv, NEW h \in Hosts, Abort(h)
  PROVE  ConnInv'
<1> DEFINE p == pcb[h]
           e == IF p.state = "TIME_WAIT" THEN "none" ELSE "ERR_ABRT"
           out == IF p.state = "TIME_WAIT" THEN {}
                  ELSE {tcp_rst(p.snd_nxt, p.rcv_nxt)}
                         \cup (IF "DELAY" \in p.ack THEN {EmptyAck(p)} ELSE {})
<1>1. app[h].open /\ Send(h, out) /\ Gone(h, e) /\ Spend({"abort"}) /\ used' = used
  BY DEF Abort
<1>2. h \in used /\ p \in Pcb
  BY <1>1, UsedIs, InvOf
<1>3. \A i \in out : Harmless(i)
  BY <1>2, HarmlessAre
<1>4. e \in {"none", "ERR_RST", "ERR_ABRT", "ERR_CLSD"}
  OBVIOUS
<1> HIDE DEF e, out
<1>5. Spent
  BY <1>1 DEF Spent
<1> QED
  BY <1>1, <1>2, <1>3, <1>4, <1>5, GoneKeeps

(* A pcb with nothing but its SYN queued.                                  *)
SynQueued(m, iss) ==
  /\ m \in Pcb /\ m.unsent = <<NewSeg(iss, TRUE, FALSE, << >>)>> /\ m.unacked = << >>
  /\ m.lastack = iss /\ m.snd_lbb = iss + 1 /\ m.snd_nxt \in {iss, iss + 1}
  /\ m.ooseq = << >> /\ m.unread = 0 /\ m.refused = << >> /\ m.refusedfin = FALSE /\ m.ack = {}

(* The SYN is the stream so far.                                           *)
LEMMA SynQueuedIs ==
  ASSUME NEW h \in Hosts, NEW a \in App, a.wrote = 0, ~a.shut, NEW m, SynQueued(m, ISS[h])
  PROVE  SndInv(m, Whole(h, a))
<1> DEFINE w == Whole(h, a)
           iss == ISS[h]
           s == SynSeg(w)
<1>1. /\ IsStream(w) /\ w.base = iss /\ iss \in Nat /\ w.top = DataTop(h, a) /\ ~w.closed
      /\ End(w) = DataTop(h, a)
  BY WholeIs
<1>2. w.top = iss + 1 /\ End(w) = iss + 1
  BY <1>1 DEF DataTop
<1>3. m.unsent = <<s>>
  BY <1>1 DEF SynQueued, SynSeg
<1> HIDE DEF w
<1>4. SegOK(w, s)
  BY DEF SegOK
<1>5. s.seq = iss /\ EndSeq(s) = iss + 1
  <2>1. s.syn
    BY DEF SynSeg, NewSeg
  <2> HIDE DEF s
  <2> QED
    BY <1>1, <1>4, <2>1, SegFacts DEF IsStream
<1> HIDE DEF s
<1>6. Linked(w, <<s>>, iss + 1) /\ First(<<s>>, End(w)) = iss
  BY <1>1, <1>4, <1>5, LinkedOne DEF IsStream
<1>7. Linked(w, << >>, iss) /\ First(<< >>, iss) = iss
  BY DEF Linked, First
<1>8. m.lastack = iss /\ m.snd_nxt \in {iss, iss + 1} /\ m.snd_lbb = iss + 1 /\ m.unacked = << >>
      /\ m.snd_nxt \in Nat
  BY <1>1 DEF SynQueued
<1>9. <<s>>[1] = s /\ <<s>> # << >>
  OBVIOUS
<1>10. Sending(w, << >>, <<s>>, m.snd_nxt, iss)
  <2>1. iss < EndSeq(<<s>>[1])
    BY <1>1, <1>5, <1>9
  <2>2. iss <= iss /\ iss <= m.snd_nxt /\ m.snd_nxt <= iss + 1
    BY <1>1, <1>8
  <2> QED
    BY <1>1, <1>2, <1>6, <1>7, <1>8, <1>9, <2>1, <2>2, SendingIs
<1> QED
  BY <1>1, <1>2, <1>3, <1>8, <1>10 DEF SndInv, w

(* tcp_connect and tcp_listen_input make such pcbs.                        *)
Made(s, nxt, iss, x, q) ==
  /\ s \in States /\ nxt \in Nat /\ iss \in Nat /\ x \in Nat
  /\ IsPcb(q) /\ q.state = s /\ q.snd_nxt = nxt /\ q.lastack = iss /\ q.snd_lbb = iss /\ q.rcv_nxt = x
  /\ q.unsent = << >> /\ q.unacked = << >> /\ q.ooseq = << >> /\ q.unread = 0 /\ q.refused = << >>
  /\ q.refusedfin = FALSE /\ q.rtime = FALSE /\ q.nrtx = 0 /\ q.dupacks = 0 /\ q.infr = FALSE
  /\ q.ack = {} /\ q.rxclosed = FALSE

WithSyn(q) == tcp_enqueue_flags(q, TRUE)

(* It holds a SYN and nothing else.                                        *)
LEMMA MadeIs ==
  ASSUME NEW s, NEW iss, NEW nxt, nxt \in {iss, iss + 1}, NEW x, NEW q, Made(s, nxt, iss, x, q)
  PROVE  /\ SynQueued(WithSyn(q), iss) /\ WithSyn(q).state = s /\ WithSyn(q).rcv_nxt = x
         /\ WithSyn(q).snd_nxt = nxt
<1> DEFINE u == <<NewSeg(iss, TRUE, FALSE, << >>)>>
           m == WithSyn(q)
<1>1. s \in States /\ nxt \in Nat /\ iss \in Nat /\ x \in Nat
  BY DEF Made
<1>2. u \in Seq(Segment)
  <2> DEFINE t == NewSeg(iss, TRUE, FALSE, << >>)
  <2>1. t \in Segment
    BY <1>1 DEF NewSeg, Segment
  <2> HIDE DEF t
  <2>2. <<t>> \in Seq(Segment)
    BY <2>1
  <2> QED
    BY <2>2 DEF t
<1>3. /\ q.state = s /\ q.snd_nxt = nxt /\ q.lastack = iss /\ q.snd_lbb = iss /\ q.rcv_nxt = x
      /\ q.unsent = << >> /\ q.unacked = << >> /\ q.ooseq = << >> /\ q.unread = 0 /\ q.refused = << >>
      /\ q.refusedfin = FALSE /\ q.rtime = FALSE /\ q.nrtx = 0 /\ q.dupacks = 0 /\ q.infr = FALSE
      /\ q.ack = {} /\ q.rxclosed = FALSE
  BY DEF Made
<1>4. IsPcb(q)
  BY DEF Made
<1>5. q \in Pcb
  <2>1. << >> \in Seq(Segment) /\ << >> \in Seq(Nat)
    OBVIOUS
  <2>2. SndTyped(q)
    BY <1>1, <1>3, <2>1, Zenon DEF SndTyped
  <2>3. 0 \in 0 .. 255 /\ 0 \in Nat
    OBVIOUS
  <2>4. RcvTyped(q)
    BY <1>1, <1>3, <2>1, <2>3, Zenon DEF RcvTyped
  <2>5. CtlTyped(q)
    BY <1>1, <1>3, <2>3, Zenon DEF CtlTyped
  <2> QED
    BY <1>4, <2>2, <2>4, <2>5, PcbIs
<1>6. Append(<< >>, NewSeg(iss, TRUE, FALSE, << >>)) = u
  OBVIOUS
<1>7. NewUnsent(q, u, iss + 1, m)
  <2>1. m = [q EXCEPT !.unsent = Append(q.unsent, NewSeg(q.snd_lbb, TRUE, FALSE, << >>)),
                      !.snd_lbb = q.snd_lbb + 1]
    BY DEF WithSyn, tcp_enqueue_flags
  <2> QED
    BY <1>3, <1>6, <2>1 DEF NewUnsent
<1> HIDE DEF m, u
<1>8. iss + 1 \in Nat
  BY <1>1
<1>9. /\ Queues(q, m) /\ m.unsent = u /\ m.unacked = q.unacked /\ m.snd_lbb = iss + 1
  BY <1>2, <1>5, <1>7, <1>8, UnsentIs
<1>10. /\ m \in Pcb /\ m.state = s /\ m.rcv_nxt = x /\ m.snd_nxt = nxt /\ m.lastack = iss
       /\ m.ooseq = << >> /\ m.unread = 0 /\ m.refused = << >> /\ m.refusedfin = FALSE /\ m.ack = {}
  BY <1>3, <1>9 DEF Queues, SameRcv, SameCtl
<1> QED
  BY <1>3, <1>9, <1>10 DEF SynQueued, m, u

(* tcp_connect, the first step of the client.                              *)
LEMMA ConnectIs ==
  ASSUME NEW iss \in Nat
  PROVE  LET m == tcp_connect(iss)
         IN  SynQueued(m, iss) /\ m.state = "SYN_SENT" /\ m.snd_nxt = iss + 1
<1> DEFINE q == [NoPcb EXCEPT !.state = "SYN_SENT", !.snd_nxt = iss + 1, !.lastack = iss, !.snd_lbb = iss]
           n == iss + 1
<1>1. tcp_connect(iss) = WithSyn(q)
  BY DEF tcp_connect, WithSyn
<1>2. Made("SYN_SENT", n, iss, 0, q)
  <2>1. "SYN_SENT" \in States /\ n \in Nat /\ 0 \in Nat
    BY DEF States
  <2> HIDE DEF n
  <2>2. q = [NoPcb EXCEPT !.state = "SYN_SENT", !.snd_nxt = n, !.lastack = iss, !.snd_lbb = iss]
    BY DEF n
  <2> HIDE DEF q
  <2>3. IsPcb(q)
    BY <2>2, FieldsOfPcb DEF NoPcb, IsPcb
  <2> QED
    BY <2>1, <2>2, <2>3 DEF Made, NoPcb
<1>3. n \in {iss, iss + 1}
  OBVIOUS
<1> HIDE DEF q, n
<1>4. SynQueued(WithSyn(q), iss) /\ WithSyn(q).state = "SYN_SENT" /\ WithSyn(q).snd_nxt = n
  BY <1>2, <1>3, MadeIs
<1> QED
  BY <1>1, <1>4 DEF n

(* The action Connect.                                                     *)
LEMMA ConnectKeeps ==
  ASSUME ConnInv, Connect
  PROVE  ConnInv'
<1> DEFINE h == "client"
           m == tcp_connect(ISS[h])
           a == app[h]
           a2 == [a EXCEPT !.open = TRUE]
           U2 == used \cup {h}
           t == TRUE
<1>1. /\ h \notin used /\ \E o \in tcp_output(m) : Set(h, o.p) /\ Send(h, o.out)
      /\ SetApp(h, a2) /\ used' = U2 /\ budget' = budget
  BY DEF Connect
<1>2. h \in Hosts
  BY DEF Hosts
<1>3. a \in App /\ HostInv(h, pcb[h], a, used) /\ AppInv(a, app[Peer(h)])
  BY <1>2, InvOf DEF PairInv
<1>4. /\ ~a.shut /\ a.wrote = 0 /\ a.rcvd = << >> /\ ~a.eof
  BY <1>1, <1>3 DEF HostInv, Unused
<1>5. Opening(a, t, a2)
  BY DEF Opening
<1> HIDE DEF a2, t
<1>6. a2 \in App /\ TakesNone(a, a2) /\ a2.wrote = a.wrote /\ a2.shut = a.shut
  BY <1>3, <1>5, OpeningIs
<1>7. ISS[h] \in Nat
  BY <1>2, ConnAssumption
<1>8. SynQueued(m, ISS[h]) /\ m.state = "SYN_SENT" /\ m.snd_nxt = ISS[h] + 1
  BY <1>7, ConnectIs
<1> HIDE DEF m
<1>9. SndInv(m, Whole(h, a2)) /\ Ready(m, Whole(h, a2))
  BY <1>2, <1>4, <1>6, <1>8, SynQueuedIs DEF Ready
<1>10. Connecting(h, m, a2)
  <2>1. m.snd_nxt > ISS[h]
    BY <1>7, <1>8
  <2>2. a2.rcvd = << >> /\ ~a2.eof
    BY <1>4, <1>6 DEF TakesNone
  <2> QED
    BY <1>8, <2>1, <2>2 DEF Connecting, SynQueued
<1>11. Live(m) /\ ~Receives(m)
  BY <1>8 DEF Live, Receives
<1>12. HostMid(h, m, a2, U2)
  BY <1>4, <1>6, <1>8, <1>9, <1>10, <1>11 DEF HostMid, FinStates
<1>13. PairInv(m, a2, Peer(h), pcb[Peer(h)], app[Peer(h)])
  BY <1>3, <1>6, <1>8, <1>11, NoneKeeps DEF PairInv, Handshaken
<1>14. a.wrote <= a2.wrote
  BY <1>4, <1>6
<1>15. MidOK(h, m, a2, U2)
  BY <1>1, <1>6, <1>8, <1>12, <1>13, <1>14 DEF MidOK, SynQueued
<1>16. PICK o \in tcp_output(m) : Set(h, o.p) /\ Send(h, o.out)
  BY <1>1
<1>17. StepOK(h, o.p, a2, used', o.out)
  BY <1>1, <1>2, <1>15, OutputStep
<1>18. Becomes(h, o.p, a2) /\ Spent
  BY <1>1, <1>16 DEF Becomes, Spent, Set, SetApp
<1>19. used \subseteq used' /\ used' \subseteq Hosts
  BY <1>1, <1>2 DEF ConnInv, TypeOK
<1> QED
  BY <1>2, <1>16, <1>17, <1>18, <1>19, StepKeepsConn

(* tcp_listen_input, the first step of the server.                         *)
LEMMA ListenIs ==
  ASSUME NEW iss \in Nat, NEW i \in Packet
  PROVE  LET m == tcp_listen_input(iss, i)
         IN  SynQueued(m, iss) /\ m.state = "SYN_RCVD" /\ m.rcv_nxt = i.seq + 1
<1> DEFINE x == i.seq + 1
           q == [NoPcb EXCEPT !.state = "SYN_RCVD", !.snd_nxt = iss, !.lastack = iss, !.snd_lbb = iss,
                              !.rcv_nxt = x]
<1>1. tcp_listen_input(iss, i) = WithSyn(q)
  BY DEF tcp_listen_input, WithSyn
<1>2. x \in Nat /\ "SYN_RCVD" \in States
  BY DEF Packet, States
<1> HIDE DEF x
<1>3. Made("SYN_RCVD", iss, iss, x, q)
  <2>1. q = [NoPcb EXCEPT !.state = "SYN_RCVD", !.snd_nxt = iss, !.lastack = iss, !.snd_lbb = iss,
                          !.rcv_nxt = x]
    OBVIOUS
  <2> HIDE DEF q
  <2>2. IsPcb(q)
    BY <2>1, FieldsOfPcb DEF NoPcb, IsPcb
  <2> QED
    BY <1>2, <2>1, <2>2 DEF Made, NoPcb
<1>4. iss \in {iss, iss + 1}
  OBVIOUS
<1> HIDE DEF q
<1>5. SynQueued(WithSyn(q), iss) /\ WithSyn(q).state = "SYN_RCVD" /\ WithSyn(q).rcv_nxt = x
  BY <1>3, <1>4, MadeIs
<1> QED
  BY <1>1, <1>5 DEF x

(* A SYN on its way starts where the stream of the client does.            *)
LEMMA ListenMid ==
  ASSUME ConnInv, NEW h \in Hosts, h = "server", h \notin used,
         NEW i \in net[h], i.syn, ~i.rst,
         NEW m, m = tcp_listen_input(ISS[h], i)
  PROVE  MidOK(h, m, app[h], used \cup {h})
<1> DEFINE g == Peer(h)
           p == pcb[h]
           a == app[h]
           q == pcb[g]
           b == app[g]
           st == SentPart(g, q, b)
           U2 == used \cup {h}
<1>1. /\ p \in Pcb /\ a \in App /\ q \in Pcb /\ b \in App /\ net[h] \subseteq Packet
      /\ HostInv(h, p, a, used) /\ HostInv(g, q, b, used) /\ PairInv(p, a, g, q, b)
      /\ PacketsInv(g, q, b, used, net[h]) /\ SndOK(g, q, b)
  BY InvOf
<1>2. g \in Hosts /\ Peer(g) = h
  BY Peers
<1> HIDE DEF g, p, a, q, b
<1>3. i \in Packet /\ PacketInv(g, q, b, used, i)
  BY <1>1 DEF PacketsInv
<1>4. g \in used /\ i.seq = ISS[g] /\ i.seq + 1 <= SentTo(g, q, b)
  BY <1>3 DEF PacketInv
<1>5. ISS[h] \in Nat /\ ISS[g] \in Nat
  BY <1>2, ConnAssumption
<1>6. SynQueued(m, ISS[h]) /\ m.state = "SYN_RCVD" /\ m.rcv_nxt = ISS[g] + 1
  BY <1>3, <1>4, <1>5, ListenIs
<1>7. ~a.open /\ ~a.shut /\ a.wrote = 0 /\ a.rcvd = << >> /\ ~a.eof
  BY <1>1 DEF HostInv, Unused
<1>8. Ready(m, Whole(h, a))
  BY <1>1, <1>6, <1>7, SynQueuedIs DEF Ready
<1>9. Live(m) /\ Receives(m)
  BY <1>6 DEF Live, Receives
<1>10. HostMid(h, m, a, U2)
  BY <1>4, <1>6, <1>7, <1>8, <1>9 DEF HostMid, Accepting, FinStates, SynQueued, g
<1>11. ~Receives(q)
  BY <1>1, <1>2 DEF HostInv
<1>12. Live(q) => q.lastack = ISS[g]
  BY <1>1, <1>11 DEF HostInv, Live, Receives, Connecting
<1>13. SentTo(g, q, b) \in Nat /\ PartOf(st, g, b) /\ DataTop(g, b) \in Nat /\ ISS[g] + 1 <= DataTop(g, b)
  BY <1>1, <1>2, SentIs, WholeIs
<1>14. st.base = ISS[g] /\ ISS[g] + 1 <= st.top
  BY <1>4, <1>13 DEF SentPart
<1> HIDE DEF st
<1>15. RcvInv(m, a, st)
  <2>1. /\ m.refused = << >> /\ m.refusedfin = FALSE /\ m.ooseq = << >>
    BY <1>6 DEF SynQueued
  <2>2. Len(<< >>) = 0
    OBVIOUS
  <2>3. Got(m, a) = 0
    BY <1>7, <2>1, <2>2 DEF Got
  <2>4. ~GotFin(m, a) /\ Bit(GotFin(m, a)) = 0
    BY <1>7, <2>1 DEF GotFin, Bit
  <2>5. StreamQueue(st, << >>) /\ Beyond(<< >>, m.rcv_nxt) /\ Counting(<< >>, 0)
    BY DEF StreamQueue, Sorted, Beyond, Counting
  <2>6. m.rcv_nxt = st.base + 1 + 0 + 0 /\ st.base + 1 + 0 <= st.top
    BY <1>5, <1>6, <1>13, <1>14 DEF PartOf, IsStream
  <2> QED
    BY <1>7, <2>1, <2>2, <2>3, <2>4, <2>5, <2>6, Zenon DEF RcvInv
<1>16. HeardOf(m, g, q, b)
  <2>1. ~FinDone(q, b)
    BY <1>11 DEF FinDone, Receives
  <2>2. Live(q) => q.lastack <= m.rcv_nxt
    BY <1>5, <1>6, <1>12
  <2>3. m.rcv_nxt <= SentTo(g, q, b)
    BY <1>4, <1>6
  <2> QED
    BY <2>1, <2>2, <2>3 DEF HeardOf
<1>17. PairInv(m, a, g, q, b)
  BY <1>1, <1>6, <1>15, <1>16 DEF PairInv, Handshaken, st
<1>18. a.wrote <= a.wrote
  BY <1>7
<1> QED
  BY <1>1, <1>6, <1>10, <1>17, <1>18 DEF MidOK, SynQueued, g, a, q, b

-----------------------------------------------------------------------------
(***************************************************************************)
(* The timers and the network.                                             *)
(***************************************************************************)

(* The time a step takes does not matter.                                  *)
LEMMA TimeoutSpends ==
  ASSUME ConnInv, NEW F, Timeout(F)
  PROVE  Spent /\ "neterr" \notin F
<1> DEFINE G == IF \A h \in Hosts : net[h] = {} THEN F ELSE F \cup {"late"}
<1>1. Spend(G)
  BY DEF Timeout
<1>2. F \subseteq G
  OBVIOUS
<1> HIDE DEF G
<1>3. "neterr" \notin G
  BY <1>1, SpendIs
<1> QED
  BY <1>1, <1>2, <1>3 DEF Spent

(* A step of the timers that ends with tcp_output.                         *)
LEMMA OutputKeeps ==
  ASSUME ConnInv, NEW h \in Hosts, NEW m, MidOK(h, m, app[h], used), NEW F, "neterr" \notin F,
         \E o \in Output(m, F) : Set(h, o.p) /\ Send(h, o.out),
         Spent, app' = app, used' = used
  PROVE  ConnInv'
<1>1. PICK o \in Output(m, F) : Set(h, o.p) /\ Send(h, o.out)
  OBVIOUS
<1>2. o \in tcp_output(m)
  BY <1>1, OutputPlain
<1>3. StepOK(h, o.p, app[h], used, o.out)
  BY <1>2, OutputStep
<1>4. Becomes(h, o.p, app[h])
  BY <1>1 DEF Becomes, Set
<1> QED
  BY <1>1, <1>3, <1>4, SameUsed

(* A pcb that is removed by a timer.                                       *)
LEMMA RemovedKeeps ==
  ASSUME ConnInv, NEW h \in Hosts, pcb[h].state # "CLOSED", Gone(h, "ERR_ABRT"), Timeout({}),
         net' = net, used' = used
  PROVE  ConnInv'
<1> DEFINE e == "ERR_ABRT"
           out == {}
<1>1. h \in used
  BY UsedIs
<1>2. Spent
  BY TimeoutSpends
<1>3. Send(h, out) /\ (\A i \in out : Harmless(i)) /\ Gone(h, e)
  BY NetSame
<1>4. e \in {"none", "ERR_RST", "ERR_ABRT", "ERR_CLSD"}
  OBVIOUS
<1> HIDE DEF e, out
<1> QED
  BY <1>1, <1>2, <1>3, <1>4, GoneKeeps

(* The pcb as it is.                                                       *)
LEMMA SameMid ==
  ASSUME ConnInv, NEW h \in Hosts, h \in used
  PROVE  MidOK(h, pcb[h], app[h], used) /\ Settled(h, pcb[h], app[h])
<1>1. /\ pcb[h] \in Pcb /\ app[h] \in App /\ HostInv(h, pcb[h], app[h], used)
  BY InvOf
<1>2. SameSnd(pcb[h], pcb[h]) /\ SameHeld(pcb[h], pcb[h]) /\ TakesNone(app[h], app[h])
  BY DEF SameSnd, SameHeld, TakesNone
<1>3. pcb[h].state = "SYN_SENT" => pcb[h].ack = {} /\ pcb[h].unread = 0
  BY <1>1 DEF HostInv, Connecting
<1> QED
  BY <1>1, <1>2, <1>3, KeptSnd

(* The out-of-sequence queue is dropped.                                   *)
NoOoseq(p, q) == q = [p EXCEPT !.ooseq = << >>]

(* Nothing else changes.                                                   *)
LEMMA NoOoseqIs ==
  ASSUME NEW p \in Pcb, NEW q, NoOoseq(p, q)
  PROVE  /\ q \in Pcb /\ SameSnd(p, q) /\ SameHeld(p, q) /\ q.rcv_nxt = p.rcv_nxt /\ q.ooseq = << >>
         /\ q.state = p.state /\ q.ack = p.ack /\ q.unread = p.unread
<1>1. IsPcb(p) /\ SndTyped(p) /\ RcvTyped(p) /\ CtlTyped(p)
  BY PcbIs
<1>2. /\ IsPcb(q) /\ SameSnd(p, q) /\ SameCtl(p, q) /\ SameHeld(p, q) /\ q.rcv_nxt = p.rcv_nxt
      /\ q.ooseq = << >> /\ q.unread = p.unread /\ q.ack = p.ack /\ q.infr = p.infr /\ q.rtime = p.rtime
      /\ q.nrtx = p.nrtx /\ q.dupacks = p.dupacks
  BY <1>1, FieldsOfPcb DEF NoOoseq, IsPcb, SameSnd, SameCtl, SameHeld
<1>3. SndTyped(q) /\ RcvTyped(q) /\ CtlTyped(q)
  BY <1>1, <1>2 DEF SndTyped, RcvTyped, CtlTyped, SameSnd, SameCtl, SameHeld
<1> QED
  BY <1>2, <1>3, PcbIs DEF SameCtl

(* The action SlowOoseq.                                                   *)
LEMMA OoseqKeeps ==
  ASSUME ConnInv, NEW h \in Hosts, SlowOoseq(h)
  PROVE  ConnInv'
<1> DEFINE m == [pcb[h] EXCEPT !.ooseq = << >>]
<1>1. /\ Active(h) /\ Set(h, m) /\ Timeout({}) /\ app' = app /\ net' = net /\ used' = used
  BY DEF SlowOoseq
<1>2. h \in used
  BY <1>1, UsedIs DEF Active
<1>3. pcb[h] \in Pcb /\ app[h] \in App /\ HostInv(h, pcb[h], app[h], used)
  BY InvOf
<1>4. NoOoseq(pcb[h], m)
  BY DEF NoOoseq
<1> HIDE DEF m
<1>5. /\ m \in Pcb /\ SameSnd(pcb[h], m) /\ SameHeld(pcb[h], m) /\ m.rcv_nxt = pcb[h].rcv_nxt
      /\ m.ooseq = << >> /\ m.state = pcb[h].state /\ m.ack = pcb[h].ack /\ m.unread = pcb[h].unread
  BY <1>3, <1>4, NoOoseqIs
<1>6. pcb[h].state = "SYN_SENT" => m.ack = {} /\ m.unread = 0
  BY <1>3, <1>5 DEF HostInv, Connecting
<1>7. TakesNone(app[h], app[h])
  BY DEF TakesNone
<1>8. MidOK(h, m, app[h], used) /\ Settled(h, m, app[h])
  BY <1>2, <1>3, <1>5, <1>6, <1>7, KeptSnd
<1>9. StepOK(h, m, app[h], used, {})
  BY <1>8, QuietStep
<1>10. Becomes(h, m, app[h]) /\ Spent
  BY <1>1, TimeoutSpends DEF Becomes, Set
<1> QED
  BY <1>1, <1>9, <1>10, NetSame, SameUsed

(* The retransmission timer.                                               *)
LEMMA RtoKeeps ==
  ASSUME ConnInv, NEW h \in Hosts, NEW F, SlowRexmit(h, F)
  PROVE  ConnInv'
<1> DEFINE p == pcb[h]
           a == app[h]
           m == tcp_rexmit_rto(p)
<1>1. /\ Active(h) /\ Timeout(F) /\ app' = app /\ used' = used
      /\ \E o \in Output(m, F) : Set(h, o.p) /\ Send(h, o.out)
  BY DEF SlowRexmit
<1>2. h \in used /\ Live(p)
  BY <1>1, UsedIs DEF Active, Live
<1>3. p \in Pcb /\ a \in App /\ HostInv(h, p, a, used)
  BY InvOf
<1>4. Queues(p, m) /\ SndInv(m, Whole(h, a))
  BY <1>2, <1>3, WholeIs, RtoIs DEF HostInv
<1> HIDE DEF m
<1>5. /\ m \in Pcb /\ m.state = p.state /\ m.rcv_nxt = p.rcv_nxt /\ SameHeld(p, m)
      /\ m.ooseq = p.ooseq /\ m.snd_nxt = p.snd_nxt /\ m.lastack = p.lastack /\ m.ack = p.ack
      /\ m.unread = p.unread
  BY <1>4 DEF Queues, SameRcv, SameCtl, SameHeld
<1>6. m.state = "SYN_SENT" => m.ack = {} /\ m.unread = 0
  BY <1>3, <1>5 DEF HostInv, Connecting
<1>7. Live(m)
  BY <1>2, <1>5 DEF Live
<1>8. KeptPcb(h, p, a, m, a)
  BY <1>3, <1>4, <1>5, <1>6, <1>7, Zenon DEF KeptPcb, Ready
<1>9. MidOK(h, m, a, used)
  BY <1>2, <1>8, KeptMid
<1>10. Spent /\ "neterr" \notin F
  BY <1>1, TimeoutSpends
<1> QED
  BY <1>1, <1>9, <1>10, OutputKeeps

(* tcp_slowtmr.                                                            *)
LEMMA SlowKeeps ==
  ASSUME ConnInv, NEW h \in Hosts, NEW F, tcp_slowtmr(h, F)
  PROVE  ConnInv'
<1>1. CASE SlowGiveUp(h)
  BY <1>1, RemovedKeeps DEF SlowGiveUp, Active
<1>2. CASE SlowExpire(h)
  <2>1. pcb[h].state # "CLOSED"
    BY <1>2 DEF SlowExpire
  <2> QED
    BY <1>2, <2>1, RemovedKeeps DEF SlowExpire
<1>3. CASE SlowOoseq(h)
  BY <1>3, OoseqKeeps
<1>4. CASE SlowTimeWait(h)
  <2>1. /\ pcb[h].state = "TIME_WAIT" /\ Set(h, NoPcb) /\ Timeout({}) /\ app' = app /\ net' = net
        /\ used' = used
    BY <1>4 DEF SlowTimeWait
  <2>2. h \in used
    BY <2>1, UsedIs
  <2>3. app[h] \in App /\ AppInv(app[h], app[Peer(h)])
    BY InvOf DEF PairInv
  <2>4. StepOK(h, NoPcb, app[h], used, {})
    BY <2>2, <2>3, GoneStep
  <2>5. Becomes(h, NoPcb, app[h]) /\ Spent
    BY <2>1, TimeoutSpends DEF Becomes, Set
  <2> QED
    BY <2>1, <2>4, <2>5, NetSame, SameUsed
<1>5. CASE SlowRexmit(h, F)
  BY <1>5, RtoKeeps
<1>6. CASE SlowPoll(h, F)
  <2>1. /\ Active(h) /\ Spend(F) /\ app' = app /\ used' = used
        /\ \E o \in Output(pcb[h], F) : Set(h, o.p) /\ Send(h, o.out)
    BY <1>6 DEF SlowPoll
  <2>2. MidOK(h, pcb[h], app[h], used)
    BY <2>1, UsedIs, SameMid DEF Active
  <2>3. Spent /\ "neterr" \notin F
    BY <2>1, SpendIs DEF Spent
  <2> QED
    BY <2>1, <2>2, <2>3, OutputKeeps
<1> QED
  BY <1>1, <1>2, <1>3, <1>4, <1>5, <1>6 DEF tcp_slowtmr

(* A pcb and an application with the positions and states of those of h:   *)
(* h before the step, or after it took refused data.                       *)
Current(h, p, a) ==
  /\ p \in Pcb /\ a \in App /\ h \in used
  /\ HostInv(h, p, a, used)
  /\ PairInv(p, a, Peer(h), pcb[Peer(h)], app[Peer(h)])
  /\ p.state = pcb[h].state /\ p.rcv_nxt = pcb[h].rcv_nxt
  /\ p.snd_nxt = pcb[h].snd_nxt /\ p.lastack = pcb[h].lastack
  /\ a.wrote = app[h].wrote /\ a.shut = app[h].shut

(* h before the step.                                                      *)
LEMMA SameCurrent ==
  ASSUME ConnInv, NEW h \in Hosts, h \in used
  PROVE  Current(h, pcb[h], app[h])
  BY InvOf DEF Current

(* Refused data is taken.                                                  *)
LEMMA TakenCurrent ==
  ASSUME ConnInv, NEW h \in Hosts, Live(pcb[h]), pcb[h].refused # << >>
  PROVE  Current(h, Taken(pcb[h]), TakenApp(pcb[h], app[h]))
<1> DEFINE g == Peer(h)
           p == pcb[h]
           a == app[h]
           q == pcb[g]
           b == app[g]
           st == SentPart(g, q, b)
           m == Taken(p)
           c == TakenApp(p, a)
<1>1. /\ p \in Pcb /\ a \in App /\ q \in Pcb /\ b \in App /\ SndOK(g, q, b)
      /\ HostInv(h, p, a, used) /\ PairInv(p, a, g, q, b)
  BY InvOf
<1>2. g \in Hosts
  BY Peers
<1>3. h \in used
  BY UsedIs DEF Live
<1>4. Live(p) /\ p.refused # << >>
  OBVIOUS
<1> HIDE DEF g, p, a, q, b
<1>5. p.state # "SYN_SENT" /\ Receives(p)
  BY <1>1, <1>4 DEF HostInv, Connecting, Live, Receives
<1>6. /\ m \in Pcb /\ SameSnd(p, m) /\ SameCtl(p, m) /\ m.rcv_nxt = p.rcv_nxt
      /\ c \in App /\ c.wrote = a.wrote /\ c.shut = a.shut /\ c.open = a.open
  BY <1>1, TakenIs
<1>7. PartOf(st, g, b) /\ ISS[g] \in Nat
  BY <1>1, <1>2, SentIs, WholeIs
<1>8. RcvInv(p, a, st) /\ AppInv(a, b)
  BY <1>1, <1>4, <1>5 DEF PairInv
<1>9. RcvInv(m, c, st) /\ AppInv(c, b)
  BY <1>1, <1>4, <1>7, <1>8, TakenKeeps
<1> HIDE DEF m, c
<1>10. m.state = p.state /\ m.snd_nxt = p.snd_nxt /\ m.lastack = p.lastack
  BY <1>6 DEF SameCtl, SameSnd
<1>11. (Live(m) <=> Live(p)) /\ (Receives(m) <=> Receives(p))
  BY <1>10 DEF Live, Receives
<1>12. HostInv(h, m, c, used)
  <2>1. Whole(h, c) = Whole(h, a)
    BY <1>6 DEF Whole, DataTop
  <2>2. SndInv(m, Whole(h, c))
    BY <1>1, <1>4, <1>6, <2>1, SndSame DEF HostInv
  <2>3. c.shut <=> m.state \in FinStates
    BY <1>1, <1>4, <1>6, <1>10 DEF HostInv
  <2>4. m.state = "SYN_RCVD" => Accepting(h, m, c)
    BY <1>1, <1>6, <1>10, Zenon DEF HostInv, Accepting
  <2> QED
    BY <1>1, <1>3, <1>4, <1>5, <1>10, <1>11, <2>2, <2>3, <2>4, Zenon DEF HostInv
<1>13. PairInv(m, c, g, q, b)
  <2>1. HeardOf(m, g, q, b)
    BY <1>1, <1>5, <1>6, Zenon DEF PairInv, HeardOf
  <2>2. Handshaken(m, q)
    BY <1>1, <1>10, Zenon DEF PairInv, Handshaken
  <2> QED
    BY <1>9, <2>1, <2>2 DEF PairInv
<1> QED
  BY <1>3, <1>6, <1>10, <1>12, <1>13 DEF Current, g, p, a, q, b, m, c

(* What the other end has from h.                                          *)
LEMMA CurrentHeard ==
  ASSUME ConnInv, NEW h \in Hosts, NEW p, NEW a, Current(h, p, a), Receives(pcb[Peer(h)])
  PROVE  LET q == pcb[Peer(h)]
         IN  /\ Live(p) => p.lastack <= q.rcv_nxt
             /\ q.rcv_nxt <= SentTo(h, p, a) /\ SentTo(h, p, a) \in Nat
             /\ FinDone(p, a) => q.rcv_nxt = EndOf(h, a)
             /\ q.rcv_nxt <= EndOf(h, a) /\ EndOf(h, a) \in Nat /\ q.rcv_nxt \in Nat
<1> DEFINE q == pcb[Peer(h)]
<1>1. HeardOf(q, h, pcb[h], app[h]) /\ q \in Pcb
  BY InvOf DEF PairInv
<1>2. (Live(p) <=> Live(pcb[h])) /\ (FinDone(p, a) <=> FinDone(pcb[h], app[h]))
  BY DEF Current, Live, FinDone
<1>3. SentTo(h, p, a) = SentTo(h, pcb[h], app[h]) /\ EndOf(h, a) = EndOf(h, app[h])
  BY <1>2 DEF Current, SentTo, EndOf, DataTop
<1>4. /\ SentTo(h, p, a) \in Nat /\ SentTo(h, p, a) <= EndOf(h, a) /\ EndOf(h, a) \in Nat
  BY SentIs, WholeIs DEF Current, HostInv, SndOK
<1>5. q.rcv_nxt \in Nat
  BY <1>1, PcbIs DEF RcvTyped
<1>6. /\ Live(p) => p.lastack <= q.rcv_nxt
      /\ q.rcv_nxt <= SentTo(h, p, a)
      /\ FinDone(p, a) => q.rcv_nxt = EndOf(h, a)
  BY <1>1, <1>2, <1>3, Zenon DEF HeardOf, Current
<1> HIDE DEF q
<1>7. q.rcv_nxt <= EndOf(h, a)
  BY <1>4, <1>5, <1>6
<1> QED
  BY <1>4, <1>5, <1>6, <1>7 DEF q

(* Such a pcb is as tcp_output may find it.                                *)
LEMMA CurrentMid ==
  ASSUME ConnInv, NEW h \in Hosts, NEW p, NEW a, Current(h, p, a)
  PROVE  MidOK(h, p, a, used) /\ Settled(h, p, a)
<1> DEFINE g == Peer(h)
           q == pcb[g]
<1>1. /\ p \in Pcb /\ a \in App /\ h \in used /\ HostInv(h, p, a, used)
      /\ PairInv(p, a, g, q, app[g])
      /\ p.state = pcb[h].state /\ p.rcv_nxt = pcb[h].rcv_nxt /\ p.snd_nxt = pcb[h].snd_nxt
      /\ a.wrote = app[h].wrote /\ a.shut = app[h].shut
  BY DEF Current
<1>2. SndOK(h, p, a) /\ Settled(h, p, a)
  BY <1>1 DEF HostInv, SndOK, Settled
<1>3. HostMid(h, p, a, used)
  BY <1>1, Zenon DEF HostMid, HostInv, Ready
<1>4. (Live(p) <=> Live(pcb[h])) /\ (Receives(p) <=> Receives(pcb[h]))
  BY <1>1 DEF Live, Receives
<1>5. SentTo(h, pcb[h], app[h]) = SentTo(h, p, a)
  BY <1>1, <1>4 DEF SentTo, EndOf, DataTop
<1>6. a.wrote \in Nat /\ p.rcv_nxt \in Nat /\ SentTo(h, p, a) \in Nat
  BY <1>1, <1>2, AppIs, PcbIs, SentIs DEF AppTyped, RcvTyped
<1>7. Advance(h, pcb[h], app[h], p, a)
  BY <1>1, <1>4, <1>5, <1>6 DEF Advance
<1>8. Believes(h, p, a, q)
  BY CurrentHeard DEF Believes
<1> QED
  BY <1>1, <1>2, <1>3, <1>7, <1>8 DEF MidOK

(* A pending ACK.                                                          *)
LEMMA AckNowMid ==
  ASSUME ConnInv, NEW h \in Hosts, pcb[h].state \notin {"CLOSED", "SYN_SENT"}
  PROVE  MidOK(h, tcp_ack_now(pcb[h]), app[h], used)
<1> DEFINE m == tcp_ack_now(pcb[h])
<1>1. pcb[h] \in Pcb /\ app[h] \in App
  BY InvOf
<1>2. m \in Pcb /\ SameSnd(pcb[h], m) /\ SameRcv(pcb[h], m) /\ SameCtl(pcb[h], m)
  BY <1>1, AckNow
<1> HIDE DEF m
<1>3. SameHeld(pcb[h], m) /\ m.rcv_nxt = pcb[h].rcv_nxt /\ m.ooseq = pcb[h].ooseq /\ m.state = pcb[h].state
  BY <1>2 DEF SameRcv, SameHeld, SameCtl
<1>4. TakesNone(app[h], app[h])
  BY DEF TakesNone
<1>5. h \in used
  BY UsedIs
<1>6. MidOK(h, m, app[h], used)
  BY <1>1, <1>2, <1>3, <1>4, <1>5, KeptSnd
<1> QED
  BY <1>6 DEF m

(* tcp_fasttmr.                                                            *)
LEMMA FastKeeps ==
  ASSUME ConnInv, NEW h \in Hosts, NEW F, tcp_fasttmr(h, F)
  PROVE  ConnInv'
<1>1. CASE FastAck(h, F)
  <2> DEFINE m == tcp_ack_now(pcb[h])
  <2>1. /\ Active(h) /\ "DELAY" \in pcb[h].ack /\ Spend(F) /\ app' = app /\ used' = used
        /\ \E o \in Output(m, F) : Set(h, [o.p EXCEPT !.ack = {}]) /\ Send(h, o.out)
    BY <1>1 DEF FastAck
  <2>2. HostInv(h, pcb[h], app[h], used)
    BY InvOf
  <2>3. pcb[h].state \notin {"CLOSED", "SYN_SENT"}
    BY <2>1, <2>2 DEF HostInv, Connecting, Active
  <2>4. MidOK(h, m, app[h], used)
    BY <2>3, AckNowMid
  <2> HIDE DEF m
  <2>5. PICK o \in Output(m, F) : Set(h, [o.p EXCEPT !.ack = {}]) /\ Send(h, o.out)
    BY <2>1
  <2>6. o \in tcp_output(m)
    BY <2>1, <2>5, SpendIs, OutputPlain
  <2> DEFINE n == [o.p EXCEPT !.ack = {}]
  <2>7. n = [o.p EXCEPT !.ack = {}]
    OBVIOUS
  <2> HIDE DEF n
  <2>8. StepOK(h, n, app[h], used, o.out)
    BY <2>4, <2>6, <2>7, ClearedStep
  <2>9. Becomes(h, n, app[h]) /\ Spent
    BY <2>1, <2>5, <2>7 DEF Becomes, Set, Spent
  <2> QED
    BY <2>1, <2>5, <2>8, <2>9, SameUsed
<1>2. CASE FastRefused(h)
  <2> DEFINE m == Taken(pcb[h])
             c == TakenApp(pcb[h], app[h])
  <2>1. /\ Active(h) /\ pcb[h].refused # << >> /\ Set(h, m) /\ SetApp(h, c)
        /\ net' = net /\ used' = used /\ budget' = budget
    BY <1>2 DEF FastRefused
  <2>2. Current(h, m, c)
    BY <2>1, TakenCurrent DEF Active, Live
  <2> HIDE DEF m, c
  <2>3. StepOK(h, m, c, used, {})
    BY <2>2, CurrentMid, QuietStep
  <2>4. Becomes(h, m, c) /\ Spent
    BY <2>1 DEF Becomes, Set, SetApp, Spent
  <2> QED
    BY <2>1, <2>3, <2>4, NetSame, SameUsed
<1> QED
  BY <1>1, <1>2 DEF tcp_fasttmr

(* A packet is lost.                                                       *)
LEMMA LoseKeeps ==
  ASSUME ConnInv, NEW h \in Hosts, NEW i, Lose(h, i)
  PROVE  ConnInv'
<1>1. /\ net' = [net EXCEPT ![h] = @ \ {i}] /\ Spend({"loss"})
      /\ pcb' = pcb /\ app' = app /\ used' = used
  BY DEF Lose
<1>2. StepOK(h, pcb[h], app[h], used, {})
  BY StutterStep
<1>3. TypeOK
  BY DEF ConnInv
<1>4. Becomes(h, pcb[h], app[h]) /\ Spent
  BY <1>1, <1>3 DEF Becomes, Spent, TypeOK
<1>5. Reply(h, i, {}, {})
  <2>1. h # Peer(h) /\ Peer(h) \in Hosts
    BY Peers
  <2> QED
    BY <1>1, <1>3, <2>1 DEF Reply, TypeOK
<1> QED
  BY <1>1, <1>2, <1>4, <1>5, SameUsed

-----------------------------------------------------------------------------
(***************************************************************************)
(* tcp_input.                                                              *)
(***************************************************************************)

(* A pcb to which refused data is added, and one whose window opens.       *)
Holding(p, d, f, u, q) ==
  /\ d \in Seq(Nat) /\ f \in BOOLEAN /\ u \in Nat
  /\ q = [p EXCEPT !.refused = d, !.refusedfin = f, !.unread = u]

(* Nothing else changes.                                                   *)
LEMMA HoldingIs ==
  ASSUME NEW p \in Pcb, NEW d, NEW f, NEW u, NEW q, Holding(p, d, f, u, q)
  PROVE  /\ q \in Pcb /\ SameSnd(p, q) /\ SameCtl(p, q) /\ q.rcv_nxt = p.rcv_nxt /\ q.ooseq = p.ooseq
         /\ q.refused = d /\ q.refusedfin = f /\ q.unread = u /\ q.ack = p.ack /\ q.infr = p.infr
<1>1. /\ IsPcb(p) /\ SndTyped(p) /\ RcvTyped(p) /\ CtlTyped(p)
      /\ d \in Seq(Nat) /\ f \in BOOLEAN /\ u \in Nat
  BY PcbIs DEF Holding
<1>2. /\ IsPcb(q) /\ SameSnd(p, q) /\ SameCtl(p, q) /\ q.rcv_nxt = p.rcv_nxt /\ q.ooseq = p.ooseq
      /\ q.refused = d /\ q.refusedfin = f /\ q.unread = u /\ q.ack = p.ack /\ q.infr = p.infr
      /\ q.rtime = p.rtime /\ q.nrtx = p.nrtx /\ q.dupacks = p.dupacks
  BY <1>1, FieldsOfPcb DEF Holding, IsPcb, SameSnd, SameCtl
<1>3. SndTyped(q) /\ CtlTyped(q)
  BY <1>1, <1>2, SameTyped DEF CtlTyped, SameCtl
<1>4. RcvTyped(q)
  BY <1>1, <1>2, Zenon DEF RcvTyped
<1> QED
  BY <1>2, <1>3, <1>4, PcbIs

(* The window opens by the FIN.                                            *)
LEMMA LessUnread ==
  ASSUME NEW u \in Nat, NEW fin
  PROVE  /\ (IF fin /\ u > 0 THEN u - 1 ELSE u) \in Nat
         /\ ~fin => (IF fin /\ u > 0 THEN u - 1 ELSE u) = u
  OBVIOUS

(* The callbacks: the application takes the data, or the pcb keeps it.     *)
LEMMA DeliveredIs ==
  ASSUME NEW r, r.p \in Pcb, r.data \in Seq(Nat), r.fin \in BOOLEAN, NEW F
  PROVE  LET m == Delivered(r, F)
         IN  /\ m \in Pcb /\ SameSnd(r.p, m) /\ SameCtl(r.p, m) /\ m.rcv_nxt = r.p.rcv_nxt
             /\ m.ooseq = r.p.ooseq /\ m.ack = r.p.ack /\ m.infr = r.p.infr
             /\ ~r.fin => m.unread = r.p.unread
             /\ IF r.data # << >> /\ "refuse" \in F THEN Refuses(m, r.data, r.fin) ELSE SameHeld(r.p, m)
<1> DEFINE p == r.p
           refuse == r.data # << >> /\ "refuse" \in F
           fin == r.fin /\ ~refuse
           d == IF refuse THEN r.data ELSE p.refused
           f == IF refuse THEN r.fin ELSE p.refusedfin
           u == IF fin /\ p.unread > 0 THEN p.unread - 1 ELSE p.unread
           m == [p EXCEPT !.refused = d, !.refusedfin = f, !.unread = u]
<1>1. Delivered(r, F) = m
  BY DEF Delivered
<1>2. IsPcb(p) /\ p.refused \in Seq(Nat) /\ p.refusedfin \in BOOLEAN /\ p.unread \in Nat
  BY PcbIs DEF RcvTyped
<1>3. d \in Seq(Nat)
  BY <1>2
<1>4. f \in BOOLEAN
  BY <1>2, Zenon
<1>5. u \in Nat /\ (~fin => u = p.unread)
  <2> HIDE DEF fin
  <2> QED
    BY <1>2, LessUnread
<1>6. Holding(p, d, f, u, m)
  BY <1>3, <1>4, <1>5, Zenon DEF Holding
<1>7. p \in Pcb
  OBVIOUS
<1>8. (refuse => d = r.data /\ f = r.fin) /\ (~refuse => d = p.refused /\ f = p.refusedfin)
  BY Zenon
<1>9. ~r.fin => ~fin
  OBVIOUS
<1> HIDE DEF p, d, f, u, fin, m
<1>10. /\ m \in Pcb /\ SameSnd(p, m) /\ SameCtl(p, m) /\ m.rcv_nxt = p.rcv_nxt /\ m.ooseq = p.ooseq
      /\ m.refused = d /\ m.refusedfin = f /\ m.unread = u /\ m.ack = p.ack /\ m.infr = p.infr
  BY <1>6, <1>7, HoldingIs
<1>11. IF refuse THEN Refuses(m, r.data, r.fin) ELSE SameHeld(p, m)
  BY <1>8, <1>10, Zenon DEF Refuses, SameHeld
<1>12. ~r.fin => m.unread = p.unread
  BY <1>5, <1>9, <1>10
<1> QED
  BY <1>1, <1>10, <1>11, <1>12, Zenon DEF p

(* What the application takes of it.                                       *)
Taking(a, d, f, c) == c = [a EXCEPT !.rcvd = @ \o d, !.eof = @ \/ f]

(* Nothing else changes.                                                   *)
LEMMA TakingIs ==
  ASSUME NEW a \in App, NEW d \in Seq(Nat), NEW f \in BOOLEAN, NEW c, Taking(a, d, f, c)
  PROVE  /\ c \in App /\ TakesIn(a, c, d, f) /\ c.wrote = a.wrote /\ c.shut = a.shut
         /\ c.open = a.open
<1>1. IsApp(a) /\ AppTyped(a)
  BY AppIs
<1> DEFINE x == a.rcvd \o d
           e == a.eof \/ f
<1>2. x \in Seq(Nat)
  BY <1>1 DEF AppTyped
<1>3. e \in BOOLEAN
  OBVIOUS
<1>4. c = [a EXCEPT !.rcvd = x, !.eof = e]
  BY DEF Taking
<1> HIDE DEF x, e
<1>5. /\ IsApp(c) /\ c.rcvd = x /\ c.wrote = a.wrote /\ c.err = a.err
  BY <1>1, <1>4 DEF IsApp, AppFields
<1>6. c.eof = e /\ c.shut = a.shut /\ c.open = a.open
  BY <1>1, <1>4, Zenon DEF IsApp, AppFields
<1>7. AppTyped(c)
  BY <1>1, <1>2, <1>3, <1>5, <1>6, Zenon DEF AppTyped
<1> QED
  BY <1>5, <1>6, <1>7, AppIs, Zenon DEF TakesIn, x, e

(* It takes the data and the end of the stream, or nothing.                *)
LEMMA DeliveredAppIs ==
  ASSUME NEW a \in App, NEW r, r.data \in Seq(Nat), r.fin \in BOOLEAN, NEW F
  PROVE  LET c == DeliveredApp(r, a, F)
         IN  /\ c \in App /\ c.wrote = a.wrote /\ c.shut = a.shut /\ c.open = a.open
             /\ IF r.data # << >> /\ "refuse" \in F THEN TakesNone(a, c) ELSE TakesIn(a, c, r.data, r.fin)
<1> DEFINE c == DeliveredApp(r, a, F)
<1>1. CASE r.data # << >> /\ "refuse" \in F
  <2>1. c = a
    BY <1>1 DEF DeliveredApp
  <2> QED
    BY <1>1, <2>1, Zenon DEF TakesNone
<1>2. CASE ~(r.data # << >> /\ "refuse" \in F)
  <2>1. Taking(a, r.data, r.fin, c)
    BY <1>2 DEF DeliveredApp, Taking
  <2> HIDE DEF c
  <2>2. /\ c \in App /\ TakesIn(a, c, r.data, r.fin) /\ c.wrote = a.wrote /\ c.shut = a.shut
        /\ c.open = a.open
    BY <2>1, TakingIs
  <2> QED
    BY <1>2, <2>2, Zenon DEF c
<1> QED
  BY <1>1, <1>2

(* The accept callback.                                                    *)
LEMMA AcceptedIs ==
  ASSUME NEW a \in App, NEW p, NEW r
  PROVE  LET c == AcceptedApp(p, r, a)
         IN  /\ c \in App /\ TakesNone(a, c) /\ c.wrote = a.wrote /\ c.shut = a.shut
             /\ p.state # "SYN_RCVD" \/ r.p.state = "SYN_RCVD" => c = a
<1> DEFINE c == AcceptedApp(p, r, a)
<1>1. CASE p.state = "SYN_RCVD" /\ r.p.state # "SYN_RCVD"
  <2> DEFINE s == TRUE
  <2>1. Opening(a, s, c)
    BY <1>1 DEF Opening, AcceptedApp
  <2> HIDE DEF s, c
  <2>2. c \in App /\ TakesNone(a, c) /\ c.wrote = a.wrote /\ c.shut = a.shut
    BY <2>1, OpeningIs
  <2> QED
    BY <1>1, <2>2, Zenon DEF c
<1>2. CASE ~(p.state = "SYN_RCVD" /\ r.p.state # "SYN_RCVD")
  <2>1. c = a
    BY <1>2 DEF AcceptedApp
  <2> QED
    BY <2>1, Zenon DEF TakesNone
<1> QED
  BY <1>1, <1>2

(* Everything about the two ends and a packet that reaches h.              *)
LEMMA CurrentIs ==
  ASSUME ConnInv, NEW h \in Hosts, NEW p, NEW a, Current(h, p, a), NEW i \in net[h]
  PROVE  LET g == Peer(h)
             q == pcb[g]
             b == app[g]
             st == SentPart(g, q, b)
         IN  /\ p \in Pcb /\ a \in App /\ q \in Pcb /\ b \in App /\ g \in Hosts /\ i \in Packet
             /\ HostInv(h, p, a, used) /\ PairInv(p, a, g, q, b)
             /\ i.rst \/ PacketInv(g, q, b, used, i)
             /\ SndOK(g, q, b) /\ PartOf(st, g, b) /\ ISS[g] \in Nat /\ IsStream(Whole(h, a))
             /\ SentTo(g, q, b) \in Nat /\ SentTo(g, q, b) <= EndOf(g, b)
             /\ EndOf(g, b) \in Nat /\ DataTop(g, b) \in Nat /\ End(Whole(h, a)) = EndOf(h, a)
<1> DEFINE g == Peer(h)
           q == pcb[g]
           b == app[g]
           st == SentPart(g, q, b)
<1>1. /\ net[h] \subseteq Packet /\ q \in Pcb /\ b \in App /\ SndOK(g, q, b)
      /\ PacketsInv(g, q, b, used, net[h])
  BY InvOf
<1>2. g \in Hosts
  BY Peers
<1>3. i \in Packet /\ (i.rst \/ PacketInv(g, q, b, used, i))
  BY <1>1 DEF PacketsInv
<1>4. /\ PartOf(st, g, b) /\ SentTo(g, q, b) \in Nat /\ SentTo(g, q, b) <= EndOf(g, b)
  BY <1>1, <1>2, SentIs
<1>5. ISS[g] \in Nat /\ EndOf(g, b) \in Nat /\ DataTop(g, b) \in Nat
  BY <1>1, <1>2, WholeIs
<1>6. IsStream(Whole(h, a)) /\ End(Whole(h, a)) = EndOf(h, a)
  BY WholeIs DEF Current
<1> QED
  BY <1>1, <1>2, <1>3, <1>4, <1>5, <1>6 DEF Current

(* So tcp_process finds what it needs.                                     *)
LEMMA CurrentOngoing ==
  ASSUME ConnInv, NEW h \in Hosts, NEW p, NEW a, Current(h, p, a), NEW i \in net[h],
         Live(p), Receives(p)
  PROVE  /\ Ongoing(p, SentPart(Peer(h), pcb[Peer(h)], app[Peer(h)]), i, Whole(h, a))
         /\ p.state = "SYN_RCVD" => End(Whole(h, a)) = Whole(h, a).base + 1
<1> DEFINE g == Peer(h)
           q == pcb[g]
           b == app[g]
           st == SentPart(g, q, b)
           w == Whole(h, a)
<1>1. /\ p \in Pcb /\ a \in App /\ i \in Packet /\ HostInv(h, p, a, used) /\ PairInv(p, a, g, q, b)
      /\ i.rst \/ PacketInv(g, q, b, used, i)
      /\ PartOf(st, g, b) /\ IsStream(w)
  BY CurrentIs
<1>2. SndInv(p, w) /\ (a.shut <=> p.state \in FinStates)
  BY <1>1 DEF HostInv
<1>3. RcvInv(p, a, st)
  BY <1>1 DEF PairInv
<1>4. IsStream(st) /\ st.base = ISS[g]
  BY <1>1 DEF PartOf
<1>5. st.base \in Nat /\ st.top \in Nat
  BY <1>4 DEF IsStream
<1>6. st.base < p.rcv_nxt
  <2>1. p.rcv_nxt = st.base + 1 + Got(p, a) + Bit(GotFin(p, a))
    BY <1>3 DEF RcvInv
  <2>2. Got(p, a) \in Nat
    <3>1. p.refused \in Seq(Nat) /\ a.rcvd \in Seq(Nat)
      BY <1>1, PcbIs, AppIs DEF RcvTyped, AppTyped
    <3>2. Len(p.refused) \in Nat /\ Len(a.rcvd) \in Nat
      BY <3>1
    <3> DEFINE x == Len(a.rcvd)
               y == Len(p.refused)
    <3>3. x \in Nat /\ y \in Nat /\ Got(p, a) = x + y
      BY <3>2, Zenon DEF Got
    <3> HIDE DEF x, y
    <3> QED
      BY <3>3
  <2>3. Bit(GotFin(p, a)) \in Nat
    BY DEF Bit
  <2> HIDE DEF st
  <2> QED
    BY <1>5, <2>1, <2>2, <2>3
<1>7. StreamQueue(st, p.ooseq) /\ Beyond(p.ooseq, p.rcv_nxt)
  BY <1>3 DEF RcvInv
<1>8. p.state # "SYN_SENT"
  BY DEF Receives
<1>9. ~i.rst => FromStream(st, i)
  <2> HAVE ~i.rst
  <2>1. PacketInv(g, q, b, used, i)
    BY <1>1
  <2>2. i.seq \in Nat /\ tcplen(i) \in Nat
    <3>1. i.seq \in Nat /\ i.data \in Seq(Nat)
      BY <1>1 DEF Packet
    <3>2. Len(i.data) \in Nat
      BY <3>1
    <3> DEFINE k == IF i.syn \/ i.fin THEN 1 ELSE 0
    <3>3. k \in Nat /\ tcplen(i) = Len(i.data) + k
      BY DEF tcplen, TCP_TCPLEN
    <3> HIDE DEF k
    <3> QED
      BY <3>1, <3>2, <3>3
  <2>3. tcplen(i) # 0 => tcplen(i) > 0
    BY <2>2
  <2>4. i.syn => i.seq = st.base /\ i.data = << >> /\ ~i.fin
    BY <1>4, <2>1 DEF PacketInv
  <2>5. ~i.syn /\ tcplen(i) # 0 => OfStream(st, SegOf(i))
    BY <2>1, <2>3 DEF PacketInv
  <2> HIDE DEF st
  <2> QED
    BY <2>2, <2>4, <2>5 DEF FromStream
<1>10. CanTake(st, p, i)
  <2> HIDE DEF st
  <2> QED
    BY <1>1, <1>5, <1>6, <1>7, <1>8, <1>9 DEF CanTake
<1>11. Ongoing(p, st, i, w)
  <2> HIDE DEF st, w
  <2> QED
    BY <1>1, <1>2, <1>10 DEF Ongoing
<1>12. p.state = "SYN_RCVD" => End(w) = w.base + 1
  <2> HAVE p.state = "SYN_RCVD"
  <2>1. a.wrote = 0
    BY <1>1 DEF HostInv, Accepting
  <2>2. ~a.shut
    BY <1>2 DEF FinStates
  <2>3. ISS[h] \in Nat /\ End(w) = EndOf(h, a) /\ w.base = ISS[h] /\ (~a.shut => EndOf(h, a) = DataTop(h, a))
    BY <1>1, WholeIs
  <2>4. DataTop(h, a) = ISS[h] + 1
    BY <2>1, <2>3 DEF DataTop
  <2> QED
    BY <2>2, <2>3, <2>4
<1> QED
  BY <1>11, <1>12

(* What becomes of a result of tcp_process: m and c are the pcb and the    *)
(* application after the callbacks.                                        *)
Lands(a, r, m, c) ==
  /\ m \in Pcb /\ c \in App /\ SameSnd(r.p, m) /\ SameCtl(r.p, m)
  /\ m.rcv_nxt = r.p.rcv_nxt /\ m.ooseq = r.p.ooseq /\ m.infr = r.p.infr
  /\ \/ TakesIn(a, c, r.data, r.fin) /\ SameHeld(r.p, m)
     \/ TakesNone(a, c) /\ Refuses(m, r.data, r.fin)
  /\ c.wrote = a.wrote /\ c.shut = a.shut
  /\ r.p.state = "SYN_RCVD" => c.open = a.open

(* Nothing was delivered.                                                  *)
LEMMA NothingTaken ==
  ASSUME NEW a \in App, NEW r, NEW m, NEW c, Lands(a, r, m, c), r.data = << >>, ~r.fin, r.fin \in BOOLEAN
  PROVE  TakesNone(a, c) /\ SameHeld(r.p, m)
<1>1. a.rcvd \in Seq(Nat) /\ a.eof \in BOOLEAN
  BY AppIs DEF AppTyped
<1>2. TakesIn(a, c, r.data, r.fin) /\ SameHeld(r.p, m)
  BY Zenon DEF Lands, Refuses
<1>3. c.rcvd = a.rcvd \o r.data
  BY <1>2, Zenon DEF TakesIn
<1>4. c.rcvd = a.rcvd
  BY <1>1, <1>3
<1>5. c.eof = a.eof
  BY <1>1, <1>2, Zenon DEF TakesIn
<1> QED
  BY <1>2, <1>4, <1>5, Zenon DEF TakesNone

(* The receiving side after the callbacks.                                 *)
LEMMA LandsRcv ==
  ASSUME NEW st, NEW g, NEW b \in App, ISS[g] \in Nat, PartOf(st, g, b),
         NEW p \in Pcb, NEW a \in App, RcvInv(p, a, st), AppInv(a, b),
         NEW r, r.p \in Pcb, Gains(st, p, r.p, r.data, r.fin), NEW m, NEW c, Lands(a, r, m, c),
         p.refused = << >> \/ (r.data = << >> /\ ~r.fin),
         Live(m) => SameHeld(p, r.p),
         m.state \in NoFinYet => p.state \in NoFinYet /\ ~r.fin
  PROVE  AppInv(c, b) /\ (Live(m) => RcvInv(m, c, st))
<1>1. /\ m \in Pcb /\ c \in App /\ m.rcv_nxt = r.p.rcv_nxt /\ m.ooseq = r.p.ooseq
      /\ \/ TakesIn(a, c, r.data, r.fin) /\ SameHeld(r.p, m)
         \/ TakesNone(a, c) /\ Refuses(m, r.data, r.fin)
  BY Zenon DEF Lands
<1>2. Gains(st, p, m, r.data, r.fin)
  BY <1>1, Zenon DEF Gains
<1>3. r.fin \in BOOLEAN /\ IsStream(st)
  BY DEF Gains, PartOf
<1>4. CASE p.refused = << >>
  <2>1. AppInv(c, b)
    BY <1>1, <1>2, <1>4, AppAfter
  <2>2. ASSUME Live(m) PROVE RcvInv(m, c, st)
    <3>1. \/ TakesIn(a, c, r.data, r.fin) /\ SameHeld(p, m)
          \/ TakesNone(a, c) /\ Refuses(m, r.data, r.fin)
      BY <1>1, <2>2, Zenon DEF SameHeld
    <3>2. r.fin => m.state \notin NoFinYet
      OBVIOUS
    <3>3. m.state \in NoFinYet => p.state \in NoFinYet
      OBVIOUS
    <3> QED
      BY <1>1, <1>2, <1>3, <1>4, <3>1, <3>2, <3>3, RcvAfter
  <2> QED
    BY <2>1, <2>2
<1>5. CASE r.data = << >> /\ ~r.fin
  <2>1. TakesNone(a, c) /\ SameHeld(r.p, m)
    BY <1>3, <1>5, NothingTaken
  <2>2. AppInv(c, b)
    BY <2>1, NoneKeeps
  <2>3. ASSUME Live(m) PROVE RcvInv(m, c, st)
    <3>1. m.refused = p.refused /\ m.refusedfin = p.refusedfin /\ c.rcvd = a.rcvd /\ c.eof = a.eof
      BY <2>1, <2>3, Zenon DEF SameHeld, TakesNone
    <3>2. Got(m, c) = Got(p, a) /\ GotFin(m, c) = GotFin(p, a)
      BY <3>1, Zenon DEF Got, GotFin
    <3>3. m.rcv_nxt = p.rcv_nxt
      <4>1. m.rcv_nxt = p.rcv_nxt + Len(r.data) + Bit(r.fin) /\ p.rcv_nxt \in Nat
        BY <1>2, PcbIs DEF Gains, RcvTyped
      <4>2. Len(r.data) = 0 /\ Bit(r.fin) = 0
        BY <1>5 DEF Bit
      <4> QED
        BY <4>1, <4>2
    <3>4. StreamQueue(st, m.ooseq) /\ Beyond(m.ooseq, m.rcv_nxt)
      BY <1>2 DEF Gains
    <3>5. m.state \in NoFinYet => ~GotFin(m, c)
      BY <3>2 DEF RcvInv, NoFinYet
    <3> QED
      BY <3>1, <3>2, <3>3, <3>4, <3>5, Zenon DEF RcvInv, NoFinYet
  <2> QED
    BY <2>2, <2>3
<1> QED
  BY <1>4, <1>5

(* What h has received after a packet, and what it has from g.             *)
LEMMA GainsHeard ==
  ASSUME NEW g, NEW q, NEW b, SentTo(g, q, b) \in Nat, SentTo(g, q, b) <= EndOf(g, b), EndOf(g, b) \in Nat,
         DataTop(g, b) \in Nat, Live(q) => q.lastack \in Nat,
         NEW p \in Pcb, NEW m \in Pcb, NEW d, NEW fin,
         Gains(SentPart(g, q, b), p, m, d, fin), HeardOf(p, g, q, b)
  PROVE  HeardOf(m, g, q, b) /\ p.rcv_nxt <= m.rcv_nxt
<1> DEFINE st == SentPart(g, q, b)
           S == SentTo(g, q, b)
           E == EndOf(g, b)
           T == DataTop(g, b)
<1>1. p.rcv_nxt \in Nat /\ m.rcv_nxt \in Nat
  BY PcbIs DEF RcvTyped
<1>2. p.rcv_nxt <= m.rcv_nxt
  BY GainsUp
<1>3. p.rcv_nxt <= S /\ (Live(q) => q.lastack <= p.rcv_nxt) /\ (FinDone(q, b) => p.rcv_nxt = E)
  BY DEF HeardOf
<1>4. st.top <= S /\ (st.closed => S >= T + 1 /\ st.top = T) /\ st.top \in Nat
  <2> DEFINE f == FinSent(g, q, b)
  <2>1. st.top = (IF f THEN T ELSE S) /\ (st.closed => f)
    BY Zenon DEF SentPart
  <2>2. f <=> S > T
    BY Zenon DEF FinSent
  <2>3. S \in Nat /\ T \in Nat
    OBVIOUS
  <2> HIDE DEF f, S, T, st
  <2> QED
    BY <2>1, <2>2, <2>3
<1>5. d \in Seq(Nat) /\ fin \in BOOLEAN /\ m.rcv_nxt = p.rcv_nxt + Len(d) + Bit(fin)
      /\ (d # << >> => p.rcv_nxt + Len(d) <= st.top)
      /\ (fin => st.closed /\ p.rcv_nxt + Len(d) = st.top)
  BY DEF Gains
<1> DEFINE n == Len(d)
<1>6. n \in Nat /\ (n # 0 => d # << >>)
  BY <1>5
<1>7. (fin => Bit(fin) = 1) /\ (~fin => Bit(fin) = 0)
  BY DEF Bit
<1>8. /\ m.rcv_nxt = p.rcv_nxt + n + Bit(fin)
      /\ (d # << >> => p.rcv_nxt + n <= st.top)
      /\ (fin => st.closed /\ p.rcv_nxt + n = st.top)
  BY <1>5
<1> HIDE DEF st, S, E, T, n
<1>9. m.rcv_nxt <= S
  <2>1. CASE fin
    <3>1. m.rcv_nxt = st.top + 1
      BY <1>1, <1>4, <1>6, <1>7, <1>8, <2>1
    <3> QED
      BY <1>4, <1>8, <2>1, <3>1 DEF S, T
  <2>2. CASE ~fin /\ n # 0
    <3>1. m.rcv_nxt <= st.top
      BY <1>1, <1>4, <1>6, <1>7, <1>8, <2>2
    <3> QED
      BY <1>1, <1>4, <3>1 DEF S
  <2>3. CASE ~fin /\ n = 0
    <3>1. m.rcv_nxt = p.rcv_nxt
      BY <1>1, <1>7, <1>8, <2>3
    <3> QED
      BY <1>3, <3>1
  <2> QED
    BY <2>1, <2>2, <2>3
<1>10. Live(q) => q.lastack <= m.rcv_nxt
  <2> HAVE Live(q)
  <2>1. q.lastack \in Nat /\ q.lastack <= p.rcv_nxt
    BY <1>3
  <2> QED
    BY <1>1, <1>2, <2>1
<1>11. FinDone(q, b) => m.rcv_nxt = E
  <2> HAVE FinDone(q, b)
  <2>1. p.rcv_nxt = E
    BY <1>3
  <2> QED
    BY <1>1, <1>2, <1>9, <2>1 DEF E, S
<1> QED
  BY <1>2, <1>9, <1>10, <1>11 DEF HeardOf, S, E

(* tcp_process in a state with a rcv_nxt, and the callbacks.               *)
LEMMA LandsMid ==
  ASSUME ConnInv, NEW h \in Hosts, NEW p, NEW a, Current(h, p, a), Live(p), Receives(p),
         NEW i \in net[h], p.refused = << >> \/ tcplen(i) = 0,
         NEW r, r.ev = "none",
         Outcome(p, i, Whole(h, a), SentPart(Peer(h), pcb[Peer(h)], app[Peer(h)]), r),
         NEW m, NEW c, Lands(a, r, m, c)
  PROVE  MidOK(h, m, c, used)
<1> DEFINE g == Peer(h)
           q == pcb[g]
           b == app[g]
           st == SentPart(g, q, b)
           w == Whole(h, a)
<1>1. /\ p \in Pcb /\ a \in App /\ q \in Pcb /\ b \in App /\ g \in Hosts /\ i \in Packet
      /\ HostInv(h, p, a, used) /\ PairInv(p, a, g, q, b)
      /\ i.rst \/ PacketInv(g, q, b, used, i)
      /\ PartOf(st, g, b) /\ ISS[g] \in Nat /\ IsStream(w)
      /\ SentTo(g, q, b) \in Nat /\ SentTo(g, q, b) <= EndOf(g, b)
      /\ EndOf(g, b) \in Nat /\ DataTop(g, b) \in Nat /\ End(w) = EndOf(h, a)
  BY CurrentIs
<1>2. /\ p.state = pcb[h].state /\ p.rcv_nxt = pcb[h].rcv_nxt /\ p.snd_nxt = pcb[h].snd_nxt
      /\ p.lastack = pcb[h].lastack /\ a.wrote = app[h].wrote /\ a.shut = app[h].shut /\ h \in used
  BY DEF Current
<1>3. Receives(q) =>
        /\ p.lastack <= q.rcv_nxt /\ (FinDone(p, a) => q.rcv_nxt = EndOf(h, a))
        /\ q.rcv_nxt <= EndOf(h, a) /\ EndOf(h, a) \in Nat /\ q.rcv_nxt \in Nat
  BY CurrentHeard
<1>4. Acks(i) => q.state # "SYN_SENT" /\ (Receives(q) => i.ackno <= q.rcv_nxt)
  BY <1>1 DEF Acks, PacketInv
<1>5. HeardOf(p, g, q, b) /\ RcvInv(p, a, st) /\ AppInv(a, b) /\ Handshaken(p, q)
  BY <1>1 DEF PairInv
<1>6. /\ m \in Pcb /\ c \in App /\ SameSnd(r.p, m) /\ SameCtl(r.p, m)
      /\ m.rcv_nxt = r.p.rcv_nxt /\ m.ooseq = r.p.ooseq /\ m.infr = r.p.infr
      /\ c.wrote = a.wrote /\ c.shut = a.shut /\ (r.p.state = "SYN_RCVD" => c.open = a.open)
  BY Zenon DEF Lands
<1>7. m.state = r.p.state /\ m.snd_nxt = r.p.snd_nxt /\ m.lastack = r.p.lastack
      /\ m.unsent = r.p.unsent /\ m.unacked = r.p.unacked
  BY <1>6 DEF SameSnd, SameCtl
<1>8. /\ r.p \in Pcb /\ Gains(st, p, r.p, r.data, r.fin)
      /\ (tcplen(i) = 0 => r.data = << >> /\ ~r.fin)
      /\ StateMoves(p, i, w, r)
      /\ Live(r.p) => /\ Ready(r.p, w) /\ SameHeld(p, r.p) /\ r.p.snd_nxt = p.snd_nxt
                      /\ r.p.lastack = p.lastack \/ (Acks(i) /\ r.p.lastack = i.ackno)
      /\ ~Live(r.p) => r.p.unsent = << >> /\ r.p.unacked = << >>
  BY Zenon DEF Outcome
<1> HIDE DEF g, q, b, st, w
<1>9. /\ m.state \notin {"CLOSED", "SYN_SENT"}
      /\ m.state \in NoFinYet => p.state \in NoFinYet /\ ~r.fin
      /\ m.state # "TIME_WAIT" => (m.state \in FinStates <=> p.state \in FinStates)
      /\ m.state = "TIME_WAIT" => p.state \in FinStates
      /\ m.state = "SYN_RCVD" => p.state = "SYN_RCVD" /\ m.lastack = p.lastack
      /\ p.state = "SYN_RCVD" /\ m.state # "SYN_RCVD" => Acks(i)
      /\ m.state \in {"FIN_WAIT_2", "TIME_WAIT"} =>
           p.state = "FIN_WAIT_2" \/ (Acks(i) /\ i.ackno = p.snd_nxt /\ p.snd_nxt = End(w))
  BY <1>7, <1>8 DEF StateMoves
<1>10. (Live(m) <=> Live(r.p)) /\ Receives(m)
  BY <1>7, <1>9 DEF Live, Receives
<1>11. AppInv(c, b) /\ (Live(m) => RcvInv(m, c, st))
  <2>1. p.refused = << >> \/ (r.data = << >> /\ ~r.fin)
    BY <1>8
  <2>2. Live(m) => SameHeld(p, r.p)
    BY <1>8, <1>10
  <2>3. m.state \in NoFinYet => p.state \in NoFinYet /\ ~r.fin
    BY <1>9
  <2>4. Gains(st, p, r.p, r.data, r.fin) /\ r.p \in Pcb
    BY <1>8
  <2> QED
    BY <1>1, <1>5, <2>1, <2>2, <2>3, <2>4, LandsRcv
<1>12. Gains(st, p, m, r.data, r.fin)
  BY <1>6, <1>8, Zenon DEF Gains
<1>13. HeardOf(m, g, q, b) /\ p.rcv_nxt <= m.rcv_nxt
  <2>1. q.lastack \in Nat
    BY <1>1, PcbIs DEF SndTyped
  <2> QED
    BY <1>1, <1>5, <1>6, <1>12, <2>1, GainsHeard DEF st
<1>14. Handshaken(m, q)
  <2>1. CASE p.state = "SYN_RCVD"
    BY <1>4, <1>9, <2>1 DEF Handshaken
  <2>2. CASE p.state # "SYN_RCVD"
    BY <1>5, <2>2 DEF Handshaken, Receives
  <2> QED
    BY <2>1, <2>2
<1>15. PairInv(m, c, g, q, b)
  BY <1>11, <1>13, <1>14 DEF PairInv, st
<1>16. Whole(h, c) = w /\ EndOf(h, c) = EndOf(h, a)
  BY <1>6 DEF Whole, DataTop, EndOf, w
<1>17. HostMid(h, m, c, used)
  <2>1. Live(m) => Ready(m, Whole(h, c))
    <3> HAVE Live(m)
    <3>1. Ready(r.p, w)
      BY <1>8, <1>10
    <3> QED
      BY <1>6, <1>7, <1>16, <3>1, ReadySame
  <2>2. Live(m) => (c.shut <=> m.state \in FinStates)
    BY <1>1, <1>6, <1>9 DEF HostInv, Live
  <2>3. ~Live(m) => m.unsent = << >> /\ m.unacked = << >>
    BY <1>7, <1>8, <1>10
  <2>4. m.state = "SYN_RCVD" => Accepting(h, m, c)
    BY <1>1, <1>6, <1>7, <1>9, Zenon DEF HostInv, Accepting
  <2>5. Peer(h) \in used
    BY <1>1 DEF HostInv
  <2> QED
    BY <1>2, <1>9, <2>1, <2>2, <2>3, <2>4, <2>5 DEF HostMid
<1>18. Advance(h, pcb[h], app[h], m, c)
  <2>1. SentTo(h, pcb[h], app[h]) <= SentTo(h, m, c)
    <3>1. SndOK(h, p, a)
      BY <1>1 DEF HostInv, SndOK
    <3>2. SentTo(h, p, a) \in Nat /\ SentTo(h, p, a) <= EndOf(h, a)
      BY <1>1, <3>1, SentIs
    <3>3. SentTo(h, pcb[h], app[h]) = p.snd_nxt /\ SentTo(h, p, a) = p.snd_nxt
      BY <1>2 DEF SentTo, Live
    <3>4. CASE Live(m)
      <4>1. SentTo(h, m, c) = p.snd_nxt
        BY <1>7, <1>8, <1>10, <3>4 DEF SentTo
      <4> QED
        BY <3>2, <3>3, <4>1
    <3>5. CASE ~Live(m)
      BY <1>16, <3>2, <3>3, <3>5 DEF SentTo
    <3> QED
      BY <3>4, <3>5
  <2>2. a.wrote \in Nat
    BY <1>1, AppIs DEF AppTyped
  <2>3. app[h].wrote <= c.wrote /\ (app[h].shut => c.shut /\ c.wrote = app[h].wrote)
    BY <1>2, <1>6, <2>2
  <2>4. Receives(pcb[h]) /\ pcb[h].rcv_nxt <= m.rcv_nxt
    BY <1>2, <1>13 DEF Receives
  <2> QED
    BY <1>9, <2>1, <2>3, <2>4 DEF Advance
<1>19. Believes(h, m, c, q)
  <2> SUFFICES ASSUME Receives(q)
               PROVE  (Live(m) => m.lastack <= q.rcv_nxt) /\ (FinDone(m, c) => q.rcv_nxt = EndOf(h, c))
    BY DEF Believes
  <2>1. Live(m) => m.lastack <= q.rcv_nxt
    BY <1>3, <1>4, <1>7, <1>8, <1>10
  <2>2. FinDone(m, c) => q.rcv_nxt = EndOf(h, c)
    <3> HAVE FinDone(m, c)
    <3>1. m.state \in {"FIN_WAIT_2", "TIME_WAIT"}
      BY DEF FinDone
    <3>2. CASE p.state = "FIN_WAIT_2"
      BY <1>3, <1>16, <3>2 DEF FinDone
    <3>3. CASE Acks(i) /\ i.ackno = p.snd_nxt /\ p.snd_nxt = End(w)
      <4>1. EndOf(h, a) <= q.rcv_nxt
        BY <1>1, <1>4, <3>3
      <4> QED
        BY <1>3, <1>16, <4>1
    <3> QED
      BY <1>9, <3>1, <3>2, <3>3
  <2> QED
    BY <2>1, <2>2
<1> QED
  BY <1>6, <1>15, <1>17, <1>18, <1>19 DEF MidOK, g, q, b

(* The first RcvInv of a pcb: nothing was received but the SYN.            *)
LEMMA FreshRcv ==
  ASSUME NEW p \in Pcb, NEW a \in App, NEW st, st.base \in Nat, st.top \in Nat, st.base + 1 <= st.top,
         a.rcvd = << >>, ~a.eof, p.refused = << >>, ~p.refusedfin, p.ooseq = << >>,
         p.rcv_nxt = st.base + 1
  PROVE  RcvInv(p, a, st)
<1>1. Counting(a.rcvd, 0) /\ Counting(p.refused, Len(a.rcvd))
  BY DEF Counting
<1>2. Got(p, a) = 0 /\ ~GotFin(p, a)
  BY DEF Got, GotFin
<1>3. Bit(GotFin(p, a)) = 0
  BY <1>2 DEF Bit
<1>4. StreamQueue(st, p.ooseq) /\ Beyond(p.ooseq, p.rcv_nxt)
  BY DEF StreamQueue, Sorted, Beyond
<1>5. p.rcv_nxt = st.base + 1 + Got(p, a) + Bit(GotFin(p, a)) /\ st.base + 1 + Got(p, a) <= st.top
  BY <1>2, <1>3
<1> QED
  BY <1>1, <1>2, <1>4, <1>5 DEF RcvInv

(* SYN_SENT: the SYN|ACK makes the pcb known to its peer.                  *)
LEMMA SynSentMid ==
  ASSUME ConnInv, NEW h \in Hosts, NEW p, NEW a, Current(h, p, a), p.state = "SYN_SENT",
         NEW i \in net[h], NEW r, r.ev = "none", SynSentOutcome(p, i, Whole(h, a), r),
         NEW m, NEW c, Lands(a, r, m, c), m.ack = r.p.ack, m.unread = r.p.unread
  PROVE  MidOK(h, m, c, used)
<1> DEFINE g == Peer(h)
           q == pcb[g]
           b == app[g]
           st == SentPart(g, q, b)
           w == Whole(h, a)
<1>1. /\ p \in Pcb /\ a \in App /\ q \in Pcb /\ b \in App /\ g \in Hosts /\ i \in Packet
      /\ HostInv(h, p, a, used) /\ PairInv(p, a, g, q, b)
      /\ i.rst \/ PacketInv(g, q, b, used, i)
      /\ PartOf(st, g, b) /\ ISS[g] \in Nat /\ SndOK(g, q, b)
      /\ SentTo(g, q, b) \in Nat /\ SentTo(g, q, b) <= EndOf(g, b)
      /\ EndOf(g, b) \in Nat /\ DataTop(g, b) \in Nat /\ End(w) = EndOf(h, a)
  BY CurrentIs
<1>2. /\ p.state = pcb[h].state /\ p.rcv_nxt = pcb[h].rcv_nxt /\ p.snd_nxt = pcb[h].snd_nxt
      /\ p.lastack = pcb[h].lastack /\ a.wrote = app[h].wrote /\ a.shut = app[h].shut /\ h \in used
  BY DEF Current
<1>3. Receives(q) =>
        /\ p.lastack <= q.rcv_nxt /\ EndOf(h, a) \in Nat /\ q.rcv_nxt \in Nat
  BY CurrentHeard DEF Live
<1>4. Connecting(h, p, a) /\ Live(p)
  BY <1>1 DEF HostInv, Live
<1>5. AppInv(a, b)
  BY <1>1 DEF PairInv
<1>6. /\ m \in Pcb /\ c \in App /\ SameSnd(r.p, m) /\ SameCtl(r.p, m)
      /\ m.rcv_nxt = r.p.rcv_nxt /\ m.ooseq = r.p.ooseq
      /\ c.wrote = a.wrote /\ c.shut = a.shut
  BY Zenon DEF Lands
<1>7. m.state = r.p.state /\ m.snd_nxt = r.p.snd_nxt /\ m.lastack = r.p.lastack
  BY <1>6 DEF SameSnd, SameCtl
<1>8. /\ r.p \in Pcb /\ r.data = << >> /\ r.fin = FALSE
      /\ SndInv(r.p, w) /\ r.p.snd_nxt = p.snd_nxt /\ SameHeld(p, r.p) /\ r.p.ooseq = p.ooseq
      /\ \/ SameRcv(p, r.p) /\ SameCtl(p, r.p) /\ r.p.lastack = p.lastack /\ r.p.ack = p.ack
         \/ ~i.rst /\ Opened(p, i, w, r.p)
  BY Zenon DEF SynSentOutcome
<1>9. TakesNone(a, c) /\ SameHeld(r.p, m)
  BY <1>1, <1>8, NothingTaken
<1>10. c.rcvd = a.rcvd /\ c.eof = a.eof /\ m.refused = p.refused /\ m.refusedfin = p.refusedfin
       /\ m.ooseq = p.ooseq /\ m.snd_nxt = p.snd_nxt
  BY <1>6, <1>7, <1>8, <1>9, Zenon DEF TakesNone, SameHeld
<1>11. SndInv(m, w) /\ Whole(h, c) = w /\ EndOf(h, c) = EndOf(h, a)
  BY <1>6, <1>8, SndSame DEF Whole, DataTop, EndOf
<1>12. AppInv(c, b)
  BY <1>5, <1>9, NoneKeeps
<1>13. p.snd_nxt \in Nat /\ a.wrote \in Nat /\ p.lastack \in Nat /\ a.shut \in BOOLEAN
  BY <1>1, PcbIs, AppIs DEF SndTyped, AppTyped
<1>14. ~a.shut
  BY <1>1, <1>4 DEF HostInv, FinStates
<1> HIDE DEF g, q, b, st, w
<1>15. CASE SameRcv(p, r.p) /\ SameCtl(p, r.p) /\ r.p.lastack = p.lastack /\ r.p.ack = p.ack
  <2>1. m.state = "SYN_SENT" /\ m.lastack = p.lastack /\ m.ack = p.ack /\ m.unread = p.unread
        /\ m.rcv_nxt = p.rcv_nxt
    BY <1>6, <1>7, <1>15 DEF SameRcv, SameCtl
  <2>2. Connecting(h, m, c)
    BY <1>4, <1>10, <2>1, Zenon DEF Connecting
  <2>3. Live(m) /\ ~Receives(m)
    BY <2>1 DEF Live, Receives
  <2>4. HostMid(h, m, c, used)
    BY <1>2, <1>6, <1>11, <1>14, <2>1, <2>2, <2>3 DEF HostMid, Ready, FinStates
  <2>5. PairInv(m, c, g, q, b)
    BY <1>12, <2>1, <2>3 DEF PairInv, Handshaken
  <2>6. SentTo(h, pcb[h], app[h]) = p.snd_nxt /\ SentTo(h, m, c) = p.snd_nxt
    BY <1>2, <1>4, <1>10, <2>3 DEF SentTo, Live
  <2>7. Advance(h, pcb[h], app[h], m, c)
    BY <1>2, <1>6, <1>13, <2>3, <2>6 DEF Advance
  <2>8. Believes(h, m, c, q)
    BY <1>3, <2>1 DEF Believes, FinDone
  <2> QED
    BY <1>6, <2>4, <2>5, <2>7, <2>8 DEF MidOK, g, q, b
<1>16. CASE ~i.rst /\ Opened(p, i, w, r.p)
  <2>1. /\ i.ack /\ i.syn /\ i.ackno = w.base + 1 /\ m.lastack = i.ackno
        /\ m.state = "ESTABLISHED" /\ m.rcv_nxt = i.seq + 1
    BY <1>6, <1>7, <1>16 DEF Opened
  <2>2. PacketInv(g, q, b, used, i)
    BY <1>1, <1>16
  <2>3. /\ g \in used /\ i.seq = ISS[g] /\ i.seq + 1 <= SentTo(g, q, b)
        /\ q.state # "SYN_SENT" /\ (Receives(q) => i.ackno <= q.rcv_nxt)
    BY <2>1, <2>2 DEF PacketInv
  <2>4. IsStream(st) /\ st.base = ISS[g] /\ st.base \in Nat /\ st.top \in Nat
    BY <1>1 DEF PartOf, IsStream
  <2>5. st.base + 1 <= st.top
    <3>1. ISS[g] + 1 <= DataTop(g, b)
      BY <1>1, WholeIs
    <3>2. st.top \in {DataTop(g, b), SentTo(g, q, b)}
      BY DEF st, SentPart
    <3> QED
      BY <2>3, <2>4, <3>1, <3>2
  <2>6. RcvInv(m, c, st)
    <3>1. c.rcvd = << >> /\ ~c.eof /\ m.refused = << >> /\ ~m.refusedfin /\ m.ooseq = << >>
      BY <1>4, <1>10, Zenon DEF Connecting
    <3>2. m.rcv_nxt = st.base + 1
      BY <2>1, <2>3, <2>4
    <3> QED
      BY <1>6, <2>4, <2>5, <3>1, <3>2, FreshRcv
  <2>7. Live(m) /\ Receives(m)
    BY <2>1 DEF Live, Receives
  <2>8. HostMid(h, m, c, used)
    BY <1>2, <1>6, <1>11, <1>14, <2>1, <2>3, <2>7 DEF HostMid, Ready, FinStates, g
  <2>9. HeardOf(m, g, q, b)
    <3>1. m.rcv_nxt <= SentTo(g, q, b) /\ m.rcv_nxt = ISS[g] + 1
      BY <2>1, <2>3
    <3>2. HostInv(g, q, b, used) /\ Handshaken(q, pcb[h])
      BY InvOf DEF PairInv, g, q, b
    <3>3. q.state \in {"CLOSED", "SYN_RCVD"}
      BY <1>2, <2>3, <3>2 DEF Handshaken
    <3>4. Live(q) => q.lastack = ISS[g]
      BY <3>2, <3>3 DEF HostInv, Accepting, Live
    <3>5. ~FinDone(q, b)
      BY <3>3 DEF FinDone
    <3>6. Live(q) => q.lastack <= m.rcv_nxt
      BY <1>1, <3>1, <3>4
    <3> QED
      BY <3>1, <3>5, <3>6 DEF HeardOf
  <2>10. PairInv(m, c, g, q, b)
    BY <1>12, <2>3, <2>6, <2>9 DEF PairInv, Handshaken, st
  <2>11. SentTo(h, pcb[h], app[h]) = p.snd_nxt /\ SentTo(h, m, c) = p.snd_nxt
    BY <1>2, <1>4, <1>10, <2>7 DEF SentTo, Live
  <2>12. Advance(h, pcb[h], app[h], m, c)
    BY <1>2, <1>6, <1>13, <2>1, <2>11 DEF Advance
  <2>13. Believes(h, m, c, q)
    BY <2>1, <2>3 DEF Believes, FinDone
  <2> QED
    BY <1>6, <2>8, <2>10, <2>12, <2>13 DEF MidOK, g, q, b
<1> QED
  BY <1>8, <1>15, <1>16

(* tcp_process and the callbacks: where they end.                          *)
Results(h, r, m, c) ==
  /\ r.p \in Pcb /\ \A k \in r.out : AckOf(r.p, k)
  /\ r.ev = "none" => MidOK(h, m, c, used) /\ \A k \in r.out : AckOf(m, k)

(* tcp_process in any state, with the callbacks that follow.               *)
LEMMA ActiveResults ==
  ASSUME ConnInv, NEW h \in Hosts, NEW p, NEW a, Current(h, p, a), Live(p),
         NEW i \in net[h], p.refused = << >> \/ tcplen(i) = 0, NEW x, NEW r, r = tcp_process(p, i, x), NEW F
  PROVE  Results(h, r, Delivered(r, F), DeliveredApp(r, AcceptedApp(p, r, a), F))
<1> DEFINE st == SentPart(Peer(h), pcb[Peer(h)], app[Peer(h)])
           w == Whole(h, a)
           e == AcceptedApp(p, r, a)
           m == Delivered(r, F)
           c == DeliveredApp(r, e, F)
<1>1. p \in Pcb /\ a \in App /\ i \in Packet /\ HostInv(h, p, a, used) /\ IsStream(w)
  BY CurrentIs
<1>2. /\ e \in App /\ TakesNone(a, e) /\ e.wrote = a.wrote /\ e.shut = a.shut
      /\ p.state # "SYN_RCVD" \/ r.p.state = "SYN_RCVD" => e = a
  BY <1>1, AcceptedIs
<1> HIDE DEF e
<1>3. ASSUME r.p \in Pcb, r.data \in Seq(Nat), r.fin \in BOOLEAN
      PROVE  /\ Lands(a, r, m, c) /\ m.ack = r.p.ack /\ (~r.fin => m.unread = r.p.unread)
             /\ \A k \in r.out : AckOf(r.p, k) => AckOf(m, k)
  <2>1. /\ m \in Pcb /\ SameSnd(r.p, m) /\ SameCtl(r.p, m) /\ m.rcv_nxt = r.p.rcv_nxt
        /\ m.ooseq = r.p.ooseq /\ m.ack = r.p.ack /\ m.infr = r.p.infr
        /\ ~r.fin => m.unread = r.p.unread
        /\ IF r.data # << >> /\ "refuse" \in F THEN Refuses(m, r.data, r.fin) ELSE SameHeld(r.p, m)
    BY <1>3, DeliveredIs
  <2>2. /\ c \in App /\ c.wrote = e.wrote /\ c.shut = e.shut /\ c.open = e.open
        /\ IF r.data # << >> /\ "refuse" \in F THEN TakesNone(e, c) ELSE TakesIn(e, c, r.data, r.fin)
    BY <1>2, <1>3, DeliveredAppIs
  <2> HIDE DEF m, c
  <2>3. \/ TakesIn(a, c, r.data, r.fin) /\ SameHeld(r.p, m)
        \/ TakesNone(a, c) /\ Refuses(m, r.data, r.fin)
    BY <1>2, <2>1, <2>2, Zenon DEF TakesIn, TakesNone
  <2>4. c.wrote = a.wrote /\ c.shut = a.shut /\ (r.p.state = "SYN_RCVD" => c.open = a.open)
    BY <1>2, <2>2, Zenon
  <2>5. Lands(a, r, m, c)
    BY <2>1, <2>2, <2>3, <2>4, Zenon DEF Lands
  <2>6. \A k \in r.out : AckOf(r.p, k) => AckOf(m, k)
    BY <2>1 DEF AckOf, SameCtl
  <2> QED
    BY <2>1, <2>5, <2>6
<1> HIDE DEF m, c
<1>4. CASE p.state = "SYN_SENT"
  <2>1. SynSent(p, w)
    <3>1. Connecting(h, p, a) /\ SndInv(p, w)
      BY <1>1, <1>4 DEF HostInv
    <3>2. w.base = ISS[h]
      BY DEF Whole
    <3> QED
      BY <1>1, <1>4, <3>1, <3>2 DEF SynSent, Connecting
  <2>2. SynSentOutcome(p, i, w, r)
    BY <1>1, <2>1, SynSentIs
  <2>3. /\ r.p \in Pcb /\ r.data = << >> /\ r.fin = FALSE /\ \A k \in r.out : k \in Packet /\ k.rst
    BY <2>2, Zenon DEF SynSentOutcome
  <2>4. r.data \in Seq(Nat) /\ r.fin \in BOOLEAN
    <3>1. << >> \in Seq(Nat)
      OBVIOUS
    <3> QED
      BY <2>3, <3>1, Zenon
  <2>5. \A k \in r.out : AckOf(r.p, k)
    BY <2>3 DEF AckOf
  <2>6. /\ Lands(a, r, m, c) /\ m.ack = r.p.ack /\ m.unread = r.p.unread /\ \A k \in r.out : AckOf(m, k)
    BY <1>3, <2>3, <2>4, <2>5
  <2>7. r.ev = "none" => MidOK(h, m, c, used)
    BY <1>4, <2>2, <2>6, SynSentMid
  <2> QED
    BY <2>3, <2>5, <2>6, <2>7 DEF Results, m, c, e
<1>5. CASE p.state # "SYN_SENT"
  <2>1. Receives(p)
    BY <1>5 DEF Live, Receives
  <2>2. Ongoing(p, st, i, w) /\ (p.state = "SYN_RCVD" => End(w) = w.base + 1)
    BY <2>1, CurrentOngoing
  <2> HIDE DEF st, w
  <2>3. Outcome(p, i, w, st, r)
    BY <2>2, ProcessOutcome
  <2>4. r.p \in Pcb /\ \A k \in r.out : AckOf(r.p, k)
    BY <2>3 DEF Outcome
  <2>5. ASSUME r.ev = "none" PROVE MidOK(h, m, c, used) /\ \A k \in r.out : AckOf(m, k)
    <3>1. r.data \in Seq(Nat) /\ r.fin \in BOOLEAN
      BY <2>3, <2>5 DEF Outcome, Gains
    <3>2. Lands(a, r, m, c) /\ \A k \in r.out : AckOf(m, k)
      BY <1>3, <2>4, <3>1
    <3>3. MidOK(h, m, c, used)
      BY <2>1, <2>3, <2>5, <3>2, LandsMid DEF st, w
    <3> QED
      BY <3>2, <3>3
  <2> QED
    BY <2>4, <2>5 DEF Results, m, c, e
<1> QED
  BY <1>4, <1>5

(* Answers of a pcb that goes away.                                        *)
LEMMA AckHarmless ==
  ASSUME NEW p, NEW i, AckOf(p, i)
  PROVE  Harmless(i)
  BY DEF AckOf, Harmless

(* The pcb goes away while the application is e, with error err.           *)
LEMMA OverKeeps ==
  ASSUME ConnInv, NEW h \in Hosts, h \in used, NEW e \in App, e.wrote = app[h].wrote, e.shut = app[h].shut,
         AppInv(e, app[Peer(h)]), NEW err, NEW c, Over(e, err, c),
         Set(h, NoPcb), SetApp(h, c), Spent, used' = used,
         NEW out, \A k \in out : Harmless(k), \E i, F : Reply(h, i, F, out)
  PROVE  ConnInv'
<1>1. c \in App /\ TakesNone(e, c) /\ c.wrote = e.wrote /\ c.shut = e.shut
  BY OverIs
<1>2. AppInv(c, app[Peer(h)])
  BY <1>1, NoneKeeps
<1>3. c.wrote = app[h].wrote /\ (app[h].shut => c.shut)
  BY <1>1, Zenon
<1>4. StepOK(h, NoPcb, c, used, out)
  BY <1>1, <1>2, <1>3, GoneStep
<1>5. Becomes(h, NoPcb, c)
  BY DEF Becomes, Set, SetApp
<1> QED
  BY <1>4, <1>5, SameUsed

(* The cases of Processed: the pcb is over, or it goes on.                 *)
Ends(h, i, F, e, r) ==
  \E err \in {"none", "ERR_RST", "ERR_ABRT", "ERR_CLSD"} :
    /\ Set(h, NoPcb) /\ SetApp(h, [e EXCEPT !.open = FALSE, !.err = err])
    /\ \/ Reply(h, i, F, r.out)
       \/ Reply(h, i, F, r.out \cup {tcp_rst(r.p.snd_nxt, r.p.rcv_nxt)})
GoesOn(h, i, F, e, r) ==
  /\ r.ev = "none" /\ SetApp(h, DeliveredApp(r, e, F))
  /\ \E o \in Output(Delivered(r, F), F) : Set(h, o.p) /\ Reply(h, i, F, r.out \cup o.out)

(* There is no third case.                                                 *)
LEMMA ProcessedCases ==
  ASSUME NEW h, NEW i, NEW F, NEW e \in App, NEW r, Processed(h, i, F, e, r)
  PROVE  Ends(h, i, F, e, r) \/ GoesOn(h, i, F, e, r)
<1> DEFINE errs == {"none", "ERR_RST", "ERR_ABRT", "ERR_CLSD"}
           Done(err) == Set(h, NoPcb) /\ SetApp(h, [e EXCEPT !.open = FALSE, !.err = err])
           aborted == r.data # << >> /\ r.p.rxclosed
           more == IF r.p.state = "TIME_WAIT" THEN {} ELSE {tcp_rst(r.p.snd_nxt, r.p.rcv_nxt)}
<1>1. e.err \in errs /\ "ERR_RST" \in errs /\ "ERR_CLSD" \in errs /\ "ERR_ABRT" \in errs
  BY AppIs DEF AppTyped
<1>2. \/ Done("ERR_RST") /\ Reply(h, i, F, r.out)
      \/ Done(IF r.p.rxclosed THEN e.err ELSE "ERR_CLSD") /\ Reply(h, i, F, r.out)
      \/ Done("ERR_ABRT") /\ Reply(h, i, F, r.out)
      \/ /\ Done(IF r.p.state = "TIME_WAIT" THEN e.err ELSE "ERR_ABRT")
         /\ Reply(h, i, F, r.out \cup more)
      \/ GoesOn(h, i, F, e, r)
  BY Zenon DEF Processed, GoesOn
<1>3. (IF r.p.rxclosed THEN e.err ELSE "ERR_CLSD") \in errs
  BY <1>1
<1>4. (IF r.p.state = "TIME_WAIT" THEN e.err ELSE "ERR_ABRT") \in errs
  BY <1>1
<1>5. r.out \cup more = r.out \/ r.out \cup more = r.out \cup {tcp_rst(r.p.snd_nxt, r.p.rcv_nxt)}
  BY Zenon
<1>6. ASSUME NEW err \in errs, Done(err), Reply(h, i, F, r.out) \/ Reply(h, i, F, r.out \cup more)
      PROVE  Ends(h, i, F, e, r)
  <2> HIDE DEF more
  <2>1. \/ Reply(h, i, F, r.out)
        \/ Reply(h, i, F, r.out \cup {tcp_rst(r.p.snd_nxt, r.p.rcv_nxt)})
    BY <1>5, <1>6
  <2> QED
    BY <1>6, <2>1, Zenon DEF Ends
<1> HIDE DEF errs, Done, more
<1> QED
  BY <1>1, <1>2, <1>3, <1>4, <1>6

(* tcp_input with an active pcb.                                           *)
LEMMA ActiveKeeps ==
  ASSUME ConnInv, NEW h \in Hosts, NEW i \in net[h], NEW F, Spend(F), InputActive(h, i, F)
  PROVE  ConnInv'
<1> DEFINE p == IF Retries(pcb[h], F) THEN Taken(pcb[h]) ELSE pcb[h]
           a == IF Retries(pcb[h], F) THEN TakenApp(pcb[h], app[h]) ELSE app[h]
           r == tcp_process(p, i, "abort" \in F)
           e == AcceptedApp(p, r, a)
           m == Delivered(r, F)
           c == DeliveredApp(r, e, F)
<1>1. /\ Active(h) /\ (p.refused = << >> \/ tcplen(i) = 0) /\ used' = used
      /\ Processed(h, i, F, e, r)
  BY DEF InputActive
<1>2. Live(pcb[h]) /\ h \in used
  BY <1>1, UsedIs DEF Active, Live
<1>3. Current(h, p, a)
  <2>1. CASE Retries(pcb[h], F)
    BY <1>2, <2>1, TakenCurrent DEF Retries
  <2>2. CASE ~Retries(pcb[h], F)
    BY <1>2, <2>2, SameCurrent
  <2> QED
    BY <2>1, <2>2
<1> HIDE DEF p, a
<1>4. Live(p)
  BY <1>2, <1>3 DEF Current, Live
<1> DEFINE x == "abort" \in F
<1>5. r = tcp_process(p, i, x)
  OBVIOUS
<1> HIDE DEF x, r
<1>6. Results(h, r, m, c)
  BY <1>1, <1>3, <1>4, <1>5, ActiveResults
<1>7. p \in Pcb /\ a \in App /\ AppInv(a, app[Peer(h)]) /\ a.wrote = app[h].wrote /\ a.shut = app[h].shut
  BY <1>3 DEF Current, PairInv
<1>8. e \in App /\ TakesNone(a, e) /\ e.wrote = a.wrote /\ e.shut = a.shut
  BY <1>7, AcceptedIs
<1> HIDE DEF e
<1>9. AppInv(e, app[Peer(h)])
  BY <1>7, <1>8, NoneKeeps
<1>10. e.wrote = app[h].wrote /\ e.shut = app[h].shut
  BY <1>7, <1>8, Zenon
<1>11. Spent /\ "neterr" \notin F
  BY SpendIs DEF Spent
<1>12. CASE Ends(h, i, F, e, r)
  <2>1. PICK err \in {"none", "ERR_RST", "ERR_ABRT", "ERR_CLSD"} :
          /\ Set(h, NoPcb) /\ SetApp(h, [e EXCEPT !.open = FALSE, !.err = err])
          /\ \/ Reply(h, i, F, r.out)
             \/ Reply(h, i, F, r.out \cup {tcp_rst(r.p.snd_nxt, r.p.rcv_nxt)})
    BY <1>12 DEF Ends
  <2> DEFINE d == [e EXCEPT !.open = FALSE, !.err = err]
  <2>2. Over(e, err, d) /\ SetApp(h, d)
    BY <2>1 DEF Over
  <2> HIDE DEF d
  <2>3. \A k \in r.out \cup {tcp_rst(r.p.snd_nxt, r.p.rcv_nxt)} : Harmless(k)
    <3>1. r.p \in Pcb /\ \A k \in r.out : AckOf(r.p, k)
      BY <1>6 DEF Results
    <3>2. Harmless(tcp_rst(r.p.snd_nxt, r.p.rcv_nxt))
      BY <3>1, HarmlessAre
    <3>3. \A k \in r.out : Harmless(k)
      BY <3>1, AckHarmless
    <3> QED
      BY <3>2, <3>3
  <2>4. PICK out : Reply(h, i, F, out) /\ \A k \in out : Harmless(k)
    BY <2>1, <2>3
  <2>5. \E j, G : Reply(h, j, G, out)
    BY <2>4
  <2> QED
    BY <1>1, <1>2, <1>8, <1>9, <1>10, <1>11, <2>1, <2>2, <2>4, <2>5, OverKeeps
<1>13. CASE GoesOn(h, i, F, e, r)
  <2>1. r.ev = "none" /\ SetApp(h, c)
    BY <1>13 DEF GoesOn
  <2>2. MidOK(h, m, c, used) /\ \A k \in r.out : AckOf(m, k)
    BY <1>6, <2>1 DEF Results
  <2>3. PICK o \in Output(m, F) : Set(h, o.p) /\ Reply(h, i, F, r.out \cup o.out)
    BY <1>13 DEF GoesOn
  <2> DEFINE more == r.out
  <2> HIDE DEF m, c
  <2>4. o \in tcp_output(m)
    BY <1>11, <2>3, OutputPlain
  <2>5. \A k \in more : AckOf(m, k)
    BY <2>2
  <2> HIDE DEF more
  <2>6. StepOK(h, o.p, c, used, more \cup o.out)
    BY <2>2, <2>4, <2>5, AnswerStep
  <2> DEFINE all == more \cup o.out
  <2>7. StepOK(h, o.p, c, used, all) /\ \E j, G : Reply(h, j, G, all)
    BY <2>3, <2>6 DEF more
  <2> HIDE DEF all
  <2>8. Becomes(h, o.p, c)
    BY <2>1, <2>3 DEF Becomes, Set, SetApp
  <2> QED
    BY <1>1, <1>11, <2>7, <2>8, SameUsed
<1> QED
  BY <1>1, <1>8, <1>12, <1>13, ProcessedCases

(* tcp_input when nothing but a RST is sent.                               *)
LEMMA DropKeeps ==
  ASSUME ConnInv, NEW h \in Hosts, pcb' = pcb \/ Set(h, pcb[h]), app' = app, used' = used, Spent,
         NEW out, \A k \in out : k \in Packet /\ k.rst, \E i, F : Reply(h, i, F, out)
  PROVE  ConnInv'
<1>1. StepOK(h, pcb[h], app[h], used, out)
  BY StutterStep
<1>2. TypeOK
  BY DEF ConnInv
<1>3. Becomes(h, pcb[h], app[h])
  BY <1>2 DEF Becomes, TypeOK, Set
<1> QED
  BY <1>1, <1>3, SameUsed

(* The action tcp_input.                                                   *)
LEMMA InputKeepsConn ==
  ASSUME ConnInv, NEW h \in Hosts, NEW i, NEW F, tcp_input(h, i, F)
  PROVE  ConnInv'
<1>1. i \in net[h] /\ Spend(F)
  BY DEF tcp_input
<1>2. Spent /\ "neterr" \notin F
  BY <1>1, SpendIs DEF Spent
<1>3. i \in Packet
  BY <1>1, InvOf
<1>4. RstFor(i) \in Packet /\ RstFor(i).rst
  BY <1>3, RstForIs
<1>5. CASE InputNoPcb(h, i, F)
  <2> DEFINE out == IF ~i.rst /\ (h = "server" => i.ack) THEN {RstFor(i)} ELSE {}
  <2>1. Reply(h, i, F, out) /\ pcb' = pcb /\ app' = app /\ used' = used
    BY <1>5 DEF InputNoPcb
  <2>2. \A k \in out : k \in Packet /\ k.rst
    BY <1>4
  <2> HIDE DEF out
  <2>3. \E j, G : Reply(h, j, G, out)
    BY <2>1
  <2> QED
    BY <1>2, <2>1, <2>2, <2>3, DropKeeps
<1>6. CASE InputListen(h, i, F)
  <2> DEFINE m == tcp_listen_input(ISS[h], i)
  <2>1. /\ h = "server" /\ h \notin used /\ i.syn /\ ~i.rst /\ used' = used \cup {h} /\ app' = app
        /\ \E o \in Output(m, F) : Set(h, o.p) /\ Reply(h, i, F, o.out)
    BY <1>6 DEF InputListen
  <2>2. m = tcp_listen_input(ISS[h], i)
    OBVIOUS
  <2> HIDE DEF m
  <2>3. MidOK(h, m, app[h], used \cup {h})
    BY <1>1, <2>1, <2>2, ListenMid
  <2>4. PICK o \in Output(m, F) : Set(h, o.p) /\ Reply(h, i, F, o.out)
    BY <2>1
  <2>5. o \in tcp_output(m)
    BY <1>2, <2>4, OutputPlain
  <2>6. MidOK(h, m, app[h], used')
    BY <2>1, <2>3
  <2>7. StepOK(h, o.p, app[h], used', o.out)
    BY <2>5, <2>6, OutputStep
  <2>8. Becomes(h, o.p, app[h])
    BY <2>1, <2>4 DEF Becomes, Set
  <2>9. used \subseteq used' /\ used' \subseteq Hosts
    BY <2>1 DEF ConnInv, TypeOK
  <2>10. \E j, G : Reply(h, j, G, o.out)
    BY <2>4
  <2> QED
    BY <1>2, <2>7, <2>8, <2>9, <2>10, StepKeepsConn
<1>7. CASE InputTimeWait(h, i, F)
  <2> DEFINE m == tcp_ack_now(pcb[h])
  <2>1. /\ pcb[h].state = "TIME_WAIT" /\ app' = app /\ used' = used
        /\ \/ Set(h, pcb[h]) /\ Reply(h, i, F, {})
           \/ Set(h, pcb[h]) /\ Reply(h, i, F, {RstFor(i)})
           \/ \E o \in Output(m, F) : Set(h, o.p) /\ Reply(h, i, F, o.out)
    BY <1>7 DEF InputTimeWait
  <2>2. CASE Set(h, pcb[h]) /\ Reply(h, i, F, {})
    <3> DEFINE out == {}
    <3>1. (\A k \in out : k \in Packet /\ k.rst) /\ \E j, G : Reply(h, j, G, out)
      BY <2>2
    <3> HIDE DEF out
    <3> QED
      BY <1>2, <2>1, <2>2, <3>1, DropKeeps
  <2>3. CASE Set(h, pcb[h]) /\ Reply(h, i, F, {RstFor(i)})
    <3> DEFINE out == {RstFor(i)}
    <3>1. (\A k \in out : k \in Packet /\ k.rst) /\ \E j, G : Reply(h, j, G, out)
      BY <1>4, <2>3
    <3> HIDE DEF out
    <3> QED
      BY <1>2, <2>1, <2>3, <3>1, DropKeeps
  <2>4. CASE \E o \in Output(m, F) : Set(h, o.p) /\ Reply(h, i, F, o.out)
    <3>1. MidOK(h, m, app[h], used)
      BY <2>1, AckNowMid
    <3> HIDE DEF m
    <3>2. PICK o \in Output(m, F) : Set(h, o.p) /\ Reply(h, i, F, o.out)
      BY <2>4
    <3>3. o \in tcp_output(m)
      BY <1>2, <3>2, OutputPlain
    <3>4. StepOK(h, o.p, app[h], used, o.out)
      BY <3>1, <3>3, OutputStep
    <3>5. Becomes(h, o.p, app[h]) /\ \E j, G : Reply(h, j, G, o.out)
      BY <2>1, <3>2 DEF Becomes, Set
    <3> QED
      BY <1>2, <2>1, <3>4, <3>5, SameUsed
  <2> QED
    BY <2>1, <2>2, <2>3, <2>4
<1>8. CASE InputRefused(h, i, F)
  <2> DEFINE out == {}
  <2>1. Reply(h, i, F, out) /\ pcb' = pcb /\ app' = app /\ used' = used
    BY <1>8 DEF InputRefused
  <2>2. (\A k \in out : k \in Packet /\ k.rst) /\ \E j, G : Reply(h, j, G, out)
    BY <2>1
  <2> HIDE DEF out
  <2> QED
    BY <1>2, <2>1, <2>2, DropKeeps
<1>9. CASE InputActive(h, i, F)
  BY <1>1, <1>9, ActiveKeeps
<1> QED
  BY <1>5, <1>6, <1>7, <1>8, <1>9 DEF tcp_input

-----------------------------------------------------------------------------
(***************************************************************************)
(* The invariant and what follows from it.                                 *)
(***************************************************************************)

(* ip_output_if never fails: the hypothesis of the theorems.               *)
OutputSucceeds == \A b \in Budgets : b["neterr"] = 0

(* The first state: no pcbs, no packets.                                   *)
LEMMA InitConn ==
  ASSUME OutputSucceeds, Init
  PROVE  ConnInv
<1> DEFINE a0 == [open |-> FALSE, wrote |-> 0, rcvd |-> << >>, eof |-> FALSE, shut |-> FALSE, err |-> "none"]
<1>1. /\ \A h \in Hosts : pcb[h] = NoPcb /\ app[h] = a0 /\ net[h] = {}
      /\ used = {} /\ budget \in Budgets
      /\ pcb = [h \in Hosts |-> NoPcb] /\ app = [h \in Hosts |-> a0] /\ net = [h \in Hosts |-> {}]
  BY DEF Init
<1>2. a0 \in App
  <2>1. << >> \in Seq(Nat)
    OBVIOUS
  <2> QED
    BY <2>1 DEF App
<1>3. ~a0.open /\ ~a0.shut /\ a0.wrote = 0 /\ a0.rcvd = << >> /\ ~a0.eof
  OBVIOUS
<1> HIDE DEF a0
<1>4. TypeOK
  BY <1>1, <1>2, NoPcbIs, ConnAssumption DEF TypeOK
<1>5. budget["neterr"] = 0
  BY <1>1 DEF OutputSucceeds
<1>6. NoPcb.state = "CLOSED" /\ NoPcb.unsent = << >> /\ NoPcb.unacked = << >>
  BY DEF NoPcb
<1>7. ~Live(NoPcb) /\ ~Receives(NoPcb)
  BY <1>6 DEF Live, Receives
<1>8. ASSUME NEW h \in Hosts
      PROVE  /\ HostInv(h, pcb[h], app[h], used)
             /\ PairInv(pcb[h], app[h], Peer(h), pcb[Peer(h)], app[Peer(h)])
             /\ PacketsInv(h, pcb[h], app[h], used, net[Peer(h)])
  <2>1. Peer(h) \in Hosts
    BY Peers
  <2>2. pcb[h] = NoPcb /\ app[h] = a0 /\ app[Peer(h)] = a0 /\ net[Peer(h)] = {}
    BY <1>1, <2>1
  <2>3. HostInv(h, NoPcb, a0, used)
    BY <1>3, <1>6, <1>7, Zenon DEF HostInv, Unused
  <2>4. AppInv(a0, a0)
    BY <1>3 DEF AppInv, Counting
  <2>5. PairInv(NoPcb, a0, Peer(h), pcb[Peer(h)], a0)
    BY <1>6, <1>7, <2>4 DEF PairInv, Handshaken
  <2>6. PacketsInv(h, NoPcb, a0, used, {})
    BY DEF PacketsInv
  <2> QED
    BY <2>2, <2>3, <2>5, <2>6
<1> QED
  BY <1>4, <1>5, <1>8 DEF ConnInv

(* The API calls.                                                          *)
LEMMA CallKeepsConn ==
  ASSUME ConnInv, NEW h \in Hosts, NEW F, Call(h, F)
  PROVE  ConnInv'
<1>1. ASSUME NEW n \in 1 .. TCP_MSS, Write(h, n, F) PROVE ConnInv'
  BY <1>1, WriteKeeps
<1> QED
  BY <1>1, RecvedKeeps, ShutdownKeeps, CloseKeeps, CloseRstKeeps, AbortKeeps DEF Call

(* Every step keeps the invariant.                                         *)
LEMMA NextConn ==
  ASSUME ConnInv, [Next]_vars
  PROVE  ConnInv'
<1>1. CASE Connect
  BY <1>1, ConnectKeeps
<1>2. CASE \E h \in Hosts : \E F \in SUBSET May({"neterr"}) :
             Call(h, F) \/ tcp_slowtmr(h, F) \/ tcp_fasttmr(h, F)
  BY <1>2, CallKeepsConn, SlowKeeps, FastKeeps
<1>3. CASE \E h \in Hosts : \E i \in net[h] : Lose(h, i)
  BY <1>3, LoseKeeps
<1>4. CASE \E h \in Hosts : \E i \in net[h] :
             \E F \in SUBSET May(InputFaults) : tcp_input(h, i, F)
  BY <1>4, InputKeepsConn
<1>5. CASE UNCHANGED vars
  BY <1>5, Zenon DEF vars, ConnInv, TypeOK
<1> QED
  BY <1>1, <1>2, <1>3, <1>4, <1>5 DEF Next

(* The inductive invariant.                                                *)
LEMMA ConnInvariant ==
  ASSUME OutputSucceeds
  PROVE  Spec => []ConnInv
<1>1. Init => ConnInv
  BY InitConn
<1>2. ConnInv /\ [Next]_vars => ConnInv'
  BY NextConn
<1> QED
  BY <1>1, <1>2, PTL DEF Spec

-----------------------------------------------------------------------------
(* Type correctness of the connection: the fields of both pcbs, the        *)
(* applications and every packet on its way have their types.              *)
THEOREM ConnTypeCorrect ==
  ASSUME OutputSucceeds
  PROVE  Spec => []TypeOK
<1>1. ConnInv => TypeOK
  BY DEF ConnInv
<1> QED
  BY <1>1, ConnInvariant, PTL

(* StreamIntegrity: the receive callbacks hand over what the other         *)
(* application wrote, in order, without a gap or a repetition.             *)
THEOREM StreamsAreIntact ==
  ASSUME OutputSucceeds
  PROVE  Spec => []StreamIntegrity
<1>1. ConnInv => StreamIntegrity
  <2> SUFFICES ASSUME ConnInv, NEW h \in Hosts
               PROVE  /\ app[h].rcvd = [n \in 1 .. Len(app[h].rcvd) |-> n]
                      /\ Len(app[h].rcvd) <= app[Peer(h)].wrote
    BY DEF StreamIntegrity
  <2>1. app[h] \in App /\ AppInv(app[h], app[Peer(h)])
    BY InvOf DEF PairInv
  <2> DEFINE d == app[h].rcvd
  <2>2. d \in Seq(Nat)
    BY <2>1, AppIs DEF AppTyped
  <2>3. \A n \in 1 .. Len(d) : d[n] = n
    BY <2>1 DEF AppInv, Counting
  <2> HIDE DEF d
  <2>4. d = [n \in 1 .. Len(d) |-> n]
    BY <2>2, <2>3
  <2> QED
    BY <2>1, <2>4 DEF AppInv, d
<1> QED
  BY <1>1, ConnInvariant, PTL

(* EofMeansAll: the end of the stream is signalled after all of its data.  *)
THEOREM EofComesLast ==
  ASSUME OutputSucceeds
  PROVE  Spec => []EofMeansAll
<1>1. ConnInv => EofMeansAll
  BY InvOf DEF PairInv, AppInv, EofMeansAll
<1> QED
  BY <1>1, ConnInvariant, PTL

(* AcksAreTrue: nothing is taken for acknowledged that the other end has   *)
(* not received, nothing is received that was not sent, and FIN_WAIT_2,    *)
(* TIME_WAIT and the accept callback are right about the other end.        *)
THEOREM BeliefsAreTrue ==
  ASSUME OutputSucceeds
  PROVE  Spec => []AcksAreTrue
<1>1. ConnInv => AcksAreTrue
  <2> SUFFICES ASSUME ConnInv PROVE AcksAreTrue
    OBVIOUS
  <2>1. ASSUME NEW h \in Hosts, Synced(Peer(h))
        PROVE  /\ Active(h) => /\ pcb[h].lastack <= pcb[Peer(h)].rcv_nxt
                               /\ pcb[Peer(h)].rcv_nxt <= pcb[h].snd_nxt
               /\ pcb[h].state = "FIN_WAIT_2" \/ (pcb[h].state = "TIME_WAIT" /\ app[h].shut)
                    => pcb[Peer(h)].rcv_nxt = StreamEnd(h)
    <3>1. Receives(pcb[Peer(h)])
      BY <2>1 DEF Synced, Receives
    <3>2. HeardOf(pcb[Peer(h)], h, pcb[h], app[h])
      BY <3>1, InvOf DEF PairInv
    <3>3. EndOf(h, app[h]) = StreamEnd(h)
      BY DEF EndOf, DataTop, StreamEnd, Bit
    <3>4. Active(h) => Live(pcb[h]) /\ SentTo(h, pcb[h], app[h]) = pcb[h].snd_nxt
      BY DEF Active, Live, SentTo
    <3> QED
      BY <3>2, <3>3, <3>4, Zenon DEF HeardOf, FinDone
  <2>2. AcceptAfterHandshake
    <3>1. "server" \in Hosts /\ Peer("server") = "client"
      BY DEF Hosts, Peer
    <3>2. Handshaken(pcb["server"], pcb["client"])
      BY <3>1 DEF ConnInv, PairInv
    <3> QED
      BY <3>2 DEF Handshaken, AcceptAfterHandshake, Synced
  <2>3. FinReceived
    BY <2>1, Zenon DEF FinReceived
  <2> QED
    BY <2>1, <2>2, <2>3, Zenon DEF AcksAreTrue
<1> QED
  BY <1>1, ConnInvariant, PTL

(* The send queues of an active pcb.                                       *)
LEMMA QueuesOf ==
  ASSUME ConnInv, NEW h \in Hosts, Live(pcb[h])
  PROVE  LET w == Whole(h, app[h])
             una == pcb[h].unacked
             uns == pcb[h].unsent
             mid == First(uns, End(w))
         IN  /\ w.base \in Nat /\ End(w) \in Nat /\ w.base < End(w) /\ End(w) = EndOf(h, app[h])
             /\ w.base = ISS[h]
             /\ Linked(w, una, mid) /\ Linked(w, uns, End(w)) /\ mid \in Nat
             /\ First(una, mid) <= pcb[h].lastack /\ pcb[h].lastack \in Nat /\ First(una, mid) \in Nat
<1> DEFINE w == Whole(h, app[h])
           p == pcb[h]
           mid == First(p.unsent, End(w))
<1>1. p \in Pcb /\ app[h] \in App /\ HostInv(h, p, app[h], used)
  BY InvOf
<1>2. /\ IsStream(w) /\ w.base = ISS[h] /\ w.base < w.top /\ End(w) = EndOf(h, app[h])
      /\ ISS[h] \in Nat /\ EndOf(h, app[h]) \in Nat
  BY <1>1, WholeIs
<1>3. SndInv(p, w)
  BY <1>1 DEF HostInv
<1>4. p.snd_nxt \in Nat /\ p.lastack \in Nat
  BY <1>1, PcbIs DEF SndTyped
<1>5. w.top <= End(w) /\ w.top \in Nat
  BY <1>2, EndNat DEF IsStream
<1> HIDE DEF w, p
<1>6. Linked(w, p.unacked, mid) /\ Linked(w, p.unsent, End(w)) /\ First(p.unacked, mid) <= p.lastack
  BY <1>2, <1>3, <1>4, SendingIs DEF SndInv
<1>7. w.base \in Nat /\ End(w) \in Nat /\ w.base < End(w)
  BY <1>2, <1>5
<1>8. mid \in Nat
  BY <1>6, <1>7, FirstNat
<1> HIDE DEF mid
<1>9. First(p.unacked, mid) \in Nat
  BY <1>6, <1>7, <1>8, FirstNat
<1> QED
  BY <1>2, <1>4, <1>6, <1>7, <1>8, <1>9 DEF w, p, mid

(* NothingLost: whatever the other end still waits for is in unacked or    *)
(* unsent.                                                                 *)
THEOREM NothingIsLost ==
  ASSUME OutputSucceeds
  PROVE  Spec => []NothingLost
<1>1. ConnInv => NothingLost
  <2> SUFFICES ASSUME ConnInv, NEW h \in Hosts, Active(h), Synced(Peer(h)),
                      NEW n \in pcb[Peer(h)].rcv_nxt .. StreamEnd(h) - 1
               PROVE  Queued(h, n)
    BY DEF NothingLost
  <2> DEFINE w == Whole(h, app[h])
             una == pcb[h].unacked
             uns == pcb[h].unsent
             y == End(w)
             mid == First(uns, y)
  <2>1. Live(pcb[h])
    BY DEF Active, Live
  <2>2. /\ w.base \in Nat /\ y \in Nat /\ y = EndOf(h, app[h])
        /\ Linked(w, una, mid) /\ Linked(w, uns, y) /\ mid \in Nat
        /\ First(una, mid) <= pcb[h].lastack /\ pcb[h].lastack \in Nat /\ First(una, mid) \in Nat
    BY <2>1, QueuesOf
  <2>3. Receives(pcb[Peer(h)])
    BY DEF Synced, Receives
  <2>4. pcb[h].lastack <= pcb[Peer(h)].rcv_nxt /\ pcb[Peer(h)].rcv_nxt \in Nat
    <3>1. HeardOf(pcb[Peer(h)], h, pcb[h], app[h]) /\ pcb[Peer(h)] \in Pcb
      BY <2>3, InvOf DEF PairInv
    <3>2. pcb[Peer(h)].rcv_nxt \in Nat
      BY <3>1, PcbIs DEF RcvTyped
    <3> QED
      BY <2>1, <3>1, <3>2 DEF HeardOf
  <2>5. StreamEnd(h) = y
    BY <2>2 DEF EndOf, DataTop, StreamEnd, Bit
  <2>6. una \in Seq(Segment) /\ uns \in Seq(Segment)
    BY <2>2 DEF Linked
  <2> HIDE DEF w, una, uns, y, mid
  <2>7. n \in Nat /\ n < y /\ First(una, mid) <= n
    BY <2>2, <2>4, <2>5
  <2>8. CASE n < mid
    <3>1. \E j \in 1 .. Len(una) : una[j].seq <= n /\ n < EndSeq(una[j])
      BY <2>2, <2>7, <2>8, LinkedCovers
    <3>2. \E j \in DOMAIN una : una[j].seq <= n /\ n < EndSeq(una[j])
      BY <2>6, <3>1
    <3> QED
      BY <3>2 DEF Queued, una
  <2>9. CASE ~(n < mid)
    <3>1. First(uns, y) <= n
      BY <2>2, <2>7, <2>9 DEF mid
    <3>2. \E j \in 1 .. Len(uns) : uns[j].seq <= n /\ n < EndSeq(uns[j])
      BY <2>2, <2>7, <3>1, LinkedCovers
    <3>3. \E j \in DOMAIN uns : uns[j].seq <= n /\ n < EndSeq(uns[j])
      BY <2>6, <3>2
    <3> QED
      BY <3>3 DEF Queued, uns
  <2> QED
    BY <2>8, <2>9
<1> QED
  BY <1>1, ConnInvariant, PTL

(* A queue that starts at the SYN holds it first and nowhere else.         *)
LEMMA SynFirst ==
  ASSUME NEW w, w.base \in Nat, NEW q, NEW y \in Nat, Linked(w, q, y), w.base < y, First(q, y) <= w.base
  PROVE  q # << >> /\ q[1].syn /\ \A j \in 2 .. Len(q) : ~q[j].syn
<1>1. q # << >>
  BY DEF First
<1>2. /\ 1 \in 1 .. Len(q) /\ First(q, y) = q[1].seq /\ SegOK(w, q[1])
      /\ q[1].seq \in Nat /\ EndSeq(q[1]) \in Nat /\ q[1].seq < EndSeq(q[1])
  BY <1>1, FirstNat
<1>3. w.base <= q[1].seq /\ (~q[1].syn => w.base < q[1].seq)
  BY <1>2, SegFacts
<1>4. q[1].syn
  BY <1>2, <1>3
<1>5. ASSUME NEW j \in 2 .. Len(q) PROVE ~q[j].syn
  <2>1. j \in 1 .. Len(q) /\ 1 < j
    BY <1>2
  <2>2. EndSeq(q[1]) <= q[j].seq
    BY <1>2, <2>1, LinkedSorted
  <2>3. SegOK(w, q[j])
    BY <2>1 DEF Linked
  <2>4. q[j].seq \in Nat /\ (q[j].syn => q[j].seq = w.base)
    BY <2>3, SegFacts
  <2> QED
    BY <1>2, <1>3, <2>2, <2>4
<1> QED
  BY <1>1, <1>4, <1>5

(* QueuesInOrder: unacked and unsent are sorted, no two segments overlap,  *)
(* and a SYN comes first (the assertion "no segment to free").             *)
THEOREM QueuesAreInOrder ==
  ASSUME OutputSucceeds
  PROVE  Spec => []QueuesInOrder
<1>1. ASSUME ConnInv, NEW h \in Hosts
      PROVE  LET una == pcb[h].unacked
                 uns == pcb[h].unsent
             IN /\ \A q \in {una, uns} :
                     \A j, k \in DOMAIN q : j < k => EndSeq(q[j]) <= q[k].seq
                /\ \A j \in DOMAIN una, k \in DOMAIN uns : Disjoint(una[j], uns[k])
  <2> DEFINE w == Whole(h, app[h])
             una == pcb[h].unacked
             uns == pcb[h].unsent
             y == End(w)
             mid == First(uns, y)
  <2>1. CASE Live(pcb[h])
    <3>1. w.base \in Nat /\ y \in Nat /\ Linked(w, una, mid) /\ Linked(w, uns, y) /\ mid \in Nat
      BY <1>1, <2>1, QueuesOf
    <3> HIDE DEF w, y, una, uns
    <3>2. una \in Seq(Segment) /\ uns \in Seq(Segment)
      BY <3>1 DEF Linked
    <3>3. DOMAIN una = 1 .. Len(una) /\ DOMAIN uns = 1 .. Len(uns)
      BY <3>2
    <3>4. /\ \A j, k \in 1 .. Len(una) : j < k => EndSeq(una[j]) <= una[k].seq
          /\ \A j \in 1 .. Len(una) : EndSeq(una[j]) <= mid
      BY <3>1, LinkedSorted
    <3>5. /\ \A j, k \in 1 .. Len(uns) : j < k => EndSeq(uns[j]) <= uns[k].seq
          /\ \A k \in 1 .. Len(uns) : mid <= uns[k].seq
      BY <3>1, LinkedSorted
    <3>6. ASSUME NEW j \in 1 .. Len(una), NEW k \in 1 .. Len(uns) PROVE Disjoint(una[j], uns[k])
      <4>1. SegOK(w, una[j]) /\ SegOK(w, uns[k])
        BY <3>1 DEF Linked
      <4>2. EndSeq(una[j]) \in Nat /\ uns[k].seq \in Nat
        BY <3>1, <4>1, SegFacts
      <4>3. EndSeq(una[j]) <= mid /\ mid <= uns[k].seq
        BY <3>4, <3>5
      <4> HIDE DEF mid
      <4>4. EndSeq(una[j]) <= uns[k].seq
        BY <3>1, <4>2, <4>3
      <4> QED
        BY <4>4 DEF Disjoint
    <3> QED
      BY <3>3, <3>4, <3>5, <3>6, Zenon DEF una, uns
  <2>2. CASE ~Live(pcb[h])
    <3>1. una = << >> /\ uns = << >>
      BY <1>1, <2>2, InvOf DEF HostInv
    <3> QED
      BY <3>1
  <2> QED
    BY <2>1, <2>2
<1>2. ConnInv => SynIsFirst
  <2> SUFFICES ASSUME ConnInv, NEW h \in Hosts, pcb[h].state \in {"SYN_SENT", "SYN_RCVD"}
               PROVE  LET q == pcb[h].unacked \o pcb[h].unsent
                      IN q # << >> /\ q[1].syn /\ \A j \in 2 .. Len(q) : ~q[j].syn
    BY DEF SynIsFirst
  <2> DEFINE w == Whole(h, app[h])
             una == pcb[h].unacked
             uns == pcb[h].unsent
             y == End(w)
             mid == First(uns, y)
             q == una \o uns
  <2>1. Live(pcb[h])
    BY DEF Live
  <2>2. /\ w.base \in Nat /\ y \in Nat /\ w.base < y /\ w.base = ISS[h]
        /\ Linked(w, una, mid) /\ Linked(w, uns, y)
        /\ First(una, mid) <= pcb[h].lastack
    BY <2>1, QueuesOf
  <2>3. pcb[h].lastack = ISS[h]
    BY InvOf DEF HostInv, Connecting, Accepting
  <2> HIDE DEF w, una, uns, y
  <2>4. Linked(w, q, y) /\ First(q, y) = First(una, mid)
    BY <2>2, LinkedConcat
  <2> HIDE DEF mid, q
  <2>5. First(q, y) <= w.base
    BY <2>2, <2>3, <2>4
  <2>6. q # << >> /\ q[1].syn /\ \A j \in 2 .. Len(q) : ~q[j].syn
    BY <2>2, <2>4, <2>5, SynFirst
  <2> QED
    BY <2>6 DEF q, una, uns
<1>3. ConnInv => QueuesInOrder
  BY <1>1, <1>2, Zenon DEF QueuesInOrder
<1> QED
  BY <1>3, ConnInvariant, PTL
=============================================================================
