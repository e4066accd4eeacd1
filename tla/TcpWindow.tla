------------------------------ MODULE TcpWindow ------------------------------
(***************************************************************************)
(* Flow control of one direction of an established connection:             *)
(* tcp_update_rcv_ann_wnd and tcp_recved at the receiver; the window test   *)
(* of tcp_output, window updates, the persist timer and zero-window probes *)
(* at the sender (tcp.c, tcp_in.c, tcp_out.c).  TcpPcb leaves the windows   *)
(* open; this module leaves out what TcpPcb has.                           *)
(*                                                                         *)
(* Sequence numbers count the units of the stream from 0.  The network may *)
(* lose, reorder and delay packets.  A segment that arrives out of order   *)
(* is dropped, as when the ooseq queue is at its limit.                    *)
(***************************************************************************)
EXTENDS Integers, SequencesExt

CONSTANTS
    TCP_WND,    \* the receive buffer
    WndRange,   \* the number of values of a tcpwnd_size_t
    TCP_MSS,
    Size,       \* units the sender writes before it closes
    Reads,      \* the amounts the application passes to tcp_recved
    MaxFaults   \* packets lost, and timers that expire while packets are on their way

VARIABLES
    snd,        \* the pcb of the sender
    rcv,        \* the pcb of the receiver and the data its application has unread
    data, acks, \* packets on their way in each direction
    failed,     \* an LWIP_ASSERT of the receiver failed
    faults      \* how many so far

vars == <<snd, rcv, data, acks, failed, faults>>

ASSUME TcpWindowAssumption ==
    /\ TCP_MSS \in Nat \ {0} /\ TCP_WND \in Nat /\ TCP_WND >= TCP_MSS
    /\ WndRange \in Nat /\ TCP_WND < WndRange
    /\ Size \in Nat /\ Reads \subseteq Nat \ {0} /\ 1 \in Reads /\ MaxFaults \in Nat

Smaller(m, n) == IF m <= n THEN m ELSE n
Larger(m, n) == IF m >= n THEN m ELSE n

u16(n) == n % WndRange

TCP_WND_UPDATE_THRESHOLD == Smaller(TCP_WND \div 4, TCP_MSS * 4)

Segment == [seq : 0..Size, len : 0..TCP_MSS, fin : BOOLEAN]

TCP_TCPLEN(seg) == seg.len + (IF seg.fin THEN 1 ELSE 0)
End(seg) == seg.seq + TCP_TCPLEN(seg)

Init ==
    /\ snd = [lastack |-> 0, snd_nxt |-> 0, snd_lbb |-> 0, snd_wnd |-> TCP_WND,
              cwnd |-> Smaller(2 * TCP_MSS, TCP_WND),
              snd_wl2 |-> 0, unacked |-> <<>>, unsent |-> <<>>, persist |-> FALSE,
              rtime |-> FALSE, closed |-> FALSE]
    /\ rcv = [rcv_nxt |-> 0, rcv_wnd |-> TCP_WND, rcv_ann_wnd |-> TCP_WND,
              right |-> TCP_WND, ack |-> {}, unread |-> 0, fin |-> "no"]
    /\ data = {} /\ acks = {} /\ failed = FALSE /\ faults = 0

-------------------------------------------------------------------------------
(***************************************************************************)
(* The sender.  An operator that sends returns the pcb s and the packets.  *)
(***************************************************************************)
\* The segment fits the window.  The FIN is not counted.
Fits(s, seg, wnd) == seg.seq - s.lastack + seg.len <= wnd

\* tcp_do_output_nagle forbids the n-th unsent segment after those before it.
NagleHolds(s, n) ==
    /\ s.unacked # <<>> \/ n > 1
    /\ n = Len(s.unsent) /\ s.unsent[n].len < TCP_MSS
    /\ ~s.closed

SendFirst(s, n) ==
    LET sent == SubSeq(s.unsent, 1, n)
    IN  [s |-> [s EXCEPT !.unacked = @ \o sent,
                         !.unsent = SubSeq(@, n + 1, Len(@)),
                         !.snd_nxt = Max({@} \cup {End(seg) : seg \in ToSet(sent)}),
                         !.rtime = @ \/ n > 0],
         out |-> ToSet(sent)]

\* Mutant: no probing while the window is not quite closed.
StartsPersist_Never(s, wnd) == FALSE

\* The next segment does not fit and nothing is in flight that would be acknowledged.
StartsPersist(s, wnd) ==
    /\ s.unsent # <<>> /\ ~Fits(s, s.unsent[1], wnd)
    /\ wnd > 0 /\ wnd = s.snd_wnd /\ s.unacked = <<>>

tcp_output(s) ==
    LET wnd == Smaller(s.snd_wnd, s.cwnd)
        Goes(n) == \A j \in 1..n : Fits(s, s.unsent[j], wnd) /\ ~NagleHolds(s, j)
    IN  IF StartsPersist(s, wnd)
        THEN [s |-> [s EXCEPT !.persist = TRUE], out |-> {}]
        ELSE SendFirst(s, Max({n \in 0..Len(s.unsent) : Goes(n)}))

\* Every action of the sender ends with tcp_output.
Output(s) == \E r \in {tcp_output(s)} : snd' = r.s /\ data' = data \cup r.out

\* tcp_write: the next segment of the data.
Write ==
    /\ snd.snd_lbb < Size
    /\ LET n == Smaller(TCP_MSS, Size - snd.snd_lbb)
       IN  Output([snd EXCEPT !.snd_lbb = @ + n,
                              !.unsent = Append(@, [seq |-> snd.snd_lbb, len |-> n, fin |-> FALSE])])
    /\ UNCHANGED <<rcv, acks, failed, faults>>

\* tcp_close: the FIN goes on the last unsent segment or on one of its own.
Close ==
    /\ ~snd.closed /\ snd.snd_lbb = Size
    /\ LET fin == IF snd.unsent # <<>> THEN [snd.unsent EXCEPT ![Len(snd.unsent)].fin = TRUE]
                  ELSE <<[seq |-> snd.snd_lbb, len |-> 0, fin |-> TRUE]>>
       IN  Output([snd EXCEPT !.unsent = fin, !.closed = TRUE])
    /\ UNCHANGED <<rcv, acks, failed, faults>>

\* Mutant: any ACK changes the window, an old one too.
WindowUpdate_Any(s, a) == TRUE

WindowUpdate(s, a) ==
    s.snd_wl2 < a.ackno \/ (s.snd_wl2 = a.ackno /\ a.wnd > s.snd_wnd)

Updated(s, a) ==
    IF WindowUpdate(s, a)
    THEN [s EXCEPT !.snd_wnd = a.wnd, !.snd_wl2 = a.ackno, !.persist = a.wnd = 0]
    ELSE s

\* How many segments at the front of a queue ackno acknowledges, and what is left.
AckedPrefix(q, ackno) == Max({n \in 0..Len(q) : \A j \in 1..n : End(q[j]) <= ackno})
Unacked(q, ackno) == SubSeq(q, AckedPrefix(q, ackno) + 1, Len(q))

\* tcp_receive, the part about the ACK.  The congestion window grows in slow start.  A segment of which a probe has sent
\* the first unit stays in its queue until all of it is acknowledged.
Acked(s, a) ==
    IF a.ackno \in (s.lastack + 1)..s.snd_nxt
    THEN [s EXCEPT !.lastack = a.ackno,
                   !.cwnd = Smaller(@ + TCP_MSS, TCP_WND),
                   !.unacked = Unacked(@, a.ackno),
                   !.rtime = Unacked(s.unacked, a.ackno) # <<>>,
                   !.unsent = Unacked(@, a.ackno)]
    ELSE s

AckIn(a) ==
    /\ acks' = acks \ {a}
    /\ Output(Acked(Updated(snd, a), a))
    /\ UNCHANGED <<rcv, failed, faults>>

-------------------------------------------------------------------------------
(***************************************************************************)
(* The timers of the sender (tcp_slowtmr).                                 *)
(***************************************************************************)
\* A timer that expires while packets are on their way counts.
Expires ==
    \/ data = {} /\ acks = {} /\ rcv.ack = {} /\ UNCHANGED faults
    \/ faults < MaxFaults /\ faults' = faults + 1

Rto ==
    /\ snd.rtime /\ ~snd.persist /\ snd.unacked # <<>>
    /\ Expires
    /\ Output([snd EXCEPT !.unsent = snd.unacked \o @, !.unacked = <<>>,
                          !.cwnd = TCP_MSS])
    /\ UNCHANGED <<rcv, acks, failed>>

\* tcp_zero_window_probe: one unit of the first segment, or its FIN.
tcp_zero_window_probe ==
    LET seg == Head(snd.unacked \o snd.unsent)
    IN  /\ snd.persist /\ snd.unacked \o snd.unsent # <<>>
        /\ Expires
        /\ snd' = [snd EXCEPT !.snd_nxt = Larger(@, seg.seq + 1)]
        /\ data' = data \cup {[seq |-> seg.seq, len |-> Smaller(seg.len, 1), fin |-> seg.len = 0]}
        /\ UNCHANGED <<rcv, acks, failed>>

-------------------------------------------------------------------------------
(***************************************************************************)
(* The receiver.                                                           *)
(***************************************************************************)

\* How far the right edge would move, and the window to announce.
Inflation(r) ==
    LET edge == r.rcv_nxt + r.rcv_wnd
    IN  IF edge >= r.right + Smaller(TCP_WND \div 2, TCP_MSS) THEN edge - r.right ELSE 0

\* Mutant: a small window is announced as closed.
tcp_update_rcv_ann_wnd_Zero(r) ==
    [r EXCEPT !.rcv_ann_wnd =
        IF r.rcv_nxt + r.rcv_wnd >= r.right + Smaller(TCP_WND \div 2, TCP_MSS) THEN r.rcv_wnd ELSE 0]

tcp_update_rcv_ann_wnd(r) ==
    [r EXCEPT !.rcv_ann_wnd =
        IF r.rcv_nxt + r.rcv_wnd >= r.right + Smaller(TCP_WND \div 2, TCP_MSS) THEN r.rcv_wnd
        ELSE Larger(r.right - r.rcv_nxt, 0)]

\* tcp_send_empty_ack: announce the window.
Announce(r) ==
    /\ rcv' = [r EXCEPT !.ack = {}, !.right = r.rcv_nxt + r.rcv_ann_wnd]
    /\ acks' = acks \cup {[ackno |-> r.rcv_nxt, wnd |-> r.rcv_ann_wnd]}

\* tcp_output of the receiver: nothing but an ACK to send.
Answer(r) == IF "NOW" \in r.ack THEN Announce(r) ELSE rcv' = r /\ UNCHANGED acks

\* Every second segment is acknowledged at once.
tcp_ack(r) == [r EXCEPT !.ack = IF "DELAY" \in @ THEN {"NOW"} ELSE {"DELAY"}]

\* tcp_receive of the part of the segment that is new and fits into rcv_wnd.
\* Neither assertion about rcv_wnd may fail.
Received(r, seg) ==
    LET tcplen == Smaller(End(seg) - r.rcv_nxt, r.rcv_wnd)
        fin == seg.fin /\ r.rcv_nxt + tcplen = End(seg)
        q == tcp_update_rcv_ann_wnd([r EXCEPT !.rcv_nxt = @ + tcplen, !.rcv_wnd = @ - tcplen,
                                              !.unread = @ + tcplen - (IF fin THEN 1 ELSE 0)])
    IN  IF fin THEN [q EXCEPT !.ack = {"NOW"}, !.fin = "got",
                              !.rcv_wnd = IF @ = TCP_WND THEN @ ELSE @ + 1]
        ELSE tcp_ack(q)

\* Before or beyond the window, or out of order: only an ACK.
InOrder(r, seg) == seg.seq <= r.rcv_nxt /\ r.rcv_nxt < End(seg) /\ r.rcv_wnd > 0

DataIn(seg) ==
    /\ data' = data \ {seg}
    /\ IF InOrder(rcv, seg) THEN Answer(Received(rcv, seg)) ELSE Announce(rcv)
    /\ UNCHANGED <<snd, failed, faults>>

\* tcp_fasttmr sends the delayed ACK.
FastAck ==
    /\ "DELAY" \in rcv.ack
    /\ Announce(rcv)
    /\ UNCHANGED <<snd, data, failed, faults>>

\* Mutant: the application's call for the FIN may wrap the window.
Opened_Wraps(r, n) == LET sum == u16(r.rcv_wnd + n) IN IF sum > TCP_WND THEN TCP_WND ELSE sum

\* tcp_recved for n units: the sum is cut to TCP_WND; a sum that wrapped to 0
\* is an error unless the FIN's unit was already added (CLOSE_WAIT).
Opened(r, n) ==
    LET sum == u16(r.rcv_wnd + n)
    IN  IF sum > TCP_WND \/ (sum = 0 /\ r.fin # "no") THEN TCP_WND ELSE sum

tcp_recved(r, n) ==
    LET o == [r EXCEPT !.rcv_wnd = Opened(r, n)]
        q == tcp_update_rcv_ann_wnd(o)
    IN  IF Inflation(o) >= TCP_WND_UPDATE_THRESHOLD THEN [q EXCEPT !.ack = {"NOW"}] ELSE q

\* The application has processed n units.
Recved(n) ==
    /\ n <= rcv.unread
    /\ failed' = (failed \/ (rcv.fin = "no" /\ u16(rcv.rcv_wnd + n) = 0))
    /\ Answer(tcp_recved([rcv EXCEPT !.unread = @ - n], n))
    /\ UNCHANGED <<snd, data, faults>>

\* netconn_recv_data calls tcp_recved for the end of the stream as well, once.
RecvedFin ==
    /\ rcv.fin = "got" /\ rcv.unread = 0
    /\ Answer(tcp_recved([rcv EXCEPT !.fin = "read"], 1))
    /\ UNCHANGED <<snd, data, failed, faults>>

-------------------------------------------------------------------------------
Lose ==
    /\ faults < MaxFaults /\ faults' = faults + 1
    /\ \/ \E seg \in data : data' = data \ {seg} /\ UNCHANGED acks
       \/ \E a \in acks : acks' = acks \ {a} /\ UNCHANGED data
    /\ UNCHANGED <<snd, rcv, failed>>

Read == \/ \E n \in Reads : Recved(n)
        \/ RecvedFin

Deliver == \/ \E seg \in data : DataIn(seg)
           \/ \E a \in acks : AckIn(a)

Next ==
    \/ Write
    \/ Close
    \/ Deliver
    \/ Rto \/ tcp_zero_window_probe
    \/ FastAck
    \/ Read
    \/ Lose

Spec == Init /\ [][Next]_vars

(***************************************************************************)
(* The network delivers what it does not lose; the application writes,     *)
(* closes and reads; the TCP timers run (tcp_slowtmr, tcp_fasttmr).        *)
(***************************************************************************)
FairSpec ==
    /\ Spec
    /\ WF_vars(Deliver) /\ WF_vars(Read) /\ WF_vars(FastAck)
    /\ WF_vars(Write) /\ WF_vars(Close)
    /\ WF_vars(Rto) /\ WF_vars(tcp_zero_window_probe)

-------------------------------------------------------------------------------
(***************************************************************************)
(* Properties.                                                             *)
(***************************************************************************)
\* The types of the variables.
Sender == [lastack : Nat, snd_nxt : Nat, snd_lbb : 0..Size, snd_wnd : Nat, cwnd : Nat,
           snd_wl2 : Nat, unacked : Seq(Segment), unsent : Seq(Segment),
           persist : BOOLEAN, rtime : BOOLEAN, closed : BOOLEAN]

Receiver == [rcv_nxt : Nat, rcv_wnd : Nat, rcv_ann_wnd : Nat, right : Nat,
             ack : SUBSET {"DELAY", "NOW"}, unread : Nat, fin : {"no", "got", "read"}]

TypeOK ==
    /\ snd \in Sender /\ rcv \in Receiver
    /\ data \subseteq Segment /\ acks \subseteq [ackno : Nat, wnd : Nat]
    /\ failed \in BOOLEAN /\ faults \in Nat

\* Flow control works across both ends: the sender's idea of the window never
\* reaches beyond what the receiver announced (tcp_receive's window update with
\* stale and reordered ACKs), and nothing but the one unit of a zero-window
\* probe goes beyond it.
SenderInWindow ==
    /\ snd.lastack + snd.snd_wnd <= rcv.right
    /\ snd.snd_nxt <= Larger(rcv.right, rcv.rcv_nxt) + 1

\* The receiver's buffer is accounted for: what is unread and what is open add
\* up to TCP_WND (so the window is whole again when all is read), no more is
\* announced than is open, and the overflow assertion of tcp_recved holds.
WindowIsWhole ==
    /\ ~failed
    /\ rcv.rcv_wnd + rcv.unread = TCP_WND
    /\ rcv.rcv_ann_wnd <= rcv.rcv_wnd

\* FlowControl: SenderInWindow and WindowIsWhole, whatever is lost or late.
FlowControl == SenderInWindow /\ WindowIsWhole

\* The announced right edge never moves to the left: tcp_update_rcv_ann_wnd
\* keeps it constant until it can move it by a segment.
EdgeNeverShrinks == [][rcv'.right >= rcv.right]_vars

\* All that is written is read, with its end, although window updates and
\* probes may be lost: the persist timer runs whenever the sender waits for a window.
AllIsRead == <>(rcv.fin = "read" /\ rcv.rcv_nxt = Size + 1)
===============================================================================
