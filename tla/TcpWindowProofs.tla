--------------------------- MODULE TcpWindowProofs ---------------------------
(***************************************************************************)
(* Proofs about flow control, for every receive buffer, type of the window *)
(* field, MSS, amount of data, pattern of reads and number of faults.      *)
(*                                                                         *)
(* The argument: what the receiver announced (right) never moves back, so  *)
(* an ACK on its way, however late, ends at right or before it (AcksOK).   *)
(* The sender takes a window only together with the ACK it came with       *)
(* (snd_wl2 = lastack), so its own window ends there, too (SenderOK).  A   *)
(* zero-window probe sends one unit of the first queued segment; that it   *)
(* is the next unit the receiver expects needs the queues without gaps     *)
(* (Chained).                                                              *)
(***************************************************************************)
EXTENDS TcpWindow, BasicLemmas

(* All that was written and is not acknowledged.                           *)
Queue(s) == s.unacked \o s.unsent
WrittenEnd(s) == s.snd_lbb + (IF s.closed THEN 1 ELSE 0)

(* The queue starts at lastack or before it and goes on without a gap up   *)
(* to what was written.                                                    *)
Chained(s) ==
    LET q == Queue(s)
    IN  /\ \A i, j \in 1..Len(q) : i < j => End(q[i]) <= q[j].seq
        /\ \A i, j \in 1..Len(q) : j = i + 1 => q[j].seq = End(q[i])
        /\ q # <<>> => q[1].seq <= s.lastack /\ End(q[Len(q)]) = WrittenEnd(s)
        /\ q = <<>> => WrittenEnd(s) <= s.lastack
        /\ \A i \in 1..Len(q) : q[i].fin => s.closed
        /\ s.closed => s.snd_lbb = Size

(* The sender, for a receiver that announced up to right and has received  *)
(* up to nxt.                                                              *)
SenderOK(s, right, nxt) ==
    /\ Chained(s)
    /\ s.snd_wl2 = s.lastack
    /\ s.lastack + s.snd_wnd <= right
    /\ s.lastack <= nxt /\ nxt <= s.snd_nxt
    /\ s.snd_nxt <= Larger(right, nxt) + 1

(* The receiver's window and what it announces.                            *)
ReceiverOK(r) ==
    /\ r.rcv_wnd + r.unread = TCP_WND
    /\ r.rcv_ann_wnd <= r.rcv_wnd
    /\ r.right <= r.rcv_nxt + r.rcv_ann_wnd

(* Packets on their way: data was sent, windows were announced.            *)
DataOK(D, s) == \A seg \in D : End(seg) <= s.snd_nxt
AcksOK(A, right, nxt) == \A a \in A : a.ackno + a.wnd <= right /\ a.ackno <= nxt

IInv ==
    /\ TypeOK
    /\ SenderOK(snd, rcv.right, rcv.rcv_nxt)
    /\ ReceiverOK(rcv)
    /\ DataOK(data, snd)
    /\ AcksOK(acks, rcv.right, rcv.rcv_nxt)
    /\ ~failed

------------------------------------------------------------------------------
(* End of a segment is a natural number and not before its start.          *)
LEMMA EndIsNat ==
    ASSUME NEW seg \in Segment
    PROVE  End(seg) \in Nat /\ End(seg) >= seg.seq /\ End(seg) <= seg.seq + seg.len + 1
    BY TcpWindowAssumption DEF End, TCP_TCPLEN, Segment

(* Sending moves a prefix of unsent to unacked and leaves the queue as it  *)
(* is; snd_nxt reaches the end of what was sent and no further.            *)
LEMMA SendFirstOK ==
    ASSUME NEW s \in Sender, NEW n \in 0..Len(s.unsent), NEW b \in Nat,
           \A j \in 1..n : End(s.unsent[j]) <= b
    PROVE  LET r == SendFirst(s, n)
           IN  /\ r.s \in Sender
               /\ Queue(r.s) = Queue(s)
               /\ r.s.lastack = s.lastack /\ r.s.snd_wl2 = s.snd_wl2
               /\ r.s.snd_wnd = s.snd_wnd /\ r.s.snd_lbb = s.snd_lbb /\ r.s.closed = s.closed
               /\ s.snd_nxt <= r.s.snd_nxt /\ r.s.snd_nxt <= Larger(s.snd_nxt, b)
               /\ r.out \subseteq Segment
               /\ \A seg \in r.out : End(seg) <= r.s.snd_nxt
<1> DEFINE sent == SubSeq(s.unsent, 1, n)
           ends == {s.snd_nxt} \cup {End(seg) : seg \in ToSet(sent)}
           nxt == Max(ends)
<1>1. s.unsent \in Seq(Segment) /\ s.unacked \in Seq(Segment) /\ s.snd_nxt \in Nat
  BY DEF Sender
<1>2. sent \in Seq(Segment) /\ Len(sent) = n /\ \A j \in 1..n : sent[j] = s.unsent[j]
  BY <1>1
<1>3. ToSet(sent) \subseteq Segment
  BY <1>2 DEF ToSet
<1>4. \A seg \in ToSet(sent) : End(seg) \in Nat /\ End(seg) <= b
  BY <1>2, <1>3, EndIsNat DEF ToSet
<1>5. ends \subseteq 0..Larger(s.snd_nxt, b) /\ ends # {} /\ Larger(s.snd_nxt, b) \in Nat
  BY <1>1, <1>4 DEF Larger
<1>6. nxt \in ends /\ \A y \in ends : nxt >= y
  BY <1>5, MaxIsGreatest
<1>7. nxt \in Nat /\ s.snd_nxt <= nxt /\ nxt <= Larger(s.snd_nxt, b)
  BY <1>5, <1>6
<1>8. \A seg \in ToSet(sent) : End(seg) <= nxt
  BY <1>6
<1> DEFINE rest == SubSeq(s.unsent, n + 1, Len(s.unsent))
<1>9. rest \in Seq(Segment) /\ s.unacked \o sent \in Seq(Segment)
  BY <1>1, <1>2
<1>10. sent \o rest = s.unsent
  BY <1>1, CutInTwo, Zenon
<1> HIDE DEF sent, ends, nxt, rest
<1>11. (s.unacked \o sent) \o rest = s.unacked \o s.unsent
  <2> DEFINE u == s.unacked
  <2>1. u \in Seq(Segment) /\ sent \in Seq(Segment) /\ rest \in Seq(Segment)
    BY <1>1, <1>2, <1>9
  <2> HIDE DEF u
  <2>2. (u \o sent) \o rest = u \o (sent \o rest)
    BY <2>1, ConcatAssociative
  <2> QED
    BY <2>2, <1>10 DEF u
<1> DEFINE rt == s.rtime \/ n > 0
           t == [s EXCEPT !.unacked = s.unacked \o sent, !.unsent = rest, !.snd_nxt = nxt,
                          !.rtime = rt]
<1>12. SendFirst(s, n) = [s |-> t, out |-> ToSet(sent)]
  BY DEF SendFirst, sent, ends, nxt, rest
<1>13. rt \in BOOLEAN
  OBVIOUS
<1> HIDE DEF rt
<1>14. t \in Sender
  BY <1>7, <1>9, <1>13 DEF Sender
<1>15. /\ t.unacked = s.unacked \o sent /\ t.unsent = rest /\ t.snd_nxt = nxt
       /\ t.lastack = s.lastack /\ t.snd_wl2 = s.snd_wl2
       /\ t.snd_wnd = s.snd_wnd /\ t.snd_lbb = s.snd_lbb /\ t.closed = s.closed
  BY DEF Sender
<1> HIDE DEF t
<1>16. SendFirst(s, n).s = t /\ SendFirst(s, n).out = ToSet(sent)
  BY <1>12
<1>17. Queue(t) = Queue(s)
  BY <1>11, <1>15 DEF Queue
<1> QED
  BY <1>3, <1>7, <1>8, <1>14, <1>15, <1>16, <1>17

(* A pcb of the sender after tcp_output: the queue and the window are the  *)
(* same, and what was sent is within the window.                           *)
SameButSent(s, t, right) ==
    /\ Queue(t) = Queue(s)
    /\ t.lastack = s.lastack /\ t.snd_wl2 = s.snd_wl2 /\ t.snd_wnd = s.snd_wnd
    /\ t.snd_lbb = s.snd_lbb /\ t.closed = s.closed
    /\ s.snd_nxt <= t.snd_nxt /\ t.snd_nxt <= Larger(s.snd_nxt, right + 1)

(* tcp_output sends what the window allows and one unit more at most.      *)
LEMMA OutputOK ==
    ASSUME NEW s \in Sender, NEW right \in Nat, s.lastack + s.snd_wnd <= right
    PROVE  LET r == tcp_output(s)
           IN  /\ r.s \in Sender
               /\ SameButSent(s, r.s, right)
               /\ r.out \subseteq Segment
               /\ \A seg \in r.out : End(seg) <= r.s.snd_nxt
<1> DEFINE wnd == Smaller(s.snd_wnd, s.cwnd)
           Goes(n) == \A j \in 1..n : Fits(s, s.unsent[j], wnd) /\ ~NagleHolds(s, j)
           G == {n \in 0..Len(s.unsent) : Goes(n)}
           m == Max(G)
<1>1. CASE StartsPersist(s, wnd)
  <2> DEFINE t == [s EXCEPT !.persist = TRUE]
  <2>1. tcp_output(s) = [s |-> t, out |-> {}]
    BY <1>1 DEF tcp_output
  <2>2. /\ t \in Sender
        /\ t.unacked = s.unacked /\ t.unsent = s.unsent /\ t.snd_nxt = s.snd_nxt
        /\ t.lastack = s.lastack /\ t.snd_wl2 = s.snd_wl2
        /\ t.snd_wnd = s.snd_wnd /\ t.snd_lbb = s.snd_lbb /\ t.closed = s.closed
    BY DEF Sender
  <2>3. s.snd_nxt \in Nat
    BY DEF Sender
  <2> HIDE DEF t
  <2>4. tcp_output(s).s = t /\ tcp_output(s).out = {}
    BY <2>1
  <2>5. SameButSent(s, t, right)
    BY <2>2, <2>3 DEF SameButSent, Queue, Larger
  <2> QED
    BY <2>2, <2>4, <2>5
<1>2. CASE ~StartsPersist(s, wnd)
  <2>1. tcp_output(s) = SendFirst(s, m)
    BY <1>2 DEF tcp_output
  <2>2. s.unsent \in Seq(Segment) /\ Len(s.unsent) \in Nat
    BY DEF Sender
  <2>3. 0 \in G
    BY <2>2
  <2>4. m \in G
    BY <2>2, <2>3, MaxIsGreatest
  <2>5. m \in 0..Len(s.unsent)
    BY <2>4
  <2>6. \A j \in 1..m : Fits(s, s.unsent[j], wnd)
    BY <2>4
  <2>7. s.lastack \in Nat /\ s.snd_wnd \in Nat /\ s.cwnd \in Nat /\ wnd <= s.snd_wnd /\ wnd \in Nat
    BY DEF Sender, Smaller
  <2> HIDE DEF m, G, wnd
  <2>8. \A j \in 1..m : End(s.unsent[j]) <= right + 1
    <3> TAKE j \in 1..m
    <3>1. s.unsent[j] \in Segment
      BY <2>2, <2>5
    <3>2. s.unsent[j].seq \in Nat /\ s.unsent[j].len \in Nat
      BY <3>1, TcpWindowAssumption DEF Segment
    <3>3. s.unsent[j].seq - s.lastack + s.unsent[j].len <= wnd
      BY <2>6 DEF Fits
    <3>4. End(s.unsent[j]) \in Nat /\ End(s.unsent[j]) <= s.unsent[j].seq + s.unsent[j].len + 1
      BY <3>1, EndIsNat
    <3> QED
      BY <3>2, <3>3, <3>4, <2>7
  <2>9. right + 1 \in Nat
    OBVIOUS
  <2> QED
    BY <2>1, <2>5, <2>8, <2>9, SendFirstOK DEF SameButSent
<1> QED
  BY <1>1, <1>2

(* tcp_output keeps the queues chained and the sender within its window.   *)
LEMMA SentOK ==
    ASSUME NEW s \in Sender, NEW t \in Sender, NEW right \in Nat, NEW nxt \in Nat,
           SenderOK(s, right, nxt), SameButSent(s, t, right)
    PROVE  SenderOK(t, right, nxt)
<1>1. Chained(t)
  BY DEF SenderOK, SameButSent, Chained, WrittenEnd
<1>2. s.snd_nxt \in Nat /\ t.snd_nxt \in Nat /\ s.lastack \in Nat
  BY DEF Sender
<1> QED
  BY <1>1, <1>2 DEF SenderOK, SameButSent, Larger

(* The end of the queue, as acknowledged by ackno: a suffix of it.         *)
LEMMA AckedPrefixOK ==
    ASSUME NEW q \in Seq(Segment), NEW ackno \in Nat
    PROVE  LET n == AckedPrefix(q, ackno)
           IN  /\ n \in 0..Len(q)
               /\ \A j \in 1..n : End(q[j]) <= ackno
               /\ n < Len(q) => End(q[n + 1]) > ackno
<1> DEFINE A == {n \in 0..Len(q) : \A j \in 1..n : End(q[j]) <= ackno}
           m == Max(A)
<1>1. 0 \in A /\ Len(q) \in Nat
  OBVIOUS
<1>2. m \in A /\ \A y \in A : m >= y
  <2>1. A \subseteq 0..Len(q)
    OBVIOUS
  <2> HIDE DEF A
  <2> QED
    BY <1>1, <2>1, MaxIsGreatest
<1>3. m + 1 \notin A
  BY <1>2
<1>4. m < Len(q) => End(q[m + 1]) > ackno
  <2> SUFFICES ASSUME m < Len(q), ~(End(q[m + 1]) > ackno)
               PROVE  FALSE
    OBVIOUS
  <2>1. m \in 0..Len(q) /\ \A j \in 1..m : End(q[j]) <= ackno
    BY <1>2
  <2>2. q[m + 1] \in Segment
    BY <2>1
  <2>3. End(q[m + 1]) <= ackno
    BY <2>2, EndIsNat
  <2>4. m + 1 \in 0..Len(q)
    BY <2>1
  <2>5. \A j \in 1..(m + 1) : End(q[j]) <= ackno
    BY <2>1, <2>3
  <2> QED
    BY <1>3, <2>4, <2>5
<1> QED
  BY <1>2, <1>4 DEF AckedPrefix

(* What an ACK leaves of the queue: its end from position k + 1 on, where  *)
(* all before was acknowledged.                                            *)
Leaves(q, r, k, ackno) ==
    /\ k \in 0..Len(q)
    /\ r \in Seq(Segment) /\ Len(r) = Len(q) - k
    /\ \A i \in 1..Len(r) : r[i] = q[k + i]
    /\ \A j \in 1..k : End(q[j]) <= ackno

(* The ACK goes over unacked first and over unsent next; when a segment is *)
(* left in unacked nothing of unsent goes.                                 *)
LEMMA QueueAfterAck ==
    ASSUME NEW U \in Seq(Segment), NEW V \in Seq(Segment), NEW ackno \in Nat,
           LET q == U \o V
           IN  \A i, j \in 1..Len(q) : i < j => End(q[i]) <= q[j].seq
    PROVE  \E k \in Nat : Leaves(U \o V, Unacked(U, ackno) \o Unacked(V, ackno), k, ackno)
<1> DEFINE q == U \o V
           n == AckedPrefix(U, ackno)
           m == AckedPrefix(V, ackno)
           r == Unacked(U, ackno) \o Unacked(V, ackno)
<1>1. /\ n \in 0..Len(U) /\ \A j \in 1..n : End(U[j]) <= ackno
      /\ n < Len(U) => End(U[n + 1]) > ackno
  BY AckedPrefixOK
<1>2. /\ m \in 0..Len(V) /\ \A j \in 1..m : End(V[j]) <= ackno
      /\ m < Len(V) => End(V[m + 1]) > ackno
  BY AckedPrefixOK
<1> HIDE DEF n, m
<1>3. r = SubSeq(U, n + 1, Len(U)) \o SubSeq(V, m + 1, Len(V))
  BY DEF Unacked, n, m
<1>4. /\ q \in Seq(Segment) /\ Len(q) = Len(U) + Len(V)
      /\ \A i \in 1..Len(U) : q[i] = U[i]
      /\ \A i \in 1..Len(V) : q[Len(U) + i] = V[i]
  OBVIOUS
<1>5. \A i, j \in 1..Len(q) : i < j => End(q[i]) <= q[j].seq
  OBVIOUS
<1> DEFINE u == SubSeq(U, n + 1, Len(U))
           v == SubSeq(V, m + 1, Len(V))
<1>6. u \in Seq(Segment) /\ Len(u) = Len(U) - n /\ \A i \in 1..Len(u) : u[i] = U[n + i]
  BY <1>1, Suffix
<1>7. v \in Seq(Segment) /\ Len(v) = Len(V) - m /\ \A i \in 1..Len(v) : v[i] = V[m + i]
  BY <1>2, Suffix
<1> HIDE DEF q, u, v
<1>8. r \in Seq(Segment) /\ Len(r) = Len(u) + Len(v)
      /\ \A i \in 1..Len(r) : r[i] = IF i <= Len(u) THEN u[i] ELSE v[i - Len(u)]
  BY <1>3, <1>6, <1>7, SMTT(30) DEF u, v
<1> HIDE DEF r
<1>9. CASE n < Len(U)
  <2>1. m = 0
    <3> SUFFICES ASSUME m >= 1 PROVE FALSE
      BY <1>2
    <3>1. V[1] \in Segment /\ q[Len(U) + 1] = V[1] /\ q[n + 1] = U[n + 1]
      BY <1>1, <1>2, <1>4, <1>9
    <3>2. End(q[n + 1]) <= q[Len(U) + 1].seq
      BY <1>1, <1>2, <1>4, <1>5, <1>9
    <3>3. End(V[1]) <= ackno /\ End(U[n + 1]) > ackno
      BY <1>1, <1>2, <1>9
    <3>4. End(V[1]) >= V[1].seq /\ End(V[1]) \in Nat /\ V[1].seq \in Nat
      BY <3>1, EndIsNat DEF Segment
    <3>5. U[n + 1] \in Segment /\ End(U[n + 1]) \in Nat
      BY <1>1, <1>9, EndIsNat
    <3> QED
      BY <3>1, <3>2, <3>3, <3>4, <3>5
  <2>2. n \in 0..Len(q) /\ Len(r) = Len(q) - n
    BY <1>1, <1>4, <1>6, <1>7, <1>8, <2>1
  <2>3. \A j \in 1..n : End(q[j]) <= ackno
    BY <1>1, <1>4
  <2>4. \A i \in 1..Len(r) : r[i] = q[n + i]
    <3> TAKE i \in 1..Len(r)
    <3>1. CASE i <= Len(u)
      <4>1. r[i] = u[i] /\ i \in 1..Len(u)
        BY <1>6, <1>7, <1>8, <3>1
      <4>2. u[i] = U[n + i] /\ n + i \in 1..Len(U)
        BY <1>1, <1>6, <4>1
      <4> QED
        BY <1>4, <4>1, <4>2
    <3>2. CASE i > Len(u)
      <4> DEFINE k == i - Len(u)
      <4>1. r[i] = v[k] /\ k \in 1..Len(v)
        BY <1>6, <1>7, <1>8, <3>2
      <4>2. v[k] = V[k] /\ k \in 1..Len(V)
        BY <1>2, <1>7, <2>1, <4>1
      <4>3. n + i = Len(U) + k
        BY <1>1, <1>6
      <4> QED
        BY <1>4, <4>1, <4>2, <4>3
    <3> QED
      BY <1>6, <3>1, <3>2
  <2>5. Leaves(q, r, n, ackno)
    BY <1>8, <2>2, <2>3, <2>4 DEF Leaves
  <2> QED
    BY <1>1, <2>5 DEF q, r
<1>10. CASE n = Len(U)
  <2>1. n + m \in 0..Len(q) /\ Len(r) = Len(q) - (n + m) /\ Len(u) = 0
    BY <1>1, <1>2, <1>4, <1>6, <1>7, <1>8, <1>10
  <2>2. \A i \in 1..Len(r) : r[i] = q[n + m + i]
    <3> TAKE i \in 1..Len(r)
    <3>1. r[i] = v[i] /\ i \in 1..Len(v)
      BY <1>7, <1>8, <2>1
    <3>2. v[i] = V[m + i] /\ m + i \in 1..Len(V)
      BY <1>2, <1>7, <3>1
    <3>3. n + m + i = Len(U) + (m + i)
      BY <1>1, <1>2, <1>10
    <3> QED
      BY <1>4, <3>1, <3>2, <3>3
  <2>3. \A j \in 1..(n + m) : End(q[j]) <= ackno
    <3> TAKE j \in 1..(n + m)
    <3>1. CASE j <= n
      BY <1>1, <1>2, <1>4, <3>1
    <3>2. CASE j > n
      <4> DEFINE k == j - n
      <4>1. k \in 1..m /\ k \in 1..Len(V) /\ j = Len(U) + k
        BY <1>1, <1>2, <1>10, <3>2
      <4>2. q[j] = V[k]
        BY <1>4, <4>1
      <4> QED
        BY <1>2, <4>1, <4>2
    <3> QED
      BY <1>1, <1>2, <3>1, <3>2
  <2>4. Leaves(q, r, n + m, ackno)
    BY <1>8, <2>1, <2>2, <2>3 DEF Leaves
  <2> QED
    BY <1>1, <1>2, <2>4 DEF q, r
<1> QED
  BY <1>1, <1>9, <1>10

(* What is left of a chained queue is chained again, from ackno on.        *)
LEMMA ChainedAfterAck ==
    ASSUME NEW s \in Sender, NEW t \in Sender, Chained(s), t.lastack \in Nat,
           s.lastack <= t.lastack,
           t.snd_lbb = s.snd_lbb, t.closed = s.closed,
           NEW k \in Nat, Leaves(Queue(s), Queue(t), k, t.lastack)
    PROVE  Chained(t)
<1> DEFINE q == Queue(s)
           r == Queue(t)
<1>1. s.lastack \in Nat /\ s.snd_lbb \in Nat /\ WrittenEnd(s) \in Nat /\ WrittenEnd(t) = WrittenEnd(s)
  BY TcpWindowAssumption, SMTT(30) DEF Sender, WrittenEnd
<1>2. q \in Seq(Segment)
  BY DEF Sender, Queue
<1>3. /\ k \in 0..Len(q) /\ r \in Seq(Segment) /\ Len(r) = Len(q) - k
      /\ \A i \in 1..Len(r) : r[i] = q[k + i]
      /\ \A j \in 1..k : End(q[j]) <= t.lastack
  BY DEF Leaves
<1>4. /\ \A i, j \in 1..Len(q) : i < j => End(q[i]) <= q[j].seq
      /\ \A i, j \in 1..Len(q) : j = i + 1 => q[j].seq = End(q[i])
      /\ q # <<>> => q[1].seq <= s.lastack /\ End(q[Len(q)]) = WrittenEnd(s)
      /\ q = <<>> => WrittenEnd(s) <= s.lastack
      /\ \A i \in 1..Len(q) : q[i].fin => s.closed
      /\ s.closed => s.snd_lbb = Size
  BY DEF Chained
<1>5. \A i \in 1..Len(q) : q[i] \in Segment /\ q[i].seq \in Nat /\ End(q[i]) \in Nat
  <2> TAKE i \in 1..Len(q)
  <2>1. q[i] \in Segment
    BY <1>2
  <2>2. q[i].seq \in Nat
    BY <2>1, TcpWindowAssumption DEF Segment
  <2> QED
    BY <2>1, <2>2, EndIsNat
<1> HIDE DEF q, r
<1>6. \A i, j \in 1..Len(r) : i < j => End(r[i]) <= r[j].seq
  <2> TAKE i, j \in 1..Len(r)
  <2>1. k + i \in 1..Len(q) /\ k + j \in 1..Len(q) /\ (i < j => k + i < k + j)
    BY <1>2, <1>3
  <2> QED
    BY <1>3, <1>4, <2>1
<1>7. \A i, j \in 1..Len(r) : j = i + 1 => r[j].seq = End(r[i])
  <2> TAKE i, j \in 1..Len(r)
  <2>1. k + i \in 1..Len(q) /\ k + j \in 1..Len(q) /\ (j = i + 1 => k + j = (k + i) + 1)
    BY <1>2, <1>3
  <2> QED
    BY <1>3, <1>4, <2>1
<1>8. ASSUME r # <<>>
      PROVE  r[1].seq <= t.lastack /\ End(r[Len(r)]) = WrittenEnd(t)
  <2>1. Len(r) >= 1 /\ q # <<>> /\ k + 1 \in 1..Len(q) /\ k + Len(r) = Len(q)
    BY <1>2, <1>3, <1>8
  <2>2. r[1] = q[k + 1] /\ r[Len(r)] = q[Len(q)]
    BY <1>2, <1>3, <2>1
  <2>3. CASE k = 0
    BY <1>1, <1>4, <1>5, <2>1, <2>2, <2>3
  <2>4. CASE k > 0
    <3>1. k \in 1..Len(q) /\ q[k + 1].seq = End(q[k]) /\ End(q[k]) <= t.lastack
      BY <1>3, <1>4, <2>1, <2>4
    <3> QED
      BY <1>1, <1>4, <2>1, <2>2, <3>1
  <2> QED
    BY <1>3, <2>3, <2>4
<1>9. ASSUME r = <<>>
      PROVE  WrittenEnd(t) <= t.lastack
  <2>1. k = Len(q)
    BY <1>2, <1>3, <1>9
  <2>2. CASE q = <<>>
    BY <1>1, <1>4, <2>2
  <2>3. CASE q # <<>>
    <3>1. Len(q) \in 1..k
      BY <1>2, <2>1, <2>3
    <3> QED
      BY <1>1, <1>3, <1>4, <2>3, <3>1
  <2> QED
    BY <2>2, <2>3
<1>10. \A i \in 1..Len(r) : r[i].fin => t.closed
  <2> TAKE i \in 1..Len(r)
  <2>1. k + i \in 1..Len(q)
    BY <1>2, <1>3
  <2> QED
    BY <1>3, <1>4, <2>1
<1> QED
  BY <1>4, <1>6, <1>7, <1>8, <1>9, <1>10 DEF Chained, r

(* A window is taken over only with the ACK it came with.                  *)
LEMMA UpdatedOK ==
    ASSUME NEW s \in Sender, NEW right \in Nat, NEW nxt \in Nat,
           SenderOK(s, right, nxt), NEW a \in [ackno : Nat, wnd : Nat],
           a.ackno + a.wnd <= right, a.ackno <= nxt
    PROVE  LET t == Updated(s, a)
           IN  /\ t \in Sender
               /\ t.unacked = s.unacked /\ t.unsent = s.unsent
               /\ t.lastack = s.lastack /\ t.snd_nxt = s.snd_nxt
               /\ t.snd_lbb = s.snd_lbb /\ t.closed = s.closed
               /\ t.snd_wl2 = Larger(s.lastack, a.ackno)
               /\ t.snd_wl2 + t.snd_wnd <= right
<1>1. s.snd_wl2 = s.lastack /\ s.lastack + s.snd_wnd <= right /\ s.lastack \in Nat
  BY DEF SenderOK, Sender
<1>2. CASE WindowUpdate(s, a)
  <2> DEFINE t == [s EXCEPT !.snd_wnd = a.wnd, !.snd_wl2 = a.ackno, !.persist = a.wnd = 0]
  <2>1. Updated(s, a) = t
    BY <1>2 DEF Updated
  <2>2. (a.wnd = 0) \in BOOLEAN
    OBVIOUS
  <2>3. /\ t \in Sender
        /\ t.unacked = s.unacked /\ t.unsent = s.unsent
        /\ t.lastack = s.lastack /\ t.snd_nxt = s.snd_nxt
        /\ t.snd_lbb = s.snd_lbb /\ t.closed = s.closed
        /\ t.snd_wl2 = a.ackno /\ t.snd_wnd = a.wnd
    BY <2>2 DEF Sender
  <2>4. s.lastack <= a.ackno
    BY <1>1, <1>2 DEF WindowUpdate
  <2> HIDE DEF t
  <2> QED
    BY <1>1, <2>1, <2>3, <2>4 DEF Larger
<1>3. CASE ~WindowUpdate(s, a)
  <2>1. Updated(s, a) = s
    BY <1>3 DEF Updated
  <2>2. s.lastack >= a.ackno
    BY <1>1, <1>3 DEF WindowUpdate
  <2> QED
    BY <1>1, <2>1, <2>2 DEF Larger
<1> QED
  BY <1>2, <1>3

(* An ACK that is new removes a prefix of the queue and moves lastack; the *)
(* window that came with it starts there.                                  *)
LEMMA AckedOK ==
    ASSUME NEW s \in Sender, NEW right \in Nat, NEW nxt \in Nat,
           SenderOK(s, right, nxt), NEW a \in [ackno : Nat, wnd : Nat],
           a.ackno + a.wnd <= right, a.ackno <= nxt
    PROVE  LET t == Acked(Updated(s, a), a)
           IN  t \in Sender /\ SenderOK(t, right, nxt) /\ t.snd_nxt = s.snd_nxt
<1> DEFINE u == Updated(s, a)
<1>1. /\ u \in Sender
      /\ u.unacked = s.unacked /\ u.unsent = s.unsent
      /\ u.lastack = s.lastack /\ u.snd_nxt = s.snd_nxt
      /\ u.snd_lbb = s.snd_lbb /\ u.closed = s.closed
      /\ u.snd_wl2 = Larger(s.lastack, a.ackno)
      /\ u.snd_wl2 + u.snd_wnd <= right
  BY UpdatedOK
<1> HIDE DEF u
<1>2. /\ Chained(s) /\ s.lastack <= nxt /\ nxt <= s.snd_nxt
      /\ s.snd_nxt <= Larger(right, nxt) + 1
  BY DEF SenderOK
<1>3. /\ s.lastack \in Nat /\ s.snd_nxt \in Nat /\ u.cwnd \in Nat /\ a.ackno \in Nat
      /\ u.snd_wnd \in Nat /\ u.snd_wl2 \in Nat
      /\ u.unacked \in Seq(Segment) /\ u.unsent \in Seq(Segment)
  BY <1>1 DEF Sender
<1>4. Chained(u)
  <2>1. Queue(u) = Queue(s) /\ WrittenEnd(u) = WrittenEnd(s)
    BY <1>1 DEF Queue, WrittenEnd
  <2> QED
    BY <1>1, <1>2, <2>1 DEF Chained
<1>5. CASE a.ackno \in (u.lastack + 1)..u.snd_nxt
  <2> DEFINE U == Unacked(u.unacked, a.ackno)
             V == Unacked(u.unsent, a.ackno)
             c == Smaller(u.cwnd + TCP_MSS, TCP_WND)
             rt == U # <<>>
             t == [u EXCEPT !.lastack = a.ackno, !.cwnd = c, !.unacked = U,
                            !.rtime = rt, !.unsent = V]
  <2>1. Acked(u, a) = t
    BY <1>5 DEF Acked
  <2>2. U \in Seq(Segment)
    BY <1>3, AckedPrefixOK, Suffix DEF Unacked
  <2>3. V \in Seq(Segment)
    BY <1>3, AckedPrefixOK, Suffix DEF Unacked
  <2>4. c \in Nat
    BY <1>3, TcpWindowAssumption DEF Smaller
  <2>5. rt \in BOOLEAN
    OBVIOUS
  <2> HIDE DEF U, V, c, rt
  <2>6. t \in Sender
    BY <1>1, <1>3, <2>2, <2>3, <2>4, <2>5 DEF Sender
  <2>7. /\ t.unacked = U /\ t.unsent = V /\ t.lastack = a.ackno
        /\ t.snd_nxt = u.snd_nxt /\ t.snd_lbb = u.snd_lbb /\ t.closed = u.closed
        /\ t.snd_wl2 = u.snd_wl2 /\ t.snd_wnd = u.snd_wnd
    BY <1>1 DEF Sender
  <2> HIDE DEF t
  <2>8. LET q == u.unacked \o u.unsent
        IN  \A i, j \in 1..Len(q) : i < j => End(q[i]) <= q[j].seq
    BY <1>4 DEF Chained, Queue
  <2>9. PICK k \in Nat : Leaves(u.unacked \o u.unsent, U \o V, k, a.ackno)
    BY <1>3, <2>8, QueueAfterAck DEF U, V
  <2>10. Leaves(Queue(u), Queue(t), k, t.lastack)
    BY <2>7, <2>9 DEF Queue
  <2>11. u.lastack <= t.lastack /\ t.lastack \in Nat
    BY <1>1, <1>3, <1>5, <2>7
  <2>12. Chained(t)
    BY <1>1, <1>4, <2>6, <2>7, <2>10, <2>11, ChainedAfterAck
  <2>13. SenderOK(t, right, nxt)
    BY <1>1, <1>2, <1>3, <1>5, <2>7, <2>12 DEF SenderOK, Larger
  <2> QED
    BY <1>1, <2>1, <2>6, <2>7, <2>13 DEF u
<1>6. CASE a.ackno \notin (u.lastack + 1)..u.snd_nxt
  <2>1. Acked(u, a) = u
    BY <1>6 DEF Acked
  <2>2. a.ackno <= s.lastack
    BY <1>1, <1>2, <1>3, <1>6
  <2>3. u.snd_wl2 = u.lastack
    BY <1>1, <1>3, <2>2 DEF Larger
  <2>4. SenderOK(u, right, nxt)
    BY <1>1, <1>2, <1>3, <1>4, <2>3 DEF SenderOK
  <2> QED
    BY <1>1, <2>1, <2>4 DEF u
<1> QED
  BY <1>5, <1>6

(* tcp_output after a change that leaves the sender correct.               *)
LEMMA OutputKeeps ==
    ASSUME IInv, NEW s \in Sender, SenderOK(s, rcv.right, rcv.rcv_nxt),
           s.snd_nxt >= snd.snd_nxt, Output(s)
    PROVE  /\ snd' \in Sender /\ SenderOK(snd', rcv.right, rcv.rcv_nxt)
           /\ data' \subseteq Segment /\ DataOK(data', snd')
<1> DEFINE r == tcp_output(s)
<1>1. snd' = r.s /\ data' = data \cup r.out
  BY DEF Output
<1>2. rcv.right \in Nat /\ rcv.rcv_nxt \in Nat /\ s.snd_nxt \in Nat /\ snd.snd_nxt \in Nat
  BY DEF IInv, TypeOK, Receiver, Sender
<1>3. s.lastack + s.snd_wnd <= rcv.right
  BY DEF SenderOK
<1>4. /\ r.s \in Sender /\ SameButSent(s, r.s, rcv.right)
      /\ r.out \subseteq Segment /\ \A seg \in r.out : End(seg) <= r.s.snd_nxt
  BY <1>2, <1>3, OutputOK
<1> HIDE DEF r
<1>5. SenderOK(snd', rcv.right, rcv.rcv_nxt)
  BY <1>1, <1>2, <1>4, SentOK
<1>6. snd'.snd_nxt >= snd.snd_nxt /\ snd'.snd_nxt \in Nat
  BY <1>1, <1>2, <1>4, SMTT(30) DEF SameButSent, Sender
<1>7. data \subseteq Segment /\ DataOK(data, snd)
  BY DEF IInv, TypeOK
<1>8. \A seg \in data : End(seg) <= snd'.snd_nxt
  BY <1>2, <1>6, <1>7, EndIsNat DEF DataOK
<1> QED
  BY <1>1, <1>4, <1>5, <1>7, <1>8 DEF DataOK

(* A segment that starts where the written data ends continues the queue.  *)
LEMMA ChainedAppend ==
    ASSUME NEW s \in Sender, NEW t \in Sender, Chained(s), ~s.closed,
           t.lastack = s.lastack, t.snd_lbb \in 0..Size,
           NEW g \in Segment, Queue(t) = Append(Queue(s), g),
           g.seq = s.snd_lbb, End(g) = WrittenEnd(t), g.fin => t.closed,
           t.closed => t.snd_lbb = Size
    PROVE  Chained(t)
<1> DEFINE q == Queue(s)
           r == Queue(t)
           n == Len(q)
<1>1. q \in Seq(Segment) /\ n \in Nat /\ s.lastack \in Nat /\ s.snd_lbb \in Nat
  BY TcpWindowAssumption DEF Sender, Queue
<1>2. WrittenEnd(s) = s.snd_lbb
  BY <1>1 DEF WrittenEnd
<1>3. /\ \A i, j \in 1..n : i < j => End(q[i]) <= q[j].seq
      /\ \A i, j \in 1..n : j = i + 1 => q[j].seq = End(q[i])
      /\ q # <<>> => q[1].seq <= s.lastack /\ End(q[n]) = s.snd_lbb
      /\ q = <<>> => s.snd_lbb <= s.lastack
      /\ \A i \in 1..n : q[i].fin => s.closed
  BY <1>2 DEF Chained
<1>4. \A i \in 1..n : q[i] \in Segment /\ q[i].seq \in Nat /\ End(q[i]) \in Nat /\ q[i].seq <= End(q[i])
  <2> TAKE i \in 1..n
  <2>1. q[i] \in Segment
    BY <1>1
  <2>2. q[i].seq \in Nat
    BY <2>1, TcpWindowAssumption DEF Segment
  <2> QED
    BY <2>1, <2>2, EndIsNat
<1>5. Len(r) = n + 1 /\ r # <<>> /\ (\A i \in 1..n : r[i] = q[i]) /\ r[n + 1] = g
  BY <1>1
<1>6. t.lastack = s.lastack /\ g.seq = s.snd_lbb /\ End(g) = WrittenEnd(t)
  OBVIOUS
<1> HIDE DEF q, r, n
<1>7. \A i \in 1..n : End(q[i]) <= s.snd_lbb
  <2> TAKE i \in 1..n
  <2>1. n \in 1..n /\ q # <<>>
    BY <1>1 DEF n
  <2>2. CASE i = n
    BY <1>1, <1>3, <2>1, <2>2
  <2>3. CASE i < n
    <3>1. End(q[i]) <= q[n].seq
      BY <1>3, <2>1, <2>3
    <3>2. q[n].seq <= End(q[n]) /\ End(q[n]) = s.snd_lbb
      BY <1>3, <1>4, <2>1
    <3>3. End(q[i]) \in Nat /\ q[n].seq \in Nat
      BY <1>4, <2>1
    <3> QED
      BY <1>1, <3>1, <3>2, <3>3
  <2> QED
    BY <1>1, <2>2, <2>3
<1>8. \A i, j \in 1..(n + 1) : i < j => End(r[i]) <= r[j].seq
  <2> TAKE i, j \in 1..(n + 1)
  <2> HAVE i < j
  <2>1. i \in 1..n /\ r[i] = q[i]
    BY <1>1, <1>5
  <2>2. CASE j = n + 1
    BY <1>5, <1>6, <1>7, <2>1, <2>2
  <2>3. CASE j \in 1..n
    BY <1>3, <1>5, <2>1, <2>3
  <2> QED
    BY <1>1, <2>2, <2>3
<1>9. \A i, j \in 1..(n + 1) : j = i + 1 => r[j].seq = End(r[i])
  <2> TAKE i, j \in 1..(n + 1)
  <2> HAVE j = i + 1
  <2>1. i \in 1..n /\ r[i] = q[i]
    BY <1>1, <1>5
  <2>2. CASE j = n + 1
    <3>1. i = n /\ q # <<>>
      BY <1>1, <2>1, <2>2 DEF n
    <3> QED
      BY <1>3, <1>5, <1>6, <2>1, <2>2, <3>1
  <2>3. CASE j \in 1..n
    BY <1>3, <1>5, <2>1, <2>3
  <2> QED
    BY <1>1, <2>2, <2>3
<1>10. r[1].seq <= t.lastack
  <2>1. CASE n = 0
    <3>1. q = <<>>
      BY <1>1, <2>1 DEF n
    <3> QED
      BY <1>3, <1>5, <1>6, <2>1, <3>1
  <2>2. CASE n > 0
    <3>1. q # <<>> /\ 1 \in 1..n
      BY <1>1, <2>2 DEF n
    <3> QED
      BY <1>3, <1>5, <1>6, <3>1
  <2> QED
    BY <1>1, <2>1, <2>2
<1>11. \A i \in 1..(n + 1) : r[i].fin => t.closed
  <2> TAKE i \in 1..(n + 1)
  <2>1. CASE i = n + 1
    BY <1>5, <2>1
  <2>2. CASE i \in 1..n
    BY <1>3, <1>5, <2>2
  <2> QED
    BY <1>1, <2>1, <2>2
<1> QED
  BY <1>5, <1>6, <1>8, <1>9, <1>10, <1>11 DEF Chained, r

(* The FIN on the last segment of the queue.                               *)
LEMMA ChainedFin ==
    ASSUME NEW s \in Sender, NEW t \in Sender, Chained(s), ~s.closed, t.closed,
           s.snd_lbb = Size, t.snd_lbb = Size, t.lastack = s.lastack,
           Queue(s) # <<>>, Len(Queue(t)) = Len(Queue(s)),
           \A i \in 1..(Len(Queue(s)) - 1) : Queue(t)[i] = Queue(s)[i],
           Queue(t)[Len(Queue(s))] = [Queue(s)[Len(Queue(s))] EXCEPT !.fin = TRUE]
    PROVE  Chained(t)
<1> DEFINE q == Queue(s)
           r == Queue(t)
           n == Len(q)
<1>1. q \in Seq(Segment) /\ n \in Nat /\ n >= 1 /\ s.lastack \in Nat /\ Size \in Nat
  <2>1. q \in Seq(Segment) /\ s.lastack \in Nat /\ Size \in Nat
    BY TcpWindowAssumption DEF Sender, Queue
  <2>2. q # <<>>
    OBVIOUS
  <2> HIDE DEF q
  <2> QED
    BY <2>1, <2>2
<1>2. WrittenEnd(s) = Size /\ WrittenEnd(t) = Size + 1
  BY <1>1 DEF WrittenEnd
<1>3. /\ \A i, j \in 1..n : i < j => End(q[i]) <= q[j].seq
      /\ \A i, j \in 1..n : j = i + 1 => q[j].seq = End(q[i])
      /\ q[1].seq <= s.lastack /\ End(q[n]) = Size
      /\ \A i \in 1..n : q[i].fin => s.closed
  BY <1>1, <1>2 DEF Chained
<1>4. q[n] \in Segment /\ ~q[n].fin
  BY <1>1, <1>3
<1>5. r[n].seq = q[n].seq /\ End(r[n]) = Size + 1
  <2>1. r[n] = [q[n] EXCEPT !.fin = TRUE]
    OBVIOUS
  <2>2. r[n].seq = q[n].seq /\ r[n].len = q[n].len /\ r[n].fin
    BY <1>4, <2>1 DEF Segment
  <2>3. q[n].seq \in Nat /\ q[n].len \in Nat
    BY <1>4, TcpWindowAssumption DEF Segment
  <2> QED
    BY <1>1, <1>3, <1>4, <2>2, <2>3, SMTT(30) DEF End, TCP_TCPLEN
<1>6. Len(r) = n /\ \A i \in 1..(n - 1) : r[i] = q[i]
  OBVIOUS
<1> HIDE DEF q, r, n
<1>7. \A i \in 1..n : r[i].seq = q[i].seq
  BY <1>1, <1>5, <1>6
<1>8. \A i, j \in 1..n : i < j => r[i] = q[i]
  BY <1>1, <1>6
<1>9. \A i, j \in 1..n : i < j => End(r[i]) <= r[j].seq
  BY <1>3, <1>7, <1>8
<1>10. \A i, j \in 1..n : j = i + 1 => r[j].seq = End(r[i])
  <2> TAKE i, j \in 1..n
  <2> HAVE j = i + 1
  <2>1. i < j
    OBVIOUS
  <2> QED
    BY <1>3, <1>7, <1>8, <2>1
<1>11. r[1].seq <= t.lastack /\ r # <<>>
  BY <1>1, <1>3, <1>6, <1>7
<1> QED
  BY <1>2, <1>5, <1>6, <1>9, <1>10, <1>11 DEF Chained, r

------------------------------------------------------------------------------
(* The actions of the sender.                                              *)
SenderStep ==
    /\ snd' \in Sender /\ SenderOK(snd', rcv.right, rcv.rcv_nxt)
    /\ data' \subseteq Segment /\ DataOK(data', snd')

(* tcp_write keeps the part of the invariant about the sender.             *)
LEMMA WriteOK ==
    ASSUME IInv, Write
    PROVE  SenderStep
<1> DEFINE n == Smaller(TCP_MSS, Size - snd.snd_lbb)
           g == [seq |-> snd.snd_lbb, len |-> n, fin |-> FALSE]
           V == Append(snd.unsent, g)
           t == [snd EXCEPT !.snd_lbb = snd.snd_lbb + n, !.unsent = V]
<1>1. Output(t)
  BY DEF Write
<1>2. snd \in Sender /\ SenderOK(snd, rcv.right, rcv.rcv_nxt) /\ Chained(snd)
  BY DEF IInv, TypeOK, SenderOK
<1>3. /\ snd.snd_lbb \in 0..Size /\ snd.snd_lbb < Size
      /\ snd.unacked \in Seq(Segment) /\ snd.unsent \in Seq(Segment)
      /\ snd.closed \in BOOLEAN
  BY <1>2 DEF Sender, Write
<1>4. n \in 0..TCP_MSS /\ snd.snd_lbb + n \in 0..Size /\ n \in Nat
  BY <1>3, TcpWindowAssumption DEF Smaller
<1> HIDE DEF n
<1>5. g \in Segment /\ g.seq = snd.snd_lbb /\ ~g.fin
  BY <1>3, <1>4 DEF Segment
<1>6. End(g) = snd.snd_lbb + n
  BY <1>3, <1>4 DEF End, TCP_TCPLEN
<1>7. V \in Seq(Segment) /\ snd.unacked \o V = Append(snd.unacked \o snd.unsent, g)
  <2> DEFINE a == snd.unacked
             b == snd.unsent
  <2>1. a \in Seq(Segment) /\ b \in Seq(Segment)
    BY <1>3
  <2> HIDE DEF a, b, g
  <2>2. a \o Append(b, g) = Append(a \o b, g) /\ Append(b, g) \in Seq(Segment)
    BY <1>5, <2>1
  <2> QED
    BY <2>2 DEF a, b
<1> HIDE DEF V, g
<1>8. /\ t \in Sender
      /\ t.unacked = snd.unacked /\ t.unsent = V /\ t.snd_nxt = snd.snd_nxt
      /\ t.lastack = snd.lastack /\ t.snd_wl2 = snd.snd_wl2
      /\ t.snd_wnd = snd.snd_wnd /\ t.snd_lbb = snd.snd_lbb + n /\ t.closed = snd.closed
  BY <1>2, <1>4, <1>7 DEF Sender
<1> HIDE DEF t
<1>9. ~snd.closed
  BY <1>2, <1>3 DEF Chained
<1>10. Queue(t) = Append(Queue(snd), g)
  BY <1>7, <1>8 DEF Queue
<1>11. WrittenEnd(t) = End(g)
  BY <1>3, <1>4, <1>6, <1>8, <1>9 DEF WrittenEnd
<1>12. Chained(t)
  BY <1>2, <1>4, <1>5, <1>8, <1>9, <1>10, <1>11, ChainedAppend
<1>13. SenderOK(t, rcv.right, rcv.rcv_nxt) /\ t.snd_nxt >= snd.snd_nxt
  <2>1. snd.snd_nxt \in Nat
    BY <1>2 DEF Sender
  <2> QED
    BY <1>2, <1>8, <1>12, <2>1 DEF SenderOK
<1> QED
  BY <1>1, <1>8, <1>13, OutputKeeps DEF SenderStep

(* tcp_close keeps it: the FIN goes to the last segment or makes one.      *)
LEMMA CloseOK ==
    ASSUME IInv, Close
    PROVE  SenderStep
<1> DEFINE g == [seq |-> snd.snd_lbb, len |-> 0, fin |-> TRUE]
           W == [snd.unsent EXCEPT ![Len(snd.unsent)].fin = TRUE]
           V == IF snd.unsent # <<>> THEN W ELSE <<g>>
           t == [snd EXCEPT !.unsent = V, !.closed = TRUE]
<1>1. Output(t)
  BY DEF Close
<1>2. snd \in Sender /\ SenderOK(snd, rcv.right, rcv.rcv_nxt) /\ Chained(snd)
  BY DEF IInv, TypeOK, SenderOK
<1>3. /\ snd.snd_lbb = Size /\ Size \in Nat /\ ~snd.closed
      /\ snd.unacked \in Seq(Segment) /\ snd.unsent \in Seq(Segment)
      /\ snd.snd_nxt \in Nat
  BY <1>2, TcpWindowAssumption DEF Sender, Close
<1>4. g \in Segment /\ g.seq = snd.snd_lbb /\ g.fin /\ End(g) = Size + 1
  BY <1>3, TcpWindowAssumption DEF Segment, End, TCP_TCPLEN
<1> SUFFICES /\ V \in Seq(Segment)
             /\ t \in Sender => Chained(t)
  <2>1. V \in Seq(Segment) /\ (t \in Sender => Chained(t))
    OBVIOUS
  <2> HIDE DEF V
  <2>2. /\ t \in Sender /\ t.snd_nxt = snd.snd_nxt
        /\ t.lastack = snd.lastack /\ t.snd_wl2 = snd.snd_wl2 /\ t.snd_wnd = snd.snd_wnd
    BY <1>2, <2>1 DEF Sender
  <2> HIDE DEF t
  <2>3. SenderOK(t, rcv.right, rcv.rcv_nxt) /\ t.snd_nxt >= snd.snd_nxt
    BY <1>2, <1>3, <2>1, <2>2 DEF SenderOK
  <2> QED
    BY <1>1, <2>2, <2>3, OutputKeeps DEF SenderStep
<1>5. CASE snd.unsent = <<>>
  <2>1. V = <<g>>
    BY <1>5
  <2>2. V \in Seq(Segment)
    <3> HIDE DEF V, g
    <3> QED
      BY <1>4, <2>1
  <2>3. snd.unacked \o V = Append(snd.unacked \o snd.unsent, g)
    <3> DEFINE a == snd.unacked
    <3>1. a \in Seq(Segment)
      BY <1>3
    <3> HIDE DEF a, g
    <3>2. a \o <<g>> = Append(a \o <<>>, g)
      BY <3>1, <1>4
    <3> QED
      BY <1>5, <2>1, <3>2 DEF a
  <2> HIDE DEF V, g
  <2>4. ASSUME t \in Sender PROVE Chained(t)
    <3>1. /\ t.unacked = snd.unacked /\ t.unsent = V /\ t.closed
          /\ t.lastack = snd.lastack /\ t.snd_lbb = snd.snd_lbb
      BY <1>2 DEF Sender
    <3> HIDE DEF t
    <3>2. Queue(t) = Append(Queue(snd), g)
      BY <2>3, <3>1 DEF Queue
    <3>3. WrittenEnd(t) = End(g)
      BY <1>3, <1>4, <3>1 DEF WrittenEnd
    <3>4. t.snd_lbb \in 0..Size
      BY <1>3, <3>1
    <3> QED
      BY <1>2, <1>3, <1>4, <2>4, <3>1, <3>2, <3>3, <3>4, ChainedAppend
  <2> QED
    BY <2>2, <2>4
<1>6. CASE snd.unsent # <<>>
  <2> DEFINE a == snd.unacked
             b == snd.unsent
             n == Len(b)
  <2>1. a \in Seq(Segment) /\ b \in Seq(Segment) /\ b # <<>>
    BY <1>3, <1>6
  <2>2. V = [b EXCEPT ![n] = [b[n] EXCEPT !.fin = TRUE]]
    BY <1>6
  <2> HIDE DEF a, b, V
  <2>3. n \in Nat /\ n >= 1 /\ b[n] \in Segment
    BY <2>1
  <2> DEFINE h == [b[n] EXCEPT !.fin = TRUE]
  <2>4. h \in Segment
    BY <2>3 DEF Segment
  <2> HIDE DEF h
  <2>5. /\ V \in Seq(Segment) /\ Len(V) = n /\ V[n] = h
        /\ \A i \in 1..(n - 1) : V[i] = b[i]
    <3>1. V = [b EXCEPT ![n] = h]
      BY <2>2 DEF h
    <3> HIDE DEF n
    <3>2. Len(b) = n
      BY DEF n
    <3> QED
      BY <2>1, <2>3, <2>4, <3>1, <3>2, ExceptSeq
  <2> DEFINE q == a \o b
             r == a \o V
             m == Len(q)
  <2>6. /\ q # <<>> /\ Len(r) = m
        /\ \A i \in 1..(m - 1) : r[i] = q[i]
        /\ r[m] = [q[m] EXCEPT !.fin = TRUE]
    <3>1. m = Len(a) + n /\ Len(r) = Len(a) + n /\ Len(a) \in Nat
      <4> HIDE DEF n
      <4>1. Len(b) = n
        BY DEF n
      <4> QED
        BY <2>1, <2>3, <2>5, <4>1
    <3>2. q # <<>>
      BY <2>1, <2>3
    <3>3. q[m] = b[n] /\ r[m] = V[n]
      BY <2>1, <2>3, <2>5, <3>1
    <3>4. \A i \in 1..(m - 1) : r[i] = q[i]
      <4> TAKE i \in 1..(m - 1)
      <4>1. CASE i <= Len(a)
        BY <2>1, <2>3, <2>5, <3>1, <4>1
      <4>2. CASE i > Len(a)
        <5>1. i - Len(a) \in 1..(n - 1)
          BY <2>3, <3>1, <4>2
        <5>2. r[i] = V[i - Len(a)] /\ q[i] = b[i - Len(a)]
          BY <2>1, <2>3, <2>5, <3>1, <4>2
        <5> QED
          BY <2>5, <5>1, <5>2
      <4> QED
        BY <3>1, <4>1, <4>2
    <3> QED
      BY <2>5, <3>1, <3>2, <3>3, <3>4 DEF h
  <2> HIDE DEF q, r, m, n
  <2>7. ASSUME t \in Sender PROVE Chained(t)
    <3>1. /\ t.unacked = snd.unacked /\ t.unsent = V /\ t.closed
          /\ t.lastack = snd.lastack /\ t.snd_lbb = snd.snd_lbb
      BY <1>2 DEF Sender
    <3> HIDE DEF t
    <3>2. Queue(t) = r /\ Queue(snd) = q
      BY <3>1 DEF Queue, r, q, a, b
    <3>3. m = Len(q)
      BY DEF m
    <3> QED
      BY <1>2, <1>3, <2>6, <2>7, <3>1, <3>2, <3>3, ChainedFin
  <2> QED
    BY <2>5, <2>7
<1> QED
  BY <1>5, <1>6

(* tcp_rexmit_rto keeps it: everything in flight goes back to unsent.      *)
LEMMA RtoOK ==
    ASSUME IInv, Rto
    PROVE  SenderStep
<1> DEFINE V == snd.unacked \o snd.unsent
           t == [snd EXCEPT !.unsent = V, !.unacked = <<>>, !.cwnd = TCP_MSS]
<1>1. Output(t)
  BY DEF Rto
<1>2. snd \in Sender /\ SenderOK(snd, rcv.right, rcv.rcv_nxt) /\ Chained(snd)
  BY DEF IInv, TypeOK, SenderOK
<1>3. snd.unacked \in Seq(Segment) /\ snd.unsent \in Seq(Segment) /\ snd.snd_nxt \in Nat
  BY <1>2 DEF Sender
<1>4. V \in Seq(Segment)
  BY <1>3
<1> HIDE DEF V
<1>5. <<>> \o V = V
  BY <1>4
<1>6. /\ t \in Sender
      /\ t.unacked = <<>> /\ t.unsent = V /\ t.snd_nxt = snd.snd_nxt
      /\ t.lastack = snd.lastack /\ t.snd_wl2 = snd.snd_wl2
      /\ t.snd_wnd = snd.snd_wnd /\ t.snd_lbb = snd.snd_lbb /\ t.closed = snd.closed
  <2>1. TCP_MSS \in Nat /\ <<>> \in Seq(Segment)
    BY TcpWindowAssumption
  <2> QED
    BY <1>2, <1>4, <2>1 DEF Sender
<1> HIDE DEF t
<1>7. Queue(t) = Queue(snd) /\ WrittenEnd(t) = WrittenEnd(snd)
  BY <1>5, <1>6 DEF Queue, WrittenEnd, V
<1>8. Chained(t)
  BY <1>2, <1>6, <1>7 DEF Chained
<1>9. SenderOK(t, rcv.right, rcv.rcv_nxt) /\ t.snd_nxt >= snd.snd_nxt
  BY <1>2, <1>3, <1>6, <1>8 DEF SenderOK
<1> QED
  BY <1>1, <1>6, <1>9, OutputKeeps DEF SenderStep

(* An ACK keeps it, an old one and one that arrives late too.              *)
LEMMA AckInOK ==
    ASSUME IInv, NEW a \in acks, AckIn(a)
    PROVE  SenderStep
<1> DEFINE t == Acked(Updated(snd, a), a)
<1>1. /\ snd \in Sender /\ SenderOK(snd, rcv.right, rcv.rcv_nxt)
      /\ rcv.right \in Nat /\ rcv.rcv_nxt \in Nat /\ snd.snd_nxt \in Nat
  BY DEF IInv, TypeOK, Receiver, Sender
<1>2. a \in [ackno : Nat, wnd : Nat] /\ a.ackno + a.wnd <= rcv.right /\ a.ackno <= rcv.rcv_nxt
  BY DEF IInv, TypeOK, AcksOK
<1>3. t \in Sender /\ SenderOK(t, rcv.right, rcv.rcv_nxt) /\ t.snd_nxt = snd.snd_nxt
  BY <1>1, <1>2, AckedOK
<1>4. Output(t)
  BY DEF AckIn
<1> HIDE DEF t
<1> QED
  BY <1>1, <1>3, <1>4, OutputKeeps DEF SenderStep

(* The unit a probe sends is the receiver's next one or an earlier one.    *)
LEMMA ProbeOK ==
    ASSUME IInv, tcp_zero_window_probe
    PROVE  SenderStep
<1> DEFINE q == snd.unacked \o snd.unsent
           seg == Head(q)
           n == Larger(snd.snd_nxt, seg.seq + 1)
           l == Smaller(seg.len, 1)
           f == seg.len = 0
           p == [seq |-> seg.seq, len |-> l, fin |-> f]
<1>1. q # <<>> /\ snd' = [snd EXCEPT !.snd_nxt = n] /\ data' = data \cup {p}
  BY DEF tcp_zero_window_probe
<1>2. snd \in Sender /\ SenderOK(snd, rcv.right, rcv.rcv_nxt) /\ Chained(snd)
  BY DEF IInv, TypeOK, SenderOK
<1>3. /\ snd.unacked \in Seq(Segment) /\ snd.unsent \in Seq(Segment)
      /\ snd.snd_nxt \in Nat /\ snd.lastack \in Nat
  BY <1>2 DEF Sender
<1>4. q \in Seq(Segment)
  BY <1>3
<1>5. q[1].seq <= snd.lastack
  BY <1>1, <1>2 DEF Chained, Queue
<1> HIDE DEF q
<1>6. seg = q[1] /\ seg \in Segment
  BY <1>1, <1>4
<1> HIDE DEF seg
<1>7. seg.seq \in Nat /\ seg.seq \in 0..Size /\ seg.len \in 0..TCP_MSS /\ seg.seq <= snd.lastack
  BY <1>5, <1>6, TcpWindowAssumption DEF Segment
<1>8. n \in Nat /\ n >= snd.snd_nxt /\ n >= seg.seq + 1 /\ (n = snd.snd_nxt \/ n = seg.seq + 1)
  BY <1>3, <1>7 DEF Larger
<1>9. l \in 0..TCP_MSS /\ f \in BOOLEAN /\ l + (IF f THEN 1 ELSE 0) = 1
  BY <1>7, TcpWindowAssumption DEF Smaller
<1> HIDE DEF n, l, f
<1>10. p \in Segment /\ End(p) = seg.seq + 1
  BY <1>7, <1>9 DEF Segment, End, TCP_TCPLEN
<1> HIDE DEF p
<1>11. /\ snd' \in Sender /\ snd'.snd_nxt = n
       /\ snd'.unacked = snd.unacked /\ snd'.unsent = snd.unsent
       /\ snd'.lastack = snd.lastack /\ snd'.snd_wl2 = snd.snd_wl2
       /\ snd'.snd_wnd = snd.snd_wnd /\ snd'.snd_lbb = snd.snd_lbb /\ snd'.closed = snd.closed
  BY <1>1, <1>2, <1>8 DEF Sender
<1>12. Chained(snd')
  <2>1. Queue(snd') = Queue(snd) /\ WrittenEnd(snd') = WrittenEnd(snd)
    BY <1>11 DEF Queue, WrittenEnd
  <2> QED
    BY <1>2, <1>11, <2>1 DEF Chained
<1>13. rcv.right \in Nat /\ rcv.rcv_nxt \in Nat
  BY DEF IInv, TypeOK, Receiver
<1>14. SenderOK(snd', rcv.right, rcv.rcv_nxt)
  BY <1>2, <1>3, <1>7, <1>8, <1>11, <1>12, <1>13 DEF SenderOK, Larger
<1>15. data \subseteq Segment /\ DataOK(data, snd)
  BY DEF IInv, TypeOK
<1>16. \A s \in data' : End(s) <= snd'.snd_nxt
  BY <1>1, <1>3, <1>7, <1>8, <1>10, <1>11, <1>15, EndIsNat DEF DataOK
<1> QED
  BY <1>1, <1>10, <1>11, <1>14, <1>15, <1>16 DEF SenderStep, DataOK

------------------------------------------------------------------------------
(* The actions of the receiver.                                            *)
ReceiverStep ==
    /\ rcv' \in Receiver /\ ReceiverOK(rcv')
    /\ rcv'.right >= rcv.right
    /\ SenderOK(snd, rcv'.right, rcv'.rcv_nxt)
    /\ acks' \subseteq [ackno : Nat, wnd : Nat]
    /\ AcksOK(acks', rcv'.right, rcv'.rcv_nxt)

(* A pcb r the receiver may go on with.                                    *)
Continues(r) ==
    /\ r \in Receiver /\ ReceiverOK(r) /\ r.right = rcv.right
    /\ rcv.rcv_nxt <= r.rcv_nxt /\ r.rcv_nxt <= snd.snd_nxt

(* A further edge and more received leave the sender within its window.    *)
LEMMA FurtherEdge ==
    ASSUME IInv, rcv' \in Receiver, rcv'.right >= rcv.right,
           rcv'.rcv_nxt >= rcv.rcv_nxt, rcv'.rcv_nxt <= snd.snd_nxt
    PROVE  SenderOK(snd, rcv'.right, rcv'.rcv_nxt) /\ AcksOK(acks, rcv'.right, rcv'.rcv_nxt)
<1>1. /\ rcv.right \in Nat /\ rcv.rcv_nxt \in Nat /\ rcv'.right \in Nat /\ rcv'.rcv_nxt \in Nat
      /\ snd.lastack \in Nat /\ snd.snd_wnd \in Nat /\ snd.snd_nxt \in Nat
  BY DEF IInv, TypeOK, Receiver, Sender
<1>2. SenderOK(snd, rcv.right, rcv.rcv_nxt) /\ AcksOK(acks, rcv.right, rcv.rcv_nxt)
  BY DEF IInv
<1>3. SenderOK(snd, rcv'.right, rcv'.rcv_nxt)
  BY <1>1, <1>2 DEF SenderOK, Larger
<1>4. AcksOK(acks, rcv'.right, rcv'.rcv_nxt)
  <2> SUFFICES ASSUME NEW a \in acks
               PROVE  a.ackno + a.wnd <= rcv'.right /\ a.ackno <= rcv'.rcv_nxt
    BY DEF AcksOK
  <2>1. a \in [ackno : Nat, wnd : Nat]
    BY DEF IInv, TypeOK
  <2>2. a.ackno \in Nat /\ a.wnd \in Nat
    BY <2>1
  <2>3. a.ackno + a.wnd <= rcv.right /\ a.ackno <= rcv.rcv_nxt
    BY <1>2 DEF AcksOK
  <2> QED
    BY <1>1, <2>2, <2>3
<1> QED
  BY <1>3, <1>4

(* An ACK that is sent announces a window that does not shrink.            *)
LEMMA AnnounceOK ==
    ASSUME IInv, NEW r, Continues(r), Announce(r)
    PROVE  ReceiverStep
<1> DEFINE e == r.rcv_nxt + r.rcv_ann_wnd
           a == [ackno |-> r.rcv_nxt, wnd |-> r.rcv_ann_wnd]
<1>1. rcv' = [r EXCEPT !.ack = {}, !.right = e] /\ acks' = acks \cup {a}
  BY DEF Announce
<1>2. /\ r \in Receiver /\ ReceiverOK(r) /\ r.right = rcv.right
      /\ rcv.rcv_nxt <= r.rcv_nxt /\ r.rcv_nxt <= snd.snd_nxt
  BY DEF Continues
<1>3. /\ r.rcv_nxt \in Nat /\ r.rcv_ann_wnd \in Nat /\ r.right \in Nat
      /\ r.right <= e /\ e \in Nat
  BY <1>2 DEF Receiver, ReceiverOK
<1>4. a \in [ackno : Nat, wnd : Nat] /\ a.ackno = r.rcv_nxt /\ a.ackno + a.wnd = e
  BY <1>3
<1> HIDE DEF e, a
<1>5. /\ rcv' \in Receiver /\ rcv'.right = e /\ rcv'.rcv_nxt = r.rcv_nxt
      /\ rcv'.rcv_wnd = r.rcv_wnd /\ rcv'.rcv_ann_wnd = r.rcv_ann_wnd /\ rcv'.unread = r.unread
  BY <1>1, <1>2, <1>3 DEF Receiver
<1>6. ReceiverOK(rcv')
  BY <1>2, <1>3, <1>5 DEF ReceiverOK, e
<1>7. rcv'.right >= rcv.right /\ rcv'.rcv_nxt >= rcv.rcv_nxt /\ rcv'.rcv_nxt <= snd.snd_nxt
  BY <1>2, <1>3, <1>5 DEF IInv, TypeOK, Receiver
<1>8. SenderOK(snd, rcv'.right, rcv'.rcv_nxt) /\ AcksOK(acks, rcv'.right, rcv'.rcv_nxt)
  BY <1>5, <1>7, FurtherEdge
<1>9. acks' \subseteq [ackno : Nat, wnd : Nat] /\ AcksOK(acks', rcv'.right, rcv'.rcv_nxt)
  BY <1>1, <1>3, <1>4, <1>5, <1>8 DEF AcksOK, IInv, TypeOK
<1> QED
  BY <1>5, <1>6, <1>7, <1>8, <1>9 DEF ReceiverStep

(* The receiver answers now or later.                                      *)
LEMMA AnswerOK ==
    ASSUME IInv, NEW r, Continues(r), Answer(r)
    PROVE  ReceiverStep
<1>1. CASE "NOW" \in r.ack
  BY <1>1, AnnounceOK DEF Answer
<1>2. CASE "NOW" \notin r.ack
  <2>1. rcv' = r /\ acks' = acks
    BY <1>2 DEF Answer
  <2>2. /\ rcv' \in Receiver /\ ReceiverOK(rcv') /\ rcv'.right = rcv.right
        /\ rcv'.rcv_nxt >= rcv.rcv_nxt /\ rcv'.rcv_nxt <= snd.snd_nxt
    BY <2>1 DEF Continues, IInv, TypeOK, Receiver
  <2>3. rcv'.right >= rcv.right
    BY <2>2 DEF Receiver
  <2>4. SenderOK(snd, rcv'.right, rcv'.rcv_nxt) /\ AcksOK(acks, rcv'.right, rcv'.rcv_nxt)
    BY <2>2, <2>3, FurtherEdge
  <2> QED
    BY <2>1, <2>2, <2>3, <2>4 DEF ReceiverStep, IInv, TypeOK
<1> QED
  BY <1>1, <1>2

(* tcp_update_rcv_ann_wnd announces no more than is open and does not move *)
(* the edge back.                                                          *)
LEMMA AnnWndOK ==
    ASSUME NEW r \in Receiver, r.right <= r.rcv_nxt + r.rcv_wnd
    PROVE  LET q == tcp_update_rcv_ann_wnd(r)
           IN  /\ q \in Receiver
               /\ q.rcv_nxt = r.rcv_nxt /\ q.rcv_wnd = r.rcv_wnd /\ q.right = r.right
               /\ q.unread = r.unread /\ q.fin = r.fin
               /\ q.rcv_ann_wnd <= q.rcv_wnd /\ q.right <= q.rcv_nxt + q.rcv_ann_wnd
<1> DEFINE w == IF r.rcv_nxt + r.rcv_wnd >= r.right + Smaller(TCP_WND \div 2, TCP_MSS) THEN r.rcv_wnd
                ELSE Larger(r.right - r.rcv_nxt, 0)
           q == [r EXCEPT !.rcv_ann_wnd = w]
<1>1. tcp_update_rcv_ann_wnd(r) = q
  BY DEF tcp_update_rcv_ann_wnd
<1>2. r.rcv_nxt \in Nat /\ r.rcv_wnd \in Nat /\ r.right \in Nat
  BY DEF Receiver
<1>3. w \in Nat /\ w <= r.rcv_wnd /\ r.right <= r.rcv_nxt + w
  BY <1>2 DEF Larger
<1> HIDE DEF w
<1>4. /\ q \in Receiver /\ q.rcv_ann_wnd = w
      /\ q.rcv_nxt = r.rcv_nxt /\ q.rcv_wnd = r.rcv_wnd /\ q.right = r.right
      /\ q.unread = r.unread /\ q.fin = r.fin
  BY <1>3 DEF Receiver
<1> QED
  BY <1>1, <1>3, <1>4

(* The receiver takes data at rcv_nxt.                                     *)
LEMMA ReceivedOK ==
    ASSUME IInv, NEW seg \in data, InOrder(rcv, seg)
    PROVE  Continues(Received(rcv, seg))
<1>1. /\ rcv \in Receiver /\ ReceiverOK(rcv) /\ seg \in Segment
      /\ End(seg) <= snd.snd_nxt
  BY DEF IInv, TypeOK, DataOK
<1>2. /\ rcv.rcv_nxt \in Nat /\ rcv.rcv_wnd \in Nat /\ rcv.right \in Nat /\ rcv.unread \in Nat
      /\ rcv.rcv_ann_wnd \in Nat /\ End(seg) \in Nat /\ TCP_WND \in Nat /\ snd.snd_nxt \in Nat
      /\ seg.fin \in BOOLEAN
  BY <1>1, EndIsNat, TcpWindowAssumption DEF Receiver, IInv, TypeOK, Sender, Segment
<1>3. rcv.rcv_nxt < End(seg) /\ rcv.rcv_wnd > 0
  BY DEF InOrder
<1>4. rcv.rcv_wnd + rcv.unread = TCP_WND /\ rcv.right <= rcv.rcv_nxt + rcv.rcv_wnd
  BY <1>1, <1>2 DEF ReceiverOK
<1> DEFINE n == Smaller(End(seg) - rcv.rcv_nxt, rcv.rcv_wnd)
           fin == seg.fin /\ rcv.rcv_nxt + n = End(seg)
           x == rcv.rcv_nxt + n
           w == rcv.rcv_wnd - n
           m == rcv.unread + n - (IF fin THEN 1 ELSE 0)
           p == [rcv EXCEPT !.rcv_nxt = x, !.rcv_wnd = w, !.unread = m]
           q == tcp_update_rcv_ann_wnd(p)
<1>5. n \in Nat /\ n >= 1 /\ n <= End(seg) - rcv.rcv_nxt /\ n <= rcv.rcv_wnd
  BY <1>2, <1>3 DEF Smaller
<1>6. fin \in BOOLEAN
  BY <1>2
<1> HIDE DEF n, fin
<1>7. /\ x \in Nat /\ w \in Nat /\ m \in Nat /\ x + w = rcv.rcv_nxt + rcv.rcv_wnd
      /\ x >= rcv.rcv_nxt /\ x <= End(seg)
      /\ w + m + (IF fin THEN 1 ELSE 0) = TCP_WND
  BY <1>2, <1>4, <1>5, <1>6
<1>8. Received(rcv, seg) = IF fin THEN [q EXCEPT !.ack = {"NOW"}, !.fin = "got",
                                               !.rcv_wnd = IF @ = TCP_WND THEN @ ELSE @ + 1]
                           ELSE tcp_ack(q)
  BY DEF Received, n, fin
<1> HIDE DEF x, w, m
<1>9. /\ p \in Receiver /\ p.rcv_nxt = x /\ p.rcv_wnd = w /\ p.unread = m
      /\ p.right = rcv.right
  BY <1>1, <1>7 DEF Receiver
<1> HIDE DEF p
<1>10. /\ q \in Receiver /\ q.rcv_nxt = x /\ q.rcv_wnd = w /\ q.unread = m /\ q.right = rcv.right
       /\ q.rcv_ann_wnd <= w /\ q.right <= x + q.rcv_ann_wnd /\ q.rcv_ann_wnd \in Nat
  <2>1. p.right <= p.rcv_nxt + p.rcv_wnd
    BY <1>4, <1>7, <1>9
  <2>2. q \in Receiver /\ q.rcv_ann_wnd <= q.rcv_wnd /\ q.right <= q.rcv_nxt + q.rcv_ann_wnd
    BY <1>9, <2>1, AnnWndOK
  <2>3. q.rcv_nxt = p.rcv_nxt /\ q.rcv_wnd = p.rcv_wnd /\ q.right = p.right /\ q.unread = p.unread
    BY <1>9, <2>1, AnnWndOK
  <2>4. q.rcv_ann_wnd \in Nat
    BY <2>2 DEF Receiver
  <2> QED
    BY <1>9, <2>2, <2>3, <2>4
<1> HIDE DEF q
<1>11. CASE fin
  <2> DEFINE r == [q EXCEPT !.ack = {"NOW"}, !.fin = "got", !.rcv_wnd = w + 1]
  <2>1. w # TCP_WND
    BY <1>2, <1>7, <1>11
  <2>2. Received(rcv, seg) = r
    BY <1>8, <1>10, <1>11, <2>1
  <2>3. /\ r \in Receiver /\ r.rcv_nxt = x /\ r.rcv_wnd = w + 1 /\ r.unread = m
        /\ r.right = rcv.right /\ r.rcv_ann_wnd = q.rcv_ann_wnd
    <3> DEFINE v == w + 1
               now == {"NOW"}
    <3>1. v \in Nat /\ now \in SUBSET {"DELAY", "NOW"}
      BY <1>7
    <3> HIDE DEF v, now
    <3>2. r = [q EXCEPT !.ack = now, !.fin = "got", !.rcv_wnd = v]
      BY DEF v, now
    <3>3. v = w + 1
      BY DEF v
    <3> QED
      BY <1>10, <3>1, <3>2, <3>3 DEF Receiver
  <2> HIDE DEF r
  <2>4. ReceiverOK(r)
    BY <1>2, <1>7, <1>10, <1>11, <2>3 DEF ReceiverOK
  <2> QED
    BY <1>1, <1>2, <1>7, <2>2, <2>3, <2>4 DEF Continues
<1>12. CASE ~fin
  <2> DEFINE k == IF "DELAY" \in q.ack THEN {"NOW"} ELSE {"DELAY"}
             r == [q EXCEPT !.ack = k]
  <2>1. Received(rcv, seg) = r
    BY <1>8, <1>12 DEF tcp_ack
  <2>2. k \in SUBSET {"DELAY", "NOW"}
    OBVIOUS
  <2> HIDE DEF k
  <2>3. /\ r \in Receiver /\ r.rcv_nxt = x /\ r.rcv_wnd = w /\ r.unread = m
        /\ r.right = rcv.right /\ r.rcv_ann_wnd = q.rcv_ann_wnd
    BY <1>10, <2>2 DEF Receiver
  <2> HIDE DEF r
  <2>4. ReceiverOK(r)
    BY <1>2, <1>7, <1>10, <1>12, <2>3 DEF ReceiverOK
  <2> QED
    BY <1>1, <1>2, <1>7, <2>1, <2>3, <2>4 DEF Continues
<1> QED
  BY <1>11, <1>12

(* tcp_recved after which the window and the unread data add up.           *)
LEMMA RecvedOK ==
    ASSUME IInv, NEW r \in Receiver, NEW n \in Nat,
           r.rcv_nxt = rcv.rcv_nxt, r.right = rcv.right, r.rcv_wnd = rcv.rcv_wnd,
           Opened(r, n) \in Nat, Opened(r, n) >= r.rcv_wnd, Opened(r, n) + r.unread = TCP_WND
    PROVE  Continues(tcp_recved(r, n))
<1> DEFINE w == Opened(r, n)
           o == [r EXCEPT !.rcv_wnd = w]
           q == tcp_update_rcv_ann_wnd(o)
           u == [q EXCEPT !.ack = {"NOW"}]
<1>1. tcp_recved(r, n) = q \/ tcp_recved(r, n) = u
  BY DEF tcp_recved
<1>2. w \in Nat /\ w >= r.rcv_wnd /\ w + r.unread = TCP_WND
  OBVIOUS
<1> HIDE DEF w
<1>3. /\ o \in Receiver /\ o.rcv_nxt = r.rcv_nxt /\ o.rcv_wnd = w /\ o.unread = r.unread
      /\ o.right = r.right
  BY <1>2 DEF Receiver
<1>4. /\ rcv.rcv_nxt \in Nat /\ rcv.right \in Nat /\ rcv.rcv_wnd \in Nat /\ rcv.rcv_ann_wnd \in Nat
      /\ snd.snd_nxt \in Nat
      /\ rcv.right <= rcv.rcv_nxt + rcv.rcv_ann_wnd /\ rcv.rcv_ann_wnd <= rcv.rcv_wnd
      /\ rcv.rcv_nxt <= snd.snd_nxt
  BY DEF IInv, TypeOK, Receiver, Sender, ReceiverOK, SenderOK
<1> HIDE DEF o
<1>5. o.right <= o.rcv_nxt + o.rcv_wnd
  BY <1>2, <1>3, <1>4
<1>6. q \in Receiver /\ q.rcv_ann_wnd <= q.rcv_wnd /\ q.right <= q.rcv_nxt + q.rcv_ann_wnd
  BY <1>3, <1>5, AnnWndOK
<1>7. q.rcv_nxt = o.rcv_nxt /\ q.rcv_wnd = o.rcv_wnd /\ q.right = o.right /\ q.unread = o.unread
  BY <1>3, <1>5, AnnWndOK
<1> HIDE DEF q
<1>8. Continues(q)
  BY <1>2, <1>3, <1>4, <1>6, <1>7 DEF Continues, ReceiverOK
<1>9. /\ u \in Receiver /\ u.rcv_nxt = q.rcv_nxt /\ u.rcv_wnd = q.rcv_wnd /\ u.right = q.right
      /\ u.unread = q.unread /\ u.rcv_ann_wnd = q.rcv_ann_wnd
  BY <1>6 DEF Receiver
<1> HIDE DEF u
<1>10. Continues(u)
  BY <1>8, <1>9 DEF Continues, ReceiverOK
<1> QED
  BY <1>1, <1>8, <1>10

(* The application's call for data it has read: neither the cut to TCP_WND *)
(* nor the wrap of the window's type happens.                              *)
LEMMA ReadOK ==
    ASSUME IInv, NEW n \in Reads, Recved(n)
    PROVE  ReceiverStep /\ ~failed'
<1> DEFINE m == rcv.unread - n
           r == [rcv EXCEPT !.unread = m]
<1>1. /\ n \in Nat /\ n >= 1 /\ n <= rcv.unread /\ TCP_WND \in Nat
      /\ WndRange \in Nat /\ TCP_WND < WndRange
  BY TcpWindowAssumption DEF Recved
<1>2. rcv \in Receiver /\ ReceiverOK(rcv) /\ ~failed
  BY DEF IInv, TypeOK
<1>3. rcv.rcv_wnd \in Nat /\ rcv.unread \in Nat /\ rcv.rcv_wnd + rcv.unread = TCP_WND
  BY <1>2 DEF Receiver, ReceiverOK
<1>4. m \in Nat
  BY <1>1, <1>3
<1> HIDE DEF m
<1>5. /\ r \in Receiver /\ r.rcv_nxt = rcv.rcv_nxt /\ r.right = rcv.right
      /\ r.rcv_wnd = rcv.rcv_wnd /\ r.unread = m
  BY <1>2, <1>4 DEF Receiver
<1>6. /\ Answer(tcp_recved(r, n))
      /\ failed' = (failed \/ (rcv.fin = "no" /\ u16(rcv.rcv_wnd + n) = 0))
  BY DEF Recved, m
<1> HIDE DEF r
<1>7. u16(rcv.rcv_wnd + n) = rcv.rcv_wnd + n
  <2>1. rcv.rcv_wnd + n \in Nat /\ rcv.rcv_wnd + n < WndRange
    BY <1>1, <1>3
  <2> QED
    BY <1>1, <2>1, ModSmall DEF u16
<1>8. Opened(r, n) = rcv.rcv_wnd + n
  BY <1>1, <1>3, <1>5, <1>7 DEF Opened
<1>9. Continues(tcp_recved(r, n))
  <2>1. /\ Opened(r, n) \in Nat /\ Opened(r, n) >= r.rcv_wnd
        /\ Opened(r, n) + r.unread = TCP_WND
    BY <1>1, <1>3, <1>5, <1>8 DEF m
  <2> QED
    BY <1>1, <1>5, <2>1, RecvedOK
<1>10. ReceiverStep
  BY <1>6, <1>9, AnswerOK
<1>11. ~failed'
  <2>1. u16(rcv.rcv_wnd + n) # 0
    BY <1>1, <1>3, <1>7
  <2> QED
    BY <1>2, <1>6, <2>1, Zenon
<1> QED
  BY <1>10, <1>11

(* The call for the end of the stream finds the window open and leaves it  *)
(* so, whether the sum wraps or not.                                       *)
LEMMA ReadFinOK ==
    ASSUME IInv, RecvedFin
    PROVE  ReceiverStep
<1> DEFINE r == [rcv EXCEPT !.fin = "read"]
<1>1. /\ Answer(tcp_recved(r, 1)) /\ rcv.unread = 0
      /\ TCP_WND \in Nat /\ WndRange \in Nat /\ TCP_WND < WndRange
  BY TcpWindowAssumption DEF RecvedFin
<1>2. rcv \in Receiver /\ ReceiverOK(rcv)
  BY DEF IInv, TypeOK
<1>3. rcv.rcv_wnd = TCP_WND
  BY <1>1, <1>2 DEF Receiver, ReceiverOK
<1>4. /\ r \in Receiver /\ r.rcv_nxt = rcv.rcv_nxt /\ r.right = rcv.right
      /\ r.rcv_wnd = rcv.rcv_wnd /\ r.unread = rcv.unread /\ r.fin = "read"
  BY <1>2 DEF Receiver
<1> HIDE DEF r
<1>5. u16(TCP_WND + 1) = TCP_WND + 1 \/ u16(TCP_WND + 1) = 0
  <2>1. CASE TCP_WND + 1 < WndRange
    BY <1>1, <2>1, ModSmall DEF u16
  <2>2. CASE TCP_WND + 1 = WndRange
    BY <1>1, <2>2, ModSelf DEF u16
  <2> QED
    BY <1>1, <2>1, <2>2
<1>6. Opened(r, 1) = TCP_WND
  BY <1>1, <1>3, <1>4, <1>5 DEF Opened
<1>7. Continues(tcp_recved(r, 1))
  BY <1>1, <1>3, <1>4, <1>6, RecvedOK
<1> QED
  BY <1>1, <1>7, AnswerOK

(* A segment that arrives.                                                 *)
LEMMA DataInOK ==
    ASSUME IInv, NEW seg \in data, DataIn(seg)
    PROVE  ReceiverStep
<1>1. Continues(rcv)
  BY DEF IInv, TypeOK, SenderOK, Continues, Receiver
<1>2. CASE InOrder(rcv, seg)
  <2>1. Answer(Received(rcv, seg))
    BY <1>2 DEF DataIn
  <2> QED
    BY <1>2, <2>1, ReceivedOK, AnswerOK
<1>3. CASE ~InOrder(rcv, seg)
  <2>1. Announce(rcv)
    BY <1>3 DEF DataIn
  <2> QED
    BY <1>1, <2>1, AnnounceOK
<1> QED
  BY <1>2, <1>3

------------------------------------------------------------------------------
(* The invariant holds at first.                                           *)
LEMMA InitOK == Init => IInv
<1> SUFFICES ASSUME Init PROVE IInv
  OBVIOUS
<1>1. TCP_WND \in Nat /\ TCP_MSS \in Nat /\ Size \in Nat /\ 0 \in 0..Size
  BY TcpWindowAssumption
<1>2. Smaller(2 * TCP_MSS, TCP_WND) \in Nat
  BY <1>1 DEF Smaller
<1>3. <<>> \in Seq(Segment) /\ <<>> \o <<>> = <<>> /\ Len(<<>>) = 0
  OBVIOUS
<1>4. snd \in Sender
  BY <1>1, <1>2, <1>3 DEF Init, Sender
<1>5. rcv \in Receiver
  BY <1>1 DEF Init, Receiver
<1>6. TypeOK
  BY <1>4, <1>5 DEF Init, TypeOK
<1>7. Queue(snd) = <<>> /\ WrittenEnd(snd) = 0 /\ snd.lastack = 0 /\ ~snd.closed
  BY <1>3 DEF Init, Queue, WrittenEnd
<1>8. Chained(snd)
  BY <1>3, <1>7 DEF Chained
<1>9. SenderOK(snd, rcv.right, rcv.rcv_nxt)
  BY <1>1, <1>8 DEF Init, SenderOK, Larger
<1>10. ReceiverOK(rcv)
  BY <1>1 DEF Init, ReceiverOK
<1> QED
  BY <1>6, <1>9, <1>10 DEF Init, IInv, DataOK, AcksOK

(* IInv is inductive, and no step moves the right edge back.               *)
LEMMA StepOK == IInv /\ [Next]_vars => IInv' /\ (rcv'.right >= rcv.right)
<1> SUFFICES ASSUME IInv, [Next]_vars PROVE IInv' /\ rcv'.right >= rcv.right
  OBVIOUS
<1>1. /\ TypeOK /\ SenderOK(snd, rcv.right, rcv.rcv_nxt) /\ ReceiverOK(rcv)
      /\ DataOK(data, snd) /\ AcksOK(acks, rcv.right, rcv.rcv_nxt) /\ ~failed
      /\ rcv.right \in Nat
  BY DEF IInv, TypeOK, Receiver
<1>2. ASSUME SenderStep, rcv' = rcv, acks' \subseteq acks, failed' = failed, faults' \in Nat
      PROVE  IInv' /\ rcv'.right >= rcv.right
  <2>1. TypeOK'
    BY <1>1, <1>2 DEF TypeOK, SenderStep
  <2>2. SenderOK(snd', rcv'.right, rcv'.rcv_nxt) /\ ReceiverOK(rcv') /\ DataOK(data', snd')
    BY <1>1, <1>2 DEF SenderStep
  <2>3. AcksOK(acks', rcv'.right, rcv'.rcv_nxt)
    BY <1>1, <1>2 DEF AcksOK
  <2> QED
    BY <1>1, <1>2, <2>1, <2>2, <2>3 DEF IInv
<1>3. ASSUME ReceiverStep, snd' = snd, data' \subseteq data, ~failed', failed' \in BOOLEAN,
             faults' = faults
      PROVE  IInv' /\ rcv'.right >= rcv.right
  <2>1. TypeOK'
    BY <1>1, <1>3 DEF TypeOK, ReceiverStep
  <2>2. SenderOK(snd', rcv'.right, rcv'.rcv_nxt) /\ ReceiverOK(rcv') /\ DataOK(data', snd')
    BY <1>1, <1>3 DEF ReceiverStep, DataOK
  <2>3. AcksOK(acks', rcv'.right, rcv'.rcv_nxt) /\ rcv'.right >= rcv.right
    BY <1>3 DEF ReceiverStep
  <2> QED
    BY <1>3, <2>1, <2>2, <2>3 DEF IInv
<1>4. faults \in Nat /\ failed \in BOOLEAN
  BY <1>1 DEF TypeOK
<1>5. Expires => faults' \in Nat
  BY <1>4 DEF Expires
<1>6. CASE Write
  BY <1>2, <1>4, <1>6, WriteOK DEF Write
<1>7. CASE Close
  BY <1>2, <1>4, <1>7, CloseOK DEF Close
<1>8. ASSUME NEW a \in acks, AckIn(a) PROVE IInv' /\ rcv'.right >= rcv.right
  BY <1>2, <1>4, <1>8, AckInOK DEF AckIn
<1>9. CASE Rto
  BY <1>2, <1>5, <1>9, RtoOK DEF Rto
<1>10. CASE tcp_zero_window_probe
  BY <1>2, <1>5, <1>10, ProbeOK DEF tcp_zero_window_probe
<1>11. ASSUME NEW seg \in data, DataIn(seg) PROVE IInv' /\ rcv'.right >= rcv.right
  BY <1>1, <1>3, <1>4, <1>11, DataInOK DEF DataIn
<1>12. CASE FastAck
  <2>1. Continues(rcv)
    BY DEF IInv, TypeOK, SenderOK, Continues, Receiver
  <2>2. ReceiverStep
    BY <1>12, <2>1, AnnounceOK DEF FastAck
  <2> QED
    BY <1>1, <1>3, <1>4, <1>12, <2>2 DEF FastAck
<1>13. ASSUME NEW n \in Reads, Recved(n) PROVE IInv' /\ rcv'.right >= rcv.right
  <2>1. ReceiverStep /\ ~failed'
    BY <1>13, ReadOK
  <2>2. failed' \in BOOLEAN /\ snd' = snd /\ data' = data /\ faults' = faults
    BY <1>4, <1>13 DEF Recved
  <2> QED
    BY <1>3, <2>1, <2>2
<1>14. CASE RecvedFin
  BY <1>1, <1>3, <1>4, <1>14, ReadFinOK DEF RecvedFin
<1>15. CASE Lose
  <2>1. /\ snd' = snd /\ rcv' = rcv /\ failed' = failed /\ faults' \in Nat
        /\ data' \subseteq data /\ acks' \subseteq acks
    BY <1>4, <1>15 DEF Lose
  <2>2. SenderStep
    BY <1>1, <2>1 DEF SenderStep, TypeOK, DataOK
  <2> QED
    BY <1>2, <2>1, <2>2
<1>16. CASE UNCHANGED vars
  <2>1. SenderStep
    BY <1>1, <1>16 DEF SenderStep, TypeOK, DataOK, vars
  <2> QED
    BY <1>2, <1>4, <1>16, <2>1 DEF vars
<1> QED
  BY <1>6, <1>7, <1>8, <1>9, <1>10, <1>11, <1>12, <1>13, <1>14, <1>15, <1>16
  DEF Next, Deliver, Read

(* Sender, receiver and everything under way between them keep the         *)
(* inductive invariant.                                                    *)
THEOREM InductiveInvariant == Spec => []IInv
  BY InitOK, StepOK, PTL DEF Spec

(* The variables keep their types.                                         *)
THEOREM TypeCorrect == Spec => []TypeOK
<1>1. IInv => TypeOK
  BY DEF IInv
<1> QED
  BY <1>1, InductiveInvariant, PTL

(* Flow control holds whatever the buffer and the type of the window, with *)
(* any number of lost or late packets: the sender of tcp_output and        *)
(* tcp_receive stays within what tcp_update_rcv_ann_wnd announced, and the *)
(* overflow assertion of tcp_recved cannot fail.                           *)
THEOREM FlowControlHolds == Spec => []FlowControl
<1>1. IInv => FlowControl
  <2> SUFFICES ASSUME IInv PROVE FlowControl
    OBVIOUS
  <2>1. SenderInWindow
    BY DEF IInv, SenderOK, SenderInWindow
  <2>2. WindowIsWhole
    BY DEF IInv, ReceiverOK, WindowIsWhole
  <2> QED
    BY <2>1, <2>2 DEF FlowControl
<1> QED
  BY <1>1, InductiveInvariant, PTL

(* The announced right edge never moves to the left.                       *)
THEOREM EdgeStays == Spec => EdgeNeverShrinks
<1>1. IInv /\ [Next]_vars => [rcv'.right >= rcv.right]_vars
  BY StepOK
<1> QED
  BY <1>1, InductiveInvariant, PTL DEF Spec, EdgeNeverShrinks
==============================================================================
