------------------------------ MODULE TcpStreams ------------------------------
(***************************************************************************)
(* What the proofs about TCP say of a stream of data and of the segments   *)
(* that carry parts of it.  A stream is a record: base, the number before  *)
(* its first one; top, the number after its data so far; closed, whether   *)
(* its end is known, a FIN at top.  The unit with number n has the value   *)
(* n - base.                                                               *)
(***************************************************************************)
EXTENDS TcpPcb

(* A segment that holds a part of the stream.                              *)
OfStream(st, s) ==
  /\ s \in Segment /\ ~s.syn /\ st.base < s.seq
  /\ \A n \in 1 .. Len(s.data) : s.data[n] = s.seq + n - 1 - st.base
  /\ DataEnd(s) <= st.top
  /\ s.fin => st.closed /\ DataEnd(s) = st.top

Sorted(q) == \A j, k \in DOMAIN q : j < k => EndSeq(q[j]) <= q[k].seq

(* A queue of such segments, without overlaps.                             *)
StreamQueue(st, q) ==
  /\ q \in Seq(Segment) /\ Sorted(q)
  /\ \A j \in DOMAIN q : OfStream(st, q[j])

(* All segments of a queue start after x.                                  *)
Beyond(q, x) == \A j \in 1 .. Len(q) : q[j].seq > x

(* A packet of the stream, as the segment tcp_receive makes of it.         *)
SegOf(i) == NewSeg(i.seq, FALSE, i.fin, i.data)
===============================================================================
