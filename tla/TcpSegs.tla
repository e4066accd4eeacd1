------------------------------- MODULE TcpSegs -------------------------------
(***************************************************************************)
(* Segments, the queues a pcb keeps them on (unsent, unacked, ooseq) and   *)
(* the reassembly of tcp_receive.  A segment carries a sequence of data    *)
(* units; sequence numbers are naturals, far from their wrap.  A loop of   *)
(* the code that walks a queue from its front is written with the length   *)
(* of the prefix it walks.                                                 *)
(***************************************************************************)
EXTENDS Naturals, Sequences, FiniteSetsExt

CONSTANT TCP_MSS          \* data units of a full segment
ASSUME MssAssumption == TCP_MSS \in Nat \ {0}

Segment == [seq : Nat, syn : BOOLEAN, fin : BOOLEAN, data : Seq(Nat)]

NewSeg(seq, syn, fin, data) ==
  [seq |-> seq, syn |-> syn, fin |-> fin, data |-> data]

TCP_TCPLEN(s) == Len(s.data) + (IF s.syn \/ s.fin THEN 1 ELSE 0)

(* Sequence number after the segment, and after its data.                  *)
EndSeq(s) == s.seq + TCP_TCPLEN(s)
DataEnd(s) == s.seq + Len(s.data)

(* The queue without the first n segments; its last segment.               *)
From(q, n) == SubSeq(q, n + 1, Len(q))
Last(q) == q[Len(q)]

-----------------------------------------------------------------------------
(* Mutant: the first segment that is not acknowledged goes too.            *)
AckedPrefix_OffByOne(q, ackno) ==
  Max({n \in 0 .. Len(q) : \A j \in 1 .. n : EndSeq(q[j]) <= ackno + 1})

(* How many segments at the front of a queue ackno acknowledges in full.   *)
AckedPrefix(q, ackno) ==
  Max({n \in 0 .. Len(q) : \A j \in 1 .. n : EndSeq(q[j]) <= ackno})

(* Insertion by sequence number, in front of an equal one (tcp_rexmit into *)
(* unsent, tcp_output into unacked).                                       *)
Before(q, seq) == Max({n \in 0 .. Len(q) : \A j \in 1 .. n : q[j].seq < seq})

(* Mutant: a retransmitted segment goes to the end of the queue.           *)
InsertSorted_Append(q, s) == Append(q, s)

InsertSorted(q, s) ==
  LET n == Before(q, s.seq)
  IN SubSeq(q, 1, n) \o <<s>> \o From(q, n)

-----------------------------------------------------------------------------
(* How many segments at the front of q end (FIN not counted) at end or     *)
(* before it.                                                              *)
Covered(q, end) ==
  Max({n \in 0 .. Len(q) : \A j \in 1 .. n : end >= DataEnd(q[j])})

(* Data of a segment cut so that it ends where the queue after it starts.  *)
CutBefore(s, q) ==
  IF q # << >> /\ DataEnd(s) > q[1].seq
  THEN SubSeq(s.data, 1, q[1].seq - s.seq) ELSE s.data

(* Mutant: the new segment keeps data that the next one also holds.        *)
tcp_oos_insert_segment_NoCut(cseg, next) ==
  LET n   == IF cseg.fin THEN Len(next) ELSE Covered(next, DataEnd(cseg))
      fin == cseg.fin \/ \E j \in 1 .. n : next[j].fin
  IN <<[cseg EXCEPT !.fin = fin]>> \o From(next, n)

(* tcp_oos_insert_segment: cseg takes the place of the segments it covers  *)
(* and their FIN; a FIN of its own discards everything behind it.          *)
tcp_oos_insert_segment(cseg, next) ==
  LET n    == IF cseg.fin THEN Len(next) ELSE Covered(next, DataEnd(cseg))
      rest == From(next, n)
      fin  == cseg.fin \/ \E j \in 1 .. n : next[j].fin
  IN <<NewSeg(cseg.seq, cseg.syn, fin, CutBefore(cseg, rest))>> \o rest

(* The last segment of q no longer reaches past seq.                       *)
TrimLast(q, seq) ==
  IF q # << >> /\ DataEnd(Last(q)) > seq
  THEN [q EXCEPT ![Len(q)].data = SubSeq(@, 1, seq - Last(q).seq)] ELSE q

(* An out-of-sequence segment enters ooseq: ignored when a segment at its  *)
(* sequence number is at least as long or when the queue before it ends in *)
(* a FIN, else put in its place.                                           *)
OosInsert(q, s) ==
  LET n    == Before(q, s.seq)
      prev == SubSeq(q, 1, n)
      next == From(q, n)
  IN IF \/ next # << >> /\ next[1].seq = s.seq /\ Len(s.data) <= Len(next[1].data)
        \/ next = << >> /\ prev # << >> /\ Last(prev).fin
     THEN q
     ELSE TrimLast(prev, s.seq) \o tcp_oos_insert_segment(s, next)

-----------------------------------------------------------------------------
(* Mutant: one unit too few is cut off.                                    *)
TrimFront_OffByOne(s, rcv_nxt) ==
  IF s.seq < rcv_nxt /\ rcv_nxt < EndSeq(s)
  THEN [s EXCEPT !.seq = rcv_nxt,
                 !.data = SubSeq(@, rcv_nxt - s.seq, Len(@))]
  ELSE s

(* A segment that starts before rcv_nxt and reaches past it loses its      *)
(* front.                                                                  *)
TrimFront(s, rcv_nxt) ==
  IF s.seq < rcv_nxt /\ rcv_nxt < EndSeq(s)
  THEN [s EXCEPT !.seq = rcv_nxt,
                 !.data = SubSeq(@, rcv_nxt - s.seq + 1, Len(@))]
  ELSE s

(* The segment that arrives at rcv_nxt after the ooseq segments it covers  *)
(* are gone, and the ooseq left.                                           *)
InSeqRest(q, s) ==
  From(q, IF s.fin THEN Len(q) ELSE Covered(q, EndSeq(s)))

InSeqSeg(q, s) ==
  LET rest == InSeqRest(q, s)
      n    == Len(q) - Len(rest)
      fin  == s.fin \/ \E j \in 1 .. n : q[j].fin
  IN NewSeg(s.seq, s.syn, fin, CutBefore(s, rest))

(* Mutant: an if instead of the loop.                                      *)
Drained_Once(q, rcv_nxt) == IF q # << >> /\ q[1].seq = rcv_nxt THEN 1 ELSE 0

(* How many segments at the front of ooseq follow one another from         *)
(* rcv_nxt on: they are delivered with the segment that closed the gap.    *)
Drained(q, rcv_nxt) ==
  Max({n \in 0 .. Len(q) :
         \A j \in 1 .. n :
           q[j].seq = IF j = 1 THEN rcv_nxt ELSE EndSeq(q[j - 1])})

(* The data of a run of adjacent segments, as pbuf_cat chains them.        *)
DataOf(run) ==
  LET start == run[1].seq
      len   == DataEnd(Last(run)) - start
      Holds(j, n) == run[j].seq <= n /\ n < DataEnd(run[j])
      Unit(n) == LET j == CHOOSE j \in DOMAIN run : Holds(j, n)
                 IN run[j].data[n - run[j].seq + 1]
  IN [n \in 1 .. len |-> Unit(start + n - 1)]
=============================================================================
