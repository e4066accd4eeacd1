------------------------------- MODULE TcpReass -------------------------------
(***************************************************************************)
(* The receiving half of a pcb against any sender: tcp_receive is given    *)
(* every part of a stream of StreamLen data units and a FIN, in any order, *)
(* cut and overlapping in every way, any number of times.  Unit n of the   *)
(* stream has sequence number n and value n, the FIN is StreamLen + 1.     *)
(***************************************************************************)
EXTENDS TcpPcb

CONSTANT StreamLen
ASSUME StreamAssumption == StreamLen \in Nat

VARIABLES rx, rcvd, eof   \* the pcb; what its application received
rvars == <<rx, rcvd, eof>>

(* A part of the stream as a packet; only one that reaches the end of the  *)
(* stream may carry the FIN.                                               *)
Part(first, last, fin) ==
  [seq |-> first, ackno |-> 0, ack |-> FALSE, syn |-> FALSE, fin |-> fin,
   rst |-> FALSE, data |-> [j \in 1 .. last - first + 1 |-> first + j - 1]]

Parts ==
  (UNION {{Part(a, b, FALSE) : b \in a .. StreamLen} : a \in 1 .. StreamLen})
    \cup {Part(a, StreamLen, TRUE) : a \in 1 .. StreamLen + 1}

ReassInit ==
  /\ rx = [NoPcb EXCEPT !.state = "ESTABLISHED", !.rcv_nxt = 1]
  /\ rcvd = << >>
  /\ eof = FALSE

Arrive(i) ==
  LET r == tcp_process(rx, i, FALSE)
  IN /\ rx' = r.p
     /\ rcvd' = rcvd \o r.data
     /\ eof' = (eof \/ r.fin)

(* tcp_slowtmr drops out-of-sequence data that is too old.                 *)
DropOoseq ==
  /\ rx.ooseq # << >>
  /\ rx' = [rx EXCEPT !.ooseq = << >>]
  /\ UNCHANGED <<rcvd, eof>>

ReassNext == DropOoseq \/ \E i \in Parts : Arrive(i)

ReassSpec == ReassInit /\ [][ReassNext]_rvars

-----------------------------------------------------------------------------
(* ooseq is sorted and free of overlaps, lies beyond rcv_nxt, holds data   *)
(* of the stream only, and a FIN only at its end.                          *)
OoseqSorted ==
  LET q == rx.ooseq
  IN \A j \in DOMAIN q :
       /\ q[j].seq > rx.rcv_nxt
       /\ j < Len(q) => EndSeq(q[j]) <= q[j + 1].seq
       /\ q[j].data = [n \in 1 .. Len(q[j].data) |-> q[j].seq + n - 1]
       /\ q[j].fin => DataEnd(q[j]) = StreamLen + 1

(* Whatever arrives, the application gets the stream in order, without gap *)
(* or repetition, rcv_nxt counts what it got, the end of the stream is     *)
(* signalled after all of it, and ooseq is sorted.                         *)
StreamInOrder ==
  /\ OoseqSorted
  /\ rcvd = [n \in 1 .. Len(rcvd) |-> n]
  /\ rx.rcv_nxt = Len(rcvd) + (IF eof THEN 2 ELSE 1)
  /\ eof => Len(rcvd) = StreamLen

(* The reference for reassembly: after a segment, rcv_nxt is the first     *)
(* sequence number that is neither delivered, nor in the segment, nor in   *)
(* the ooseq queue the segment met.  An old FIN does not count twice.      *)
Numbers(s) == s.seq .. EndSeq(s) - 1

Known(i) ==
  (1 .. rx.rcv_nxt - 1) \cup Numbers(i)
    \cup (UNION {Numbers(rx.ooseq[j]) : j \in DOMAIN rx.ooseq})

ReassemblyIsExact ==
  [][\A i \in Parts : Arrive(i) =>
       rx'.rcv_nxt = Min((1 .. StreamLen + 2) \ Known(i))]_rvars
=============================================================================
