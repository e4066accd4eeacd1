---------------------------- MODULE TcpReassProofs ----------------------------
(***************************************************************************)
(* Proofs about TcpReass: for a stream of any length, cut, repeated and    *)
(* reordered in any way, the application gets it in order and once, and    *)
(* rcv_nxt is exactly the first number that did not arrive.                *)
(***************************************************************************)
EXTENDS TcpReass, TcpStreams, BasicLemmas

(* Each loop over the front of a queue stops where its condition fails.    *)
LEMMA LongestPrefix ==
  ASSUME NEW L \in Nat, NEW A, NEW S, S = {n \in 0 .. L : \A j \in 1 .. n : j \in A}
  PROVE  /\ Max(S) \in 0 .. L
         /\ \A j \in 1 .. Max(S) : j \in A
         /\ Max(S) < L => Max(S) + 1 \notin A
<1>1. S \subseteq 0 .. L /\ 0 \in S
  OBVIOUS
<1>2. Max(S) \in S /\ \A y \in S : Max(S) >= y
  BY <1>1, MaxIsGreatest
<1> DEFINE m == Max(S)
<1>3. m \in 0 .. L /\ \A j \in 1 .. m : j \in A
  BY <1>2
<1>4. ASSUME m < L, m + 1 \in A PROVE FALSE
  <2>1. m + 1 \in 0 .. L
    BY <1>3, <1>4
  <2>2. \A j \in 1 .. m + 1 : j \in 1 .. m \/ j = m + 1
    BY <1>3
  <2>3. m + 1 \in S
    BY <2>1, <2>2, <1>3, <1>4
  <2> HIDE DEF m
  <2> QED
    BY <2>3, <1>2, <1>3 DEF m
<1> QED
  BY <1>3, <1>4

(* Ends of segments are numbers.                                           *)
LEMMA EndsAreNat ==
  ASSUME NEW s \in Segment
  PROVE  /\ DataEnd(s) \in Nat /\ EndSeq(s) \in Nat /\ Len(s.data) \in Nat /\ s.seq \in Nat
         /\ DataEnd(s) = s.seq + Len(s.data)
         /\ s.seq <= DataEnd(s) /\ DataEnd(s) <= EndSeq(s)
  BY DEF Segment, DataEnd, EndSeq, TCP_TCPLEN

(* Covered: the segments before it end in time, the one after it does not. *)
LEMMA CoveredIs ==
  ASSUME NEW q \in Seq(Segment), NEW end \in Nat
  PROVE  LET n == Covered(q, end)
         IN  /\ n \in 0 .. Len(q)
             /\ \A j \in 1 .. n : DataEnd(q[j]) <= end
             /\ n < Len(q) => DataEnd(q[n + 1]) > end
<1> DEFINE A == {j \in 1 .. Len(q) : end >= DataEnd(q[j])}
           S == {n \in 0 .. Len(q) : \A j \in 1 .. n : end >= DataEnd(q[j])}
           T == {n \in 0 .. Len(q) : \A j \in 1 .. n : j \in A}
<1>1. Len(q) \in Nat /\ \A j \in 1 .. Len(q) : q[j] \in Segment
  OBVIOUS
<1>2. S = T
  BY <1>1
<1>3. Covered(q, end) = Max(T)
  BY <1>2 DEF Covered
<1> HIDE DEF T
<1>4. /\ Max(T) \in 0 .. Len(q)
      /\ \A j \in 1 .. Max(T) : j \in A
      /\ Max(T) < Len(q) => Max(T) + 1 \notin A
  BY <1>1, LongestPrefix DEF T
<1> DEFINE m == Max(T)
<1> HIDE DEF m
<1>5. /\ m \in 0 .. Len(q)
      /\ \A j \in 1 .. m : j \in A
      /\ m < Len(q) => m + 1 \notin A
  BY <1>4 DEF m
<1>6. \A j \in 1 .. m : DataEnd(q[j]) <= end
  BY <1>5
<1>7. m < Len(q) => DataEnd(q[m + 1]) > end
  <2> HAVE m < Len(q)
  <2>1. m + 1 \in 1 .. Len(q) /\ q[m + 1] \in Segment
    BY <1>5, <1>1
  <2>2. DataEnd(q[m + 1]) \in Nat
    BY <2>1, EndsAreNat
  <2> QED
    BY <2>1, <2>2, <1>5
<1> QED
  BY <1>3, <1>5, <1>6, <1>7 DEF m

(* Before: the segments before the place start earlier, the rest do not.   *)
LEMMA BeforeIs ==
  ASSUME NEW q \in Seq(Segment), NEW seq \in Nat
  PROVE  LET n == Before(q, seq)
         IN  /\ n \in 0 .. Len(q)
             /\ \A j \in 1 .. n : q[j].seq < seq
             /\ n < Len(q) => q[n + 1].seq >= seq
<1> DEFINE A == {j \in 1 .. Len(q) : q[j].seq < seq}
           S == {n \in 0 .. Len(q) : \A j \in 1 .. n : q[j].seq < seq}
           T == {n \in 0 .. Len(q) : \A j \in 1 .. n : j \in A}
<1>0. Len(q) \in Nat /\ \A j \in 1 .. Len(q) : q[j] \in Segment
  OBVIOUS
<1>1. Len(q) \in Nat /\ \A j \in 1 .. Len(q) : q[j].seq \in Nat
  BY <1>0 DEF Segment
<1>2. S = T
  BY <1>1
<1>3. Before(q, seq) = Max(T)
  BY <1>2 DEF Before
<1> HIDE DEF T
<1>4. /\ Max(T) \in 0 .. Len(q)
      /\ \A j \in 1 .. Max(T) : j \in A
      /\ Max(T) < Len(q) => Max(T) + 1 \notin A
  BY <1>1, LongestPrefix DEF T
<1> DEFINE m == Max(T)
<1> HIDE DEF m
<1>5. /\ m \in 0 .. Len(q)
      /\ \A j \in 1 .. m : j \in A
      /\ m < Len(q) => m + 1 \notin A
  BY <1>4 DEF m
<1>6. \A j \in 1 .. m : q[j].seq < seq
  BY <1>5
<1>7. m < Len(q) => q[m + 1].seq >= seq
  <2> HAVE m < Len(q)
  <2>1. m + 1 \in 1 .. Len(q) /\ q[m + 1].seq \in Nat
    BY <1>5, <1>1
  <2> QED
    BY <2>1, <1>5
<1> QED
  BY <1>3, <1>5, <1>6, <1>7 DEF m

(* Drained: the segments that follow one another, and no more.             *)
LEMMA DrainedIs ==
  ASSUME NEW q \in Seq(Segment), NEW next \in Nat
  PROVE  LET n == Drained(q, next)
         IN  /\ n \in 0 .. Len(q)
             /\ \A j \in 1 .. n : q[j].seq = IF j = 1 THEN next ELSE EndSeq(q[j - 1])
             /\ n < Len(q) => q[n + 1].seq # IF n = 0 THEN next ELSE EndSeq(q[n])
<1> DEFINE P(j) == q[j].seq = IF j = 1 THEN next ELSE EndSeq(q[j - 1])
           A == {j \in 1 .. Len(q) : P(j)}
           S == {n \in 0 .. Len(q) : \A j \in 1 .. n : P(j)}
           T == {n \in 0 .. Len(q) : \A j \in 1 .. n : j \in A}
<1>1. Len(q) \in Nat
  OBVIOUS
<1>3. Drained(q, next) = Max(S)
  BY DEF Drained
<1> HIDE DEF P
<1>2. S = T
  BY <1>1
<1> HIDE DEF T, S
<1>4. /\ Max(T) \in 0 .. Len(q)
      /\ \A j \in 1 .. Max(T) : j \in A
      /\ Max(T) < Len(q) => Max(T) + 1 \notin A
  BY <1>1, LongestPrefix DEF T
<1> DEFINE m == Max(T)
<1> HIDE DEF m
<1>5. /\ m \in 0 .. Len(q)
      /\ \A j \in 1 .. m : j \in A
      /\ m < Len(q) => m + 1 \notin A
  BY <1>4 DEF m
<1>6. \A j \in 1 .. m : P(j)
  BY <1>5
<1>7. m < Len(q) => ~P(m + 1)
  BY <1>5, <1>1
<1>8. m < Len(q) => q[m + 1].seq # IF m = 0 THEN next ELSE EndSeq(q[m])
  <2> HAVE m < Len(q)
  <2>1. m + 1 = 1 <=> m = 0
    BY <1>5
  <2>2. (m + 1) - 1 = m
    BY <1>5
  <2> QED
    BY <2>1, <2>2, <1>7 DEF P
<1> QED
  BY <1>2, <1>3, <1>5, <1>6, <1>8 DEF m, P

-----------------------------------------------------------------------------
(* The rest of a queue is a queue, its segments are shifted.               *)
LEMMA RestIs ==
  ASSUME NEW st, st.base \in Nat, st.top \in Nat,
         NEW q, StreamQueue(st, q), NEW n \in 0 .. Len(q)
  PROVE  LET r == From(q, n)
         IN  /\ StreamQueue(st, r) /\ Len(r) = Len(q) - n
             /\ \A i \in 1 .. Len(r) : n + i \in 1 .. Len(q) /\ r[i] = q[n + i]
             /\ (r # << >>) <=> (n < Len(q))
<1> DEFINE r == From(q, n)
<1>1. q \in Seq(Segment)
  BY DEF StreamQueue
<1>2. r \in Seq(Segment) /\ Len(r) = Len(q) - n /\ \A i \in 1 .. Len(q) - n : r[i] = q[n + i]
  BY <1>1, Suffix DEF From
<1> HIDE DEF r
<1>3. \A i \in 1 .. Len(r) : n + i \in 1 .. Len(q) /\ r[i] = q[n + i]
  BY <1>1, <1>2
<1>4. DOMAIN r = 1 .. Len(r) /\ DOMAIN q = 1 .. Len(q)
  BY <1>1, <1>2
<1>5. \A i \in DOMAIN r : OfStream(st, r[i])
  BY <1>3, <1>4 DEF StreamQueue
<1>6. Sorted(r)
  <2> SUFFICES ASSUME NEW j \in DOMAIN r, NEW k \in DOMAIN r, j < k
               PROVE  EndSeq(r[j]) <= r[k].seq
    BY DEF Sorted
  <2>1. n + j \in DOMAIN q /\ n + k \in DOMAIN q /\ n + j < n + k
    BY <1>3, <1>4
  <2>2. r[j] = q[n + j] /\ r[k] = q[n + k]
    BY <1>3, <1>4
  <2> QED
    BY <2>1, <2>2 DEF StreamQueue, Sorted
<1>7. (r # << >>) <=> (n < Len(q))
  BY <1>1, <1>2
<1> QED
  BY <1>2, <1>3, <1>5, <1>6, <1>7 DEF r, StreamQueue

(* So is its front.                                                        *)
LEMMA FrontIs ==
  ASSUME NEW st, st.base \in Nat, st.top \in Nat,
         NEW q, StreamQueue(st, q), NEW n \in 0 .. Len(q)
  PROVE  LET r == SubSeq(q, 1, n)
         IN  /\ StreamQueue(st, r) /\ Len(r) = n
             /\ \A i \in 1 .. n : i \in 1 .. Len(q) /\ r[i] = q[i]
             /\ (r # << >>) <=> (n > 0)
<1> DEFINE r == SubSeq(q, 1, n)
<1>1. q \in Seq(Segment)
  BY DEF StreamQueue
<1>2. r \in Seq(Segment) /\ Len(r) = n /\ \A i \in 1 .. n : r[i] = q[i]
  BY <1>1, Prefix
<1> HIDE DEF r
<1>3. \A i \in 1 .. n : i \in 1 .. Len(q) /\ r[i] = q[i]
  BY <1>1, <1>2
<1>4. DOMAIN r = 1 .. n /\ DOMAIN q = 1 .. Len(q)
  BY <1>1, <1>2
<1>5. \A i \in DOMAIN r : OfStream(st, r[i])
  BY <1>3, <1>4 DEF StreamQueue
<1>6. Sorted(r)
  BY <1>3, <1>4 DEF StreamQueue, Sorted
<1>7. (r # << >>) <=> (n > 0)
  BY <1>1, <1>2
<1> QED
  BY <1>2, <1>3, <1>5, <1>6, <1>7 DEF r, StreamQueue

(* The end of a segment, with and without a FIN.                           *)
LEMMA EndIs ==
  ASSUME NEW st, st.base \in Nat, st.top \in Nat,
         NEW s, OfStream(st, s)
  PROVE  /\ ~s.fin => EndSeq(s) = DataEnd(s)
         /\ s.fin => EndSeq(s) = DataEnd(s) + 1 /\ DataEnd(s) = st.top /\ st.closed
         /\ EndSeq(s) <= st.top + 1 /\ s.seq <= st.top
<1>1. s \in Segment /\ DataEnd(s) <= st.top
  BY DEF OfStream
<1>2. s.fin => EndSeq(s) = s.seq + (Len(s.data) + 1) /\ DataEnd(s) = st.top /\ st.closed
  BY Zenon DEF EndSeq, TCP_TCPLEN, OfStream
<1>3. ~s.fin => EndSeq(s) = s.seq + (Len(s.data) + 0)
  BY Zenon DEF EndSeq, TCP_TCPLEN, OfStream
<1>4. /\ DataEnd(s) \in Nat /\ Len(s.data) \in Nat /\ s.seq \in Nat
      /\ DataEnd(s) = s.seq + Len(s.data) /\ s.seq <= DataEnd(s)
  BY <1>1, EndsAreNat
<1> QED
  BY <1>1, <1>2, <1>3, <1>4

(* A FIN is at the end of the queue.                                       *)
LEMMA FinIsLast ==
  ASSUME NEW st, st.base \in Nat, st.top \in Nat,
         NEW q, StreamQueue(st, q), NEW j \in 1 .. Len(q)
  PROVE  q[j].fin => j = Len(q) /\ EndSeq(q[j]) = st.top + 1
<1>1. q \in Seq(Segment) /\ DOMAIN q = 1 .. Len(q) /\ Len(q) \in Nat
  BY DEF StreamQueue
<1>2. OfStream(st, q[j])
  BY <1>1 DEF StreamQueue
<1>3. q[j].fin => EndSeq(q[j]) = st.top + 1
  BY <1>2, EndIs
<1>4. ASSUME j # Len(q), EndSeq(q[j]) = st.top + 1 PROVE FALSE
  <2>0. Len(q) \in Nat
    BY <1>1
  <2>9. j + 1 \in 1 .. Len(q) /\ j \in 1 .. Len(q) /\ j < j + 1
    BY <1>4, <2>0
  <2>1. j + 1 \in DOMAIN q /\ j \in DOMAIN q /\ j < j + 1
    BY <1>1, <2>9, Zenon
  <2>2. OfStream(st, q[j + 1]) /\ EndSeq(q[j]) <= q[j + 1].seq
    BY <2>1 DEF StreamQueue, Sorted
  <2>3. q[j + 1].seq <= st.top /\ q[j + 1].seq \in Nat
    BY <2>2, EndIs, EndsAreNat DEF OfStream
  <2> QED
    BY <2>2, <2>3, <1>4
<1> QED
  BY <1>3, <1>4

-----------------------------------------------------------------------------
(* Data cut before the queue that follows is still a part of the stream.   *)
LEMMA CutIs ==
  ASSUME NEW st, st.base \in Nat, st.top \in Nat,
         NEW s, OfStream(st, s), NEW q, StreamQueue(st, q), q # << >> => s.seq <= q[1].seq
  PROVE  LET d == CutBefore(s, q)
         IN  /\ d \in Seq(Nat) /\ \A n \in 1 .. Len(d) : d[n] = s.seq + n - 1 - st.base
             /\ Len(d) <= Len(s.data)
             /\ q = << >> => d = s.data
             /\ q # << >> => s.seq + Len(d) <= q[1].seq
             /\ \/ d = s.data
                \/ q # << >> /\ s.seq + Len(d) = q[1].seq
<1> DEFINE d == CutBefore(s, q)
<1>1. /\ s \in Segment /\ s.data \in Seq(Nat) /\ s.seq \in Nat
      /\ \A n \in 1 .. Len(s.data) : s.data[n] = s.seq + n - 1 - st.base
  BY DEF OfStream, Segment
<1>2. Len(s.data) \in Nat /\ DataEnd(s) = s.seq + Len(s.data)
  BY <1>1, EndsAreNat
<1>3. CASE q # << >> /\ DataEnd(s) > q[1].seq
  <2>1. q \in Seq(Segment) /\ q # << >>
    BY <1>3 DEF StreamQueue
  <2>2. q[1] \in Segment
    BY <2>1
  <2>3. q[1].seq \in Nat
    BY <2>2 DEF Segment
  <2> DEFINE k == q[1].seq - s.seq
  <2>4. k \in 0 .. Len(s.data)
    BY <1>1, <1>2, <1>3, <2>3
  <2>5. d = SubSeq(s.data, 1, k)
    BY <1>3 DEF CutBefore
  <2> HIDE DEF k, d
  <2>6. d \in Seq(Nat) /\ Len(d) = k /\ \A n \in 1 .. k : d[n] = s.data[n]
    BY <2>4, <2>5, <1>1, Prefix
  <2>7. \A n \in 1 .. k : n \in 1 .. Len(s.data)
    BY <2>4, <1>2
  <2>8. \A n \in 1 .. Len(d) : d[n] = s.seq + n - 1 - st.base
    BY <2>6, <2>7, <1>1
  <2>9. s.seq + Len(d) = q[1].seq
    BY <2>6, <2>3, <1>1 DEF k
  <2> QED
    BY <1>3, <2>4, <2>6, <2>8, <2>9, <2>3, <1>2 DEF d
<1>4. CASE ~(q # << >> /\ DataEnd(s) > q[1].seq)
  <2>1. d = s.data
    BY <1>4 DEF CutBefore
  <2>2. q # << >> => s.seq + Len(d) <= q[1].seq
    <3> HAVE q # << >>
    <3>1. q \in Seq(Segment)
      BY DEF StreamQueue
    <3>2. q[1] \in Segment
      BY <3>1
    <3>3. q[1].seq \in Nat
      BY <3>2 DEF Segment
    <3> HIDE DEF d
    <3> QED
      BY <2>1, <3>3, <1>1, <1>2, <1>4
  <2> HIDE DEF d
  <2> QED
    BY <2>1, <2>2, <1>1, <1>2 DEF d
<1> QED
  BY <1>3, <1>4

(* The segments of a end before b starts.                                  *)
Precedes(a, b) == \A j \in 1 .. Len(a) : b # << >> => EndSeq(a[j]) <= b[1].seq

(* Queues that follow one another make a queue.                            *)
Joined(st, a, b) ==
  /\ StreamQueue(st, a \o b) /\ Len(a \o b) = Len(a) + Len(b)
  /\ \A i \in 1 .. Len(a) : (a \o b)[i] = a[i]
  /\ \A i \in 1 .. Len(b) : (a \o b)[Len(a) + i] = b[i]

LEMMA JoinIs ==
  ASSUME NEW st, st.base \in Nat, st.top \in Nat,
         NEW a, StreamQueue(st, a), NEW b, StreamQueue(st, b), Precedes(a, b)
  PROVE  Joined(st, a, b)
<1> DEFINE c == a \o b
<1>1. a \in Seq(Segment) /\ b \in Seq(Segment)
  BY DEF StreamQueue
<1>2. /\ c \in Seq(Segment) /\ Len(c) = Len(a) + Len(b)
      /\ \A i \in 1 .. Len(a) + Len(b) :
           c[i] = IF i <= Len(a) THEN a[i] ELSE b[i - Len(a)]
  BY <1>1, ConcatProperties
<1> HIDE DEF c
<1>3. Len(a) \in Nat /\ Len(b) \in Nat /\ DOMAIN a = 1 .. Len(a) /\ DOMAIN b = 1 .. Len(b)
      /\ DOMAIN c = 1 .. Len(c)
  BY <1>1, <1>2
<1>4. \A i \in 1 .. Len(a) : i \in 1 .. Len(c) /\ c[i] = a[i]
  BY <1>2, <1>3
<1>5. \A i \in 1 .. Len(b) : Len(a) + i \in 1 .. Len(c) /\ c[Len(a) + i] = b[i]
  <2> TAKE i \in 1 .. Len(b)
  <2>1. Len(a) + i \in 1 .. Len(a) + Len(b) /\ ~(Len(a) + i <= Len(a)) /\ (Len(a) + i) - Len(a) = i
    BY <1>3
  <2> QED
    BY <2>1, <1>2
<1>6. \A i \in 1 .. Len(c) : i \in 1 .. Len(a) \/ \E k \in 1 .. Len(b) : i = Len(a) + k
  <2> TAKE i \in 1 .. Len(c)
  <2>1. i \in 1 .. Len(a) + Len(b)
    BY <1>2
  <2>2. i \in 1 .. Len(a) \/ (i - Len(a) \in 1 .. Len(b) /\ i = Len(a) + (i - Len(a)))
    BY <2>1, <1>3
  <2> QED
    BY <2>2
<1>7. \A i \in 1 .. Len(c) : OfStream(st, c[i])
  BY <1>4, <1>5, <1>6, <1>3 DEF StreamQueue
<1>8. ASSUME NEW j \in 1 .. Len(c), NEW k \in 1 .. Len(c), j < k
      PROVE  EndSeq(c[j]) <= c[k].seq
  <2>1. CASE k \in 1 .. Len(a)
    <3>1. j \in 1 .. Len(a)
      BY <1>8, <2>1, <1>3
    <3> QED
      BY <3>1, <2>1, <1>4, <1>8, <1>3 DEF StreamQueue, Sorted
  <2>2. ASSUME NEW k2 \in 1 .. Len(b), k = Len(a) + k2 PROVE EndSeq(c[j]) <= c[k].seq
    <3>1. c[k] = b[k2]
      BY <2>2, <1>5
    <3>2. CASE j \in 1 .. Len(a)
      <4>1. b # << >> /\ 1 \in 1 .. Len(b)
        BY <1>1, <1>3
      <4>2. EndSeq(a[j]) <= b[1].seq
        BY <4>1, <3>2 DEF Precedes
      <4>3. b[1].seq <= b[k2].seq
        <5>1. CASE k2 = 1
          <6>1. b[1] \in Segment
            BY <4>1, <1>1
          <6>2. b[1].seq \in Nat
            BY <6>1, EndsAreNat
          <6> QED
            BY <5>1, <6>2
        <5>2. CASE k2 # 1
          <6>1. 1 < k2
            BY <5>2
          <6>2. EndSeq(b[1]) <= b[k2].seq
            BY <6>1, <4>1, <1>3, Zenon DEF StreamQueue, Sorted
          <6>3. b[1] \in Segment /\ b[k2] \in Segment
            BY <4>1, <1>1
          <6> QED
            BY <6>2, <6>3, EndsAreNat
        <5> QED
          BY <5>1, <5>2
      <4>4. a[j] \in Segment /\ b[1] \in Segment /\ b[k2] \in Segment
        BY <3>2, <4>1, <1>1
      <4>5. EndSeq(a[j]) \in Nat /\ b[1].seq \in Nat /\ b[k2].seq \in Nat
        BY <4>4, EndsAreNat
      <4>6. c[j] = a[j]
        BY <3>2, <1>4
      <4> QED
        BY <4>2, <4>3, <4>5, <4>6, <3>1
    <3>3. ASSUME NEW j2 \in 1 .. Len(b), j = Len(a) + j2 PROVE EndSeq(c[j]) <= c[k].seq
      <4>1. c[j] = b[j2] /\ j2 < k2
        BY <3>3, <2>2, <1>5, <1>8, <1>3
      <4>2. EndSeq(b[j2]) <= b[k2].seq
        BY <4>1, <1>3, Zenon DEF StreamQueue, Sorted
      <4> QED
        BY <4>1, <4>2, <3>1
    <3> QED
      BY <3>2, <3>3, <1>6
  <2> QED
    BY <2>1, <2>2, <1>6
<1>9. Sorted(c)
  BY <1>8, <1>3, Zenon DEF Sorted
<1> QED
  BY <1>2, <1>3, <1>4, <1>5, <1>7, <1>9 DEF c, StreamQueue, Joined

(* One segment is a queue, so is none.                                     *)
LEMMA SingleIs ==
  ASSUME NEW st, st.base \in Nat, st.top \in Nat,
         NEW s, OfStream(st, s)
  PROVE  StreamQueue(st, <<s>>) /\ Len(<<s>>) = 1 /\ <<s>>[1] = s
<1>1. s \in Segment
  BY DEF OfStream
<1>2. <<s>> \in Seq(Segment) /\ DOMAIN <<s>> = 1 .. 1 /\ <<s>>[1] = s /\ Len(<<s>>) = 1
  BY <1>1
<1>3. \A j \in 1 .. 1 : j = 1
  OBVIOUS
<1>4. Sorted(<<s>>)
  <2> SUFFICES ASSUME NEW j \in 1 .. 1, NEW k \in 1 .. 1, j < k PROVE FALSE
    BY <1>2 DEF Sorted
  <2> QED
    OBVIOUS
<1> QED
  BY <1>2, <1>3, <1>4 DEF StreamQueue

(* The empty queue.                                                        *)
LEMMA EmptyIs ==
  ASSUME NEW st
  PROVE  StreamQueue(st, << >>)
  BY DEF StreamQueue, Sorted

-----------------------------------------------------------------------------
(* A segment that meets the queue behind it takes the place of the first   *)
(* Takes segments, and their FIN: so tcp_oos_insert_segment does it for    *)
(* one out of sequence, and tcp_receive for one in sequence.               *)
Takes(q, s) == IF s.fin THEN Len(q) ELSE Covered(q, DataEnd(s))
FinIn(q, n) == \E j \in 1 .. n : q[j].fin
Left(q, s) == From(q, Takes(q, s))
Merged(q, s) ==
  NewSeg(s.seq, s.syn, s.fin \/ FinIn(q, Takes(q, s)), CutBefore(s, Left(q, s)))

Follows(q, s) == q # << >> => s.seq <= q[1].seq

(* All segments of such a queue start at or after the segment.             *)
LEMMA AllFollow ==
  ASSUME NEW st, st.base \in Nat, st.top \in Nat,
         NEW q, StreamQueue(st, q), NEW seq \in Nat, q # << >> => seq <= q[1].seq
  PROVE  \A j \in 1 .. Len(q) : seq <= q[j].seq
<1> SUFFICES ASSUME NEW j \in 1 .. Len(q) PROVE seq <= q[j].seq
  OBVIOUS
<1>1. q \in Seq(Segment) /\ DOMAIN q = 1 .. Len(q)
  BY DEF StreamQueue
<1>2. 1 \in 1 .. Len(q) /\ q # << >>
  BY <1>1
<1>3. q[1] \in Segment /\ q[j] \in Segment
  BY <1>1, <1>2
<1>4. q[1].seq \in Nat /\ q[j].seq \in Nat /\ EndSeq(q[1]) \in Nat /\ q[1].seq <= EndSeq(q[1])
  BY <1>3, EndsAreNat
<1>5. seq <= q[1].seq
  BY <1>2
<1>6. CASE j = 1
  BY <1>5, <1>6
<1>7. CASE j # 1
  <2>1. 1 < j
    BY <1>7
  <2>2. EndSeq(q[1]) <= q[j].seq
    BY <2>1, <1>1, <1>2, Zenon DEF StreamQueue, Sorted
  <2> QED
    BY <2>2, <1>4, <1>5
<1> QED
  BY <1>6, <1>7

(* How many segments are taken, and what that says of a FIN.               *)
LEMMA TakesIs ==
  ASSUME NEW st, st.base \in Nat, st.top \in Nat,
         NEW q, StreamQueue(st, q), NEW s, OfStream(st, s)
  PROVE  LET n == Takes(q, s)
         IN  /\ n \in 0 .. Len(q)
             /\ \A j \in 1 .. n : DataEnd(q[j]) <= DataEnd(s)
             /\ n < Len(q) => ~s.fin /\ ~FinIn(q, n) /\ DataEnd(q[n + 1]) > DataEnd(s)
             /\ FinIn(q, n) => n = Len(q) /\ DataEnd(s) = st.top /\ st.closed
<1> DEFINE n == Takes(q, s)
<1>1. q \in Seq(Segment) /\ DOMAIN q = 1 .. Len(q) /\ Len(q) \in Nat
  BY DEF StreamQueue
<1>2. s \in Segment /\ DataEnd(s) \in Nat /\ DataEnd(s) <= st.top
  BY EndsAreNat DEF OfStream
<1>3. \A j \in 1 .. Len(q) : OfStream(st, q[j]) /\ DataEnd(q[j]) \in Nat
                              /\ DataEnd(q[j]) <= st.top
                              /\ (q[j].fin => DataEnd(q[j]) = st.top /\ j = Len(q) /\ st.closed)
  <2> TAKE j \in 1 .. Len(q)
  <2>1. OfStream(st, q[j])
    BY <1>1 DEF StreamQueue
  <2>2. q[j] \in Segment /\ DataEnd(q[j]) <= st.top
    BY <2>1 DEF OfStream
  <2>3. q[j].fin => DataEnd(q[j]) = st.top /\ st.closed
    BY <2>1, EndIs
  <2>4. q[j].fin => j = Len(q)
    BY FinIsLast
  <2> QED
    BY <2>1, <2>2, <2>3, <2>4, EndsAreNat
<1>4. /\ n \in 0 .. Len(q)
      /\ \A j \in 1 .. n : DataEnd(q[j]) <= DataEnd(s)
      /\ n < Len(q) => ~s.fin /\ DataEnd(q[n + 1]) > DataEnd(s)
  <2>1. CASE s.fin
    <3>1. n = Len(q)
      BY <2>1, Zenon DEF Takes
    <3>2. DataEnd(s) = st.top
      BY <2>1, EndIs
    <3> HIDE DEF n
    <3> QED
      BY <3>1, <3>2, <1>1, <1>3
  <2>2. CASE ~s.fin
    <3>1. n = Covered(q, DataEnd(s))
      BY <2>2, Zenon DEF Takes
    <3> HIDE DEF n
    <3>2. /\ n \in 0 .. Len(q)
          /\ \A j \in 1 .. n : DataEnd(q[j]) <= DataEnd(s)
          /\ n < Len(q) => DataEnd(q[n + 1]) > DataEnd(s)
      BY <3>1, <1>1, <1>2, CoveredIs
    <3> QED
      BY <3>2, <2>2, Zenon
  <2> QED
    BY <2>1, <2>2
<1> HIDE DEF n
<1>5. FinIn(q, n) => n = Len(q) /\ DataEnd(s) = st.top /\ st.closed
  <2> SUFFICES ASSUME NEW j \in 1 .. n, q[j].fin
               PROVE  n = Len(q) /\ DataEnd(s) = st.top /\ st.closed
    BY DEF FinIn
  <2>1. j \in 1 .. Len(q) /\ DataEnd(q[j]) <= DataEnd(s)
    BY <1>4, <1>1
  <2>2. DataEnd(q[j]) = st.top /\ j = Len(q) /\ st.closed
    BY <2>1, <1>3, Zenon
  <2>3. DataEnd(q[j]) = st.top /\ j = Len(q) /\ st.closed /\ DataEnd(q[j]) <= DataEnd(s)
    BY <2>1, <2>2
  <2> QED
    BY <2>3, <1>4, <1>1, <1>2
<1>6. n < Len(q) => ~FinIn(q, n)
  <2>1. n < Len(q) => n # Len(q)
    BY <1>1
  <2> QED
    BY <2>1, <1>5, Zenon
<1> QED
  BY <1>4, <1>5, <1>6 DEF n

(* The segment that comes out of it, and the queue left.                   *)
LEMMA MergedIs ==
  ASSUME NEW st, st.base \in Nat, st.top \in Nat,
         NEW q, StreamQueue(st, q), NEW s, OfStream(st, s), Follows(q, s)
  PROVE  LET g == Merged(q, s)
             r == Left(q, s)
         IN  /\ OfStream(st, g) /\ g.seq = s.seq /\ StreamQueue(st, r)
             /\ r # << >> => EndSeq(g) <= r[1].seq
             /\ \/ DataEnd(g) = DataEnd(s) /\ (s.fin => g.fin)
                \/ r # << >> /\ DataEnd(g) = r[1].seq /\ EndSeq(g) = DataEnd(g)
                     /\ ~s.fin /\ DataEnd(r[1]) > DataEnd(s)
             /\ DataEnd(g) <= DataEnd(s)
             /\ g.fin <=> (s.fin \/ FinIn(q, Takes(q, s)))
<1> DEFINE g == Merged(q, s)
           n == Takes(q, s)
           r == Left(q, s)
           d == CutBefore(s, r)
           fin == s.fin \/ FinIn(q, n)
<1>1. /\ n \in 0 .. Len(q)
      /\ \A j \in 1 .. n : DataEnd(q[j]) <= DataEnd(s)
      /\ n < Len(q) => ~s.fin /\ ~FinIn(q, n) /\ DataEnd(q[n + 1]) > DataEnd(s)
      /\ FinIn(q, n) => n = Len(q) /\ DataEnd(s) = st.top /\ st.closed
  BY TakesIs
<1> HIDE DEF n
<1>2. /\ StreamQueue(st, r) /\ Len(r) = Len(q) - n
      /\ \A i \in 1 .. Len(r) : n + i \in 1 .. Len(q) /\ r[i] = q[n + i]
      /\ (r # << >>) <=> (n < Len(q))
  BY <1>1, RestIs DEF Left, n
<1> HIDE DEF r
<1>3. s \in Segment /\ s.seq \in Nat /\ DataEnd(s) = s.seq + Len(s.data)
      /\ s.data \in Seq(Nat) /\ Len(s.data) \in Nat
      /\ DataEnd(s) <= st.top /\ ~s.syn /\ DataEnd(s) \in Nat
  BY EndsAreNat DEF OfStream, Segment
<1>4. r # << >> => s.seq <= r[1].seq
  <2> HAVE r # << >>
  <2>1. r \in Seq(Segment) /\ q \in Seq(Segment)
    BY <1>2 DEF StreamQueue
  <2>2. 1 \in 1 .. Len(r)
    BY <2>1
  <2>3. n + 1 \in 1 .. Len(q) /\ r[1] = q[n + 1]
    BY <2>2, <1>2
  <2>4. \A j \in 1 .. Len(q) : s.seq <= q[j].seq
    BY <1>3, AllFollow DEF Follows
  <2> QED
    BY <2>3, <2>4
<1>5. /\ d \in Seq(Nat) /\ \A k \in 1 .. Len(d) : d[k] = s.seq + k - 1 - st.base
      /\ Len(d) <= Len(s.data)
      /\ r = << >> => d = s.data
      /\ r # << >> => s.seq + Len(d) <= r[1].seq
      /\ \/ d = s.data
         \/ r # << >> /\ s.seq + Len(d) = r[1].seq
  BY <1>2, <1>4, CutIs
<1> HIDE DEF d
<1>6. fin \in BOOLEAN
  <2>1. s.fin \in BOOLEAN
    BY <1>3 DEF Segment
  <2> QED
    BY <2>1, Zenon DEF FinIn
<1>7. fin => r = << >> /\ DataEnd(s) = st.top /\ st.closed
  <2>1. s.fin => DataEnd(s) = st.top /\ st.closed
    BY EndIs
  <2> QED
    BY <1>1, <1>2, <2>1, Zenon
<1>8. g = [seq |-> s.seq, syn |-> s.syn, fin |-> fin, data |-> d]
  BY DEF Merged, NewSeg, d, r, n
<1> HIDE DEF g, fin
<1>9. g.seq = s.seq /\ g.data = d /\ (g.fin <=> fin) /\ (g.syn <=> s.syn)
  BY <1>8
<1>10. g \in Segment
  <2>1. s.syn \in BOOLEAN
    BY <1>3 DEF Segment
  <2> QED
    BY <1>3, <1>5, <1>6, <1>8, <2>1 DEF Segment
<1>11. DataEnd(g) = s.seq + Len(d) /\ DataEnd(g) <= DataEnd(s) /\ Len(d) \in Nat
  BY <1>3, <1>5, <1>9 DEF DataEnd
<1>12. g.fin => st.closed /\ DataEnd(g) = st.top
  BY <1>7, <1>5, <1>9, <1>11, <1>3
<1>13. OfStream(st, g)
  <2>1. \A k \in 1 .. Len(g.data) : g.data[k] = g.seq + k - 1 - st.base
    BY <1>5, <1>9
  <2>2. DataEnd(g) <= st.top
    BY <1>11, <1>3
  <2>3. ~g.syn /\ st.base < g.seq
    BY <1>9, <1>3, Zenon DEF OfStream
  <2> QED
    BY <2>1, <2>2, <2>3, <1>10, <1>12, Zenon DEF OfStream
<1>14. r # << >> => EndSeq(g) = DataEnd(g)
  <2>1. r # << >> => ~g.fin
    BY <1>7, <1>9, Zenon
  <2> QED
    BY <2>1, <1>13, EndIs
<1>15. r # << >> => EndSeq(g) <= r[1].seq
  BY <1>14, <1>11, <1>5
<1>16. \/ DataEnd(g) = DataEnd(s) /\ (s.fin => g.fin)
       \/ r # << >> /\ DataEnd(g) = r[1].seq /\ EndSeq(g) = DataEnd(g)
             /\ ~s.fin /\ DataEnd(r[1]) > DataEnd(s)
  <2>1. CASE d = s.data
    <3>1. DataEnd(g) = DataEnd(s)
      BY <2>1, <1>3, <1>11
    <3> QED
      BY <3>1, <1>9, Zenon DEF fin
  <2>2. CASE r # << >> /\ s.seq + Len(d) = r[1].seq
    <3>1. r \in Seq(Segment) /\ n < Len(q)
      BY <1>2, <2>2 DEF StreamQueue
    <3>2. 1 \in 1 .. Len(r)
      BY <3>1, <2>2
    <3>3. r[1] = q[n + 1] /\ ~s.fin /\ DataEnd(q[n + 1]) > DataEnd(s)
      BY <3>1, <3>2, <1>1, <1>2
    <3> QED
      BY <3>3, <2>2, <1>11, <1>14
  <2> QED
    BY <2>1, <2>2, <1>5
<1> QED
  BY <1>2, <1>9, <1>11, <1>13, <1>15, <1>16, Zenon DEF g, r, n, fin

-----------------------------------------------------------------------------
(* tcp_oos_insert_segment makes a queue that starts with the new segment.  *)
LEMMA InsertIs ==
  ASSUME NEW st, st.base \in Nat, st.top \in Nat,
         NEW q, StreamQueue(st, q), NEW s, OfStream(st, s), Follows(q, s)
  PROVE  LET r == tcp_oos_insert_segment(s, q)
         IN  StreamQueue(st, r) /\ r # << >> /\ r[1].seq = s.seq
<1> DEFINE g == Merged(q, s)
           e == Left(q, s)
<1>1. tcp_oos_insert_segment(s, q) = <<g>> \o e
  BY DEF tcp_oos_insert_segment, Merged, Left, Takes, FinIn
<1>2. OfStream(st, g) /\ g.seq = s.seq /\ StreamQueue(st, e) /\ (e # << >> => EndSeq(g) <= e[1].seq)
  BY MergedIs
<1> HIDE DEF g, e
<1>3. StreamQueue(st, <<g>>) /\ Len(<<g>>) = 1 /\ <<g>>[1] = g
  BY <1>2, SingleIs
<1> DEFINE a == <<g>>
<1> HIDE DEF a
<1>4. StreamQueue(st, a) /\ Len(a) = 1 /\ a[1] = g
  BY <1>3 DEF a
<1>5. Precedes(a, e)
  BY <1>2, <1>4 DEF Precedes
<1>6. /\ StreamQueue(st, a \o e) /\ Len(a \o e) = Len(a) + Len(e)
      /\ \A i \in 1 .. Len(a) : (a \o e)[i] = a[i]
  <2>1. StreamQueue(st, a) /\ StreamQueue(st, e)
    BY <1>2, <1>4
  <2>2. Joined(st, a, e)
    BY <2>1, <1>5, JoinIs
  <2> QED
    BY <2>2 DEF Joined
<1> DEFINE r == a \o e
<1>7. r = tcp_oos_insert_segment(s, q)
  BY <1>1 DEF a
<1> HIDE DEF r
<1>8. StreamQueue(st, r) /\ Len(r) = 1 + Len(e) /\ r[1] = g
  BY <1>6, <1>4 DEF r
<1>9. r # << >>
  <2>1. e \in Seq(Segment) /\ r \in Seq(Segment)
    BY <1>2, <1>8 DEF StreamQueue
  <2> QED
    BY <2>1, <1>8
<1> QED
  BY <1>2, <1>7, <1>8, <1>9

(* The segments in front lose what the new one holds.                      *)
LEMMA TrimLastIs ==
  ASSUME NEW st, st.base \in Nat, st.top \in Nat,
         NEW q, StreamQueue(st, q), NEW seq \in Nat,
         q # << >> => ~Last(q).fin /\ Last(q).seq < seq
  PROVE  LET r == TrimLast(q, seq)
         IN  /\ StreamQueue(st, r) /\ Len(r) = Len(q)
             /\ \A j \in 1 .. Len(q) : r[j].seq = q[j].seq /\ EndSeq(r[j]) <= seq
<1> DEFINE r == TrimLast(q, seq)
           L == Len(q)
<1>1. q \in Seq(Segment) /\ DOMAIN q = 1 .. L /\ L \in Nat
  BY DEF StreamQueue
<1>2. \A j \in 1 .. L : OfStream(st, q[j]) /\ q[j] \in Segment
  BY <1>1 DEF StreamQueue, OfStream
<1>3. CASE q = << >>
  <2>1. r = q
    BY <1>3 DEF TrimLast
  <2>2. L = 0
    BY <1>3
  <2> QED
    BY <2>1, <2>2
<1>4. ASSUME q # << >> PROVE L \in 1 .. L /\ L > 0
  BY <1>1, <1>4
<1>5. ASSUME q # << >>, NEW j \in 1 .. L, j # L PROVE EndSeq(q[j]) <= q[L].seq
  <2>0. L \in Nat
    BY <1>1
  <2>1. j < L
    BY <2>0, <1>5
  <2> QED
    BY <2>1, <1>1, <1>4, <1>5, Zenon DEF StreamQueue, Sorted
<1>6. CASE q # << >> /\ ~(DataEnd(Last(q)) > seq)
  <2>1. r = q
    BY <1>6 DEF TrimLast
  <2>2. q[L] \in Segment /\ OfStream(st, q[L]) /\ ~q[L].fin /\ q[L].seq < seq
    BY <1>2, <1>4, <1>6, Zenon DEF Last
  <2>3. EndSeq(q[L]) = DataEnd(q[L]) /\ DataEnd(q[L]) \in Nat /\ ~(DataEnd(q[L]) > seq)
        /\ q[L].seq \in Nat
    BY <2>2, EndIs, EndsAreNat, <1>6 DEF Last
  <2>4. \A j \in 1 .. L : EndSeq(q[j]) <= seq
    <3> TAKE j \in 1 .. L
    <3>1. CASE j = L
      BY <3>1, <2>3
    <3>2. CASE j # L
      <4>1. EndSeq(q[j]) <= q[L].seq /\ EndSeq(q[j]) \in Nat
        BY <3>2, <1>2, <1>5, <1>6, EndsAreNat
      <4> QED
        BY <4>1, <2>2, <2>3
    <3> QED
      BY <3>1, <3>2
  <2> QED
    BY <2>1, <2>4
<1>7. CASE q # << >> /\ DataEnd(Last(q)) > seq
  <2>1. L \in 1 .. L /\ q[L] \in Segment /\ OfStream(st, q[L]) /\ ~q[L].fin /\ q[L].seq < seq
        /\ DataEnd(q[L]) > seq
    BY <1>2, <1>4, <1>7, Zenon DEF Last
  <2>2. q[L].seq \in Nat /\ DataEnd(q[L]) = q[L].seq + Len(q[L].data) /\ Len(q[L].data) \in Nat
        /\ q[L].data \in Seq(Nat) /\ DataEnd(q[L]) <= st.top
    BY <2>1, EndsAreNat DEF Segment, OfStream
  <2> DEFINE k == seq - q[L].seq
             d == SubSeq(q[L].data, 1, k)
             c == [q[L] EXCEPT !.data = d]
  <2>3. k \in 0 .. Len(q[L].data) /\ q[L].seq + k = seq
    BY <2>1, <2>2
  <2>4. r = [q EXCEPT ![L] = c]
    BY <1>7 DEF TrimLast, Last
  <2> HIDE DEF r, k
  <2>5. d \in Seq(Nat) /\ Len(d) = k /\ \A i \in 1 .. k : d[i] = q[L].data[i]
    BY <2>2, <2>3, Prefix
  <2> HIDE DEF d
  <2>6. c \in Segment /\ c.seq = q[L].seq /\ c.data = d /\ (c.fin <=> q[L].fin) /\ (c.syn <=> q[L].syn)
    BY <2>1, <2>5 DEF Segment
  <2> HIDE DEF c
  <2>7. DataEnd(c) = seq
    BY <2>3, <2>5, <2>6 DEF DataEnd
  <2>8. OfStream(st, c)
    <3>1. ~c.fin /\ ~c.syn
      BY <2>1, <2>6, Zenon DEF OfStream
    <3>2. \A i \in 1 .. k : q[L].data[i] = q[L].seq + i - 1 - st.base
      <4>1. \A i \in 1 .. Len(q[L].data) : q[L].data[i] = q[L].seq + i - 1 - st.base
        BY <2>1 DEF OfStream
      <4>2. \A i \in 1 .. k : i \in 1 .. Len(q[L].data)
        BY <2>2, <2>3
      <4> QED
        BY <4>1, <4>2
    <3>3. \A i \in 1 .. Len(c.data) : c.data[i] = c.seq + i - 1 - st.base
      BY <3>2, <2>5, <2>6
    <3>4. DataEnd(c) <= st.top
      BY <2>7, <2>1, <2>2
    <3>5. st.base < c.seq
      BY <2>1, <2>6, Zenon DEF OfStream
    <3> QED
      BY <3>1, <3>3, <3>4, <3>5, <2>6, Zenon DEF OfStream
  <2>9. EndSeq(c) = seq
    BY <2>1, <2>6, <2>7, <2>8, EndIs
  <2>10. r \in Seq(Segment) /\ Len(r) = L /\ \A j \in 1 .. L : r[j] = IF j = L THEN c ELSE q[j]
    BY <2>1, <2>4, <2>6, <1>1
  <2>11. DOMAIN r = 1 .. L
    BY <2>10
  <2>12. \A j \in 1 .. L : r[j].seq = q[j].seq /\ OfStream(st, r[j])
    BY <2>6, <2>8, <2>10, <1>2
  <2>13. \A j \in 1 .. L : EndSeq(r[j]) <= seq
    <3> TAKE j \in 1 .. L
    <3>1. CASE j = L
      BY <3>1, <2>9, <2>10
    <3>2. CASE j # L
      <4>1. EndSeq(q[j]) <= q[L].seq /\ EndSeq(q[j]) \in Nat /\ r[j] = q[j]
        BY <3>2, <1>2, <1>5, <1>7, EndsAreNat, <2>10
      <4> QED
        BY <4>1, <2>1, <2>2
    <3> QED
      BY <3>1, <3>2
  <2>14. ASSUME NEW i \in 1 .. L, NEW j \in 1 .. L, i < j PROVE EndSeq(r[i]) <= r[j].seq
    <3>0. L \in Nat
      BY <1>1
    <3>1. i # L
      BY <2>14, <3>0
    <3>2. r[i] = q[i] /\ r[j].seq = q[j].seq
      BY <3>1, <2>10, <2>12
    <3>3. EndSeq(q[i]) <= q[j].seq
      BY <2>14, <1>1, Zenon DEF StreamQueue, Sorted
    <3> QED
      BY <3>2, <3>3
  <2>15. Sorted(r)
    BY <2>14, <2>11, Zenon DEF Sorted
  <2> QED
    BY <2>10, <2>11, <2>12, <2>13, <2>15, Zenon DEF StreamQueue, r
<1> QED
  BY <1>3, <1>6, <1>7

(* Insertion out of sequence leaves a queue that lies beyond rcv_nxt.      *)
LEMMA OosInsertIs ==
  ASSUME NEW st, st.base \in Nat, st.top \in Nat,
         NEW q, StreamQueue(st, q), NEW s, OfStream(st, s), NEW x \in Nat,
         Beyond(q, x), s.seq > x
  PROVE  StreamQueue(st, OosInsert(q, s)) /\ Beyond(OosInsert(q, s), x)
<1> DEFINE n    == Before(q, s.seq)
           prev == SubSeq(q, 1, n)
           next == From(q, n)
           skip == \/ next # << >> /\ next[1].seq = s.seq /\ Len(s.data) <= Len(next[1].data)
                   \/ next = << >> /\ prev # << >> /\ Last(prev).fin
           a    == TrimLast(prev, s.seq)
           b    == tcp_oos_insert_segment(s, next)
<1>1. OosInsert(q, s) = IF skip THEN q ELSE a \o b
  BY DEF OosInsert
<1>2. CASE skip
  BY <1>1, <1>2
<1>3. CASE ~skip
  <2>1. q \in Seq(Segment) /\ s \in Segment /\ s.seq \in Nat
    BY EndsAreNat DEF StreamQueue, OfStream
  <2>2. /\ n \in 0 .. Len(q)
        /\ \A j \in 1 .. n : q[j].seq < s.seq
        /\ n < Len(q) => q[n + 1].seq >= s.seq
    BY <2>1, BeforeIs
  <2> HIDE DEF n
  <2>3. /\ StreamQueue(st, prev) /\ Len(prev) = n
        /\ \A i \in 1 .. n : i \in 1 .. Len(q) /\ prev[i] = q[i]
        /\ (prev # << >>) <=> (n > 0)
    BY <2>2, FrontIs
  <2>4. /\ StreamQueue(st, next) /\ Len(next) = Len(q) - n
        /\ \A i \in 1 .. Len(next) : n + i \in 1 .. Len(q) /\ next[i] = q[n + i]
        /\ (next # << >>) <=> (n < Len(q))
    BY <2>2, RestIs
  <2>5. ~(next = << >> /\ prev # << >> /\ Last(prev).fin)
    BY <1>3, Zenon
  <2> HIDE DEF prev, next, skip
  <2>6. Follows(next, s)
    <3> SUFFICES ASSUME next # << >> PROVE s.seq <= next[1].seq
      BY DEF Follows
    <3>1. n < Len(q) /\ Len(q) \in Nat
      BY <2>1, <2>4
    <3>2. 1 \in 1 .. Len(next) /\ n + 1 \in 1 .. Len(q)
      BY <3>1, <2>2, <2>4
    <3>3. next[1] = q[n + 1] /\ q[n + 1].seq >= s.seq /\ q[n + 1] \in Segment
      BY <3>1, <3>2, <2>1, <2>2, <2>4
    <3>4. q[n + 1].seq \in Nat
      BY <3>3, EndsAreNat
    <3> QED
      BY <3>3, <3>4, <2>1
  <2>7. prev # << >> => ~Last(prev).fin /\ Last(prev).seq < s.seq
    <3> SUFFICES ASSUME prev # << >> PROVE ~Last(prev).fin /\ Last(prev).seq < s.seq
      OBVIOUS
    <3>1. n > 0 /\ n \in 1 .. n
      BY <2>2, <2>3
    <3>2. Last(prev) = q[n] /\ q[n].seq < s.seq /\ n \in 1 .. Len(q)
      BY <3>1, <2>2, <2>3 DEF Last
    <3>3. q[n].fin => n = Len(q)
      BY <3>2, FinIsLast
    <3>4. n = Len(q) => next = << >>
      BY <2>1, <2>4
    <3>5. ~q[n].fin
      BY <2>5, <3>2, <3>3, <3>4, Zenon
    <3> QED
      BY <3>2, <3>5
  <2>8. /\ StreamQueue(st, a) /\ Len(a) = Len(prev)
        /\ \A j \in 1 .. Len(prev) : a[j].seq = prev[j].seq /\ EndSeq(a[j]) <= s.seq
    BY <2>1, <2>3, <2>7, TrimLastIs
  <2>9. StreamQueue(st, b) /\ b # << >> /\ b[1].seq = s.seq
    BY <2>4, <2>6, InsertIs
  <2> HIDE DEF a, b
  <2>10. /\ StreamQueue(st, a \o b) /\ Len(a \o b) = Len(a) + Len(b)
         /\ \A i \in 1 .. Len(a) : (a \o b)[i] = a[i]
         /\ \A i \in 1 .. Len(b) : (a \o b)[Len(a) + i] = b[i]
    <3>1. Precedes(a, b)
      BY <2>8, <2>9 DEF Precedes
    <3>2. StreamQueue(st, a) /\ StreamQueue(st, b)
      BY <2>8, <2>9
    <3> QED
      BY <3>1, <3>2, JoinIs DEF Joined
  <2> DEFINE c == a \o b
  <2>11. OosInsert(q, s) = c
    BY <1>1, <1>3 DEF skip
  <2>12. Len(a) = n /\ \A j \in 1 .. n : a[j].seq > x
    <3>1. \A j \in 1 .. n : a[j].seq = q[j].seq /\ j \in 1 .. Len(q)
      BY <2>3, <2>8
    <3> QED
      BY <3>1, <2>3, <2>8 DEF Beyond
  <2>13. \A j \in 1 .. Len(b) : b[j].seq > x
    <3>1. \A j \in 1 .. Len(b) : s.seq <= b[j].seq
      <4>1. s.seq <= s.seq
        BY <2>1
      <4>2. b # << >> => s.seq <= b[1].seq
        BY <4>1, <2>9
      <4> QED
        BY <4>2, <2>1, <2>9, AllFollow
    <3>2. \A j \in 1 .. Len(b) : b[j].seq \in Nat
      <4>1. b \in Seq(Segment)
        BY <2>9 DEF StreamQueue
      <4>2. \A j \in 1 .. Len(b) : b[j] \in Segment
        BY <4>1
      <4> QED
        BY <4>2, EndsAreNat
    <3> QED
      BY <3>1, <3>2, <2>1
  <2>14. Beyond(c, x)
    <3> SUFFICES ASSUME NEW i \in 1 .. Len(c) PROVE c[i].seq > x
      BY DEF Beyond
    <3>1. a \in Seq(Segment) /\ b \in Seq(Segment)
      BY <2>8, <2>9 DEF StreamQueue
    <3>2. Len(a) \in Nat /\ Len(b) \in Nat /\ i \in 1 .. Len(a) + Len(b)
      BY <3>1, <2>10
    <3>3. CASE i <= Len(a)
      <4>1. i \in 1 .. Len(a)
        BY <3>2, <3>3
      <4> QED
        BY <4>1, <2>10, <2>12
    <3>4. CASE i > Len(a)
      <4>1. i - Len(a) \in 1 .. Len(b) /\ i = Len(a) + (i - Len(a))
        BY <3>2, <3>4
      <4>2. c[i] = b[i - Len(a)]
        BY <4>1, <2>10
      <4> QED
        BY <4>1, <4>2, <2>13
    <3> QED
      BY <3>2, <3>3, <3>4
  <2> QED
    BY <2>10, <2>11, <2>14
<1> QED
  BY <1>2, <1>3

-----------------------------------------------------------------------------
(* A run: each segment starts where the one before it ends.                *)
IsRun(st, run) ==
  /\ StreamQueue(st, run) /\ run # << >>
  /\ \A j \in 1 .. Len(run) - 1 : run[j + 1].seq = EndSeq(run[j])

(* Every number from the start of a run to its end is in a segment of it.  *)
LEMMA RunIsWhole ==
  ASSUME NEW st, st.base \in Nat, st.top \in Nat,
         NEW run, IsRun(st, run), NEW m \in Nat, run[1].seq <= m, m < EndSeq(Last(run))
  PROVE  \E j \in 1 .. Len(run) : run[j].seq <= m /\ m < EndSeq(run[j])
<1> DEFINE L == Len(run)
           S == {j \in 1 .. L : run[j].seq <= m}
<1>1. run \in Seq(Segment) /\ run # << >>
  BY DEF IsRun, StreamQueue
<1>2. L \in Nat /\ L > 0 /\ \A j \in 1 .. L : run[j] \in Segment
  BY <1>1
<1>3. \A j \in 1 .. L : run[j].seq \in Nat /\ EndSeq(run[j]) \in Nat
  BY <1>2, EndsAreNat
<1> HIDE DEF L
<1>4. 1 \in S /\ S \subseteq 0 .. L
  BY <1>2
<1>5. PICK j \in S : \A k \in S : j >= k
  BY <1>2, <1>4, MaxIsGreatest
<1>6. j \in 1 .. L /\ run[j].seq <= m
  BY <1>5
<1>7. m < EndSeq(run[j])
  <2>1. CASE j = L
    BY <2>1 DEF L, Last
  <2>2. CASE j # L
    <3>1. j \in 1 .. L - 1 /\ j + 1 \in 1 .. L /\ ~(j >= j + 1)
      BY <2>2, <1>2, <1>6
    <3>2. ~(run[j + 1].seq <= m)
      BY <3>1, <1>5
    <3>3. run[j + 1].seq = EndSeq(run[j])
      BY <3>1 DEF IsRun, L
    <3> QED
      BY <3>1, <3>2, <3>3, <1>3
  <2> QED
    BY <2>1, <2>2
<1> QED
  BY <1>6, <1>7 DEF L

(* A run starts with its first segment and ends with its last.             *)
LEMMA RunGrows ==
  ASSUME NEW st, st.base \in Nat, st.top \in Nat,
         NEW run, IsRun(st, run)
  PROVE  /\ Len(run) \in Nat /\ 1 \in 1 .. Len(run) /\ Len(run) \in 1 .. Len(run)
         /\ OfStream(st, run[1]) /\ OfStream(st, Last(run))
         /\ \A j \in 1 .. Len(run) : /\ run[1].seq <= run[j].seq
                                     /\ EndSeq(run[j]) <= EndSeq(Last(run))
<1> DEFINE L == Len(run)
<1>1. run \in Seq(Segment) /\ run # << >> /\ StreamQueue(st, run)
  BY DEF IsRun, StreamQueue
<1>2. L \in Nat /\ L > 0 /\ \A j \in 1 .. L : run[j] \in Segment
  BY <1>1
<1>3. 1 \in 1 .. L /\ L \in 1 .. L
  BY <1>2
<1>4. \A j \in 1 .. L : OfStream(st, run[j])
  BY <1>1 DEF StreamQueue
<1>5. \A j \in 1 .. L : run[1].seq <= run[j].seq
  <2>1. run[1].seq \in Nat /\ run[1].seq <= run[1].seq
    BY <1>2, <1>3, EndsAreNat
  <2> QED
    BY <1>1, <2>1, AllFollow
<1>6. ASSUME NEW j \in 1 .. L PROVE EndSeq(run[j]) <= EndSeq(run[L])
  <2>1. EndSeq(run[j]) \in Nat /\ EndSeq(run[L]) \in Nat /\ run[L].seq \in Nat
        /\ run[L].seq <= EndSeq(run[L])
    BY <1>2, <1>3, EndsAreNat
  <2>2. CASE j = L
    BY <2>1, <2>2
  <2>3. CASE j # L
    <3>1. j < L
      BY <2>3, <1>2
    <3>2. DOMAIN run = 1 .. L
      BY <1>1
    <3>3. EndSeq(run[j]) <= run[L].seq
      BY <3>1, <3>2, <1>1, <1>3, Zenon DEF StreamQueue, Sorted
    <3> QED
      BY <3>3, <2>1
  <2> QED
    BY <2>2, <2>3
<1> QED
  BY <1>2, <1>3, <1>4, <1>5, <1>6 DEF Last

(* The data of a run is the stream from its first number to its last.      *)
LEMMA DataOfRun ==
  ASSUME NEW st, st.base \in Nat, st.top \in Nat,
         NEW run, IsRun(st, run)
  PROVE  LET d == DataOf(run)
             len == DataEnd(Last(run)) - run[1].seq
         IN  /\ len \in Nat /\ d \in Seq(Nat) /\ Len(d) = len
             /\ \A n \in 1 .. len : d[n] = run[1].seq + n - 1 - st.base
<1> DEFINE start == run[1].seq
           last  == Last(run)
           len   == DataEnd(last) - start
           Holds(j, n) == run[j].seq <= n /\ n < DataEnd(run[j])
           Unit(n) == run[CHOOSE j \in DOMAIN run : Holds(j, n)].data
                        [n - run[CHOOSE j \in DOMAIN run : Holds(j, n)].seq + 1]
           d == DataOf(run)
<1>1. run \in Seq(Segment) /\ StreamQueue(st, run) /\ DOMAIN run = 1 .. Len(run)
  BY DEF IsRun, StreamQueue
<1>2. /\ Len(run) \in Nat /\ 1 \in 1 .. Len(run) /\ Len(run) \in 1 .. Len(run)
      /\ OfStream(st, run[1]) /\ OfStream(st, last)
      /\ \A j \in 1 .. Len(run) : start <= run[j].seq /\ EndSeq(run[j]) <= EndSeq(last)
  BY RunGrows
<1>3. start \in Nat /\ DataEnd(last) \in Nat /\ EndSeq(last) \in Nat /\ last.seq \in Nat
      /\ last.seq <= DataEnd(last) /\ DataEnd(last) <= EndSeq(last)
  BY <1>2, EndsAreNat DEF OfStream
<1>4. start <= last.seq
  BY <1>2 DEF Last
<1>5. len \in Nat
  BY <1>3, <1>4
<1>6. ASSUME NEW m \in Nat, start <= m, m < DataEnd(last)
      PROVE  Unit(m) = m - st.base
  <2>1. m < EndSeq(last)
    BY <1>3, <1>6
  <2>2. PICK j \in 1 .. Len(run) : run[j].seq <= m /\ m < EndSeq(run[j])
    BY <2>1, <1>6, RunIsWhole
  <2>3. OfStream(st, run[j])
    BY <1>1 DEF StreamQueue
  <2>4. Holds(j, m)
    <3>1. CASE run[j].fin
      <4>1. j = Len(run)
        <5>1. run[j].fin => j = Len(run) /\ EndSeq(run[j]) = st.top + 1
          BY <1>1, FinIsLast
        <5> QED
          BY <3>1, <5>1
      <4> QED
        BY <4>1, <2>2, <1>6 DEF Last
    <3>2. CASE ~run[j].fin
      <4>1. EndSeq(run[j]) = DataEnd(run[j])
        <5>1. ~run[j].fin => EndSeq(run[j]) = DataEnd(run[j])
          BY <2>3, EndIs
        <5> QED
          BY <3>2, <5>1
      <4> QED
        BY <4>1, <2>2
    <3> QED
      BY <3>1, <3>2
  <2> DEFINE k == CHOOSE i \in DOMAIN run : Holds(i, m)
  <2>5. k \in DOMAIN run /\ Holds(k, m)
    BY <2>4, <1>1
  <2> HIDE DEF k
  <2>6. OfStream(st, run[k]) /\ run[k] \in Segment
    BY <2>5 DEF OfStream, StreamQueue, IsRun
  <2>7. run[k].seq \in Nat /\ DataEnd(run[k]) = run[k].seq + Len(run[k].data)
        /\ Len(run[k].data) \in Nat
    BY <2>6, EndsAreNat
  <2>8. m - run[k].seq + 1 \in 1 .. Len(run[k].data)
    BY <2>5, <2>7
  <2>9. \A n \in 1 .. Len(run[k].data) : run[k].data[n] = run[k].seq + n - 1 - st.base
    BY <2>6 DEF OfStream
  <2>10. run[k].data[m - run[k].seq + 1] = run[k].seq + (m - run[k].seq + 1) - 1 - st.base
    BY <2>8, <2>9
  <2>11. run[k].data[m - run[k].seq + 1] = m - st.base
    BY <2>7, <2>10
  <2> QED
    BY <2>11 DEF k
<1>7. d = [n \in 1 .. len |-> Unit(start + n - 1)]
  BY DEF DataOf
<1> HIDE DEF Unit, len, start, d
<1>8. \A n \in 1 .. len : Unit(start + n - 1) = start + n - 1 - st.base
  <2> TAKE n \in 1 .. len
  <2>1. start + n - 1 \in Nat /\ start <= start + n - 1 /\ start + n - 1 < DataEnd(last)
    BY <1>3, <1>5 DEF len
  <2>2. Unit(start + n - 1) = (start + n - 1) - st.base
    BY <2>1, <1>6, Zenon
  <2>3. (start + n - 1) - st.base = start + n - 1 - st.base
    BY <1>3, <1>5
  <2> QED
    BY <2>2, <2>3, Zenon
<1>9. d = [n \in 1 .. len |-> start + n - 1 - st.base]
  BY <1>7, <1>8
<1>10. \A n \in 1 .. len : start + n - 1 - st.base \in Nat
  <2>1. st.base < start
    BY <1>2 DEF OfStream, start
  <2> QED
    BY <2>1, <1>3, <1>5
<1>11. d \in Seq(Nat) /\ Len(d) = len /\ \A n \in 1 .. len : d[n] = start + n - 1 - st.base
  BY <1>5, <1>9, <1>10
<1> QED
  BY <1>5, <1>11 DEF len, start, d

-----------------------------------------------------------------------------
(* What InSequence delivers and leaves when s meets the queue q.           *)
Drains(q, s) == Drained(Left(q, s), EndSeq(Merged(q, s)))
Run(q, s) == <<Merged(q, s)>> \o SubSeq(Left(q, s), 1, Drains(q, s))
Kept(q, s) == From(Left(q, s), Drains(q, s))

(* It is a run, and what is left lies beyond it.                           *)
LEMMA RunIs ==
  ASSUME NEW st, st.base \in Nat, st.top \in Nat,
         NEW q, StreamQueue(st, q), NEW s, OfStream(st, s), Follows(q, s)
  PROVE  LET n == Drains(q, s)
             r == Left(q, s)
             run == Run(q, s)
         IN  /\ IsRun(st, run) /\ run[1] = Merged(q, s) /\ run[1].seq = s.seq
             /\ n \in 0 .. Len(r) /\ Len(run) = n + 1
             /\ \A i \in 1 .. n : run[i + 1] = r[i]
             /\ Last(run) = IF n = 0 THEN Merged(q, s) ELSE r[n]
             /\ StreamQueue(st, Kept(q, s)) /\ Beyond(Kept(q, s), EndSeq(Last(run)))
<1> DEFINE g == Merged(q, s)
           r == Left(q, s)
           n == Drains(q, s)
           f == SubSeq(r, 1, n)
           a == <<g>>
           run == a \o f
           kept == From(r, n)
<1>1. /\ OfStream(st, g) /\ g.seq = s.seq /\ StreamQueue(st, r)
      /\ r # << >> => EndSeq(g) <= r[1].seq
  BY MergedIs
<1>2. run = Run(q, s) /\ kept = Kept(q, s)
  BY DEF Run, Kept
<1>3. n = Drained(r, EndSeq(g))
  BY DEF Drains
<1> HIDE DEF g, r, n
<1>4. g \in Segment /\ EndSeq(g) \in Nat /\ r \in Seq(Segment)
  BY <1>1, EndsAreNat DEF OfStream, StreamQueue
<1>5. /\ n \in 0 .. Len(r)
      /\ \A j \in 1 .. n : r[j].seq = IF j = 1 THEN EndSeq(g) ELSE EndSeq(r[j - 1])
      /\ n < Len(r) => r[n + 1].seq # IF n = 0 THEN EndSeq(g) ELSE EndSeq(r[n])
  BY <1>3, <1>4, DrainedIs
<1>6. /\ StreamQueue(st, f) /\ Len(f) = n
      /\ \A i \in 1 .. n : i \in 1 .. Len(r) /\ f[i] = r[i]
      /\ (f # << >>) <=> (n > 0)
  BY <1>1, <1>5, FrontIs
<1>7. /\ StreamQueue(st, kept) /\ Len(kept) = Len(r) - n
      /\ \A i \in 1 .. Len(kept) : n + i \in 1 .. Len(r) /\ kept[i] = r[n + i]
      /\ (kept # << >>) <=> (n < Len(r))
  BY <1>1, <1>5, RestIs
<1>8. StreamQueue(st, a) /\ Len(a) = 1 /\ a[1] = g
  BY <1>1, SingleIs
<1> HIDE DEF a, f, kept
<1>9. Precedes(a, f)
  <2> SUFFICES ASSUME f # << >> PROVE EndSeq(g) <= f[1].seq
    BY <1>8 DEF Precedes
  <2>1. n > 0
    BY <1>6
  <2>2. 1 \in 1 .. n /\ r # << >>
    BY <2>1, <1>4, <1>5
  <2>3. f[1] = r[1]
    BY <2>2, <1>6
  <2> QED
    BY <2>2, <2>3, <1>1
<1>10. /\ StreamQueue(st, run) /\ Len(run) = Len(a) + Len(f)
       /\ \A i \in 1 .. Len(a) : run[i] = a[i]
       /\ \A i \in 1 .. Len(f) : run[Len(a) + i] = f[i]
  <2>1. StreamQueue(st, a) /\ StreamQueue(st, f)
    BY <1>6, <1>8
  <2> QED
    BY <2>1, <1>9, JoinIs DEF Joined
<1> HIDE DEF run
<1>11. /\ Len(run) = n + 1 /\ run[1] = g
       /\ \A i \in 1 .. n : run[i + 1] = r[i]
  <2>1. n \in Nat /\ 1 \in 1 .. Len(a)
    BY <1>5, <1>8
  <2>2. \A i \in 1 .. n : 1 + i = i + 1
    BY <2>1
  <2> QED
    BY <2>1, <2>2, <1>6, <1>8, <1>10
<1>12. run # << >>
  <2>1. run \in Seq(Segment)
    BY <1>10 DEF StreamQueue
  <2> QED
    BY <2>1, <1>11, <1>5
<1>13. ASSUME NEW j \in 1 .. Len(run) - 1 PROVE run[j + 1].seq = EndSeq(run[j])
  <2>1. j \in 1 .. n /\ n \in Nat
    BY <1>11, <1>5
  <2>2. run[j + 1] = r[j]
    BY <2>1, <1>11
  <2>3. CASE j = 1
    BY <2>1, <2>2, <2>3, <1>5, <1>11
  <2>4. CASE j # 1
    <3>1. j - 1 \in 1 .. n /\ (j - 1) + 1 = j
      BY <2>1, <2>4
    <3>2. run[j] = r[j - 1]
      BY <3>1, <1>11
    <3> QED
      BY <2>1, <2>2, <2>4, <3>2, <1>5
  <2> QED
    BY <2>3, <2>4
<1>14. IsRun(st, run)
  BY <1>10, <1>12, <1>13 DEF IsRun
<1>15. Last(run) = IF n = 0 THEN g ELSE r[n]
  <2>1. Last(run) = run[n + 1]
    BY <1>11 DEF Last
  <2>2. CASE n = 0
    BY <2>1, <2>2, <1>11
  <2>3. CASE n # 0
    <3>1. n \in 1 .. n
      BY <2>3, <1>5
    <3> QED
      BY <2>1, <2>3, <3>1, <1>11
  <2> QED
    BY <2>2, <2>3
<1>16. Beyond(kept, EndSeq(Last(run)))
  <2> DEFINE e == EndSeq(Last(run))
  <2>1. e \in Nat
    <3>1. OfStream(st, Last(run))
      BY <1>14, RunGrows
    <3> QED
      BY <3>1, EndsAreNat DEF OfStream
  <2>2. e = IF n = 0 THEN EndSeq(g) ELSE EndSeq(r[n])
    BY <1>15
  <2> HIDE DEF e
  <2>3. kept # << >> => e < kept[1].seq
    <3> SUFFICES ASSUME kept # << >> PROVE e < kept[1].seq
      OBVIOUS
    <3>1. kept \in Seq(Segment) /\ n < Len(r)
      BY <1>7 DEF StreamQueue
    <3>2. 1 \in 1 .. Len(kept) /\ n + 1 \in 1 .. Len(r)
      BY <3>1, <1>5, <1>4
    <3>3. kept[1] = r[n + 1] /\ r[n + 1] \in Segment
      BY <3>2, <1>7, <1>4
    <3>4. r[n + 1].seq \in Nat
      BY <3>3, EndsAreNat
    <3>5. r[n + 1].seq # e
      BY <3>1, <2>2, <1>5
    <3>6. e <= r[n + 1].seq
      <4>1. CASE n = 0
        <5>1. r # << >> /\ n + 1 = 1
          BY <3>1, <4>1, <1>4
        <5> QED
          BY <5>1, <2>2, <4>1, <1>1
      <4>2. CASE n # 0
        <5>1. n \in 1 .. Len(r) /\ n < n + 1
          BY <4>2, <1>5, <3>2
        <5>2. DOMAIN r = 1 .. Len(r)
          BY <1>4
        <5>3. EndSeq(r[n]) <= r[n + 1].seq
          BY <5>1, <5>2, <3>2, <1>1, Zenon DEF StreamQueue, Sorted
        <5> QED
          BY <5>3, <4>2, <2>2
      <4> QED
        BY <4>1, <4>2
    <3> QED
      BY <2>1, <3>3, <3>4, <3>5, <3>6
  <2>4. \A j \in 1 .. Len(kept) : kept[j] \in Segment /\ kept[j].seq \in Nat
    <3>1. kept \in Seq(Segment)
      BY <1>7 DEF StreamQueue
    <3>2. \A j \in 1 .. Len(kept) : kept[j] \in Segment
      BY <3>1
    <3> QED
      BY <3>2, EndsAreNat
  <2>5. kept # << >> => e + 1 <= kept[1].seq
    <3> SUFFICES ASSUME kept # << >> PROVE e + 1 <= kept[1].seq
      OBVIOUS
    <3>1. kept \in Seq(Segment)
      BY <1>7 DEF StreamQueue
    <3>2. 1 \in 1 .. Len(kept)
      BY <3>1
    <3> QED
      BY <3>2, <2>1, <2>3, <2>4
  <2>6. e + 1 \in Nat
    BY <2>1
  <2>7. \A j \in 1 .. Len(kept) : e + 1 <= kept[j].seq
    BY <1>7, <2>5, <2>6, AllFollow
  <2>8. Beyond(kept, e)
    BY <2>1, <2>4, <2>7 DEF Beyond
  <2> QED
    BY <2>8 DEF e
<1> QED
  BY <1>1, <1>2, <1>5, <1>7, <1>11, <1>14, <1>15, <1>16 DEF g, r, n

-----------------------------------------------------------------------------
(* The stream of TcpReass: its first number is 1 and it is closed.         *)
ReassStream == [base |-> 0, top |-> StreamLen + 1, closed |-> TRUE]

(* Its first and last numbers, as the lemmas on queues ask for them.       *)
LEMMA WholeStream ==
  /\ ReassStream.base \in Nat /\ ReassStream.top \in Nat
  /\ ReassStream.base = 0 /\ ReassStream.top = StreamLen + 1 /\ ReassStream.closed
  BY StreamAssumption DEF ReassStream

(* A packet with the numbers a to b of the stream, and its end or not.     *)
IsPart(i, a, b, fin) ==
  /\ i = Part(a, b, fin) /\ a <= b + 1 /\ b <= StreamLen
  /\ fin => b = StreamLen
  /\ ~fin => a <= b

(* What a packet is.                                                       *)
LEMMA PartIs ==
  ASSUME NEW i \in Parts
  PROVE  /\ ~i.ack /\ ~i.syn /\ ~i.rst /\ tcplen(i) # 0
         /\ OfStream(ReassStream, SegOf(i)) /\ SegOf(i).seq = i.seq /\ EndSeq(SegOf(i)) = EndSeq(i)
         /\ i.seq >= 1
<1> DEFINE g == SegOf(i)
<1>1. \E a \in 1 .. StreamLen + 1 : \E b \in Nat : \E fin \in BOOLEAN : IsPart(i, a, b, fin)
  <2>1. CASE \E a \in 1 .. StreamLen : i \in {Part(a, b, FALSE) : b \in a .. StreamLen}
    <3>1. PICK a \in 1 .. StreamLen : i \in {Part(a, b, FALSE) : b \in a .. StreamLen}
      BY <2>1
    <3>2. PICK b \in a .. StreamLen : i = Part(a, b, FALSE)
      BY <3>1
    <3>3. a \in 1 .. StreamLen + 1 /\ b \in Nat /\ a <= b + 1 /\ b <= StreamLen /\ a <= b
      BY StreamAssumption
    <3> QED
      BY <3>2, <3>3, Zenon DEF IsPart
  <2>2. CASE i \in {Part(a, StreamLen, TRUE) : a \in 1 .. StreamLen + 1}
    <3>1. PICK a \in 1 .. StreamLen + 1 : i = Part(a, StreamLen, TRUE)
      BY <2>2
    <3>2. a <= StreamLen + 1 /\ StreamLen \in Nat /\ StreamLen <= StreamLen
      BY StreamAssumption
    <3> QED
      BY <3>1, <3>2, Zenon DEF IsPart
  <2> DEFINE U == {{Part(a, b, FALSE) : b \in a .. StreamLen} : a \in 1 .. StreamLen}
  <2>3. ASSUME i \in UNION U
        PROVE  \E a \in 1 .. StreamLen : i \in {Part(a, b, FALSE) : b \in a .. StreamLen}
    <3>1. PICK A \in U : i \in A
      BY <2>3
    <3>2. PICK a \in 1 .. StreamLen : A = {Part(a, b, FALSE) : b \in a .. StreamLen}
      BY <3>1
    <3> QED
      BY <3>1, <3>2
  <2>4. i \in UNION U \/ i \in {Part(a, StreamLen, TRUE) : a \in 1 .. StreamLen + 1}
    BY DEF Parts
  <2> QED
    BY <2>1, <2>2, <2>3, <2>4
<1>2. PICK a \in 1 .. StreamLen + 1 : \E b \in Nat : \E fin \in BOOLEAN : IsPart(i, a, b, fin)
  BY <1>1
<1>21. PICK b \in Nat : \E fin \in BOOLEAN : IsPart(i, a, b, fin)
  BY <1>2
<1>22. PICK fin \in BOOLEAN : IsPart(i, a, b, fin)
  BY <1>21
<1>3. /\ i = Part(a, b, fin) /\ a <= b + 1 /\ b <= StreamLen
      /\ fin => b = StreamLen
      /\ ~fin => a <= b
  BY <1>22, Zenon DEF IsPart
<1> DEFINE d == [j \in 1 .. b - a + 1 |-> a + j - 1]
<1>4. a \in Nat /\ a >= 1 /\ b - a + 1 \in Nat
  BY <1>3, StreamAssumption
<1>5. d \in Seq(Nat) /\ Len(d) = b - a + 1 /\ \A n \in 1 .. b - a + 1 : d[n] = a + n - 1
  <2>1. \A j \in 1 .. b - a + 1 : a + j - 1 \in Nat
    BY <1>4
  <2> QED
    BY <2>1, <1>4
<1>6. i = [seq |-> a, ackno |-> 0, ack |-> FALSE, syn |-> FALSE, fin |-> fin,
           rst |-> FALSE, data |-> d]
  BY <1>3 DEF Part
<1> HIDE DEF d
<1>7. i.seq = a /\ i.data = d /\ (i.fin <=> fin) /\ ~i.ack /\ ~i.syn /\ ~i.rst
  BY <1>6
<1>8. i.fin \in BOOLEAN
  BY <1>6
<1>9. g = [seq |-> a, syn |-> FALSE, fin |-> i.fin, data |-> d]
  BY <1>7 DEF SegOf, NewSeg
<1> HIDE DEF g
<1>10. g \in Segment /\ g.seq = a /\ g.data = d /\ (g.fin <=> fin) /\ ~g.syn
  BY <1>4, <1>5, <1>7, <1>8, <1>9 DEF Segment
<1>11. DataEnd(g) = b + 1
  BY <1>4, <1>5, <1>10 DEF DataEnd
<1>12. OfStream(ReassStream, g)
  <2>1. \A n \in 1 .. Len(g.data) : g.data[n] = g.seq + n - 1 - ReassStream.base
    BY <1>4, <1>5, <1>10, WholeStream
  <2>2. DataEnd(g) <= ReassStream.top /\ ReassStream.base < g.seq
    BY <1>3, <1>4, <1>10, <1>11, StreamAssumption, WholeStream
  <2>3. g.fin => ReassStream.closed /\ DataEnd(g) = ReassStream.top
    BY <1>3, <1>10, <1>11, WholeStream
  <2> QED
    BY <2>1, <2>2, <2>3, <1>10, Zenon DEF OfStream
<1>13. EndSeq(g) = EndSeq(i)
  BY <1>7, <1>10, Zenon DEF EndSeq, TCP_TCPLEN
<1>14. tcplen(i) # 0
  <2>1. CASE fin
    <3>1. tcplen(i) = Len(d) + 1
      BY <2>1, <1>7, Zenon DEF tcplen, TCP_TCPLEN
    <3> QED
      BY <3>1, <1>4, <1>5
  <2>2. CASE ~fin
    <3>1. tcplen(i) = Len(d) + 0
      BY <2>2, <1>7, Zenon DEF tcplen, TCP_TCPLEN
    <3>2. a <= b
      BY <2>2, <1>3
    <3> QED
      BY <3>1, <3>2, <1>4, <1>5
  <2> QED
    BY <2>1, <2>2
<1> QED
  BY <1>4, <1>7, <1>10, <1>12, <1>13, <1>14 DEF g

(* A segment that starts early is cut at rcv_nxt; it ends where it did.    *)
LEMMA TrimFrontIs ==
  ASSUME NEW st, st.base \in Nat, st.top \in Nat,
         NEW s, OfStream(st, s), NEW x \in Nat
  PROVE  LET u == TrimFront(s, x)
         IN  /\ OfStream(st, u) /\ EndSeq(u) = EndSeq(s)
             /\ u.seq = IF s.seq < x /\ x < EndSeq(s) THEN x ELSE s.seq
<1>1. /\ s \in Segment /\ ~s.syn /\ s.data \in Seq(Nat) /\ s.seq \in Nat
      /\ \A n \in 1 .. Len(s.data) : s.data[n] = s.seq + n - 1 - st.base
      /\ DataEnd(s) <= st.top
  BY DEF OfStream, Segment
<1>2. DataEnd(s) = s.seq + Len(s.data) /\ Len(s.data) \in Nat /\ EndSeq(s) \in Nat
  BY <1>1, EndsAreNat
<1>3. CASE ~(s.seq < x /\ x < EndSeq(s))
  BY <1>3 DEF TrimFront
<1>4. CASE s.seq < x /\ x < EndSeq(s)
  <2> DEFINE k == x - s.seq
             d == SubSeq(s.data, k + 1, Len(s.data))
             u == [s EXCEPT !.seq = x, !.data = d]
  <2>1. u = TrimFront(s, x)
    BY <1>4 DEF TrimFront
  <2>2. EndSeq(s) <= DataEnd(s) + 1
    BY EndIs, <1>2, <1>1
  <2>3. k \in 0 .. Len(s.data) /\ s.seq + k = x
    BY <2>2, <1>1, <1>2, <1>4
  <2> HIDE DEF k
  <2>4. d \in Seq(Nat) /\ Len(d) = Len(s.data) - k
        /\ \A n \in 1 .. Len(s.data) - k : d[n] = s.data[k + n]
    BY <2>3, <1>1, Suffix
  <2> HIDE DEF d
  <2>5. u \in Segment /\ u.seq = x /\ u.data = d /\ (u.fin <=> s.fin) /\ (u.syn <=> s.syn)
    BY <2>4, <1>1 DEF Segment
  <2> HIDE DEF u
  <2>6. DataEnd(u) = DataEnd(s)
    <3>1. Len(u.data) = Len(s.data) - k /\ k \in Nat /\ DataEnd(u) = x + Len(u.data)
      BY <2>3, <2>4, <2>5, <1>2 DEF DataEnd
    <3> DEFINE L == Len(s.data)
               M == Len(u.data)
               y == s.seq
    <3>2. L \in Nat /\ y \in Nat /\ k \in Nat /\ M = L - k /\ y + k = x
      BY <3>1, <2>3, <1>1, <1>2
    <3>3. DataEnd(u) = x + M /\ DataEnd(s) = y + L
      BY <3>1, <1>2
    <3> HIDE DEF L, M, y
    <3>4. x + M = y + L
      BY <3>2
    <3> QED
      BY <3>3, <3>4
  <2>7. \A n \in 1 .. Len(u.data) : u.data[n] = u.seq + n - 1 - st.base
    <3> SUFFICES ASSUME NEW n \in 1 .. Len(s.data) - k PROVE d[n] = x + n - 1 - st.base
      BY <2>4, <2>5
    <3>1. k + n \in 1 .. Len(s.data)
      BY <2>3, <1>2
    <3>2. d[n] = s.seq + (k + n) - 1 - st.base
      BY <3>1, <2>4, <1>1
    <3>3. k \in Nat /\ n \in Nat /\ s.seq \in Nat
      BY <2>3, <1>1, <1>2
    <3>4. s.seq + (k + n) - 1 - st.base = (s.seq + k) + n - 1 - st.base
      BY <3>3
    <3> QED
      BY <3>2, <3>4, <2>3
  <2>8. s.fin => st.closed /\ DataEnd(s) = st.top
    BY EndIs
  <2>9. OfStream(st, u)
    <3>1. DataEnd(u) <= st.top /\ (s.fin => st.closed /\ DataEnd(u) = st.top)
      BY <2>6, <2>8, <1>1
    <3>2. st.base < u.seq
      BY <2>5, <1>1, <1>4 DEF OfStream
    <3> QED
      BY <3>1, <3>2, <2>5, <2>7, <1>1, Zenon DEF OfStream
  <2>10. EndSeq(u) = EndSeq(s)
    BY <2>5, <2>6, <2>9, EndIs
  <2> QED
    BY <2>1, <2>5, <2>9, <2>10, <1>4
<1> QED
  BY <1>3, <1>4

-----------------------------------------------------------------------------
(* The result of tcp_receive, field by field.                              *)
ReceiveResult(r) ==
  /\ r = [p |-> r.p, out |-> r.out, data |-> r.data, fin |-> r.fin]
  /\ r.p \in Pcb /\ r.fin \in BOOLEAN

(* A result that changes nothing but flags and, in order, the queue: what  *)
(* it makes of the pcb, and the record.                                    *)
Flagged(p, a, q, u) == u = [p EXCEPT !.ack = a, !.ooseq = q]
NoneDelivered(u, o, r) == r = [p |-> u, out |-> o, data |-> << >>, fin |-> FALSE]

(* Such a result delivers nothing and leaves rcv_nxt.                      *)
LEMMA NothingIs ==
  ASSUME NEW p \in Pcb, NEW a \in SUBSET {"DELAY", "NOW"}, NEW q \in Seq(Segment), NEW o,
         NEW u, Flagged(p, a, q, u), NEW r, NoneDelivered(u, o, r)
  PROVE  /\ ReceiveResult(r) /\ r.p.state = p.state /\ r.p.rcv_nxt = p.rcv_nxt
         /\ r.p.ooseq = q /\ r.data = << >> /\ r.fin = FALSE
<1>1. u \in Pcb /\ u.state = p.state /\ u.rcv_nxt = p.rcv_nxt /\ u.ooseq = q
  BY ZenonT(30) DEF Pcb, Flagged
<1>2. r.p = u /\ r.out = o /\ r.data = << >> /\ r.fin = FALSE
  BY DEF NoneDelivered
<1>3. ReceiveResult(r)
  BY <1>1, <1>2 DEF ReceiveResult, NoneDelivered
<1> QED
  BY <1>1, <1>2, <1>3

(* What InSequence returns.                                                *)
LEMMA InSequenceIs ==
  ASSUME NEW st, st.base \in Nat, st.top \in Nat,
         NEW p \in Pcb, StreamQueue(st, p.ooseq), Beyond(p.ooseq, p.rcv_nxt),
         NEW s, OfStream(st, s), s.seq = p.rcv_nxt
  PROVE  LET r == InSequence(p, s)
             run == Run(p.ooseq, s)
         IN  /\ Follows(p.ooseq, s) /\ ReceiveResult(r) /\ r.p.state = p.state
             /\ r.p.rcv_nxt = EndSeq(Last(run)) /\ r.p.ooseq = Kept(p.ooseq, s)
             /\ r.data = DataOf(run)
             /\ r.fin = \E j \in DOMAIN run : run[j].fin
<1> DEFINE q == p.ooseq
           g == Merged(q, s)
           e == Left(q, s)
           n == Drains(q, s)
           run == Run(q, s)
           kept == Kept(q, s)
           next == EndSeq(Last(run))
           r == InSequence(p, s)
<1>1. p.rcv_nxt \in Nat /\ p.unread \in Nat /\ p.ack \in SUBSET {"DELAY", "NOW"}
  BY DEF Pcb
<1>2. Follows(q, s)
  <2> SUFFICES ASSUME q # << >> PROVE s.seq <= q[1].seq
    BY DEF Follows
  <2>1. q \in Seq(Segment)
    BY DEF StreamQueue
  <2>2. 1 \in 1 .. Len(q) /\ q[1] \in Segment
    BY <2>1
  <2>3. q[1].seq > p.rcv_nxt /\ q[1].seq \in Nat
    BY <2>2, EndsAreNat DEF Beyond
  <2> QED
    BY <2>3, <1>1
<1>3. /\ IsRun(st, run) /\ run[1].seq = s.seq
      /\ Last(run) = IF n = 0 THEN g ELSE e[n]
      /\ StreamQueue(st, kept)
  BY <1>2, RunIs
<1>4. OfStream(st, Last(run)) /\ next \in Nat /\ s.seq <= next
  <2>1. /\ OfStream(st, Last(run)) /\ OfStream(st, run[1]) /\ 1 \in 1 .. Len(run)
        /\ EndSeq(run[1]) <= next
    BY <1>3, RunGrows
  <2>2. run[1].seq \in Nat /\ EndSeq(run[1]) \in Nat /\ run[1].seq <= EndSeq(run[1]) /\ next \in Nat
    BY <2>1, EndsAreNat DEF OfStream
  <2> QED
    BY <2>1, <2>2, <1>3
<1>5. ~s.syn /\ (~s.fin => EndSeq(s) = DataEnd(s))
  BY EndIs DEF OfStream
<1>6. InSeqRest(q, s) = e
  BY <1>5, Zenon DEF InSeqRest, Left, Takes
<1>7. InSeqSeg(q, s) = g
  <2>1. q \in Seq(Segment)
    BY DEF StreamQueue
  <2>2. Takes(q, s) \in 0 .. Len(q)
    BY TakesIs
  <2>3. Len(e) = Len(q) - Takes(q, s)
    BY <2>2, RestIs DEF Left
  <2>4. Len(q) - Len(e) = Takes(q, s)
    BY <2>1, <2>2, <2>3
  <2> QED
    BY <2>4, <1>6, Zenon DEF InSeqSeg, Merged, FinIn
<1>8. r = CloseGap(p, g, e, n)
  BY <1>6, <1>7 DEF InSequence, Drains
<1>9. EndSeq(IF n = 0 THEN g ELSE e[n]) = next
  BY <1>3
<1>10. r = DeliverRun(p, run, next, kept)
  BY <1>8, <1>9 DEF CloseGap, Run, Kept
<1> HIDE DEF run, kept, next, g, e, n
<1> DEFINE u == [p EXCEPT !.rcv_nxt = next, !.ooseq = kept, !.unread = @ + (next - p.rcv_nxt)]
           v == tcp_ack(u)
           fin == \E j \in DOMAIN run : run[j].fin
<1>11. next - p.rcv_nxt \in Nat
  BY <1>1, <1>4
<1>12. kept \in Seq(Segment)
  BY <1>3 DEF StreamQueue
<1>13. u \in Pcb /\ u.state = p.state /\ u.rcv_nxt = next /\ u.ooseq = kept
       /\ u.ack \in SUBSET {"DELAY", "NOW"}
  <2> DEFINE w == p.unread + (next - p.rcv_nxt)
  <2>1. w \in Nat
    BY <1>1, <1>11
  <2>2. u = [p EXCEPT !.rcv_nxt = next, !.ooseq = kept, !.unread = w]
    OBVIOUS
  <2> HIDE DEF w, u
  <2> QED
    BY <2>1, <2>2, <1>1, <1>4, <1>12, ZenonT(40) DEF Pcb
<1> HIDE DEF u
<1>14. v \in Pcb /\ v.state = p.state /\ v.rcv_nxt = next /\ v.ooseq = kept
  <2> DEFINE a == IF "DELAY" \in u.ack THEN {"NOW"} ELSE u.ack \cup {"DELAY"}
  <2>1. v = [u EXCEPT !.ack = a]
    BY DEF tcp_ack
  <2>2. a \in SUBSET {"DELAY", "NOW"}
    BY <1>13
  <2> HIDE DEF a, v
  <2> QED
    BY <2>1, <2>2, <1>13, ZenonT(40) DEF Pcb
<1>15. r = [p |-> v, out |-> {}, data |-> DataOf(run), fin |-> fin]
  BY <1>10 DEF DeliverRun, u
<1> HIDE DEF v, fin, r
<1>16. r.p = v /\ r.data = DataOf(run) /\ r.fin = fin /\ r.out = {}
  BY <1>15
<1>17. fin \in BOOLEAN
  BY Zenon DEF fin
<1>18. ReceiveResult(r)
  BY <1>14, <1>15, <1>16, <1>17, Zenon DEF ReceiveResult
<1> QED
  BY <1>2, <1>14, <1>16, <1>18, Zenon DEF r, run, next, kept, fin

(* The two kinds of outcome: the segment is next in sequence, or only the  *)
(* queue may change.                                                       *)
Delivers(p, u, r) ==
  LET run == Run(p.ooseq, u)
  IN  /\ u.seq = p.rcv_nxt /\ Follows(p.ooseq, u)
      /\ r.p.rcv_nxt = EndSeq(Last(run)) /\ r.p.ooseq = Kept(p.ooseq, u)
      /\ r.data = DataOf(run)
      /\ r.fin = \E j \in DOMAIN run : run[j].fin

Stays(st, p, r) ==
  /\ r.p.rcv_nxt = p.rcv_nxt /\ r.data = << >> /\ r.fin = FALSE
  /\ StreamQueue(st, r.p.ooseq) /\ Beyond(r.p.ooseq, p.rcv_nxt)

(* The states in which tcp_receive takes data.                             *)
Receiving == {"ESTABLISHED", "FIN_WAIT_1", "FIN_WAIT_2"}

(* What tcp_receive makes of a packet.                                     *)
LEMMA ReceiveIs ==
  ASSUME NEW st, st.base \in Nat, st.top \in Nat,
         NEW p \in Pcb, StreamQueue(st, p.ooseq), Beyond(p.ooseq, p.rcv_nxt),
         NEW i, tcplen(i) # 0, OfStream(st, SegOf(i))
  PROVE  LET r == ReceiveData(p, i)
             u == TrimFront(SegOf(i), p.rcv_nxt)
         IN  /\ ReceiveResult(r) /\ r.p.state = p.state
             /\ \/ p.state \in Receiving /\ Delivers(p, u, r)
                \/ /\ p.state \notin Receiving \/ u.seq # p.rcv_nxt
                   /\ Stays(st, p, r)
<1> DEFINE r == ReceiveData(p, i)
           u == TrimFront(SegOf(i), p.rcv_nxt)
           x == p.rcv_nxt
<1>1. x \in Nat /\ p.ack \in SUBSET {"DELAY", "NOW"} /\ p.ooseq \in Seq(Segment)
  BY DEF Pcb
<1>3. OfStream(st, u)
  BY <1>1, TrimFrontIs
<1>4. u \in Segment /\ u.seq \in Nat
  BY <1>3, EndsAreNat DEF OfStream
<1>5. CASE p.state \notin Receiving
  <2> DEFINE a == IF i.seq < x THEN p.ack \cup {"NOW"} ELSE p.ack
             v == [p EXCEPT !.ack = a, !.ooseq = p.ooseq]
  <2>1. p.state \notin {"ESTABLISHED", "FIN_WAIT_1", "FIN_WAIT_2"}
    BY <1>5 DEF Receiving
  <2>2. r = Nothing(IF i.seq < x THEN tcp_ack_now(p) ELSE p)
    BY <2>1, Zenon DEF ReceiveData
  <2>3. v = IF i.seq < x THEN tcp_ack_now(p) ELSE p
    BY DEF tcp_ack_now, Pcb
  <2>4. r = [p |-> v, out |-> {}, data |-> << >>, fin |-> FALSE]
    BY <2>2, <2>3, Zenon DEF Nothing
  <2>5. a \in SUBSET {"DELAY", "NOW"}
    BY <1>1
  <2> HIDE DEF a, r
  <2>6. /\ ReceiveResult(r) /\ r.p.state = p.state /\ r.p.rcv_nxt = p.rcv_nxt
        /\ r.p.ooseq = p.ooseq /\ r.data = << >> /\ r.fin = FALSE
    <3>1. Flagged(p, a, p.ooseq, v) /\ NoneDelivered(v, {}, r)
      BY <2>4 DEF Flagged, NoneDelivered
    <3> HIDE DEF v
    <3> QED
      BY <3>1, <2>5, <1>1, NothingIs, ZenonT(30)
  <2> QED
    BY <2>6, <1>5, Zenon DEF Stays, r
<1>6. CASE p.state \in Receiving
  <2>1. p.state \in {"ESTABLISHED", "FIN_WAIT_1", "FIN_WAIT_2"}
    BY <1>6 DEF Receiving
  <2>2. r = IF u.seq = x THEN InSequence(p, u)
            ELSE [Nothing(IF u.seq < x THEN [p EXCEPT !.ack = {}]
                          ELSE [p EXCEPT !.ack = {}, !.ooseq = OosInsert(@, u)])
                  EXCEPT !.out = {EmptyAck(p)}]
    BY <2>1, Zenon DEF ReceiveData, SegOf
  <2> HIDE DEF r, u
  <2>3. CASE u.seq = x
    <3>1. r = InSequence(p, u)
      BY <2>2, <2>3
    <3>2. /\ Follows(p.ooseq, u) /\ ReceiveResult(r) /\ r.p.state = p.state
          /\ r.p.rcv_nxt = EndSeq(Last(Run(p.ooseq, u))) /\ r.p.ooseq = Kept(p.ooseq, u)
          /\ r.data = DataOf(Run(p.ooseq, u))
          /\ r.fin = \E j \in DOMAIN Run(p.ooseq, u) : Run(p.ooseq, u)[j].fin
      BY <3>1, <2>3, <1>3, InSequenceIs
    <3> QED
      BY <3>2, <2>3, <1>6, Zenon DEF Delivers, r, u
  <2>4. CASE u.seq # x
    <3> DEFINE q == IF u.seq < x THEN p.ooseq ELSE OosInsert(p.ooseq, u)
               v == [p EXCEPT !.ack = {}, !.ooseq = q]
    <3>1. StreamQueue(st, q) /\ Beyond(q, x)
      <4>1. CASE u.seq < x
        BY <4>1
      <4>2. CASE ~(u.seq < x)
        <5>1. u.seq > x
          BY <4>2, <2>4, <1>1, <1>4
        <5>2. q = OosInsert(p.ooseq, u)
          BY <4>2
        <5> HIDE DEF q
        <5> QED
          BY <5>1, <5>2, <1>1, <1>3, OosInsertIs
      <4> QED
        BY <4>1, <4>2
    <3>2. q \in Seq(Segment)
      BY <3>1 DEF StreamQueue
    <3>3. v = IF u.seq < x THEN [p EXCEPT !.ack = {}]
              ELSE [p EXCEPT !.ack = {}, !.ooseq = OosInsert(@, u)]
      BY DEF Pcb
    <3> HIDE DEF v
    <3>4. r = [p |-> v, out |-> {EmptyAck(p)}, data |-> << >>, fin |-> FALSE]
      BY <2>2, <2>4, <3>3 DEF Nothing
    <3> HIDE DEF q
    <3>5. /\ ReceiveResult(r) /\ r.p.state = p.state /\ r.p.rcv_nxt = p.rcv_nxt
          /\ r.p.ooseq = q /\ r.data = << >> /\ r.fin = FALSE
      <4>1. {} \in SUBSET {"DELAY", "NOW"}
        OBVIOUS
      <4>2. Flagged(p, {}, q, v) /\ NoneDelivered(v, {EmptyAck(p)}, r)
        BY <3>4 DEF v, Flagged, NoneDelivered
      <4> QED
        BY <4>1, <4>2, <3>2, NothingIs, Zenon
    <3> QED
      BY <3>1, <3>5, <2>4, Zenon DEF Stays, r, u
  <2> QED
    BY <2>3, <2>4
<1> QED
  BY <1>5, <1>6

(* tcp_process adds the state: the end of the stream leads to CLOSE_WAIT.  *)
LEMMA ProcessIs ==
  ASSUME NEW p \in Pcb, p.state \in {"ESTABLISHED", "CLOSE_WAIT"}, NEW i \in Parts,
         ReceiveResult(ReceiveData(p, i)), ReceiveData(p, i).p.state = p.state
  PROVE  LET r == ReceiveData(p, i)
             t == tcp_process(p, i, FALSE)
         IN  /\ t.p \in Pcb /\ t.p.rcv_nxt = r.p.rcv_nxt /\ t.p.ooseq = r.p.ooseq
             /\ t.p.state = IF r.fin THEN "CLOSE_WAIT" ELSE p.state
             /\ t.data = r.data /\ t.fin = r.fin
<1> DEFINE r == ReceiveData(p, i)
           t == tcp_process(p, i, FALSE)
           next == IF r.fin THEN "CLOSE_WAIT" ELSE p.state
<1>1. ~i.ack /\ ~i.syn /\ ~i.rst
  BY PartIs
<1>2. p.state # "SYN_SENT" /\ p.state # "SYN_RCVD"
  OBVIOUS
<1>3. t = Received(r, i, NextState(r, i))
  BY <1>1, <1>2, Zenon DEF tcp_process, ProcessSynced, StateChange, tcp_receive
<1>4. /\ r = [p |-> r.p, out |-> r.out, data |-> r.data, fin |-> r.fin]
      /\ r.p \in Pcb /\ r.fin \in BOOLEAN /\ r.p.state = p.state
  BY DEF ReceiveResult
<1> HIDE DEF r
<1>5. NextState(r, i) = next
  <2>1. /\ r.p.state # "FIN_WAIT_1" /\ r.p.state # "FIN_WAIT_2" /\ r.p.state # "CLOSING"
        /\ r.p.state \in {"ESTABLISHED", "CLOSE_WAIT"}
    BY <1>4
  <2>2. CASE r.fin
    BY <2>1, <2>2, Zenon DEF NextState
  <2>3. CASE ~r.fin
    BY <2>1, <2>3, <1>4, Zenon DEF NextState
  <2> QED
    BY <2>2, <2>3
<1>6. next # "TIME_WAIT" /\ next \in States
  BY DEF States
<1> HIDE DEF next
<1> DEFINE q == IF r.fin THEN tcp_ack_now(r.p) ELSE r.p
           v == [q EXCEPT !.state = next]
<1>7. q \in Pcb /\ q.rcv_nxt = r.p.rcv_nxt /\ q.ooseq = r.p.ooseq
  <2> DEFINE a == r.p.ack \cup {"NOW"}
             w == [r.p EXCEPT !.ack = a]
  <2>1. a \in SUBSET {"DELAY", "NOW"}
    BY <1>4 DEF Pcb
  <2>2. w = tcp_ack_now(r.p)
    BY DEF tcp_ack_now
  <2> HIDE DEF a
  <2>3. w \in Pcb /\ w.rcv_nxt = r.p.rcv_nxt /\ w.ooseq = r.p.ooseq
    BY <2>1, <1>4 DEF Pcb
  <2> QED
    BY <2>2, <2>3, <1>4
<1> HIDE DEF q
<1>8. v \in Pcb /\ v.rcv_nxt = r.p.rcv_nxt /\ v.ooseq = r.p.ooseq /\ v.state = next
  BY <1>6, <1>7 DEF Pcb
<1>9. \E ev : t = With([r EXCEPT !.p = v], ev)
  BY <1>3, <1>5, <1>6, Zenon DEF Received, q
<1>10. PICK ev : t = With([r EXCEPT !.p = v], ev)
  BY <1>9
<1> HIDE DEF v, t
<1>11. [r EXCEPT !.p = v] = [p |-> v, out |-> r.out, data |-> r.data, fin |-> r.fin]
  BY <1>4
<1>12. t = [p |-> v, out |-> r.out, data |-> r.data, fin |-> r.fin, ev |-> ev]
  BY <1>10, <1>11 DEF With
<1>13. t.p = v /\ t.data = r.data /\ t.fin = r.fin
  BY <1>12
<1> QED
  BY <1>8, <1>13 DEF t, r, next

-----------------------------------------------------------------------------
(* The inductive invariant.                                                *)
StreamInv ==
  /\ rx \in Pcb /\ rcvd \in Seq(Nat) /\ eof \in BOOLEAN
  /\ rx.state = (IF eof THEN "CLOSE_WAIT" ELSE "ESTABLISHED")
  /\ StreamQueue(ReassStream, rx.ooseq) /\ Beyond(rx.ooseq, rx.rcv_nxt)
  /\ \A n \in 1 .. Len(rcvd) : rcvd[n] = n
  /\ rx.rcv_nxt = Len(rcvd) + (IF eof THEN 2 ELSE 1)
  /\ Len(rcvd) <= StreamLen
  /\ eof => Len(rcvd) = StreamLen

(* It holds at first.                                                      *)
LEMMA InitInv == ReassInit => StreamInv
<1> SUFFICES ASSUME ReassInit PROVE StreamInv
  OBVIOUS
<1>1. /\ rx \in Pcb /\ rx.state = "ESTABLISHED" /\ rx.rcv_nxt = 1 /\ rx.ooseq = << >>
      /\ rcvd = << >> /\ eof = FALSE
  <2> DEFINE es == << >>
             p == [NoPcb EXCEPT !.state = "ESTABLISHED", !.rcv_nxt = 1]
  <2>1. es \in Seq(Segment) /\ es \in Seq(Nat)
    OBVIOUS
  <2>2. NoPcb = [state |-> "CLOSED", snd_nxt |-> 0, lastack |-> 0, snd_lbb |-> 0,
                 unsent |-> es, unacked |-> es, rcv_nxt |-> 0, ooseq |-> es,
                 unread |-> 0, refused |-> es, refusedfin |-> FALSE,
                 rtime |-> FALSE, nrtx |-> 0, dupacks |-> 0, infr |-> FALSE,
                 ack |-> {}, rxclosed |-> FALSE]
    BY Zenon DEF NoPcb
  <2> HIDE DEF es
  <2>4. NoPcb \in Pcb /\ NoPcb.ooseq = es
    BY <2>1, <2>2 DEF Pcb, States
  <2>3. p \in Pcb /\ p.state = "ESTABLISHED" /\ p.rcv_nxt = 1 /\ p.ooseq = es
    BY <2>4 DEF Pcb, States
  <2> QED
    BY <2>3 DEF ReassInit, p, es
<1>2. rcvd \in Seq(Nat) /\ Len(rcvd) = 0 /\ \A n \in 1 .. Len(rcvd) : rcvd[n] = n
  BY <1>1
<1>3. Beyond(rx.ooseq, rx.rcv_nxt)
  BY <1>1 DEF Beyond
<1>4. StreamQueue(ReassStream, rx.ooseq)
  BY <1>1, EmptyIs
<1>5. /\ rx.state = (IF eof THEN "CLOSE_WAIT" ELSE "ESTABLISHED")
      /\ rx.rcv_nxt = Len(rcvd) + (IF eof THEN 2 ELSE 1)
      /\ Len(rcvd) <= StreamLen
  BY <1>1, <1>2, StreamAssumption
<1> QED
  BY <1>1, <1>2, <1>3, <1>4, <1>5, Zenon DEF StreamInv

(* It implies what the run checks.                                         *)
LEMMA InvImplies == StreamInv => StreamInOrder
<1> SUFFICES ASSUME StreamInv PROVE StreamInOrder
  OBVIOUS
<1> DEFINE q == rx.ooseq
<1>1. q \in Seq(Segment) /\ DOMAIN q = 1 .. Len(q) /\ StreamQueue(ReassStream, q) /\ Beyond(q, rx.rcv_nxt)
  BY DEF StreamInv, StreamQueue
<1>2. ASSUME NEW j \in DOMAIN q
      PROVE  /\ q[j].seq > rx.rcv_nxt
             /\ j < Len(q) => EndSeq(q[j]) <= q[j + 1].seq
             /\ q[j].data = [n \in 1 .. Len(q[j].data) |-> q[j].seq + n - 1]
             /\ q[j].fin => DataEnd(q[j]) = StreamLen + 1
  <2>1. OfStream(ReassStream, q[j]) /\ q[j] \in Segment
    BY <1>1 DEF StreamQueue, OfStream
  <2>2. q[j].seq > rx.rcv_nxt
    BY <1>1 DEF Beyond
  <2>3. j < Len(q) => EndSeq(q[j]) <= q[j + 1].seq
    <3> SUFFICES ASSUME j < Len(q) PROVE EndSeq(q[j]) <= q[j + 1].seq
      OBVIOUS
    <3>1. Len(q) \in Nat /\ j \in 1 .. Len(q)
      BY <1>1
    <3>2. j + 1 \in 1 .. Len(q) /\ j < j + 1
      BY <3>1
    <3> QED
      BY <3>2, <1>1, Zenon DEF StreamQueue, Sorted
  <2>4. q[j].data = [n \in 1 .. Len(q[j].data) |-> q[j].seq + n - 1]
    <3>1. q[j].data \in Seq(Nat)
      BY <2>1 DEF Segment
    <3>2. \A n \in 1 .. Len(q[j].data) : q[j].data[n] = q[j].seq + n - 1
      <4>1. \A n \in 1 .. Len(q[j].data) : q[j].data[n] = q[j].seq + n - 1 - ReassStream.base
        BY <2>1 DEF OfStream
      <4>2. q[j].seq \in Nat
        BY <2>1 DEF Segment
      <4> QED
        BY <4>1, <4>2, WholeStream
    <3> DEFINE d == q[j].data
               a == q[j].seq
    <3>3. d \in Seq(Nat) /\ \A n \in 1 .. Len(d) : d[n] = a + n - 1
      BY <3>1, <3>2
    <3> HIDE DEF d, a
    <3>4. d = [n \in 1 .. Len(d) |-> a + n - 1]
      BY <3>3
    <3> QED
      BY <3>4 DEF d, a
  <2> QED
    BY <2>1, <2>2, <2>3, <2>4, EndIs, WholeStream
<1>3. OoseqSorted
  BY <1>2 DEF OoseqSorted
<1>4. rcvd = [n \in 1 .. Len(rcvd) |-> n]
  <2>1. rcvd \in Seq(Nat) /\ \A n \in 1 .. Len(rcvd) : rcvd[n] = n
    BY DEF StreamInv
  <2> QED
    BY <2>1
<1> QED
  BY <1>3, <1>4 DEF StreamInv, StreamInOrder

(* The FIN of a run is on its last segment.                                *)
LEMMA FinOfRun ==
  ASSUME NEW st, st.base \in Nat, st.top \in Nat,
         NEW run, IsRun(st, run)
  PROVE  LET fin == \E j \in DOMAIN run : run[j].fin
             e == Last(run)
         IN  /\ fin => st.closed /\ DataEnd(e) = st.top /\ EndSeq(e) = DataEnd(e) + 1
             /\ ~fin => EndSeq(e) = DataEnd(e)
<1>1. run \in Seq(Segment) /\ StreamQueue(st, run) /\ DOMAIN run = 1 .. Len(run)
  BY DEF IsRun, StreamQueue
<1>2. Len(run) \in 1 .. Len(run) /\ OfStream(st, Last(run))
  BY RunGrows
<1>3. (\E j \in DOMAIN run : run[j].fin) <=> Last(run).fin
  <2>1. \A j \in 1 .. Len(run) : run[j].fin => j = Len(run)
    BY <1>1, FinIsLast
  <2> QED
    BY <2>1, <1>1, <1>2, Zenon DEF Last
<1>4. /\ ~Last(run).fin => EndSeq(Last(run)) = DataEnd(Last(run))
      /\ Last(run).fin => EndSeq(Last(run)) = DataEnd(Last(run)) + 1
                           /\ DataEnd(Last(run)) = st.top /\ st.closed
  BY <1>2, EndIs
<1> QED
  BY <1>3, <1>4, Zenon

(* A packet keeps the invariant.                                           *)
LEMMA ArriveKeeps ==
  ASSUME StreamInv, NEW i \in Parts, Arrive(i)
  PROVE  StreamInv'
<1> DEFINE r == ReceiveData(rx, i)
           t == tcp_process(rx, i, FALSE)
           u == TrimFront(SegOf(i), rx.rcv_nxt)
<1>1. /\ rx \in Pcb /\ StreamQueue(ReassStream, rx.ooseq) /\ Beyond(rx.ooseq, rx.rcv_nxt)
      /\ rx.state \in {"ESTABLISHED", "CLOSE_WAIT"} /\ rcvd \in Seq(Nat) /\ eof \in BOOLEAN
      /\ rx.state = IF eof THEN "CLOSE_WAIT" ELSE "ESTABLISHED"
      /\ \A n \in 1 .. Len(rcvd) : rcvd[n] = n
      /\ rx.rcv_nxt = Len(rcvd) + (IF eof THEN 2 ELSE 1)
      /\ Len(rcvd) <= StreamLen
      /\ eof => Len(rcvd) = StreamLen
  BY DEF StreamInv
<1>2. /\ ReceiveResult(r) /\ r.p.state = rx.state
      /\ \/ rx.state = "ESTABLISHED" /\ Delivers(rx, u, r)
         \/ Stays(ReassStream, rx, r)
  <2>1. tcplen(i) # 0 /\ OfStream(ReassStream, SegOf(i))
    BY PartIs
  <2>2. ReassStream.base \in Nat /\ ReassStream.top \in Nat
    BY WholeStream
  <2>3. rx.state \in Receiving <=> rx.state = "ESTABLISHED"
    BY <1>1 DEF Receiving
  <2> QED
    BY <1>1, <2>1, <2>2, <2>3, ReceiveIs
<1>3. /\ t.p \in Pcb /\ t.p.rcv_nxt = r.p.rcv_nxt /\ t.p.ooseq = r.p.ooseq
      /\ t.p.state = IF r.fin THEN "CLOSE_WAIT" ELSE rx.state
      /\ t.data = r.data /\ t.fin = r.fin
  BY <1>1, <1>2, ProcessIs
<1>4. rx' = t.p /\ rcvd' = rcvd \o t.data /\ eof' = (eof \/ t.fin)
  BY DEF Arrive
<1> HIDE DEF r, t
<1>5. CASE Stays(ReassStream, rx, r)
  <2>1. /\ r.p.rcv_nxt = rx.rcv_nxt /\ r.data = << >> /\ r.fin = FALSE
        /\ StreamQueue(ReassStream, r.p.ooseq) /\ Beyond(r.p.ooseq, rx.rcv_nxt)
    BY <1>5 DEF Stays
  <2>2. rcvd' = rcvd
    BY <2>1, <1>1, <1>3, <1>4
  <2>3. eof' = eof
    BY <2>1, <1>1, <1>3, <1>4
  <2>4. rx' \in Pcb /\ rx'.rcv_nxt = rx.rcv_nxt /\ rx'.ooseq = r.p.ooseq /\ rx'.state = rx.state
    BY <2>1, <1>3, <1>4
  <2> QED
    BY <2>1, <2>2, <2>3, <2>4, <1>1 DEF StreamInv
<1>6. CASE rx.state = "ESTABLISHED" /\ Delivers(rx, u, r)
  <2> DEFINE run == Run(rx.ooseq, u)
             x == rx.rcv_nxt
             e == DataEnd(Last(run))
             fin == \E j \in DOMAIN run : run[j].fin
  <2>1. /\ u.seq = x /\ Follows(rx.ooseq, u)
        /\ r.p.rcv_nxt = EndSeq(Last(run)) /\ r.p.ooseq = Kept(rx.ooseq, u)
        /\ r.data = DataOf(run)
        /\ r.fin = fin
    BY <1>6, Zenon DEF Delivers
  <2>2. eof = FALSE /\ x = Len(rcvd) + 1 /\ x \in Nat /\ Len(rcvd) \in Nat
    BY <1>1, <1>6
  <2>3. OfStream(ReassStream, u)
    <3>1. OfStream(ReassStream, SegOf(i))
      BY PartIs
    <3> QED
      BY <3>1, <2>2, TrimFrontIs, WholeStream
  <2>4. /\ IsRun(ReassStream, run) /\ run[1].seq = x
        /\ StreamQueue(ReassStream, Kept(rx.ooseq, u)) /\ Beyond(Kept(rx.ooseq, u), EndSeq(Last(run)))
    BY <2>1, <2>3, <1>1, RunIs, WholeStream
  <2>5. /\ fin => e = StreamLen + 1 /\ EndSeq(Last(run)) = e + 1
        /\ ~fin => EndSeq(Last(run)) = e
    BY <2>4, FinOfRun, WholeStream
  <2> DEFINE d == DataOf(run)
  <2>6. /\ e - x \in Nat /\ d \in Seq(Nat) /\ Len(d) = e - x
        /\ \A n \in 1 .. e - x : d[n] = x + n - 1
    BY <2>2, <2>4, DataOfRun, WholeStream
  <2>7. e \in Nat /\ e <= StreamLen + 1
    <3>1. OfStream(ReassStream, Last(run))
      BY <2>4, RunGrows, WholeStream
    <3> QED
      BY <3>1, EndsAreNat, WholeStream DEF OfStream
  <2> DEFINE all == rcvd \o d
  <2>8. rcvd' = all /\ eof' = fin /\ fin \in BOOLEAN
    <3>1. rcvd' = all
      BY <2>1, <1>3, <1>4
    <3>2. fin \in BOOLEAN
      BY Zenon
    <3> HIDE DEF fin
    <3>3. eof' = fin
      BY <2>1, <2>2, <3>2, <1>3, <1>4, Zenon
    <3> QED
      BY <3>1, <3>2, <3>3
  <2>9. rx' \in Pcb /\ rx'.rcv_nxt = EndSeq(Last(run)) /\ rx'.ooseq = Kept(rx.ooseq, u)
        /\ rx'.state = IF fin THEN "CLOSE_WAIT" ELSE "ESTABLISHED"
    <3> HIDE DEF fin
    <3> QED
      BY <2>1, <1>3, <1>4, <1>6
  <2> HIDE DEF run, fin, d, e
  <2>10. /\ all \in Seq(Nat) /\ Len(all) = Len(rcvd) + Len(d)
         /\ \A n \in 1 .. Len(rcvd) + Len(d) :
              all[n] = IF n <= Len(rcvd) THEN rcvd[n] ELSE d[n - Len(rcvd)]
    BY <2>6, <1>1, ConcatProperties
  <2> HIDE DEF all
  <2>11. Len(all) = e - 1
    BY <2>2, <2>6, <2>7, <2>10
  <2>12. ASSUME NEW n \in 1 .. Len(all) PROVE all[n] = n
    <3>1. n \in 1 .. Len(rcvd) + Len(d)
      BY <2>10
    <3>2. CASE n <= Len(rcvd)
      <4>1. n \in 1 .. Len(rcvd)
        BY <3>1, <3>2, <2>2
      <4> QED
        BY <4>1, <3>1, <3>2, <2>10, <1>1
    <3>3. CASE ~(n <= Len(rcvd))
      <4>1. n - Len(rcvd) \in 1 .. e - x
        BY <3>1, <3>3, <2>2, <2>6
      <4>2. d[n - Len(rcvd)] = x + (n - Len(rcvd)) - 1
        BY <4>1, <2>6
      <4>3. x + (n - Len(rcvd)) - 1 = n
        BY <2>2, <3>1
      <4> QED
        BY <4>2, <4>3, <3>1, <3>3, <2>10
    <3> QED
      BY <3>2, <3>3
  <2>13. EndSeq(Last(run)) = Len(all) + (IF fin THEN 2 ELSE 1)
    BY <2>5, <2>7, <2>8, <2>11
  <2>14. Len(all) <= StreamLen /\ (fin => Len(all) = StreamLen)
    BY <2>5, <2>7, <2>11, StreamAssumption
  <2> QED
    BY <2>4, <2>8, <2>9, <2>10, <2>12, <2>13, <2>14 DEF StreamInv
<1> QED
  BY <1>2, <1>5, <1>6

(* Every step keeps it.                                                    *)
LEMMA StepKeeps == StreamInv /\ [ReassNext]_rvars => StreamInv'
<1> SUFFICES ASSUME StreamInv, [ReassNext]_rvars PROVE StreamInv'
  OBVIOUS
<1>1. CASE DropOoseq
  <2>1. /\ rx \in Pcb /\ rx' = [rx EXCEPT !.ooseq = << >>] /\ rcvd' = rcvd /\ eof' = eof
    BY <1>1 DEF StreamInv, DropOoseq
  <2> DEFINE es == << >>
  <2>0. es \in Seq(Segment) /\ rx' = [rx EXCEPT !.ooseq = es]
    BY <2>1
  <2> HIDE DEF es
  <2>4. rx' \in Pcb /\ rx'.ooseq = es /\ rx'.state = rx.state /\ rx'.rcv_nxt = rx.rcv_nxt
    BY <2>0, <2>1 DEF Pcb
  <2>2. rx' \in Pcb /\ rx'.ooseq = << >> /\ rx'.state = rx.state /\ rx'.rcv_nxt = rx.rcv_nxt
    BY <2>4 DEF es
  <2>3. Beyond(rx'.ooseq, rx'.rcv_nxt)
    BY <2>2 DEF Beyond
  <2> QED
    BY <2>1, <2>2, <2>3, EmptyIs DEF StreamInv
<1>2. ASSUME NEW i \in Parts, Arrive(i) PROVE StreamInv'
  BY <1>2, ArriveKeeps
<1>3. CASE UNCHANGED rvars
  BY <1>3 DEF rvars, StreamInv
<1> QED
  BY <1>1, <1>2, <1>3 DEF ReassNext

(* The application gets the stream in order, whole and once, whatever      *)
(* arrives in whatever cut and order (tcp_receive and its ooseq queue).    *)
THEOREM StreamArrives == ReassSpec => []StreamInOrder
<1>1. ReassInit => StreamInv
  BY InitInv
<1>2. StreamInv /\ [ReassNext]_rvars => StreamInv'
  BY StepKeeps
<1>3. StreamInv => StreamInOrder
  BY InvImplies
<1> QED
  BY <1>1, <1>2, <1>3, PTL DEF ReassSpec

-----------------------------------------------------------------------------
(* Nothing is lost or made up when a segment takes the place of others:    *)
(* its numbers are those of the packet or of a segment it took.            *)
LEMMA MergedNumbers ==
  ASSUME NEW st, st.base \in Nat, st.top \in Nat,
         NEW q, StreamQueue(st, q), NEW s, OfStream(st, s), Follows(q, s)
  PROVE  LET g == Merged(q, s)
             r == Left(q, s)
             n == Takes(q, s)
         IN  /\ \A m \in Nat : s.seq <= m /\ m < EndSeq(g) =>
                  m < EndSeq(s) \/ \E k \in 1 .. n : q[k].seq <= m /\ m < EndSeq(q[k])
             /\ \/ EndSeq(s) <= EndSeq(g)
                \/ r # << >> /\ r[1].seq = EndSeq(g) /\ EndSeq(s) <= EndSeq(r[1])
             /\ \A k \in 1 .. n : EndSeq(q[k]) <= EndSeq(g)
<1> DEFINE g == Merged(q, s)
           r == Left(q, s)
           n == Takes(q, s)
<1>1. /\ OfStream(st, g) /\ g.seq = s.seq /\ StreamQueue(st, r)
      /\ \/ DataEnd(g) = DataEnd(s) /\ (s.fin => g.fin)
         \/ r # << >> /\ DataEnd(g) = r[1].seq /\ EndSeq(g) = DataEnd(g)
              /\ ~s.fin /\ DataEnd(r[1]) > DataEnd(s)
      /\ DataEnd(g) <= DataEnd(s)
      /\ g.fin <=> (s.fin \/ FinIn(q, n))
  BY MergedIs
<1>2. /\ n \in 0 .. Len(q)
      /\ \A j \in 1 .. n : DataEnd(q[j]) <= DataEnd(s)
  BY TakesIs
<1>3. /\ Len(r) = Len(q) - n
      /\ \A i \in 1 .. Len(r) : n + i \in 1 .. Len(q) /\ r[i] = q[n + i]
  BY <1>2, RestIs DEF Left
<1> HIDE DEF g, r, n
<1>4. /\ g \in Segment /\ DataEnd(g) \in Nat /\ EndSeq(g) \in Nat /\ DataEnd(g) <= EndSeq(g)
      /\ s \in Segment /\ DataEnd(s) \in Nat /\ EndSeq(s) \in Nat /\ DataEnd(s) <= EndSeq(s)
  BY <1>1, EndsAreNat DEF OfStream
<1>5. /\ ~g.fin => EndSeq(g) = DataEnd(g)
      /\ g.fin => EndSeq(g) = DataEnd(g) + 1 /\ DataEnd(g) = st.top
      /\ ~s.fin => EndSeq(s) = DataEnd(s)
      /\ s.fin => EndSeq(s) = DataEnd(s) + 1 /\ DataEnd(s) = st.top
  BY <1>1, EndIs
<1>6. \A k \in 1 .. Len(q) :
        /\ q[k].seq \in Nat /\ DataEnd(q[k]) \in Nat /\ EndSeq(q[k]) \in Nat
        /\ q[k].seq <= DataEnd(q[k]) /\ DataEnd(q[k]) <= EndSeq(q[k])
        /\ ~q[k].fin => EndSeq(q[k]) = DataEnd(q[k])
        /\ q[k].fin => EndSeq(q[k]) = DataEnd(q[k]) + 1 /\ DataEnd(q[k]) = st.top
  <2> TAKE k \in 1 .. Len(q)
  <2>1. OfStream(st, q[k]) /\ q[k] \in Segment
    BY DEF StreamQueue, OfStream
  <2> QED
    BY <2>1, EndsAreNat, EndIs
<1>7. q \in Seq(Segment) /\ Len(q) \in Nat
  BY DEF StreamQueue
<1>8. \A k \in 1 .. n : k \in 1 .. Len(q)
  BY <1>2, <1>7
<1>9. ASSUME r # << >>
      PROVE  1 \in 1 .. Len(r) /\ n + 1 \in 1 .. Len(q) /\ r[1] = q[n + 1]
  <2>1. r \in Seq(Segment)
    BY <1>1 DEF StreamQueue
  <2>2. 1 \in 1 .. Len(r)
    BY <2>1, <1>9
  <2> QED
    BY <2>2, <1>3
<1>10. ASSUME NEW m \in Nat, s.seq <= m, m < EndSeq(g)
       PROVE  m < EndSeq(s) \/ \E k \in 1 .. n : q[k].seq <= m /\ m < EndSeq(q[k])
  <2>1. CASE m < DataEnd(g)
    BY <2>1, <1>1, <1>4
  <2>2. CASE ~(m < DataEnd(g))
    <3>1. g.fin
      BY <2>2, <1>4, <1>5, <1>10
    <3>2. m = st.top /\ EndSeq(g) = st.top + 1
      BY <3>1, <2>2, <1>4, <1>5, <1>10
    <3>3. CASE s.fin
      BY <3>2, <3>3, <1>5
    <3>4. CASE ~s.fin
      <4>1. PICK k \in 1 .. n : q[k].fin
        BY <3>1, <3>4, <1>1, Zenon DEF FinIn
      <4>2. DataEnd(q[k]) = st.top /\ EndSeq(q[k]) = st.top + 1
            /\ q[k].seq <= st.top
        BY <4>1, <1>6, <1>8
      <4>3. q[k].seq <= m /\ m < EndSeq(q[k])
        BY <3>2, <4>2
      <4> QED
        BY <4>3
    <3> QED
      BY <3>3, <3>4
  <2> QED
    BY <2>1, <2>2
<1>11. \/ EndSeq(s) <= EndSeq(g)
       \/ r # << >> /\ r[1].seq = EndSeq(g) /\ EndSeq(s) <= EndSeq(r[1])
  <2>1. CASE DataEnd(g) = DataEnd(s) /\ (s.fin => g.fin)
    BY <2>1, <1>4, <1>5
  <2>2. CASE r # << >> /\ DataEnd(g) = r[1].seq /\ EndSeq(g) = DataEnd(g)
              /\ ~s.fin /\ DataEnd(r[1]) > DataEnd(s)
    <3>1. n + 1 \in 1 .. Len(q) /\ r[1] = q[n + 1]
      BY <2>2, <1>9
    <3>2. EndSeq(r[1]) \in Nat /\ DataEnd(r[1]) \in Nat /\ DataEnd(r[1]) <= EndSeq(r[1])
      BY <3>1, <1>6
    <3> QED
      BY <3>2, <2>2, <1>4, <1>5
  <2> QED
    BY <2>1, <2>2, <1>1
<1>12. ASSUME NEW k \in 1 .. n PROVE EndSeq(q[k]) <= EndSeq(g)
  <2>1. k \in 1 .. Len(q) /\ DataEnd(q[k]) <= DataEnd(s) /\ DataEnd(q[k]) \in Nat
        /\ EndSeq(q[k]) \in Nat
    BY <1>2, <1>6, <1>8
  <2>2. CASE q[k].fin
    <3>1. FinIn(q, n)
      BY <2>2, Zenon DEF FinIn
    <3>2. g.fin
      BY <3>1, <1>1, Zenon
    <3> QED
      BY <3>2, <2>1, <2>2, <1>5, <1>6
  <2>3. CASE ~q[k].fin
    <3>1. EndSeq(q[k]) = DataEnd(q[k])
      BY <2>1, <2>3, <1>6
    <3>2. CASE DataEnd(g) = DataEnd(s)
      BY <3>1, <3>2, <2>1, <1>4
    <3>3. CASE r # << >> /\ DataEnd(g) = r[1].seq /\ EndSeq(g) = DataEnd(g)
      <4>1. n + 1 \in 1 .. Len(q) /\ r[1] = q[n + 1] /\ k < n + 1
        BY <3>3, <1>2, <1>9
      <4>2. DOMAIN q = 1 .. Len(q)
        BY <1>7
      <4>3. EndSeq(q[k]) <= q[n + 1].seq
        BY <4>1, <4>2, <2>1, Zenon DEF StreamQueue, Sorted
      <4> QED
        BY <4>1, <4>3, <3>3
    <3> QED
      BY <3>2, <3>3, <1>1
  <2> QED
    BY <2>2, <2>3
<1> QED
  BY <1>10, <1>11, <1>12 DEF g, r, n

(* So the run that is delivered has exactly the numbers known from x on,   *)
(* up to the first that is not known.                                      *)
LEMMA RunNumbers ==
  ASSUME NEW st, st.base \in Nat, st.top \in Nat,
         NEW q, StreamQueue(st, q), NEW s, OfStream(st, s), Follows(q, s)
  PROVE  LET next == EndSeq(Last(Run(q, s)))
         IN  /\ next \in Nat /\ s.seq <= next /\ next <= st.top + 1
             /\ EndSeq(s) <= next
             /\ \A m \in Nat : s.seq <= m /\ m < next =>
                  m < EndSeq(s) \/ \E k \in 1 .. Len(q) : q[k].seq <= m /\ m < EndSeq(q[k])
             /\ \A k \in 1 .. Len(q) : ~(q[k].seq <= next /\ next < EndSeq(q[k]))
<1> DEFINE g == Merged(q, s)
           r == Left(q, s)
           t == Takes(q, s)
           n == Drains(q, s)
           run == Run(q, s)
           kept == Kept(q, s)
           next == EndSeq(Last(run))
<1>1. /\ IsRun(st, run) /\ run[1] = g /\ run[1].seq = s.seq
      /\ n \in 0 .. Len(r) /\ Len(run) = n + 1
      /\ \A i \in 1 .. n : run[i + 1] = r[i]
      /\ Last(run) = (IF n = 0 THEN g ELSE r[n])
      /\ StreamQueue(st, kept) /\ Beyond(kept, next)
  BY RunIs
<1>2. /\ t \in 0 .. Len(q) /\ q \in Seq(Segment) /\ Len(q) \in Nat
  BY TakesIs DEF StreamQueue
<1>3. /\ StreamQueue(st, r) /\ Len(r) = Len(q) - t
      /\ \A i \in 1 .. Len(r) : t + i \in 1 .. Len(q) /\ r[i] = q[t + i]
  BY <1>2, RestIs DEF Left
<1>4. /\ \A m \in Nat : s.seq <= m /\ m < EndSeq(g) =>
           m < EndSeq(s) \/ \E k \in 1 .. t : q[k].seq <= m /\ m < EndSeq(q[k])
      /\ \/ EndSeq(s) <= EndSeq(g)
         \/ r # << >> /\ r[1].seq = EndSeq(g) /\ EndSeq(s) <= EndSeq(r[1])
      /\ \A k \in 1 .. t : EndSeq(q[k]) <= EndSeq(g)
  BY MergedNumbers
<1>5. /\ Len(kept) = Len(r) - n
      /\ \A i \in 1 .. Len(kept) : n + i \in 1 .. Len(r) /\ kept[i] = r[n + i]
  <2>1. n \in 0 .. Len(r) /\ StreamQueue(st, r) /\ kept = From(r, n)
    BY <1>1, <1>3 DEF Kept
  <2> HIDE DEF n, r, kept
  <2> QED
    BY <2>1, RestIs
<1> HIDE DEF g, r, t, n, kept
<1>6. /\ Len(run) \in Nat /\ 1 \in 1 .. Len(run)
      /\ OfStream(st, run[1]) /\ OfStream(st, Last(run))
      /\ \A j \in 1 .. Len(run) : EndSeq(run[j]) <= next
  BY <1>1, RunGrows
<1>7. /\ next \in Nat /\ next <= st.top + 1
      /\ EndSeq(g) \in Nat /\ EndSeq(g) <= next /\ s.seq \in Nat /\ s.seq <= EndSeq(g)
  <2>1. next \in Nat /\ EndSeq(run[1]) \in Nat /\ run[1].seq \in Nat /\ run[1].seq <= EndSeq(run[1])
    BY <1>6, EndsAreNat DEF OfStream
  <2>2. next <= st.top + 1
    BY <1>6, EndIs
  <2> QED
    BY <2>1, <2>2, <1>1, <1>6
<1>8. \A k \in 1 .. Len(q) : q[k].seq \in Nat /\ EndSeq(q[k]) \in Nat
  <2>1. \A k \in 1 .. Len(q) : q[k] \in Segment
    BY <1>2
  <2> QED
    BY <2>1, EndsAreNat
<1>9. EndSeq(s) \in Nat
  BY EndsAreNat DEF OfStream
<1> HIDE DEF run
<1> HIDE DEF next
<1>10. EndSeq(s) <= next
  <2>1. CASE EndSeq(s) <= EndSeq(g)
    BY <2>1, <1>7, <1>9
  <2>2. CASE r # << >> /\ r[1].seq = EndSeq(g) /\ EndSeq(s) <= EndSeq(r[1])
    <3>1. r \in Seq(Segment)
      BY <1>3 DEF StreamQueue
    <3>2. 1 \in 1 .. Len(r) /\ Len(r) \in Nat /\ n \in Nat
      BY <3>1, <2>2, <1>1
    <3>3. t + 1 \in 1 .. Len(q) /\ r[1] = q[t + 1]
      BY <3>2, <1>3
    <3>4. n # 0
      <4> SUFFICES ASSUME n = 0 PROVE FALSE
        OBVIOUS
      <4>1. 1 \in 1 .. Len(kept) /\ n + 1 = 1
        BY <3>2, <1>5
      <4>2. kept[1] = r[1]
        BY <4>1, <1>5
      <4>3. kept[1].seq > next
        BY <4>1, <1>1 DEF Beyond
      <4>4. r[1].seq \in Nat
        BY <3>3, <1>8
      <4> QED
        BY <4>2, <4>3, <4>4, <2>2, <1>7
    <3>5. 1 \in 1 .. n /\ 1 + 1 \in 1 .. Len(run)
      BY <3>2, <3>4, <1>1
    <3>6. run[1 + 1] = r[1]
      BY <3>5, <1>1
    <3>7. EndSeq(r[1]) <= next
      BY <3>5, <3>6, <1>6
    <3>8. EndSeq(r[1]) \in Nat
      BY <3>3, <1>8
    <3> QED
      BY <3>7, <3>8, <2>2, <1>7, <1>9
  <2> QED
    BY <2>1, <2>2, <1>4
<1>11. ASSUME NEW m \in Nat, s.seq <= m, m < next
       PROVE  m < EndSeq(s) \/ \E k \in 1 .. Len(q) : q[k].seq <= m /\ m < EndSeq(q[k])
  <2>1. PICK j \in 1 .. Len(run) : run[j].seq <= m /\ m < EndSeq(run[j])
    <3>1. run[1].seq <= m /\ m < EndSeq(Last(run))
      BY <1>1, <1>11 DEF next
    <3> QED
      BY <3>1, <1>1, RunIsWhole
  <2>2. CASE j = 1
    <3>1. m < EndSeq(g)
      BY <2>1, <2>2, <1>1
    <3>2. \A k \in 1 .. t : k \in 1 .. Len(q)
      BY <1>2
    <3> QED
      BY <3>1, <3>2, <1>4, <1>11
  <2>3. CASE j # 1
    <3>1. j - 1 \in 1 .. n /\ (j - 1) + 1 = j
      BY <2>3, <1>1
    <3>2. run[j] = r[j - 1]
      BY <3>1, <1>1
    <3>3. j - 1 \in 1 .. Len(r)
      <4>1. Len(r) \in Nat /\ n \in 0 .. Len(r)
        BY <1>1, <1>2, <1>3
      <4> QED
        BY <4>1, <3>1
    <3>4. t + (j - 1) \in 1 .. Len(q) /\ r[j - 1] = q[t + (j - 1)]
      BY <3>3, <1>3
    <3> QED
      BY <2>1, <3>2, <3>4
  <2> QED
    BY <2>2, <2>3
<1>12. ASSUME NEW k \in 1 .. Len(q) PROVE ~(q[k].seq <= next /\ next < EndSeq(q[k]))
  <2>1. t \in Nat /\ n \in Nat /\ Len(r) \in Nat /\ Len(q) = t + Len(r) /\ n <= Len(r)
    BY <1>1, <1>2, <1>3
  <2>2. CASE k <= t
    <3>1. k \in 1 .. t
      BY <2>1, <2>2
    <3>2. EndSeq(q[k]) <= EndSeq(g)
      BY <3>1, <1>4
    <3> QED
      BY <3>2, <1>7, <1>8
  <2>3. CASE k > t /\ k - t <= n
    <3> DEFINE l == k - t
    <3>1. l \in 1 .. n /\ l \in 1 .. Len(r) /\ l + 1 \in 1 .. Len(run) /\ t + l = k
      BY <2>1, <2>3, <1>1
    <3> HIDE DEF l
    <3>2. run[l + 1] = q[k]
      <4>1. run[l + 1] = r[l]
        BY <3>1, <1>1
      <4>2. r[l] = q[t + l]
        BY <3>1, <1>3
      <4> QED
        BY <4>1, <4>2, <3>1
    <3>3. EndSeq(q[k]) <= next
      BY <3>1, <3>2, <1>6
    <3> QED
      BY <3>3, <1>7, <1>8
  <2>4. CASE k > t /\ k - t > n
    <3> DEFINE l == k - t - n
    <3>1. l \in 1 .. Len(kept) /\ n + l \in 1 .. Len(r) /\ t + (n + l) = k
      BY <2>1, <2>4, <1>5
    <3> HIDE DEF l
    <3>2. kept[l] = q[k]
      <4>1. kept[l] = r[n + l]
        BY <3>1, <1>5
      <4>2. r[n + l] = q[t + (n + l)]
        BY <3>1, <1>3
      <4> QED
        BY <4>1, <4>2, <3>1
    <3>3. q[k].seq > next
      BY <3>1, <3>2, <1>1 DEF Beyond
    <3> QED
      BY <3>3, <1>7, <1>8
  <2> QED
    BY <2>1, <2>2, <2>3, <2>4
<1>13. s.seq <= next
  BY <1>7
<1> QED
  BY <1>7, <1>10, <1>11, <1>12, <1>13 DEF next, run

(* The first number that is not in a set.                                  *)
LEMMA FirstMissing ==
  ASSUME NEW K, NEW b \in Nat, NEW x \in 1 .. b, x \notin K,
         \A m \in Nat : 1 <= m /\ m < x => m \in K
  PROVE  x = Min((1 .. b) \ K)
<1> DEFINE S == (1 .. b) \ K
<1>1. x \in S /\ S \subseteq Nat
  OBVIOUS
<1>2. \A y \in S : x <= y
  <2> TAKE y \in S
  <2>1. y \in Nat /\ 1 <= y /\ y \notin K
    OBVIOUS
  <2> QED
    BY <2>1
<1> HIDE DEF S
<1>3. Min(S) \in S /\ \A y \in S : Min(S) <= y
  BY <1>1, MinIsLeast
<1>4. x <= Min(S) /\ Min(S) <= x /\ Min(S) \in Nat
  BY <1>1, <1>2, <1>3
<1>5. x = Min(S)
  BY <1>4
<1> QED
  BY <1>5 DEF S

(* What is known when a packet arrives: delivered, in it, or queued.       *)
LEMMA KnownIs ==
  ASSUME StreamInv, NEW i \in Parts, NEW m \in Nat
  PROVE  m \in Known(i) <=>
           \/ 1 <= m /\ m < rx.rcv_nxt
           \/ i.seq <= m /\ m < EndSeq(i)
           \/ \E k \in 1 .. Len(rx.ooseq) : rx.ooseq[k].seq <= m /\ m < EndSeq(rx.ooseq[k])
<1> DEFINE q == rx.ooseq
           Q == {Numbers(q[j]) : j \in DOMAIN q}
<1>1. q \in Seq(Segment) /\ DOMAIN q = 1 .. Len(q) /\ rx.rcv_nxt \in Nat
  BY DEF StreamInv, StreamQueue, Pcb
<1>2. \A k \in 1 .. Len(q) : q[k].seq \in Nat /\ EndSeq(q[k]) \in Nat
  <2>1. \A k \in 1 .. Len(q) : q[k] \in Segment
    BY <1>1
  <2> QED
    BY <2>1, EndsAreNat
<1>3. i.seq \in Nat /\ EndSeq(i) \in Nat
  <2>1. OfStream(ReassStream, SegOf(i)) /\ SegOf(i).seq = i.seq /\ EndSeq(SegOf(i)) = EndSeq(i)
    BY PartIs
  <2> QED
    BY <2>1, EndsAreNat DEF OfStream
<1>4. m \in Numbers(i) <=> i.seq <= m /\ m < EndSeq(i)
  BY <1>3 DEF Numbers
<1>5. \A k \in 1 .. Len(q) : m \in Numbers(q[k]) <=> q[k].seq <= m /\ m < EndSeq(q[k])
  BY <1>2 DEF Numbers
<1>6. m \in UNION Q <=> \E k \in 1 .. Len(q) : m \in Numbers(q[k])
  BY <1>1
<1>7. m \in 1 .. rx.rcv_nxt - 1 <=> 1 <= m /\ m < rx.rcv_nxt
  BY <1>1
<1>8. m \in Known(i) <=> m \in 1 .. rx.rcv_nxt - 1 \/ m \in Numbers(i) \/ m \in UNION Q
  BY DEF Known
<1> QED
  BY <1>4, <1>5, <1>6, <1>7, <1>8

(* After a packet rcv_nxt is the first number not known.                   *)
LEMMA ArriveIsExact ==
  ASSUME StreamInv, NEW i \in Parts, Arrive(i)
  PROVE  rx'.rcv_nxt = Min((1 .. StreamLen + 2) \ Known(i))
<1> DEFINE r == ReceiveData(rx, i)
           t == tcp_process(rx, i, FALSE)
           s == SegOf(i)
           x == rx.rcv_nxt
           u == TrimFront(s, x)
           q == rx.ooseq
<1>1. /\ rx \in Pcb /\ StreamQueue(ReassStream, q) /\ Beyond(q, x)
      /\ rx.state \in {"ESTABLISHED", "CLOSE_WAIT"} /\ rcvd \in Seq(Nat) /\ eof \in BOOLEAN
      /\ rx.state = (IF eof THEN "CLOSE_WAIT" ELSE "ESTABLISHED")
      /\ x = Len(rcvd) + (IF eof THEN 2 ELSE 1)
      /\ Len(rcvd) <= StreamLen
      /\ eof => Len(rcvd) = StreamLen
  BY DEF StreamInv
<1>2. /\ ReceiveResult(r) /\ r.p.state = rx.state
      /\ \/ rx.state = "ESTABLISHED" /\ Delivers(rx, u, r)
         \/ (rx.state = "CLOSE_WAIT" \/ u.seq # x) /\ Stays(ReassStream, rx, r)
  <2>1. tcplen(i) # 0 /\ OfStream(ReassStream, SegOf(i))
    BY PartIs
  <2>2. ReassStream.base \in Nat /\ ReassStream.top \in Nat
    BY WholeStream
  <2>3. rx.state \in Receiving <=> rx.state = "ESTABLISHED"
    BY <1>1 DEF Receiving
  <2> QED
    BY <1>1, <2>1, <2>2, <2>3, ReceiveIs
<1>3. t.p.rcv_nxt = r.p.rcv_nxt
  BY <1>1, <1>2, ProcessIs
<1>4. rx'.rcv_nxt = r.p.rcv_nxt
  BY <1>3 DEF Arrive
<1> HIDE DEF r, t
<1>5. x \in Nat /\ x >= 1 /\ x <= StreamLen + 2 /\ (rx.state = "CLOSE_WAIT" => x = StreamLen + 2)
  <2>1. Len(rcvd) \in Nat
    BY <1>1
  <2>2. CASE eof
    BY <2>1, <2>2, <1>1, StreamAssumption
  <2>3. CASE ~eof
    BY <2>1, <2>3, <1>1, StreamAssumption
  <2> QED
    BY <2>2, <2>3
<1>6. /\ OfStream(ReassStream, s) /\ s.seq = i.seq /\ EndSeq(s) = EndSeq(i) /\ i.seq >= 1
  BY PartIs
<1>7. /\ OfStream(ReassStream, u) /\ EndSeq(u) = EndSeq(i)
      /\ u.seq = (IF i.seq < x /\ x < EndSeq(i) THEN x ELSE i.seq)
  BY <1>5, <1>6, TrimFrontIs, WholeStream
<1>8. i.seq \in Nat /\ EndSeq(i) \in Nat /\ u.seq \in Nat /\ EndSeq(i) <= StreamLen + 2
  <2>1. s \in Segment /\ u \in Segment
    BY <1>6, <1>7 DEF OfStream
  <2>2. EndSeq(s) <= StreamLen + 2
    BY <1>6, EndIs, WholeStream, StreamAssumption
  <2> QED
    BY <2>1, <2>2, <1>6, EndsAreNat
<1> HIDE DEF u, s
<1>9. CASE (rx.state = "CLOSE_WAIT" \/ u.seq # x) /\ Stays(ReassStream, rx, r)
  <2>1. rx'.rcv_nxt = x
    BY <1>9, <1>4 DEF Stays
  <2>2. x \notin Known(i)
    <3>1. ~(i.seq <= x /\ x < EndSeq(i))
      <4>1. CASE rx.state = "CLOSE_WAIT"
        BY <4>1, <1>5, <1>8, StreamAssumption
      <4>2. CASE u.seq # x
        BY <4>2, <1>5, <1>7, <1>8
      <4> QED
        BY <4>1, <4>2, <1>9
    <3>2. \A k \in 1 .. Len(q) : ~(q[k].seq <= x)
      <4>1. q \in Seq(Segment)
        BY <1>1 DEF StreamQueue
      <4>2. \A k \in 1 .. Len(q) : q[k] \in Segment
        BY <4>1
      <4>3. \A k \in 1 .. Len(q) : q[k].seq \in Nat /\ q[k].seq > x
        BY <4>2, <1>1, EndsAreNat DEF Beyond
      <4> QED
        BY <4>3, <1>5
    <3>3. ~(x < x)
      BY <1>5
    <3> QED
      BY <3>1, <3>2, <3>3, <1>5, KnownIs
  <2>3. \A m \in Nat : 1 <= m /\ m < x => m \in Known(i)
    BY KnownIs
  <2>4. x \in 1 .. StreamLen + 2 /\ StreamLen + 2 \in Nat
    BY <1>5, StreamAssumption
  <2> HIDE DEF x
  <2> QED
    BY <2>1, <2>2, <2>3, <2>4, FirstMissing
<1>10. CASE rx.state = "ESTABLISHED" /\ Delivers(rx, u, r)
  <2> DEFINE next == EndSeq(Last(Run(q, u)))
  <2>1. u.seq = x /\ Follows(q, u) /\ rx'.rcv_nxt = next
    BY <1>10, <1>4, Zenon DEF Delivers
  <2>2. /\ next \in Nat /\ u.seq <= next /\ next <= StreamLen + 2
        /\ EndSeq(u) <= next
        /\ \A m \in Nat : u.seq <= m /\ m < next =>
             m < EndSeq(u) \/ \E k \in 1 .. Len(q) : q[k].seq <= m /\ m < EndSeq(q[k])
        /\ \A k \in 1 .. Len(q) : ~(q[k].seq <= next /\ next < EndSeq(q[k]))
    BY <2>1, <1>1, <1>7, RunNumbers, WholeStream, StreamAssumption
  <2> HIDE DEF next
  <2>3. i.seq <= x
    BY <2>1, <1>5, <1>7, <1>8
  <2>4. next \notin Known(i)
    <3>1. ~(next < x) /\ ~(next < EndSeq(i))
      BY <2>1, <2>2, <1>5, <1>7, <1>8
    <3> QED
      BY <3>1, <2>2, KnownIs
  <2>5. ASSUME NEW m \in Nat, 1 <= m, m < next PROVE m \in Known(i)
    <3>1. CASE m < x
      BY <3>1, <2>5, KnownIs
    <3>2. CASE ~(m < x)
      <4>1. u.seq <= m /\ i.seq <= m
        BY <3>2, <2>1, <2>3, <1>5, <1>8
      <4>2. m < EndSeq(i) \/ \E k \in 1 .. Len(q) : q[k].seq <= m /\ m < EndSeq(q[k])
        BY <4>1, <2>2, <2>5, <1>7
      <4> QED
        BY <4>1, <4>2, KnownIs
    <3> QED
      BY <3>1, <3>2
  <2>6. next \in 1 .. StreamLen + 2 /\ StreamLen + 2 \in Nat
    BY <2>1, <2>2, <1>5, <1>8, StreamAssumption
  <2> QED
    BY <2>1, <2>4, <2>5, <2>6, FirstMissing
<1> QED
  BY <1>2, <1>9, <1>10

(* After every segment rcv_nxt, and with it the ACK, is the first number   *)
(* that neither was delivered nor is in the segment or the ooseq queue it  *)
(* met: reassembly acknowledges all it has, and no more.                   *)
THEOREM AcksAreExact == ReassSpec => ReassemblyIsExact
<1> DEFINE Exact == \A i \in Parts : Arrive(i) =>
                      rx'.rcv_nxt = Min((1 .. StreamLen + 2) \ Known(i))
<1>1. ReassInit => StreamInv
  BY InitInv
<1>2. StreamInv /\ [ReassNext]_rvars => StreamInv'
  BY StepKeeps
<1>3. StreamInv => Exact
  BY ArriveIsExact
<1>4. StreamInv /\ [ReassNext]_rvars => [Exact]_rvars
  BY <1>3
<1> QED
  BY <1>1, <1>2, <1>4, PTL DEF ReassSpec, ReassemblyIsExact
===============================================================================
