--------------------------- MODULE NetconnProofs ---------------------------
(***************************************************************************)
(* Proofs about TCP netconns, for every number of netconns, threads, pcbs, *)
(* mailbox slots and window sizes: the invariants of Netconn hold as long  *)
(* as no application shuts down only the sending half of a connection      *)
(* ("WR"), the case in which NoDanglingPcb is violated.                    *)
(*                                                                         *)
(* NetconnInv, of NetconnInductive, is the inductive invariant.            *)
(*                                                                         *)
(* A function of the model maps a state of the core to a state.  "...Is"   *)
(* lemmas say which, "...Fields" lemmas what became of one netconn or pcb, *)
(* "...Step" lemmas that a change of one netconn and one pcb keeps Base,   *)
(* and "...Keeps" lemmas that an action keeps NetconnInv.                  *)
(***************************************************************************)
EXTENDS NetconnInductive, BasicLemmas, FiniteSetTheorems, TLAPS

-----------------------------------------------------------------------------
(* Backlog is preserved by a change of one pcb that keeps BacklogKept.     *)
LEMMA BacklogStep ==
  ASSUME NEW P \in [Pcbs -> PcbType], \A q \in Pcbs : PcbOK(P[q]), Backlog(P),
         NEW p \in Pcbs, NEW r \in PcbType, PcbOK(r), BacklogKept(P[p], r)
  PROVE  Backlog([P EXCEPT ![p] = r])
<1> DEFINE P2 == [P EXCEPT ![p] = r]
<1>1. \A q \in Pcbs : P2[q] = IF q = p THEN r ELSE P[q]
  OBVIOUS
<1> HIDE DEF P2
<1>n. NULL \notin Pcbs
  BY NetconnAssumption
<1>0. \A q \in Pcbs : P[q].listener \in Pcbs \cup {NULL}
  BY DEF PcbType
<1>00. r.listener \in Pcbs \cup {NULL}
  BY DEF PcbType
<1>2. \A q \in Pcbs : P2[q].listener # NULL => P2[q].listener = P[q].listener
  BY <1>1 DEF BacklogKept
<1>3. \A q \in Pcbs : P[q].st = "LISTEN" => P2[q].st = "LISTEN" /\ P2[q].arg = P[q].arg
  BY <1>1 DEF BacklogKept
<1>4. \A q \in Pcbs : P2[q].st = "SYN_RCVD" => P[q].st = "SYN_RCVD" /\ P2[q].arg = P[q].arg
  BY <1>1 DEF BacklogKept
<1>5. \A q \in Pcbs : Listens(P2, q)
  BY <1>0, <1>00, <1>1, <1>2, <1>3, <1>4 DEF Backlog, Listens
<1>6. ASSUME NEW l \in Pcbs, P2[l].st = "LISTEN"
      PROVE  P2[l].accepts_pending = Cardinality(Pending(P2, l))
  <2>1. CASE P[l].st = "LISTEN"
    <3>1. P2[l].accepts_pending = P[l].accepts_pending
      BY <1>1, <2>1 DEF BacklogKept
    <3>2. \A q \in Pcbs : P2[q].listener = l /\ P2[q].pend <=> P[q].listener = l /\ P[q].pend
      BY <1>1, <1>n DEF BacklogKept
    <3>3. Pending(P2, l) = Pending(P, l)
      BY <3>2 DEF Pending
    <3> QED BY <3>1, <3>3, <2>1 DEF Backlog
  <2>2. CASE P[l].st # "LISTEN"
    <3>1. l = p /\ P2[l].accepts_pending = 0
      BY <1>1, <1>6, <2>2 DEF BacklogKept
    <3>2. \A q \in Pcbs : P2[q].listener # l
      BY <1>2, <1>n, <2>2 DEF Backlog, Listens
    <3>3. Pending(P2, l) = {}
      BY <3>2 DEF Pending
    <3> QED BY <3>1, <3>3, FS_EmptySet
  <2> QED BY <2>1, <2>2
<1>7. Backlog(P2)
  BY <1>5, <1>6 DEF Backlog
<1> QED BY <1>7 DEF P2

(* A netconn and its pcb change together; either may be let go or taken.   *)
LEMMA PairStep ==
  ASSUME NEW C, NEW P, NEW h, Base(C, P, h),
         NEW c \in Conns, NEW p \in Pcbs,
         NEW k \in ConnType, NEW r \in PcbType, NEW x \in ThreadType,
         C[c].pcb = p \/ (C[c].pcb = NULL /\ P[p].st \notin Owned),
         ConnOK(k, x), PcbOK(r),
         k.pcb = NULL => r.st \notin Owned,
         k.pcb # NULL => k.pcb = p /\ Pair(c, k, r, x),
         BacklogKept(P[p], r)
  PROVE  Base([C EXCEPT ![c] = k], [P EXCEPT ![p] = r], [h EXCEPT ![c] = x])
<1> DEFINE C2 == [C EXCEPT ![c] = k]
           P2 == [P EXCEPT ![p] = r]
           h2 == [h EXCEPT ![c] = x]
<1>0. Types(C, P, h) /\ NULL \notin Pcbs
  BY NetconnAssumption DEF Base
<1>1. Types(C2, P2, h2)
  BY <1>0 DEF Types
<1>2. \A d \in Conns : C2[d] = (IF d = c THEN k ELSE C[d]) /\ h2[d] = (IF d = c THEN x ELSE h[d])
  BY <1>0 DEF Types
<1>3. \A q \in Pcbs : P2[q] = IF q = p THEN r ELSE P[q]
  BY <1>0 DEF Types
<1>4. Backlog(P2)
  BY <1>0, BacklogStep DEF Base, Types
<1>5. \A q \in Pcbs : P[q].st \in Owned => P[q].arg \in Conns /\ C[P[q].arg].pcb = q
  BY DEF Base, Links
<1>6. \A d \in Conns : C[d].pcb # NULL =>
        C[d].pcb \in Pcbs /\ Pair(d, C[d], P[C[d].pcb], h[d]) /\ P[C[d].pcb].st \in Owned
          /\ P[C[d].pcb].arg = d
  BY <1>0 DEF Base, Links, Pair, Types, ConnType
<1>7. k.pcb # NULL => r.st \in Owned /\ r.arg = c
  BY DEF Pair
<1> HIDE DEF C2, P2, h2
<1>8. \A d \in Conns : ConnOK(C2[d], h2[d])
  BY <1>2 DEF Base
<1>9. \A q \in Pcbs : PcbOK(P2[q])
  BY <1>3 DEF Base
<1>10. ASSUME NEW d \in Conns, C2[d].pcb # NULL
       PROVE  Pair(d, C2[d], P2[C2[d].pcb], h2[d])
  <2>1. CASE d = c
    BY <1>2, <1>3, <1>10, <2>1
  <2>2. CASE d # c
    <3>1. C2[d] = C[d] /\ h2[d] = h[d] /\ C[d].pcb # p
      BY <1>2, <1>6, <1>10, <2>2
    <3> QED BY <3>1, <1>3, <1>6, <1>10
  <2> QED BY <2>1, <2>2
<1>11. ASSUME NEW q \in Pcbs, P2[q].st \in Owned
       PROVE  P2[q].arg \in Conns /\ C2[P2[q].arg].pcb = q
  <2>1. CASE q = p
    BY <1>2, <1>3, <1>7, <1>11, <2>1
  <2>2. CASE q # p
    <3>1. P2[q] = P[q] /\ P[q].arg \in Conns /\ C[P[q].arg].pcb = q
      BY <1>3, <1>5, <1>11, <2>2
    <3>2. P[q].arg # c
      BY <3>1, <2>2, <1>0
    <3> QED BY <3>1, <3>2, <1>2
  <2> QED BY <2>1, <2>2
<1>12. Links(C2, P2, h2)
  BY <1>10, <1>11 DEF Links
<1>13. Base(C2, P2, h2)
  BY <1>1, <1>4, <1>8, <1>9, <1>12 DEF Base
<1> QED BY <1>13 DEF C2, P2, h2

(* A netconn changes, and its pcb does not.                                *)
LEMMA ConnStep ==
  ASSUME NEW C, NEW P, NEW h, Base(C, P, h), NEW c \in Conns,
         NEW k \in ConnType, NEW x \in ThreadType, ConnOK(k, x),
         k.pcb = C[c].pcb, k.pcb # NULL => Pair(c, k, P[k.pcb], x)
  PROVE  Base([C EXCEPT ![c] = k], P, [h EXCEPT ![c] = x])
<1> DEFINE C2 == [C EXCEPT ![c] = k]
           h2 == [h EXCEPT ![c] = x]
<1>0. Types(C, P, h) /\ Backlog(P) /\ \A p \in Pcbs : PcbOK(P[p])
  BY DEF Base
<1>1. Types(C2, P, h2)
  BY <1>0 DEF Types
<1>2. \A d \in Conns : C2[d] = (IF d = c THEN k ELSE C[d]) /\ h2[d] = (IF d = c THEN x ELSE h[d])
  BY <1>0 DEF Types
<1> HIDE DEF C2, h2
<1>3. \A d \in Conns : ConnOK(C2[d], h2[d])
  BY <1>2 DEF Base
<1>4. \A d \in Conns : C2[d].pcb # NULL => Pair(d, C2[d], P[C2[d].pcb], h2[d])
  BY <1>2 DEF Base, Links
<1>5. \A p \in Pcbs : P[p].st \in Owned => P[p].arg \in Conns /\ C2[P[p].arg].pcb = p
  BY <1>2 DEF Base, Links
<1>6. Base(C2, P, h2)
  BY <1>0, <1>1, <1>3, <1>4, <1>5 DEF Base, Links
<1> QED BY <1>6 DEF C2, h2

(* A pcb that belongs to nobody changes.                                   *)
LEMMA PcbStep ==
  ASSUME NEW C, NEW P, NEW h, Base(C, P, h), NEW p \in Pcbs, NEW r \in PcbType,
         P[p].st \notin Owned, r.st \notin Owned, PcbOK(r), BacklogKept(P[p], r)
  PROVE  Base(C, [P EXCEPT ![p] = r], h)
<1> DEFINE P2 == [P EXCEPT ![p] = r]
<1>0. Types(C, P, h)
  BY DEF Base
<1>1. Types(C, P2, h)
  BY <1>0 DEF Types
<1>3. \A q \in Pcbs : P2[q] = IF q = p THEN r ELSE P[q]
  BY <1>0 DEF Types
<1>4. Backlog(P2)
  BY <1>0, BacklogStep DEF Base, Types
<1> HIDE DEF P2
<1>6. \A d \in Conns : C[d].pcb # NULL =>
        C[d].pcb \in Pcbs /\ Pair(d, C[d], P[C[d].pcb], h[d]) /\ P[C[d].pcb].st \in Owned
  BY <1>0 DEF Base, Links, Pair, Types, ConnType
<1>7. \A d \in Conns : C[d].pcb # NULL => P2[C[d].pcb] = P[C[d].pcb]
  BY <1>3, <1>6
<1>8. Links(C, P2, h)
  BY <1>3, <1>6, <1>7 DEF Base, Links
<1>9. \A q \in Pcbs : PcbOK(P2[q])
  BY <1>3 DEF Base
<1>10. Base(C, P2, h)
  BY <1>1, <1>4, <1>8, <1>9 DEF Base
<1> QED BY <1>10 DEF P2

(* Fields of a pcb after it gave back its slot.                            *)
LEMMA UnpendedSelf ==
  ASSUME NEW P \in [Pcbs -> PcbType], NEW p \in Pcbs
  PROVE  LET r == Unpended(P, p)[p]
         IN  /\ r \in PcbType /\ r.st = P[p].st /\ r.arg = P[p].arg /\ r.listener = P[p].listener
             /\ r.recv = P[p].recv /\ r.sent = P[p].sent /\ r.poll = P[p].poll /\ r.err = P[p].err
             /\ r.accepts_pending = P[p].accepts_pending /\ r.rxclosed = P[p].rxclosed
             /\ r.refused = P[p].refused /\ r.unread = P[p].unread /\ r.out = P[p].out
             /\ ~(r.listener # NULL /\ r.pend) /\ (r.pend => P[p].pend)
  BY DEF Unpended, PcbType

(* A listening pcb for which another one counts.                           *)
LEMMA PendingPositive ==
  ASSUME NEW P \in [Pcbs -> PcbType], \A q \in Pcbs : PcbOK(P[q]), Backlog(P),
         NEW p \in Pcbs, P[p].listener # NULL, P[p].pend
  PROVE  /\ P[p].listener \in Pcbs /\ P[p].listener # p /\ P[P[p].listener].st = "LISTEN"
         /\ P[P[p].listener].accepts_pending \in Nat \ {0}
         /\ IsFiniteSet(Pending(P, P[p].listener)) /\ p \in Pending(P, P[p].listener)
         /\ P[P[p].listener].accepts_pending = Cardinality(Pending(P, P[p].listener))
<1> DEFINE l == P[p].listener
<1>1. l \in Pcbs
  BY DEF PcbType
<1>2. P[l].st = "LISTEN"
  BY DEF Backlog, Listens
<1>3. l # p
  BY <1>2 DEF PcbOK
<1>4. p \in Pending(P, l)
  BY DEF Pending
<1>5. IsFiniteSet(Pending(P, l))
  BY NetconnAssumption, FS_Subset DEF Pending
<1>6. Cardinality(Pending(P, l)) \in Nat
  BY <1>5, FS_CardinalityType
<1>7. Cardinality(Pending(P, l)) # 0
  BY <1>5, <1>4, FS_EmptySet
<1>8. P[l].accepts_pending = Cardinality(Pending(P, l))
  BY <1>1, <1>2 DEF Backlog
<1> QED BY <1>1, <1>2, <1>3, <1>4, <1>5, <1>6, <1>7, <1>8

(* tcp_backlog_accepted keeps the invariant.                               *)
LEMMA UnpendStep ==
  ASSUME NEW C, NEW P, NEW h, Base(C, P, h), NEW p \in Pcbs, P[p].st # "SYN_RCVD"
  PROVE  Base(C, Unpended(P, p), h)
<1> DEFINE P2 == Unpended(P, p)
           l == P[p].listener
<1>0. Types(C, P, h) /\ P \in [Pcbs -> PcbType] /\ Backlog(P) /\ \A q \in Pcbs : PcbOK(P[q])
  BY DEF Base, Types
<1>1. CASE ~(l # NULL /\ P[p].pend)
  <2>1. \A q \in Pcbs : P2[q] = P[q]
    BY <1>0, <1>1, NetconnAssumption DEF Unpended, PcbType
  <2>2. P2 = P
    BY <2>1, <1>0 DEF Unpended
  <2> QED BY <2>2
<1>2. CASE l # NULL /\ P[p].pend
  <2>0. /\ l \in Pcbs /\ l # p /\ P[l].st = "LISTEN" /\ P[l].accepts_pending \in Nat \ {0}
        /\ IsFiniteSet(Pending(P, l)) /\ p \in Pending(P, l)
        /\ P[l].accepts_pending = Cardinality(Pending(P, l))
    BY <1>0, <1>2, PendingPositive
  <2>1. \A q \in Pcbs : P2[q] = IF q = p THEN [P[q] EXCEPT !.pend = FALSE]
                                ELSE IF q = l THEN [P[q] EXCEPT !.accepts_pending = P[q].accepts_pending - 1]
                                ELSE P[q]
    BY <1>2 DEF Unpended
  <2>2. \A q \in Pcbs :
          /\ P2[q] \in PcbType /\ P2[q].st = P[q].st /\ P2[q].arg = P[q].arg
          /\ P2[q].listener = P[q].listener
          /\ P2[q].recv = P[q].recv /\ P2[q].sent = P[q].sent /\ P2[q].poll = P[q].poll
          /\ P2[q].err = P[q].err /\ P2[q].rxclosed = P[q].rxclosed
          /\ P2[q].refused = P[q].refused /\ P2[q].unread = P[q].unread /\ P2[q].out = P[q].out
          /\ (P2[q].pend <=> (P[q].pend /\ q # p))
          /\ P2[q].accepts_pending = IF q = l THEN P[q].accepts_pending - 1 ELSE P[q].accepts_pending
          /\ (P[q].st = "free" => P2[q] = P[q])
    <3>1. SUFFICES ASSUME NEW q \in Pcbs
                   PROVE  /\ P2[q] \in PcbType /\ P2[q].st = P[q].st /\ P2[q].arg = P[q].arg
                          /\ P2[q].listener = P[q].listener
                          /\ P2[q].recv = P[q].recv /\ P2[q].sent = P[q].sent /\ P2[q].poll = P[q].poll
                          /\ P2[q].err = P[q].err /\ P2[q].rxclosed = P[q].rxclosed
                          /\ P2[q].refused = P[q].refused /\ P2[q].unread = P[q].unread /\ P2[q].out = P[q].out
                          /\ (P2[q].pend <=> (P[q].pend /\ q # p))
                          /\ P2[q].accepts_pending = IF q = l THEN P[q].accepts_pending - 1 ELSE P[q].accepts_pending
                          /\ (P[q].st = "free" => P2[q] = P[q])
      OBVIOUS
    <3>2. P[q] \in PcbType
      BY <1>0
    <3>3. P[q].st = "free" => q # p /\ q # l
      BY <1>0, <1>2, <2>0 DEF PcbOK, NoPcb
    <3> HIDE DEF P2, l
    <3>4. CASE q = p
      <4>1. P2[q] = [P[q] EXCEPT !.pend = FALSE] /\ q # l
        BY <3>4, <2>0, <2>1
      <4> QED BY <4>1, <3>2, <3>3, <3>4 DEF PcbType
    <3>5. CASE q = l /\ q # p
      <4>1. P2[q] = [P[q] EXCEPT !.accepts_pending = P[q].accepts_pending - 1]
        BY <3>5, <2>1
      <4>2. P[q].accepts_pending - 1 \in Nat
        BY <2>0, <3>5
      <4> QED BY <4>1, <4>2, <3>2, <3>3, <3>5 DEF PcbType
    <3>6. CASE q # l /\ q # p
      BY <3>2, <3>3, <3>6, <2>0, <2>1, <1>2 DEF PcbType
    <3> QED BY <3>4, <3>5, <3>6
  <2>3. P2 \in [Pcbs -> PcbType]
    BY <2>2 DEF Unpended
  <2> HIDE DEF P2
  <2>4. Types(C, P2, h)
    BY <1>0, <2>3 DEF Types
  <2>5. \A q \in Pcbs : PcbOK(P2[q])
    <3>1. SUFFICES ASSUME NEW q \in Pcbs
                   PROVE  PcbOK(P2[q])
      OBVIOUS
    <3>2. PcbOK(P[q])
      BY <1>0
    <3>3. P[q].st = "SYN_RCVD" => q # p
      OBVIOUS
    <3> QED BY <2>2, <3>2, <3>3 DEF PcbOK
  <2>6. ASSUME NEW d \in Conns, C[d].pcb # NULL
        PROVE  Pair(d, C[d], P2[C[d].pcb], h[d])
    <3>1. C[d].pcb \in Pcbs /\ Pair(d, C[d], P[C[d].pcb], h[d])
      BY <1>0, <2>6 DEF Base, Links, Types, ConnType
    <3> QED BY <3>1, <2>2 DEF Pair, Window
  <2>7. Links(C, P2, h)
    BY <2>2, <2>6 DEF Base, Links
  <2>8. \A q \in Pcbs : Listens(P2, q)
    BY <2>2, <1>0 DEF Backlog, Listens, PcbType
  <2>9. ASSUME NEW m \in Pcbs, P2[m].st = "LISTEN"
        PROVE  P2[m].accepts_pending = Cardinality(Pending(P2, m))
    <3>1. CASE m = l
      <4>1. Pending(P2, l) = Pending(P, l) \ {p}
        BY <2>2 DEF Pending
      <4>2. Cardinality(Pending(P, l) \ {p}) = Cardinality(Pending(P, l)) - 1
        BY <2>0, FS_RemoveElement
      <4>3. P2[l].accepts_pending = P[l].accepts_pending - 1
        BY <2>0, <2>2
      <4> QED BY <4>1, <4>2, <4>3, <3>1, <2>0
    <3>2. CASE m # l
      <4>1. Pending(P2, m) = Pending(P, m)
        BY <2>2, <3>2 DEF Pending
      <4> QED BY <4>1, <3>2, <2>2, <2>9, <1>0 DEF Backlog
    <3> QED BY <3>1, <3>2
  <2>10. Base(C, P2, h)
    BY <2>4, <2>5, <2>7, <2>8, <2>9 DEF Base, Backlog
  <2> QED BY <2>10 DEF P2
<1> QED BY <1>1, <1>2

(* A netconn lets its pcb go, which gives back its slot in the backlog.    *)
LEMMA ReleaseStep ==
  ASSUME NEW C, NEW P, NEW h, Base(C, P, h), NEW c \in Conns, NEW p \in Pcbs,
         NEW k \in ConnType, NEW r \in PcbType, NEW x \in ThreadType,
         C[c].pcb = p, P[p].st # "LISTEN", k.pcb = NULL, ConnOK(k, x), PcbOK(r), LetGo(P[p], r)
  PROVE  Base([C EXCEPT ![c] = k], [Unpended(P, p) EXCEPT ![p] = r], [h EXCEPT ![c] = x])
<1> DEFINE P1 == Unpended(P, p)
<1>0. P \in [Pcbs -> PcbType] /\ NULL \notin Pcbs
  BY NetconnAssumption DEF Base, Types
<1>1. P[p].st \in Owned
  BY <1>0 DEF Base, Links, Pair
<1>2. Base(C, P1, h)
  BY <1>1, UnpendStep DEF Owned
<1>3. P1[p].st = P[p].st /\ P1[p].listener = P[p].listener /\ ~(P1[p].listener # NULL /\ P1[p].pend)
  BY <1>0, UnpendedSelf
<1>4. BacklogKept(P1[p], r)
  BY <1>1, <1>3 DEF BacklogKept, LetGo, Owned
<1> HIDE DEF P1
<1>5. Base([C EXCEPT ![c] = k], [P1 EXCEPT ![p] = r], [h EXCEPT ![c] = x])
  BY <1>2, <1>4, PairStep DEF LetGo
<1> QED BY <1>5 DEF P1

(* A pcb that belongs to nobody is freed or enters TIME_WAIT, and gives    *)
(* back its slot.                                                          *)
LEMMA FreedStep ==
  ASSUME NEW C, NEW P, NEW h, Base(C, P, h), NEW p \in Pcbs, NEW r \in PcbType,
         P[p].st \notin Owned, PcbOK(r), LetGo(P[p], r)
  PROVE  Base(C, [Unpended(P, p) EXCEPT ![p] = r], h)
<1> DEFINE o == [P[p] EXCEPT !.st = "FIN_WAIT", !.arg = NULL]
           Q == [P EXCEPT ![p] = IF P[p].st = "SYN_RCVD" THEN o ELSE P[p]]
           P1 == Unpended(Q, p)
<1>0. P \in [Pcbs -> PcbType] /\ NULL \notin Pcbs /\ PcbOK(P[p])
  BY NetconnAssumption DEF Base, Types
<1>1. /\ Base(C, Q, h) /\ Q \in [Pcbs -> PcbType] /\ Q[p].st \notin Owned \cup {"SYN_RCVD"}
      /\ Q[p].listener = P[p].listener /\ Q[p].pend = P[p].pend
      /\ \A q \in Pcbs : q # p => Q[q] = P[q]
  <2>1. CASE P[p].st = "SYN_RCVD"
    <3>1. /\ o \in PcbType /\ o.st = "FIN_WAIT" /\ o.arg = NULL /\ o.listener = P[p].listener
          /\ o.pend = P[p].pend /\ o.recv = P[p].recv /\ o.sent = P[p].sent /\ o.poll = P[p].poll
          /\ o.err = P[p].err
      BY <1>0 DEF PcbType, TcpStates
    <3> HIDE DEF o
    <3>2. PcbOK(o)
      BY <1>0, <2>1, <3>1 DEF PcbOK, Orphan
    <3>3. BacklogKept(P[p], o)
      BY <3>1, <2>1 DEF BacklogKept
    <3>4. o.st \notin Owned
      BY <3>1 DEF Owned
    <3>5. Q = [P EXCEPT ![p] = o]
      BY <2>1
    <3>6. Base(C, [P EXCEPT ![p] = o], h)
      BY <3>1, <3>2, <3>3, <3>4, PcbStep
    <3> QED BY <3>1, <3>4, <3>5, <3>6, <1>0
  <2>2. CASE P[p].st # "SYN_RCVD"
    <3>1. Q = P
      BY <1>0, <2>2
    <3> QED BY <3>1, <2>2, <1>0
  <2> QED BY <2>1, <2>2
<1> HIDE DEF Q
<1>2. Base(C, P1, h)
  BY <1>1, UnpendStep
<1>3. P1[p].st = Q[p].st /\ P1[p].listener = P[p].listener /\ ~(P1[p].listener # NULL /\ P1[p].pend)
  BY <1>1, UnpendedSelf
<1>4. BacklogKept(P1[p], r)
  BY <1>1, <1>3 DEF BacklogKept, LetGo, Owned
<1>5. [P1 EXCEPT ![p] = r] = [Unpended(P, p) EXCEPT ![p] = r]
  BY <1>0, <1>1 DEF Unpended
<1> HIDE DEF P1
<1>6. Base(C, [P1 EXCEPT ![p] = r], h)
  BY <1>1, <1>2, <1>3, <1>4, PcbStep DEF LetGo
<1> QED BY <1>5, <1>6

(* NoPcb, and a pcb in TIME_WAIT, are such pcbs.                           *)
LEMMA NoPcbIsOK == NoPcb \in PcbType /\ PcbOK(NoPcb) /\ \A o : LetGo(o, NoPcb)
<1>1. NoPcb \in PcbType
  BY NetconnAssumption DEF NoPcb, PcbType, TcpStates
<1>2. PcbOK(NoPcb)
  BY DEF NoPcb, PcbOK, Orphan
<1>3. \A o : LetGo(o, NoPcb)
  BY DEF NoPcb, LetGo, Owned
<1> QED BY <1>1, <1>2, <1>3

(* A netconn lets its listening pcb go: those that counted for it go on    *)
(* without a listener.                                                     *)
LEMMA UnlistenStep ==
  ASSUME NEW C, NEW P, NEW h, Base(C, P, h), NEW c \in Conns, NEW l \in Pcbs,
         NEW k \in ConnType, NEW x \in ThreadType,
         C[c].pcb = l, P[l].st = "LISTEN", k.pcb = NULL, ConnOK(k, x)
  PROVE  Base([C EXCEPT ![c] = k], Unlistened(P, l), [h EXCEPT ![c] = x])
<1> DEFINE C2 == [C EXCEPT ![c] = k]
           P2 == Unlistened(P, l)
           h2 == [h EXCEPT ![c] = x]
<1>0. Types(C, P, h) /\ Backlog(P) /\ NULL \notin Pcbs /\ \A q \in Pcbs : PcbOK(P[q])
  BY NetconnAssumption DEF Base
<1>1. \A d \in Conns : C2[d] = (IF d = c THEN k ELSE C[d]) /\ h2[d] = (IF d = c THEN x ELSE h[d])
  BY <1>0 DEF Types
<1>2. \A q \in Pcbs : q # l =>
        /\ P2[q] \in PcbType /\ P2[q].st = P[q].st /\ P2[q].arg = P[q].arg
        /\ P2[q].listener = (IF P[q].listener = l THEN NULL ELSE P[q].listener)
        /\ P2[q].recv = P[q].recv /\ P2[q].sent = P[q].sent /\ P2[q].poll = P[q].poll
        /\ P2[q].err = P[q].err /\ P2[q].rxclosed = P[q].rxclosed
        /\ P2[q].refused = P[q].refused /\ P2[q].unread = P[q].unread /\ P2[q].out = P[q].out
        /\ P2[q].pend = P[q].pend /\ P2[q].accepts_pending = P[q].accepts_pending
        /\ (P[q].st = "free" => P2[q] = P[q])
  <2>1. SUFFICES ASSUME NEW q \in Pcbs, q # l
                 PROVE
        /\ P2[q] \in PcbType /\ P2[q].st = P[q].st /\ P2[q].arg = P[q].arg
        /\ P2[q].listener = (IF P[q].listener = l THEN NULL ELSE P[q].listener)
        /\ P2[q].recv = P[q].recv /\ P2[q].sent = P[q].sent /\ P2[q].poll = P[q].poll
        /\ P2[q].err = P[q].err /\ P2[q].rxclosed = P[q].rxclosed
        /\ P2[q].refused = P[q].refused /\ P2[q].unread = P[q].unread /\ P2[q].out = P[q].out
        /\ P2[q].pend = P[q].pend /\ P2[q].accepts_pending = P[q].accepts_pending
        /\ (P[q].st = "free" => P2[q] = P[q])
    OBVIOUS
  <2>2. P[q] \in PcbType
    BY <1>0 DEF Types
  <2>3. P[q].st = "free" => P[q].listener # l
    BY <1>0 DEF PcbOK, NoPcb
  <2>4. CASE P[q].listener = l
    <3>1. P2[q] = [P[q] EXCEPT !.listener = NULL]
      BY <2>1, <2>4 DEF Unlistened
    <3> HIDE DEF P2
    <3> QED BY <2>2, <2>3, <2>4, <3>1 DEF PcbType
  <2>5. CASE P[q].listener # l
    <3>1. P2[q] = P[q]
      BY <2>1, <2>5 DEF Unlistened
    <3> HIDE DEF P2
    <3> QED BY <2>2, <2>5, <3>1
  <2> QED BY <2>4, <2>5
<1>3. P2[l] = NoPcb /\ NoPcb \in PcbType /\ PcbOK(NoPcb)
  BY NoPcbIsOK DEF Unlistened
<1>4. P2 \in [Pcbs -> PcbType]
  BY <1>2, <1>3 DEF Unlistened
<1>5. Types(C2, P2, h2)
  BY <1>0, <1>4 DEF Types
<1> HIDE DEF C2, P2, h2
<1>6. \A d \in Conns : ConnOK(C2[d], h2[d])
  BY <1>1 DEF Base
<1>7. ASSUME NEW q \in Pcbs
      PROVE  PcbOK(P2[q])
  <2>1. CASE q = l
    BY <2>1, <1>3
  <2>2. CASE q # l
    <3>1. PcbOK(P[q])
      BY <1>0
    <3> QED BY <3>1, <2>2, <1>2 DEF PcbOK
  <2> QED BY <2>1, <2>2
<1>8. \A d \in Conns : C[d].pcb # NULL =>
        C[d].pcb \in Pcbs /\ Pair(d, C[d], P[C[d].pcb], h[d]) /\ P[C[d].pcb].arg = d
  BY <1>0 DEF Base, Links, Pair, Types, ConnType
<1>9. ASSUME NEW d \in Conns, C2[d].pcb # NULL
      PROVE  Pair(d, C2[d], P2[C2[d].pcb], h2[d])
  <2>1. d # c /\ C2[d] = C[d] /\ h2[d] = h[d]
    BY <1>1, <1>9
  <2>2. C[d].pcb \in Pcbs /\ C[d].pcb # l /\ Pair(d, C[d], P[C[d].pcb], h[d])
    BY <1>8, <1>9, <2>1, <1>0
  <2>3. Pair(d, C[d], P2[C[d].pcb], h[d])
    BY <1>2, <2>2 DEF Pair, Window
  <2> QED BY <2>1, <2>3
<1>10. ASSUME NEW q \in Pcbs, P2[q].st \in Owned
       PROVE  P2[q].arg \in Conns /\ C2[P2[q].arg].pcb = q
  <2>1. q # l
    BY <1>3, <1>10 DEF NoPcb, Owned
  <2>2. P[q].arg \in Conns /\ C[P[q].arg].pcb = q
    BY <1>2, <1>10, <2>1 DEF Base, Links
  <2> QED BY <1>1, <1>2, <2>1, <2>2
<1>11. ASSUME NEW q \in Pcbs
       PROVE  Listens(P2, q)
  <2>1. SUFFICES ASSUME P2[q].listener # NULL
                 PROVE  /\ P2[P2[q].listener].st = "LISTEN"
                        /\ P2[q].st = "SYN_RCVD" => P2[q].arg = P2[P2[q].listener].arg
    BY DEF Listens
  <2>2. q # l /\ P2[q].listener = P[q].listener /\ P[q].listener # l /\ P[q].listener # NULL
    BY <1>2, <1>3, <2>1 DEF NoPcb
  <2>3. P[q].listener \in Pcbs
    BY <1>0, <2>2 DEF Types, PcbType
  <2> QED BY <1>2, <2>2, <2>3, <1>0 DEF Backlog, Listens
<1>12. ASSUME NEW m \in Pcbs, P2[m].st = "LISTEN"
       PROVE  P2[m].accepts_pending = Cardinality(Pending(P2, m))
  <2>1. m # l
    BY <1>3, <1>12 DEF NoPcb
  <2>2. P[l].listener = NULL
    BY <1>0 DEF PcbOK
  <2>3. Pending(P2, m) = Pending(P, m)
    BY <1>0, <1>2, <1>3, <2>1, <2>2 DEF Pending, NoPcb
  <2> QED BY <1>0, <1>2, <1>12, <2>1, <2>3 DEF Backlog
<1>13. Base(C2, P2, h2)
  BY <1>5, <1>6, <1>7, <1>9, <1>10, <1>11, <1>12 DEF Base, Links, Backlog
<1> QED BY <1>13 DEF C2, P2, h2

(* A SYN arrives: a free pcb starts its handshake.                         *)
LEMMA SynStep ==
  ASSUME NEW C, NEW P, NEW h, Base(C, P, h), NEW l \in Pcbs, NEW p \in Pcbs,
         P[l].st = "LISTEN", P[p].st = "free",
         NEW r \in PcbType, r.st = "SYN_RCVD", r.arg = P[l].arg, r.listener = l, r.pend, PcbOK(r),
         NEW o \in PcbType, o = [P[l] EXCEPT !.accepts_pending = P[l].accepts_pending + 1]
  PROVE  Base(C, [P EXCEPT ![l] = o, ![p] = r], h)
<1> DEFINE P2 == [P EXCEPT ![l] = o, ![p] = r]
<1>0. Types(C, P, h) /\ Backlog(P) /\ NULL \notin Pcbs /\ \A q \in Pcbs : PcbOK(P[q])
  BY NetconnAssumption DEF Base
<1>1. l # p /\ \A q \in Pcbs : P2[q] = IF q = p THEN r ELSE IF q = l THEN o ELSE P[q]
  BY <1>0 DEF Types
<1>2. Types(C, P2, h)
  BY <1>0 DEF Types
<1>3. \A q \in Pcbs : q # p =>
        /\ P2[q] \in PcbType /\ P2[q].st = P[q].st /\ P2[q].arg = P[q].arg
        /\ P2[q].listener = P[q].listener
        /\ P2[q].recv = P[q].recv /\ P2[q].sent = P[q].sent /\ P2[q].poll = P[q].poll
        /\ P2[q].err = P[q].err /\ P2[q].rxclosed = P[q].rxclosed
        /\ P2[q].refused = P[q].refused /\ P2[q].unread = P[q].unread /\ P2[q].out = P[q].out
        /\ P2[q].pend = P[q].pend
        /\ P2[q].accepts_pending = (IF q = l THEN P[q].accepts_pending + 1 ELSE P[q].accepts_pending)
        /\ (q # l => P2[q] = P[q])
  <2>1. P[l] \in PcbType
    BY <1>0 DEF Types
  <2>2. /\ o.st = P[l].st /\ o.arg = P[l].arg
        /\ o.listener = P[l].listener
        /\ o.recv = P[l].recv /\ o.sent = P[l].sent /\ o.poll = P[l].poll
        /\ o.err = P[l].err /\ o.rxclosed = P[l].rxclosed
        /\ o.refused = P[l].refused /\ o.unread = P[l].unread /\ o.out = P[l].out
        /\ o.pend = P[l].pend /\ o.accepts_pending = P[l].accepts_pending + 1
    BY <2>1 DEF PcbType
  <2>3. \A q \in Pcbs : P[q] \in PcbType
    BY <1>0 DEF Types
  <2> HIDE DEF P2
  <2> QED BY <1>1, <2>2, <2>3, ZenonT(40)
<1> HIDE DEF P2
<1>4. ASSUME NEW q \in Pcbs
      PROVE  PcbOK(P2[q])
  <2>1. CASE q = p
    BY <2>1, <1>1
  <2>2. CASE q # p /\ q # l
    BY <2>2, <1>0, <1>1
  <2>3. CASE q = l
    <3>1. PcbOK(P[l])
      BY <1>0
    <3> QED BY <2>3, <3>1, <1>1, <1>3 DEF PcbOK
  <2> QED BY <2>1, <2>2, <2>3
<1>5. \A d \in Conns : C[d].pcb # NULL =>
        C[d].pcb \in Pcbs /\ Pair(d, C[d], P[C[d].pcb], h[d]) /\ P[C[d].pcb].st \in Owned
  BY <1>0 DEF Base, Links, Pair, Types, ConnType
<1>6. ASSUME NEW d \in Conns, C[d].pcb # NULL
      PROVE  Pair(d, C[d], P2[C[d].pcb], h[d])
  <2>1. C[d].pcb # p
    BY <1>5, <1>6 DEF Owned
  <2> QED BY <1>3, <1>5, <1>6, <2>1 DEF Pair, Window
<1>7. Links(C, P2, h)
  BY <1>1, <1>3, <1>6 DEF Base, Links, Owned
<1>8. \A q \in Pcbs : P[q].listener # p
  BY <1>0 DEF Backlog, Listens
<1>9. ASSUME NEW q \in Pcbs
      PROVE  Listens(P2, q)
  <2>1. CASE q = p
    BY <2>1, <1>1, <1>3 DEF Listens
  <2>2. CASE q # p
    <3>1. P2[q].listener = P[q].listener /\ P2[q].st = P[q].st /\ P2[q].arg = P[q].arg /\ Listens(P, q)
      BY <1>0, <1>3, <2>2 DEF Backlog
    <3>2. P[q].listener \in Pcbs \cup {NULL}
      BY <1>0 DEF Types, PcbType
    <3>3. P[q].listener \in Pcbs => P2[P[q].listener].st = P[P[q].listener].st
             /\ P2[P[q].listener].arg = P[P[q].listener].arg
      BY <1>3, <1>8
    <3> QED BY <3>1, <3>2, <3>3 DEF Listens
  <2> QED BY <2>1, <2>2
<1>10. ASSUME NEW m \in Pcbs, P2[m].st = "LISTEN"
       PROVE  P2[m].accepts_pending = Cardinality(Pending(P2, m))
  <2>1. m # p /\ P[m].st = "LISTEN"
    BY <1>1, <1>3, <1>10
  <2>2. P[p].listener = NULL
    BY <1>0 DEF PcbOK, NoPcb
  <2>3. IsFiniteSet(Pending(P, m)) /\ p \notin Pending(P, m)
    BY NetconnAssumption, FS_Subset, <2>2 DEF Pending
  <2>4. P[m].accepts_pending = Cardinality(Pending(P, m)) /\ P[m].accepts_pending \in Nat
    BY <1>0, <2>1 DEF Backlog, Types, PcbType
  <2>5. CASE m = l
    <3>1. Pending(P2, m) = Pending(P, m) \cup {p}
      BY <1>1, <1>3, <2>5 DEF Pending
    <3>2. Cardinality(Pending(P, m) \cup {p}) = Cardinality(Pending(P, m)) + 1
      BY <2>3, FS_AddElement
    <3>3. P2[m].accepts_pending = P[m].accepts_pending + 1
      BY <1>3, <2>1, <2>5
    <3> QED BY <3>1, <3>2, <3>3, <2>4
  <2>6. CASE m # l
    <3>1. Pending(P2, m) = Pending(P, m)
      BY <1>1, <1>3, <2>2, <2>6, <1>0 DEF Pending
    <3>2. P2[m].accepts_pending = P[m].accepts_pending
      BY <1>3, <2>1, <2>6
    <3> QED BY <3>1, <3>2, <2>4
  <2> QED BY <2>5, <2>6
<1>11. Base(C, P2, h)
  BY <1>2, <1>4, <1>7, <1>9, <1>10 DEF Base, Backlog
<1> QED BY <1>11 DEF P2

-----------------------------------------------------------------------------
(* Reach depends on no more than the places, used and the threads.         *)
LEMMA ReachSame ==
  ASSUME NEW C, NEW h, NEW C2, NEW h2, Reach(C, h),
         \A c, n \in Conns : \A i \in Nat : InQueue(C2, c, i, n) <=> InQueue(C, c, i, n),
         \A c, n \in Conns : h2[c].item = n <=> h[c].item = n,
         \A c \in Conns : C2[c].used <=> C[c].used,
         \A c \in Conns : h2[c].pc = "none" <=> h[c].pc = "none"
  PROVE  Reach(C2, h2)
<1>1. \A c, n \in Conns : h2[c].item = n \/ (\E i \in Nat : InQueue(C2, c, i, n)) =>
       C2[n].used /\ h2[n].pc = "none"
  BY DEF Reach
<1>2. \A c, d, n \in Conns : h2[c].item = n /\ h2[d].item = n => c = d
  BY DEF Reach
<1>3. \A c, d, n \in Conns : \A i \in Nat : ~(InQueue(C2, c, i, n) /\ h2[d].item = n)
  BY DEF Reach
<1>4. \A c, d, n \in Conns : \A i, j \in Nat :
       InQueue(C2, c, i, n) /\ InQueue(C2, d, j, n) => c = d /\ i = j
  BY DEF Reach
<1>5. \A n \in Conns : C2[n].used /\ h2[n].pc = "none" =>
       \E c \in Conns : h2[c].item = n \/ \E i \in Nat : InQueue(C2, c, i, n)
  BY DEF Reach
<1> QED BY <1>1, <1>2, <1>3, <1>4, <1>5 DEF Reach

(* A step of one netconn that moves nothing.                               *)
LEMMA ReachKept ==
  ASSUME NEW C \in [Conns -> ConnType], NEW h \in [Conns -> ThreadType], Reach(C, h),
         NEW c \in Conns, NEW k, NEW x, k.used = C[c].used, k.acceptmbox.q = C[c].acceptmbox.q,
         x.item = h[c].item \/ (x.item \notin Conns /\ h[c].item \notin Conns),
         x.pc = "none" <=> h[c].pc = "none"
  PROVE  Reach([C EXCEPT ![c] = k], [h EXCEPT ![c] = x])
<1> DEFINE C2 == [C EXCEPT ![c] = k]
           h2 == [h EXCEPT ![c] = x]
<1>1. \A d \in Conns : C2[d] = (IF d = c THEN k ELSE C[d]) /\ h2[d] = (IF d = c THEN x ELSE h[d])
  OBVIOUS
<1> HIDE DEF C2, h2
<1>2. \A d, n \in Conns : \A i \in Nat : InQueue(C2, d, i, n) <=> InQueue(C, d, i, n)
  BY <1>1 DEF InQueue
<1>3. \A d, n \in Conns : h2[d].item = n <=> h[d].item = n
  BY <1>1
<1>4. \A d \in Conns : C2[d].used <=> C[d].used
  BY <1>1
<1>5. \A d \in Conns : h2[d].pc = "none" <=> h[d].pc = "none"
  BY <1>1
<1>6. Reach(C2, h2)
  BY <1>2, <1>3, <1>4, <1>5, ReachSame
<1> QED BY <1>6 DEF C2, h2

-----------------------------------------------------------------------------
(* The functions that work on the state under the lock.  Is(f(s), C2, P2)  *)
(* says that f leads from s to netconns C2 and pcbs P2 and that no         *)
(* assertion on the way fails.                                             *)

(* An assertion that holds changes nothing.                                *)
LEMMA CheckIs ==
  ASSUME NEW C, NEW P, NEW s, Is(s, C, P), NEW b, b
  PROVE  Is(Check(s, b), C, P)
  BY DEF Check, Is

(* A callback with a netconn in use.                                       *)
LEMMA CallbackIs ==
  ASSUME NEW C, NEW P, NEW s, Is(s, C, P), NEW c \in Conns, C[c].used
  PROVE  Is(Callback(s, c), C, P)
  BY NetconnAssumption DEF Callback, Check, Is

(* tcp_recved opens the window.                                            *)
LEMMA RecvedIs ==
  ASSUME NEW C, NEW P, NEW s, Is(s, C, P), NEW p, NEW n
  PROVE  Is(tcp_recved(s, p, n), C, [P EXCEPT ![p] = Recved(P[p], n)])
  BY DEF tcp_recved, Is, Recved

(* In a state that satisfies the invariant this is so.                     *)
LEMMA SlotOK ==
  ASSUME NEW C, NEW P, NEW h, Base(C, P, h), NEW p \in Pcbs
  PROVE  Slot(P, p)
  BY PendingPositive DEF Base, Types, Slot

(* tcp_backlog_accepted gives the slot back.                               *)
LEMMA BacklogAcceptedIs ==
  ASSUME NEW C, NEW P \in [Pcbs -> PcbType], NEW s, Is(s, C, P), NEW p \in Pcbs, Slot(P, p)
  PROVE  Is(tcp_backlog_accepted(s, p), C, Unpended(P, p))
<1> DEFINE l == P[p].listener
<1>0. s.pcb = P /\ P[p] \in PcbType /\ NULL \notin Pcbs
  BY NetconnAssumption DEF Is
<1>1. CASE l # NULL /\ P[p].pend
  <2>1. l \in Pcbs /\ l # p /\ P[l].accepts_pending \in Nat \ {0}
    BY <1>1 DEF Slot
  <2>2. Is(Check(s, s.pcb[l].accepts_pending # 0), C, P)
    BY <2>1, <1>0, CheckIs
  <2> DEFINE t == Check(s, s.pcb[l].accepts_pending # 0)
             Q == [P EXCEPT ![l].accepts_pending = @ - 1, ![p].pend = FALSE]
  <2>3. tcp_backlog_accepted(s, p) = [t EXCEPT !.pcb[l].accepts_pending = @ - 1, !.pcb[p].pend = FALSE]
    BY <1>0, <1>1 DEF tcp_backlog_accepted
  <2> HIDE DEF t, l
  <2>4. Is([t EXCEPT !.pcb[l].accepts_pending = @ - 1, !.pcb[p].pend = FALSE], C, Q)
    BY <2>2 DEF Is, t
  <2>5. \A q \in Pcbs : Q[q] = IF q = p THEN [P[q] EXCEPT !.pend = FALSE]
                               ELSE IF q = l THEN [P[q] EXCEPT !.accepts_pending = P[q].accepts_pending - 1]
                               ELSE P[q]
    BY <2>1 DEF PcbType
  <2>6. Q = Unpended(P, p)
    BY <2>5, <1>1 DEF Unpended, l
  <2> QED BY <2>3, <2>4, <2>6
<1>2. CASE ~(l # NULL /\ P[p].pend)
  <2>1. tcp_backlog_accepted(s, p) = s
    BY <1>0, <1>2 DEF tcp_backlog_accepted
  <2>2. \A q \in Pcbs : Unpended(P, p)[q] = P[q]
    BY <1>0, <1>2 DEF Unpended, PcbType
  <2>3. Unpended(P, p) = P
    BY <2>2 DEF Unpended
  <2> QED BY <2>1, <2>3
<1> QED BY <1>1, <1>2

(* In a state that satisfies the invariant every pcb that does not listen  *)
(* can be purged.                                                          *)
LEMMA PurgeableOK ==
  ASSUME NEW C, NEW P, NEW h, Base(C, P, h), NEW p \in Pcbs, P[p].st # "LISTEN"
  PROVE  Purgeable(P, p)
<1>1. PcbOK(P[p])
  BY DEF Base
<1> QED BY <1>1, SlotOK DEF Purgeable, PcbOK

(* tcp_pcb_purge of a pcb in a state where it does something.              *)
LEMMA PurgeIs ==
  ASSUME NEW C, NEW P \in [Pcbs -> PcbType], NEW s, Is(s, C, P), NEW p \in Pcbs, Purgeable(P, p),
         P[p].st \notin {"CLOSED", "TIME_WAIT"}
  PROVE  Is(tcp_pcb_purge(s, p), C, [Unpended(P, p) EXCEPT ![p] = Purged(Unpended(P, p)[p])])
<1> DEFINE t == tcp_backlog_accepted(s, p)
           Q == Unpended(P, p)
<1>1. Is(t, C, Q)
  BY BacklogAcceptedIs DEF Purgeable
<1>2. tcp_pcb_purge(s, p) = [t EXCEPT !.pcb[p].refused = "none", !.pcb[p].out = 0]
  BY DEF tcp_pcb_purge, Purgeable, Is
<1>4. Q[p] \in PcbType /\ Q = [q \in Pcbs |-> Q[q]]
  BY UnpendedSelf DEF Unpended
<1> HIDE DEF t, Q
<1> DEFINE u == [t EXCEPT !.pcb[p].refused = "none", !.pcb[p].out = 0]
<1>5. u.conn = C /\ u.failed = FALSE
  BY <1>1 DEF Is
<1>6. u.pcb = [Q EXCEPT ![p] = Purged(Q[p])]
  BY <1>1, <1>4 DEF Is, Purged, PcbType
<1>7. u = [t EXCEPT !.pcb = u.pcb]
  BY <1>1 DEF Is
<1> HIDE DEF u
<1>8. Is(u, C, u.pcb)
  BY <1>1, <1>5, <1>7 DEF Is
<1> QED BY <1>2, <1>6, <1>8 DEF u, Q

(* A pcb is purged and freed.                                              *)
LEMMA FreedIs ==
  ASSUME NEW C, NEW P \in [Pcbs -> PcbType], NEW s, Is(s, C, P), NEW p \in Pcbs, Purgeable(P, p)
  PROVE  Is(Freed(s, p), C, [Unpended(P, p) EXCEPT ![p] = NoPcb])
<1> DEFINE t == tcp_pcb_purge(s, p)
<1>1. Freed(s, p) = [t EXCEPT !.pcb[p] = NoPcb]
  BY DEF Freed
<1>2. CASE P[p].st \notin {"CLOSED", "TIME_WAIT"}
  <2> DEFINE Q == [Unpended(P, p) EXCEPT ![p] = Purged(Unpended(P, p)[p])]
  <2>1. Is(t, C, Q)
    BY <1>2, PurgeIs
  <2>2. [Q EXCEPT ![p] = NoPcb] = [Unpended(P, p) EXCEPT ![p] = NoPcb]
    BY DEF Unpended
  <2> HIDE DEF t, Q
  <2>3. Is([t EXCEPT !.pcb[p] = NoPcb], C, [Q EXCEPT ![p] = NoPcb])
    BY <2>1 DEF Is
  <2> QED BY <1>1, <2>2, <2>3
<1>3. CASE P[p].st \in {"CLOSED", "TIME_WAIT"}
  <2>1. t = s
    BY <1>3 DEF tcp_pcb_purge, Is
  <2>2. \A q \in Pcbs : q # p => Unpended(P, p)[q] = P[q]
    BY <1>3, NetconnAssumption DEF Unpended, Purgeable
  <2>3. [P EXCEPT ![p] = NoPcb] = [Unpended(P, p) EXCEPT ![p] = NoPcb]
    BY <2>2 DEF Unpended
  <2>4. Is([s EXCEPT !.pcb[p] = NoPcb], C, [P EXCEPT ![p] = NoPcb])
    BY DEF Is
  <2> QED BY <1>1, <2>1, <2>3, <2>4
<1> QED BY <1>2, <1>3

(* err_tcp changes the netconn only.                                       *)
LEMMA ErrIs ==
  ASSUME NEW C, NEW P, NEW s, Is(s, C, P), NEW c \in Conns, ErrReady(C[c])
  PROVE  Is(err_tcp(s, c), [C EXCEPT ![c] = Errd(C[c])], P)
<1>0. c # NULL /\ s.conn = C
  BY NetconnAssumption DEF Is
<1> DEFINE o == C[c]
           waited == o.state \in {"WRITE", "CLOSE", "CONNECT"}
           woken == waited /\ ~o.innb
           b == IF woken THEN o.msg ELSE waited \/ ~o.msg
           t == Check(Callback(s, c), b)
<1>1. Is(t, C, P)
  <2>1. b
    BY DEF ErrReady
  <2>2. Is(Callback(s, c), C, P)
    BY CallbackIs DEF ErrReady
  <2> HIDE DEF b
  <2> QED BY <2>1, <2>2, CheckIs
<1>2. err_tcp(s, c) = [t EXCEPT !.conn[c] = Errd(C[c])]
  BY <1>0 DEF err_tcp, Errd
<1> HIDE DEF t
<1>3. Is([t EXCEPT !.conn[c] = Errd(C[c])], [C EXCEPT ![c] = Errd(C[c])], P)
  BY <1>1 DEF Is
<1> QED BY <1>2, <1>3

(* A pcb with the error callback is given up.                              *)
LEMMA AbandonIs ==
  ASSUME NEW C, NEW P \in [Pcbs -> PcbType], NEW s, Is(s, C, P), NEW p \in Pcbs, Purgeable(P, p),
         P[p].st # "TIME_WAIT", P[p].err, NEW c \in Conns, P[p].arg = c, ErrReady(C[c])
  PROVE  Is(tcp_abandon(s, p), [C EXCEPT ![c] = Errd(C[c])], [Unpended(P, p) EXCEPT ![p] = NoPcb])
<1>1. Is(Freed(s, p), C, [Unpended(P, p) EXCEPT ![p] = NoPcb])
  BY FreedIs
<1>2. tcp_abandon(s, p) = err_tcp(Freed(s, p), c)
  BY DEF tcp_abandon, Is
<1> QED BY <1>1, <1>2, ErrIs

(* And one without it.                                                     *)
LEMMA AbandonOrphanIs ==
  ASSUME NEW C, NEW P \in [Pcbs -> PcbType], NEW s, Is(s, C, P), NEW p \in Pcbs, Purgeable(P, p),
         ~P[p].err
  PROVE  Is(tcp_abandon(s, p), C, [Unpended(P, p) EXCEPT ![p] = NoPcb])
<1>1. Is(Freed(s, p), C, [Unpended(P, p) EXCEPT ![p] = NoPcb])
  BY FreedIs
<1>2. tcp_abandon(s, p) = Freed(s, p)
  BY DEF tcp_abandon, Is
<1> QED BY <1>1, <1>2

(* sys_mbox_trypost.                                                       *)
LEMMA PostedIs ==
  ASSUME NEW S, NEW b \in [valid : BOOLEAN, q : Seq(S)], NEW m \in S, NEW size \in Nat \ {0}
  PROVE  /\ Posted(b, m, size) \in [valid : BOOLEAN, q : Seq(S)]
         /\ Posted(b, m, size).valid = b.valid
         /\ ~b.valid => Posted(b, m, size) = b
         /\ b.valid /\ Len(b.q) < size => Posted(b, m, size).q = Append(b.q, m)
         /\ b.valid /\ ~(Len(b.q) < size) => Posted(b, m, size).q = b.q
         /\ b.valid => Posted(b, m, size).q # <<>>
<1>1. Len(b.q) \in Nat /\ b.q \in Seq(S)
  OBVIOUS
<1>2. CASE b.valid /\ Len(b.q) < size
  <2>1. Posted(b, m, size) = [b EXCEPT !.q = Append(b.q, m)]
    BY <1>1, <1>2 DEF Posted, Full
  <2>2. Append(b.q, m) \in Seq(S) /\ Append(b.q, m) # <<>>
    BY <1>1
  <2> QED BY <2>1, <2>2, <1>2
<1>3. CASE ~(b.valid /\ Len(b.q) < size)
  <2>1. Posted(b, m, size) = b
    BY <1>1, <1>3 DEF Posted, Full
  <2>2. b.valid => b.q # <<>>
    BY <1>1, <1>3
  <2> QED BY <2>1, <2>2, <1>3
<1> QED BY <1>2, <1>3

(* The fields of a netconn after err_tcp.                                  *)
LEMMA ErrdFields ==
  ASSUME NEW o \in ConnType, o.acceptmbox = NoMbox, Busy(o) /\ ~o.innb => o.sem = 0
  PROVE  /\ Errd(o) \in ConnType /\ Errd(o).used = o.used /\ Errd(o).state = "NONE"
         /\ Errd(o).pcb = NULL /\ Errd(o).acceptmbox = NoMbox
         /\ Errd(o).recvmbox = Posted(o.recvmbox, "nul", RECVMBOX_SIZE)
         /\ (Errd(o).fatal <=> o.fatal \/ o.state # "CLOSE")
         /\ Errd(o).write_offset = o.write_offset
         /\ IF Busy(o) /\ ~o.innb
            THEN ~Errd(o).msg /\ Errd(o).sem = 1 /\ Errd(o).innb = o.innb
                 /\ Errd(o).api.err = (IF o.state = "CLOSE" THEN "OK" ELSE "ERR")
            ELSE Errd(o).msg = o.msg /\ Errd(o).sem = o.sem /\ Errd(o).api = o.api
                 /\ (Errd(o).innb <=> o.innb /\ ~Busy(o))
<1> DEFINE e == ErrConn(o)
           m == Posted(o.recvmbox, "nul", RECVMBOX_SIZE)
<1>0. RECVMBOX_SIZE \in Nat \ {0}
  BY NetconnAssumption
<1>1. m \in Mbox({"data", "nul"})
  BY <1>0, PostedIs DEF ConnType, Mbox
<1>2. Posted(o.acceptmbox, "nul", ACCEPTMBOX_SIZE) = NoMbox
  BY DEF Posted, NoMbox
<1>3. e = [o EXCEPT !.pcb = NULL, !.state = "NONE", !.fatal = o.fatal \/ o.state # "CLOSE",
                    !.recvmbox = m, !.acceptmbox = NoMbox]
  BY <1>2 DEF ErrConn
<1>4. NoMbox \in Mbox(Conns \cup {"aborted", "nul"}) /\ "NONE" \in States
  BY DEF NoMbox, Mbox, States
<1> HIDE DEF m, e
<1>5. /\ e \in ConnType /\ e.used = o.used /\ e.state = "NONE" /\ e.pcb = NULL
      /\ e.acceptmbox = NoMbox /\ e.recvmbox = m /\ (e.fatal <=> o.fatal \/ o.state # "CLOSE")
      /\ e.write_offset = o.write_offset /\ e.msg = o.msg /\ e.sem = o.sem /\ e.api = o.api
      /\ e.innb = o.innb
  BY <1>1, <1>3, <1>4 DEF ConnType
<1>6. CASE Busy(o) /\ ~o.innb
  <2> DEFINE err == IF o.state = "CLOSE" THEN "OK" ELSE "ERR"
  <2>0. e.sem + 1 = 1
    BY <1>5, <1>6
  <2>1. Errd(o) = [e EXCEPT !.msg = FALSE, !.sem = 1, !.api.err = err]
    BY <1>6, <2>0 DEF Errd, Busy, e
  <2>2. err \in {"OK", "MEM", "CONN", "ERR"}
    OBVIOUS
  <2> HIDE DEF err
  <2>3. /\ Errd(o) \in ConnType /\ Errd(o).used = e.used /\ Errd(o).state = e.state
        /\ Errd(o).pcb = e.pcb /\ Errd(o).acceptmbox = e.acceptmbox /\ Errd(o).recvmbox = e.recvmbox
        /\ Errd(o).fatal = e.fatal /\ Errd(o).write_offset = e.write_offset
        /\ Errd(o).msg = FALSE /\ Errd(o).sem = 1 /\ Errd(o).innb = e.innb /\ Errd(o).api.err = err
    <3>1. e.api \in MsgType /\ [e.api EXCEPT !.err = err] \in MsgType /\ [e.api EXCEPT !.err = err].err = err
      BY <2>2, <1>5 DEF ConnType, MsgType
    <3>2. Errd(o) = [e EXCEPT !.msg = FALSE, !.sem = 1, !.api = [e.api EXCEPT !.err = err]]
      BY <2>1, <1>5
    <3> DEFINE a == [e.api EXCEPT !.err = err]
    <3> HIDE DEF a
    <3>3. Errd(o) = [e EXCEPT !.msg = FALSE, !.sem = 1, !.api = a] /\ a \in MsgType /\ a.err = err
      BY <3>1, <3>2 DEF a
    <3>4. e \in ConnType
      BY <1>5
    <3> DEFINE n == Errd(o)
    <3>5. n = [e EXCEPT !.msg = FALSE, !.sem = 1, !.api = a]
      BY <3>3
    <3> HIDE DEF n
    <3>6. /\ n \in ConnType /\ n.used = e.used /\ n.state = e.state
          /\ n.pcb = e.pcb /\ n.acceptmbox = e.acceptmbox /\ n.recvmbox = e.recvmbox
          /\ n.fatal = e.fatal /\ n.write_offset = e.write_offset
      <4>1. a \in MsgType /\ 1 \in 0 .. 1
        BY <3>3
      <4> QED BY <4>1, <3>4, <3>5 DEF ConnType
    <3>7. n.msg = FALSE /\ n.sem = 1 /\ n.innb = e.innb /\ n.api = a
      BY <3>4, <3>5 DEF ConnType
    <3> QED BY <3>3, <3>6, <3>7 DEF n
  <2> QED BY <2>3, <1>5, <1>6 DEF err, m
<1>7. CASE ~(Busy(o) /\ ~o.innb)
  <2> DEFINE i == IF Busy(o) THEN FALSE ELSE e.innb
  <2>1. Errd(o) = [e EXCEPT !.innb = i]
    BY <1>7 DEF Errd, Busy, e
  <2>2. i \in BOOLEAN /\ (i <=> o.innb /\ ~Busy(o))
    BY <1>5 DEF ConnType
  <2> HIDE DEF i
  <2>3. /\ Errd(o) \in ConnType /\ Errd(o).used = e.used /\ Errd(o).state = e.state
        /\ Errd(o).pcb = e.pcb /\ Errd(o).acceptmbox = e.acceptmbox /\ Errd(o).recvmbox = e.recvmbox
        /\ Errd(o).fatal = e.fatal /\ Errd(o).write_offset = e.write_offset
        /\ Errd(o).msg = e.msg /\ Errd(o).sem = e.sem /\ Errd(o).innb = i /\ Errd(o).api = e.api
    BY <2>1, <2>2, <1>5 DEF ConnType
  <2> QED BY <2>2, <2>3, <1>5, <1>7 DEF m
<1> QED BY <1>6, <1>7

(* The invariant gives err_tcp what it asserts, and holds after it.        *)
LEMMA ErrdOK ==
  ASSUME NEW o \in ConnType, NEW x \in ThreadType, NEW c, NEW r, ConnOK(o, x), Pair(c, o, r, x),
         r.st # "LISTEN", o.pcb # NULL
  PROVE  /\ ErrReady(o) /\ Errd(o) \in ConnType /\ ConnOK(Errd(o), x)
         /\ Errd(o).used = o.used /\ Errd(o).acceptmbox.q = o.acceptmbox.q
         /\ Errd(o).pcb = NULL /\ Errd(o).state = "NONE"
         /\ Errd(o).recvmbox.valid = o.recvmbox.valid
<1>0. o.acceptmbox = NoMbox
  BY DEF ConnOK, Boxes, Pair
<1>1. o.state \in States /\ x.pc \in Pcs /\ o.sem \in 0 .. 1 /\ o.used \in BOOLEAN
  BY DEF ConnType, ThreadType
<1>2. Control(o, x) /\ Boxes(o, x) /\ Count(o, x)
  BY DEF ConnOK
<1>3. o.used
  BY <1>2 DEF Control, Unaccepted, NoConn
<1>4. Busy(o) /\ ~o.innb => o.msg /\ o.sem = 0 /\ x.pc \in Waits
  BY <1>1, <1>2 DEF Control, Busy, Waits, Pcs, Quiet, Unaccepted, NoConn
<1>5. ~Busy(o) => ~o.msg
  BY <1>1, <1>2 DEF Control, Busy, Waits, Pcs, Quiet, Unaccepted, NoConn
<1>6. ErrReady(o)
  BY <1>3, <1>4, <1>5 DEF ErrReady, Busy
<1> DEFINE e == Errd(o)
<1>7. /\ e \in ConnType /\ e.used = o.used /\ e.state = "NONE"
      /\ e.pcb = NULL /\ e.acceptmbox = NoMbox
      /\ e.recvmbox = Posted(o.recvmbox, "nul", RECVMBOX_SIZE)
      /\ (e.fatal <=> o.fatal \/ o.state # "CLOSE")
      /\ e.write_offset = o.write_offset
      /\ IF Busy(o) /\ ~o.innb
         THEN ~e.msg /\ e.sem = 1 /\ e.innb = o.innb
              /\ e.api.err = (IF o.state = "CLOSE" THEN "OK" ELSE "ERR")
         ELSE e.msg = o.msg /\ e.sem = o.sem /\ e.api = o.api /\ (e.innb <=> o.innb /\ ~Busy(o))
  BY <1>0, <1>4, ErrdFields
<1> HIDE DEF e
<1>8. /\ e.recvmbox.valid = o.recvmbox.valid
      /\ ~o.recvmbox.valid => e.recvmbox = o.recvmbox
      /\ o.recvmbox.valid => e.recvmbox.q # <<>>
  <2>1. o.recvmbox \in [valid : BOOLEAN, q : Seq({"data", "nul"})] /\ RECVMBOX_SIZE \in Nat \ {0}
    BY NetconnAssumption DEF ConnType, Mbox
  <2> DEFINE S == {"data", "nul"}
  <2>2. "nul" \in S /\ o.recvmbox \in [valid : BOOLEAN, q : Seq(S)]
    BY <2>1
  <2> HIDE DEF S
  <2> DEFINE b == Posted(o.recvmbox, "nul", RECVMBOX_SIZE)
  <2>3. /\ b.valid = o.recvmbox.valid
        /\ ~o.recvmbox.valid => b = o.recvmbox
        /\ o.recvmbox.valid => b.q # <<>>
    BY <2>1, <2>2, PostedIs
  <2> HIDE DEF b
  <2>4. e.recvmbox = b
    BY <1>7 DEF b
  <2> QED BY <2>3, <2>4
<1>9. Control(e, x)
  <2>1. CASE x.pc \in Waits
    <3>1. CASE Busy(o) /\ ~o.innb
      BY <1>1, <1>2, <1>4, <1>7, <2>1, <3>1 DEF Control, Busy, Waits, Quiet
    <3>2. CASE ~(Busy(o) /\ ~o.innb)
      <4>1. o.sem = 1 /\ ~o.msg /\ o.state = "NONE" /\ ~Busy(o)
        BY <1>1, <1>2, <2>1, <3>2 DEF Control, Busy
      <4> QED BY <1>1, <1>2, <1>7, <2>1, <4>1 DEF Control, Waits, Quiet
    <3> QED BY <3>1, <3>2
  <2>2. CASE x.pc \notin Waits
    <3>1. ~(Busy(o) /\ ~o.innb)
      BY <1>4, <2>2
    <3>2. e.msg = o.msg /\ e.sem = o.sem /\ (e.innb <=> o.innb /\ ~Busy(o))
      BY <1>7, <3>1
    <3>3. x.pc = "none" => Unaccepted(e)
      BY <1>2, <1>3, <1>7, <3>2 DEF Control, Unaccepted, NoConn
    <3> QED BY <1>1, <1>2, <1>7, <2>2, <3>2, <3>3 DEF Control, Waits, Busy
  <2> QED BY <2>1, <2>2
<1>10. Boxes(e, x)
  BY <1>2, <1>7, <1>8 DEF Boxes, NoMbox, NulIn
<1>11. Count(e, x)
  <2>1. CASE Busy(o) /\ ~o.innb
    BY <1>2, <1>4, <1>7, <2>1 DEF Count, Control, Waits, Busy
  <2>2. CASE ~(Busy(o) /\ ~o.innb)
    <3>1. x.pc = "write" => o.state = "NONE"
      BY <1>1, <1>2, <2>2 DEF Control, Waits, Busy
    <3> QED BY <1>2, <1>7, <2>2, <3>1 DEF Count
  <2> QED BY <2>1, <2>2
<1>12. ConnOK(e, x)
  BY <1>9, <1>10, <1>11 DEF ConnOK
<1> QED BY <1>0, <1>6, <1>7, <1>8, <1>12 DEF e

(* What the invariant says of a netconn and its pcb.                       *)
LEMMA PairFacts ==
  ASSUME NEW C, NEW P, NEW h, Base(C, P, h), NEW c \in Conns
  PROVE  /\ C[c] \in ConnType /\ h[c] \in ThreadType /\ ConnOK(C[c], h[c])
         /\ C \in [Conns -> ConnType] /\ P \in [Pcbs -> PcbType] /\ h \in [Conns -> ThreadType]
         /\ [C EXCEPT ![c] = C[c]] = C /\ [h EXCEPT ![c] = h[c]] = h
         /\ C[c].pcb \in Pcbs \cup {NULL}
         /\ C[c].pcb # NULL => /\ C[c].pcb \in Pcbs /\ P[C[c].pcb] \in PcbType
                               /\ PcbOK(P[C[c].pcb]) /\ P[C[c].pcb].arg = c
                               /\ Pair(c, C[c], P[C[c].pcb], h[c])
                               /\ P[C[c].pcb].st \in Owned
                               /\ [P EXCEPT ![C[c].pcb] = P[C[c].pcb]] = P
<1>1. C[c] \in ConnType /\ h[c] \in ThreadType /\ ConnOK(C[c], h[c])
  BY DEF Base, Types
<1>2. C \in [Conns -> ConnType] /\ P \in [Pcbs -> PcbType] /\ h \in [Conns -> ThreadType]
  BY DEF Base, Types
<1>3. C[c].pcb \in Pcbs \cup {NULL}
  BY <1>1 DEF ConnType
<1>4. C[c].pcb # NULL => Pair(c, C[c], P[C[c].pcb], h[c])
  BY DEF Base, Links
<1>5. C[c].pcb # NULL => P[C[c].pcb].arg = c /\ P[C[c].pcb].st \in Owned
  BY <1>4 DEF Pair
<1>6. C[c].pcb # NULL => PcbOK(P[C[c].pcb]) /\ P[C[c].pcb] \in PcbType
  BY <1>2, <1>3 DEF Base
<1>7. [C EXCEPT ![c] = C[c]] = C /\ [h EXCEPT ![c] = h[c]] = h
  BY <1>2
<1>8. C[c].pcb # NULL => [P EXCEPT ![C[c].pcb] = P[C[c].pcb]] = P
  BY <1>2, <1>3
<1> QED BY <1>1, <1>2, <1>3, <1>4, <1>5, <1>6, <1>7, <1>8

(* The stack gives up the pcb of a netconn.                                *)
LEMMA AbandonStep ==
  ASSUME NEW C, NEW P, NEW h, Base(C, P, h), NEW c \in Conns, NEW p \in Pcbs,
         C[c].pcb = p, P[p].st # "LISTEN"
  PROVE  /\ ErrReady(C[c])
         /\ Base([C EXCEPT ![c] = Errd(C[c])], [Unpended(P, p) EXCEPT ![p] = NoPcb], h)
         /\ Reach(C, h) => Reach([C EXCEPT ![c] = Errd(C[c])], h)
         /\ P[p].err /\ P[p].arg = c /\ P[p].st # "TIME_WAIT"
<1>0. p # NULL
  BY NetconnAssumption
<1> DEFINE e == Errd(C[c])
<1>1. /\ C[c] \in ConnType /\ h[c] \in ThreadType /\ ConnOK(C[c], h[c])
      /\ C \in [Conns -> ConnType] /\ h \in [Conns -> ThreadType]
      /\ [h EXCEPT ![c] = h[c]] = h
      /\ P[p].arg = c /\ Pair(c, C[c], P[p], h[c]) /\ P[p].st \in Owned
  BY <1>0, PairFacts
<1>2. /\ ErrReady(C[c]) /\ e \in ConnType /\ ConnOK(e, h[c])
      /\ e.used = C[c].used /\ e.acceptmbox.q = C[c].acceptmbox.q /\ e.pcb = NULL
  BY <1>0, <1>1, ErrdOK
<1> HIDE DEF e
<1>3. Base([C EXCEPT ![c] = e], [Unpended(P, p) EXCEPT ![p] = NoPcb], [h EXCEPT ![c] = h[c]])
  BY <1>1, <1>2, NoPcbIsOK, ReleaseStep
<1>4. Reach(C, h) => Reach([C EXCEPT ![c] = e], [h EXCEPT ![c] = h[c]])
  BY <1>1, <1>2, ReachKept
<1>5. P[p].err /\ P[p].st # "TIME_WAIT"
  BY <1>1 DEF Pair, Owned
<1> QED BY <1>1, <1>2, <1>3, <1>4, <1>5 DEF e

-----------------------------------------------------------------------------
(* Draining.                                                               *)

(* Counting messages.                                                      *)
LEMMA DataInType ==
  ASSUME NEW S, NEW q \in Seq(S)
  PROVE  DataIn(q) \in Nat /\ IsFiniteSet({i \in DOMAIN q : q[i] = "data"})
<1>1. DOMAIN q = 1 .. Len(q) /\ Len(q) \in Nat
  OBVIOUS
<1>2. IsFiniteSet(DOMAIN q)
  BY <1>1, FS_Interval
<1>3. IsFiniteSet({i \in DOMAIN q : q[i] = "data"})
  BY <1>2, FS_Subset
<1> QED BY <1>3, FS_CardinalityType DEF DataIn

(* The fields of a pcb after tcp_recved.                                   *)
LEMMA RecvedFields ==
  ASSUME NEW o \in PcbType, NEW n \in Nat, PcbOK(o)
  PROVE  LET r == Recved(o, n)
         IN  /\ r \in PcbType /\ PcbOK(r) /\ r.st = o.st /\ r.arg = o.arg /\ r.listener = o.listener
             /\ r.recv = o.recv /\ r.sent = o.sent /\ r.poll = o.poll /\ r.err = o.err
             /\ r.accepts_pending = o.accepts_pending /\ r.rxclosed = o.rxclosed
             /\ r.refused = o.refused /\ r.out = o.out /\ r.pend = o.pend
             /\ r.unread = (IF o.unread > n THEN o.unread - n ELSE 0)
<1> DEFINE u == IF o.unread > n THEN o.unread - n ELSE 0
           r == Recved(o, n)
<1>1. o.unread \in 0 .. WND /\ WND \in Nat
  BY NetconnAssumption DEF PcbType
<1>2. u \in 0 .. WND /\ (o.unread = 0 => u = 0)
  BY <1>1
<1> HIDE DEF u
<1>3. r = [o EXCEPT !.unread = u]
  BY DEF Recved, u
<1> HIDE DEF r
<1>4. /\ r \in PcbType /\ r.st = o.st /\ r.arg = o.arg /\ r.listener = o.listener
      /\ r.recv = o.recv /\ r.sent = o.sent /\ r.poll = o.poll /\ r.err = o.err
      /\ r.accepts_pending = o.accepts_pending /\ r.rxclosed = o.rxclosed
      /\ r.refused = o.refused /\ r.out = o.out /\ r.pend = o.pend /\ r.unread = u
  BY <1>2, <1>3 DEF PcbType
<1>5. o.st = "free" => r = o
  <2>1. o.st = "free" => o.unread = 0 /\ u = 0
    BY <1>2 DEF PcbOK, NoPcb
  <2>2. u = o.unread => [o EXCEPT !.unread = u] = o
    BY DEF PcbType
  <2> QED BY <2>1, <2>2, <1>3
<1>6. PcbOK(r)
  BY <1>2, <1>4, <1>5 DEF PcbOK
<1> QED BY <1>4, <1>6 DEF r, u

(* The fields of a netconn after its recvmbox is gone.                     *)
LEMMA DrainedFields ==
  ASSUME NEW o \in ConnType
  PROVE  LET k == Drained(o)
         IN  /\ k \in ConnType /\ k.used = o.used /\ k.state = o.state /\ k.innb = o.innb
             /\ k.pcb = o.pcb /\ k.msg = o.msg /\ k.recvmbox = NoMbox /\ k.acceptmbox = o.acceptmbox
             /\ k.fatal = o.fatal /\ k.write_offset = o.write_offset /\ k.sem = o.sem /\ k.api = o.api
<1>1. NoMbox \in Mbox({"data", "nul"})
  BY DEF NoMbox, Mbox
<1> QED BY <1>1 DEF Drained, ConnType

(* DrainRecv by its effect on the netconn and on its pcb.                  *)
LEMMA DrainRecvIs ==
  ASSUME NEW C, NEW P, NEW s, Is(s, C, P), NEW c \in Conns
  PROVE  LET p == C[c].pcb
             Q == IF p # NULL THEN [P EXCEPT ![p] = Recved(P[p], DataIn(C[c].recvmbox.q))] ELSE P
         IN  Is(DrainRecv(s, c), [C EXCEPT ![c] = Drained(C[c])], Q)
<1> DEFINE p == C[c].pcb
           Q == IF p # NULL THEN [P EXCEPT ![p] = Recved(P[p], DataIn(C[c].recvmbox.q))] ELSE P
           t == IF p # NULL THEN tcp_recved(s, p, DataIn(C[c].recvmbox.q)) ELSE s
<1>1. Is(t, C, Q)
  <2>1. CASE p # NULL
    BY <2>1, RecvedIs
  <2>2. CASE p = NULL
    BY <2>2
  <2> QED BY <2>1, <2>2
<1>2. DrainRecv(s, c) = [t EXCEPT !.conn[c].recvmbox = NoMbox]
  BY DEF DrainRecv, Is
<1> HIDE DEF t, Q
<1>3. Is([t EXCEPT !.conn[c].recvmbox = NoMbox], [C EXCEPT ![c] = Drained(C[c])], Q)
  BY <1>1 DEF Is, Drained
<1> QED BY <1>2, <1>3 DEF Q

(* A netconn that nobody reads is drained.                                 *)
LEMMA DrainRecvStep ==
  ASSUME NEW C, NEW P, NEW h, Base(C, P, h), NEW s, Is(s, C, P), NEW c \in Conns,
         C[c].used, h[c].pc \in {"none", "idle", "eof"}
  PROVE  \E Q : /\ Is(DrainRecv(s, c), [C EXCEPT ![c] = Drained(C[c])], Q)
                /\ Base([C EXCEPT ![c] = Drained(C[c])], Q, h)
                /\ \A q \in Pcbs : Q[q].st = P[q].st
<1> DEFINE p == C[c].pcb
           k == Drained(C[c])
           n == DataIn(C[c].recvmbox.q)
           Q == IF p # NULL THEN [P EXCEPT ![p] = Recved(P[p], n)] ELSE P
<1>1. Is(DrainRecv(s, c), [C EXCEPT ![c] = k], Q)
  BY DrainRecvIs
<1>2. /\ C[c] \in ConnType /\ h[c] \in ThreadType /\ ConnOK(C[c], h[c])
      /\ P \in [Pcbs -> PcbType]
      /\ [h EXCEPT ![c] = h[c]] = h
      /\ p \in Pcbs \cup {NULL}
      /\ p # NULL => /\ P[p] \in PcbType /\ PcbOK(P[p]) /\ P[p].arg = c
                     /\ Pair(c, C[c], P[p], h[c]) /\ P[p].st \in Owned
  BY PairFacts
<1>3. /\ k \in ConnType /\ k.used = C[c].used /\ k.state = C[c].state /\ k.innb = C[c].innb
      /\ k.pcb = p /\ k.msg = C[c].msg /\ k.recvmbox = NoMbox /\ k.acceptmbox = C[c].acceptmbox
      /\ k.fatal = C[c].fatal /\ k.write_offset = C[c].write_offset /\ k.sem = C[c].sem
      /\ k.api = C[c].api
  BY <1>2, DrainedFields
<1>4. n \in Nat
  <2>1. C[c].recvmbox.q \in Seq({"data", "nul"})
    BY <1>2 DEF ConnType, Mbox
  <2> QED BY <2>1, DataInType
<1> HIDE DEF k, n
<1>5. ConnOK(k, h[c])
  <2>1. Control(k, h[c])
    <3>1. h[c].pc = "none" => Unaccepted(k)
      BY <1>2, <1>3 DEF ConnOK, Control, Unaccepted, NoConn
    <3> QED BY <1>2, <1>3, <3>1 DEF ConnOK, Control
  <2>2. Boxes(k, h[c])
    BY <1>2, <1>3 DEF ConnOK, Boxes, NoMbox
  <2>3. Count(k, h[c])
    BY <1>2, <1>3 DEF ConnOK, Count
  <2> QED BY <2>1, <2>2, <2>3 DEF ConnOK
<1>6. CASE p = NULL
  <2>1. Base([C EXCEPT ![c] = k], P, [h EXCEPT ![c] = h[c]])
    BY <1>2, <1>3, <1>5, <1>6, ConnStep
  <2> QED BY <1>1, <1>2, <1>6, <2>1 DEF k
<1>7. CASE p # NULL
  <2> DEFINE r == Recved(P[p], n)
  <2>1. /\ r \in PcbType /\ PcbOK(r) /\ r.st = P[p].st /\ r.arg = P[p].arg
        /\ r.listener = P[p].listener /\ r.recv = P[p].recv /\ r.sent = P[p].sent
        /\ r.poll = P[p].poll /\ r.err = P[p].err
        /\ r.accepts_pending = P[p].accepts_pending /\ r.pend = P[p].pend
    BY <1>2, <1>4, <1>7, RecvedFields
  <2> HIDE DEF r
  <2>2. Pair(c, k, r, h[c])
    BY <1>2, <1>3, <1>7, <2>1 DEF Pair, NoMbox
  <2>3. BacklogKept(P[p], r)
    <3>1. PcbOK(P[p])
      BY <1>2, <1>7
    <3> QED BY <2>1, <1>2, <1>7, <3>1 DEF BacklogKept, Owned, PcbOK
  <2>4. p \in Pcbs
    BY <1>2, <1>7
  <2>5. Base([C EXCEPT ![c] = k], [P EXCEPT ![p] = r], [h EXCEPT ![c] = h[c]])
    BY <1>2, <1>3, <1>5, <1>7, <2>1, <2>2, <2>3, <2>4, PairStep
  <2>6. Q = [P EXCEPT ![p] = r]
    BY <1>7 DEF r
  <2>7. \A q \in Pcbs : Q[q].st = P[q].st
    BY <1>2, <2>1, <2>4, <2>6
  <2>8. Is(DrainRecv(s, c), [C EXCEPT ![c] = Drained(C[c])], Q)
    BY <1>1 DEF k
  <2>9. Base([C EXCEPT ![c] = Drained(C[c])], Q, h)
    BY <1>2, <2>5, <2>6 DEF k
  <2> HIDE DEF Q
  <2> QED BY <2>7, <2>8, <2>9
<1> QED BY <1>6, <1>7

(* A freed netconn satisfies the invariant.                                *)
LEMMA NoConnIsOK ==
  /\ NoConn \in ConnType
  /\ \A x : x.pc = "none" /\ x.item = NULL => ConnOK(NoConn, x)
<1>1. NoMsg \in MsgType /\ SIZE \in Nat \ {0}
  BY NetconnAssumption DEF NoMsg, MsgType
<1>2. NoMbox \in Mbox({"data", "nul"}) /\ NoMbox \in Mbox(Conns \cup {"aborted", "nul"})
  BY DEF NoMbox, Mbox
<1>3. NoConn \in ConnType
  BY <1>1, <1>2 DEF NoConn, ConnType, States
<1>4. ASSUME NEW x, x.pc = "none", x.item = NULL
      PROVE  ConnOK(NoConn, x)
  <2>1. Control(NoConn, x)
    BY <1>4 DEF Control, NoConn, Quiet, Waits
  <2>2. Boxes(NoConn, x)
    BY <1>4 DEF Boxes, NoConn, NoMbox, NulIn
  <2>3. Count(NoConn, x)
    BY <1>4 DEF Count, NoConn
  <2> QED BY <2>1, <2>2, <2>3 DEF ConnOK
<1> QED BY <1>3, <1>4

(* A netconn nobody accepted is drained, aborted and freed.                *)
LEMMA DropQueuedStep ==
  ASSUME NEW C, NEW P, NEW h, Base(C, P, h), NEW s, Is(s, C, P), NEW n \in Conns,
         C[n].used, h[n].pc = "none"
  PROVE  \E Q : Is(DropQueued(s, n), [C EXCEPT ![n] = NoConn], Q) /\ Base([C EXCEPT ![n] = NoConn], Q, h)
<1> DEFINE t == DrainRecv(s, n)
           C1 == [C EXCEPT ![n] = Drained(C[n])]
           p == C[n].pcb
<1>1. PICK Q1 : /\ Is(t, C1, Q1) /\ Base(C1, Q1, h)
                /\ \A q \in Pcbs : Q1[q].st = P[q].st
  BY DrainRecvStep
<1>2. /\ C \in [Conns -> ConnType] /\ C[n] \in ConnType /\ ConnOK(C[n], h[n])
      /\ p \in Pcbs \cup {NULL}
      /\ p # NULL => p \in Pcbs /\ Pair(n, C[n], P[p], h[n])
  BY PairFacts
<1>3. C1[n] = Drained(C[n]) /\ C1[n].pcb = p
  BY <1>2, DrainedFields
<1>4. /\ Q1 \in [Pcbs -> PcbType] /\ h[n] \in ThreadType
      /\ [h EXCEPT ![n] = h[n]] = h /\ C1 \in [Conns -> ConnType]
  BY <1>1, PairFacts
<1>5. h[n].item = NULL
  BY <1>2 DEF ConnOK, Boxes
<1>6. NoConn \in ConnType /\ ConnOK(NoConn, h[n]) /\ NoConn.pcb = NULL
  BY <1>5, NoConnIsOK DEF NoConn
<1>7. [C1 EXCEPT ![n] = NoConn] = [C EXCEPT ![n] = NoConn]
  BY <1>2
<1> HIDE DEF t, C1
<1>8. t.conn = C1
  BY <1>1 DEF Is
<1>9. CASE p = NULL
  <2>1. DropQueued(s, n) = [t EXCEPT !.conn[n] = NoConn]
    BY <1>3, <1>8, <1>9 DEF DropQueued, t
  <2>2. Is([t EXCEPT !.conn[n] = NoConn], [C1 EXCEPT ![n] = NoConn], Q1)
    BY <1>1 DEF Is
  <2>3. Base([C1 EXCEPT ![n] = NoConn], Q1, [h EXCEPT ![n] = h[n]])
    BY <1>1, <1>3, <1>4, <1>6, <1>9, ConnStep
  <2> QED BY <2>1, <2>2, <2>3, <1>4, <1>7
<1>10. CASE p # NULL
  <2> DEFINE C2 == [C1 EXCEPT ![n] = Errd(C1[n])]
             Q2 == [Unpended(Q1, p) EXCEPT ![p] = NoPcb]
             u == tcp_abandon(t, p)
  <2>0. p \in Pcbs /\ P[p].st # "LISTEN" /\ Q1[p].st = P[p].st
    BY <1>1, <1>2, <1>10 DEF ConnOK, Control, Unaccepted, NoConn, Pair
  <2>1. /\ ErrReady(C1[n]) /\ Base(C2, Q2, h)
        /\ Q1[p].err /\ Q1[p].arg = n /\ Q1[p].st # "TIME_WAIT"
    BY <1>1, <1>3, <2>0, AbandonStep
  <2>2. Purgeable(Q1, p)
    BY <1>1, <2>0, PurgeableOK
  <2>3. Is(u, C2, Q2)
    BY <1>1, <1>4, <2>0, <2>1, <2>2, AbandonIs
  <2>4. DropQueued(s, n) = [u EXCEPT !.conn[n] = NoConn]
    BY <1>3, <1>8, <1>10 DEF DropQueued, t
  <2>5. Errd(C1[n]).pcb = NULL /\ C2[n] = Errd(C1[n]) /\ [C2 EXCEPT ![n] = NoConn] = [C1 EXCEPT ![n] = NoConn]
    <3>1. C1[n] \in ConnType /\ ConnOK(C1[n], h[n]) /\ Pair(n, C1[n], Q1[p], h[n])
      BY <1>1, <1>3, <1>10, PairFacts
    <3>2. Errd(C1[n]).pcb = NULL
      BY <3>1, <1>3, <1>4, <1>10, <2>0, ErrdOK
    <3> QED BY <3>2, <1>4
  <2> HIDE DEF C2, Q2, u
  <2>6. Is([u EXCEPT !.conn[n] = NoConn], [C2 EXCEPT ![n] = NoConn], Q2)
    BY <2>3 DEF Is
  <2>7. Base([C2 EXCEPT ![n] = NoConn], Q2, [h EXCEPT ![n] = h[n]])
    BY <1>4, <1>6, <2>1, <2>5, ConnStep
  <2> QED BY <2>4, <2>5, <2>6, <2>7, <1>4, <1>7
<1> QED BY <1>9, <1>10

(* There is one for every number of rounds.                                *)
LEMMA LoopExists ==
  ASSUME NEW s, NEW q, NEW m \in Nat
  PROVE  \E u : IsLoop(u, s, q, m)
<1> DEFINE T == {n \in Nat : ~ \E u : IsLoop(u, s, q, n)}
<1> SUFFICES ASSUME T # {}
             PROVE  FALSE
  OBVIOUS
<1>1. PICK x \in T : \A y \in T : x <= y
  BY LeastNat
<1>2. CASE x = 0
  <2> DEFINE v == [i \in 0 .. 0 |-> s]
  <2>1. \A i \in 0 .. 0 : i = 0
    OBVIOUS
  <2>2. IsLoop(v, s, q, 0)
    BY <2>1 DEF IsLoop
  <2> QED BY <1>1, <1>2, <2>2
<1>3. CASE x # 0
  <2>1. x \in Nat /\ x - 1 \in Nat /\ ~(x <= x - 1)
    BY <1>1, <1>3
  <2>2. PICK w : IsLoop(w, s, q, x - 1)
    BY <1>1, <2>1
  <2> DEFINE e == IF q[x] = "aborted" THEN w[x - 1] ELSE DropQueued(w[x - 1], q[x])
             v == [i \in 0 .. x |-> IF i = x THEN e ELSE w[i]]
  <2>3. \A i \in 0 .. x - 1 : v[i] = w[i]
    BY <2>1
  <2>4. \A i \in 0 .. x - 1 : w[i] = IF i = 0 THEN s ELSE IF q[i] = "aborted" THEN w[i - 1] ELSE DropQueued(w[i - 1], q[i])
    BY <2>1, <2>2 DEF IsLoop
  <2>5. \A i \in 0 .. x - 1 : i # 0 => i - 1 \in 0 .. x - 1
    BY <2>1
  <2>6. v[x] = e /\ x - 1 \in 0 .. x - 1 /\ \A i \in 0 .. x : i = x \/ i \in 0 .. x - 1
    BY <2>1
  <2> HIDE DEF v
  <2>7. \A i \in 0 .. x : v[i] = IF i = 0 THEN s ELSE IF q[i] = "aborted" THEN v[i - 1] ELSE DropQueued(v[i - 1], q[i])
    <3>1. SUFFICES ASSUME NEW i \in 0 .. x
                   PROVE  v[i] = IF i = 0 THEN s ELSE IF q[i] = "aborted" THEN v[i - 1] ELSE DropQueued(v[i - 1], q[i])
      OBVIOUS
    <3>2. CASE i = x
      <4>1. v[i - 1] = w[x - 1]
        BY <3>2, <2>3, <2>6
      <4> QED BY <3>2, <4>1, <2>6, <1>3
    <3>3. CASE i \in 0 .. x - 1
      <4>1. v[i] = w[i] /\ (i # 0 => v[i - 1] = w[i - 1])
        BY <3>3, <2>3, <2>5
      <4> QED BY <3>3, <4>1, <2>4
    <3> QED BY <3>2, <3>3, <2>6
  <2>8. IsLoop(v, s, q, x)
    BY <2>7 DEF IsLoop, v
  <2> QED BY <2>8, <1>1
<1> QED BY <1>2, <1>3

(* DropAll is the last value of the loop.                                  *)
LEMMA DropAllIs ==
  ASSUME NEW s, NEW S, NEW q \in Seq(S)
  PROVE  \E u : IsLoop(u, s, q, Len(q)) /\ DropAll(s, q) = u[Len(q)]
<1> DEFINE u == CHOOSE u : IsLoop(u, s, q, Len(q))
<1>1. \E v : IsLoop(v, s, q, Len(q))
  <2>1. Len(q) \in Nat
    OBVIOUS
  <2> QED BY <2>1, LoopExists
<1>2. IsLoop(u, s, q, Len(q))
  BY <1>1, Zenon
<1>3. DropAll(s, q) = u[Len(q)]
  BY Zenon DEF DropAll, IsLoop
<1> QED BY <1>2, <1>3, Zenon

(* One round.                                                              *)
LEMMA DropRound ==
  ASSUME NEW C, NEW h, NEW q, Droppable(C, h, q), NEW n \in Nat, n + 1 <= Len(q),
         NEW C1, NEW P1, NEW s, Is(s, C1, P1), Base(C1, P1, h), Dropped(C, C1, q, n)
  PROVE  \E C2, P2 : /\ Is(IF q[n + 1] = "aborted" THEN s ELSE DropQueued(s, q[n + 1]), C2, P2)
                     /\ Base(C2, P2, h) /\ Dropped(C, C2, q, n + 1)
<1>0. Len(q) \in Nat /\ n + 1 \in 1 .. Len(q) /\ q[n + 1] \in Conns \cup {"aborted"}
  BY DEF Droppable
<1>1. \A i \in Nat : i \in 1 .. n + 1 <=> i \in 1 .. n \/ i = n + 1
  OBVIOUS
<1>2. "aborted" \notin Conns
  BY NetconnAssumption DEF Messages
<1>3. CASE q[n + 1] = "aborted"
  <2>1. Dropped(C, C1, q, n + 1)
    BY <1>1, <1>2, <1>3 DEF Dropped
  <2> QED BY <1>3, <2>1
<1>4. CASE q[n + 1] \in Conns
  <2> DEFINE m == q[n + 1]
             C2 == [C1 EXCEPT ![m] = NoConn]
  <2>1. \A i \in 1 .. n : i \in 1 .. Len(q) /\ i # n + 1
    BY <1>0
  <2>2. ~ \E i \in 1 .. n : q[i] = m
    BY <1>0, <1>4, <2>1 DEF Droppable
  <2>3. C1[m].used /\ h[m].pc = "none"
    BY <1>0, <1>4, <2>2 DEF Droppable, Dropped
  <2>4. PICK P2 : Is(DropQueued(s, m), C2, P2) /\ Base(C2, P2, h)
    BY <1>4, <2>3, DropQueuedStep
  <2>5. C2 \in [Conns -> ConnType] /\ \A d \in Conns : C2[d] = IF d = m THEN NoConn ELSE C1[d]
    BY <1>4, NoConnIsOK DEF Dropped
  <2> HIDE DEF C2
  <2>6. Dropped(C, C2, q, n + 1)
    BY <1>1, <2>5 DEF Dropped
  <2>7. q[n + 1] # "aborted"
    BY <1>2, <1>4
  <2> QED BY <2>4, <2>6, <2>7
<1> QED BY <1>0, <1>3, <1>4

(* The whole loop.                                                         *)
LEMMA DropAllStep ==
  ASSUME NEW C, NEW P, NEW h, Base(C, P, h), NEW s, Is(s, C, P), NEW q, Droppable(C, h, q)
  PROVE  \E C2, P2 : Is(DropAll(s, q), C2, P2) /\ Base(C2, P2, h) /\ Dropped(C, C2, q, Len(q))
<1>0. q \in Seq(Conns \cup {"aborted"}) /\ Len(q) \in Nat
  BY DEF Droppable
<1>1. PICK u : IsLoop(u, s, q, Len(q)) /\ DropAll(s, q) = u[Len(q)]
  BY <1>0, DropAllIs
<1> DEFINE R(n) == \E C2, P2 : Is(u[n], C2, P2) /\ Base(C2, P2, h) /\ Dropped(C, C2, q, n)
           T == {n \in Nat : n <= Len(q) /\ ~R(n)}
<1> SUFFICES ASSUME T # {}
             PROVE  FALSE
  <2>1. Len(q) \in Nat /\ Len(q) <= Len(q)
    BY <1>0
  <2> QED BY <1>1, <2>1
<1>2. PICK x \in T : \A y \in T : x <= y
  BY LeastNat
<1>3. x \in Nat /\ x <= Len(q) /\ ~R(x)
  BY <1>2
<1>4. \A i \in 0 .. Len(q) : u[i] = IF i = 0 THEN s ELSE IF q[i] = "aborted" THEN u[i - 1] ELSE DropQueued(u[i - 1], q[i])
  BY <1>1 DEF IsLoop
<1>5. CASE x = 0
  <2>1. u[0] = s
    BY <1>0, <1>4
  <2>2. \A i \in 1 .. 0 : FALSE
    OBVIOUS
  <2>3. Dropped(C, C, q, 0)
    BY <2>2 DEF Dropped, Base, Types
  <2> QED BY <1>3, <1>5, <2>1, <2>3
<1>6. CASE x # 0
  <2> DEFINE n == x - 1
  <2>1. n \in Nat /\ n + 1 = x /\ n + 1 <= Len(q) /\ ~(x <= n) /\ x \in 0 .. Len(q) /\ n <= Len(q)
    BY <1>0, <1>3, <1>6
  <2>2. u[n + 1] = IF q[n + 1] = "aborted" THEN u[n] ELSE DropQueued(u[n], q[n + 1])
    BY <1>4, <1>6, <2>1
  <2>3. R(n)
    BY <1>2, <2>1
  <2> HIDE DEF n
  <2>4. PICK C1, P1 : Is(u[n], C1, P1) /\ Base(C1, P1, h) /\ Dropped(C, C1, q, n)
    BY <2>3
  <2>5. \E C2, P2 : /\ Is(IF q[n + 1] = "aborted" THEN u[n] ELSE DropQueued(u[n], q[n + 1]), C2, P2)
                    /\ Base(C2, P2, h) /\ Dropped(C, C2, q, n + 1)
    BY <2>1, <2>4, DropRound
  <2>6. R(n + 1)
    BY <2>2, <2>5
  <2> QED BY <1>3, <2>1, <2>6
<1> QED BY <1>5, <1>6

(* netconn_drain keeps the invariant, and leaves its netconn without       *)
(* mailboxes.                                                              *)
LEMMA DrainStep ==
  ASSUME NEW C, NEW P, NEW h, Base(C, P, h), Reach(C, h), NEW s, Is(s, C, P), NEW c \in Conns,
         h[c].pc \in {"idle", "eof"}
  PROVE  \E C2, P2 :
            /\ Is(netconn_drain(s, c), C2, P2) /\ Base(C2, P2, h) /\ Reach(C2, h)
            /\ C2[c].state = C[c].state /\ C2[c].pcb = C[c].pcb
            /\ C2[c].recvmbox = NoMbox /\ C2[c].acceptmbox = NoMbox
<1> DEFINE t == DrainRecv(s, c)
           C1 == [C EXCEPT ![c] = Drained(C[c])]
           q == C[c].acceptmbox.q
<1>0. /\ C \in [Conns -> ConnType] /\ h \in [Conns -> ThreadType] /\ C[c] \in ConnType
      /\ h[c] \in ThreadType /\ ConnOK(C[c], h[c]) /\ [h EXCEPT ![c] = h[c]] = h
  BY PairFacts
<1>1. C[c].used
  BY <1>0 DEF ConnOK, Control
<1>2. PICK P1 : Is(t, C1, P1) /\ Base(C1, P1, h)
  BY <1>1, DrainRecvStep
<1>3. /\ C1[c] = Drained(C[c]) /\ C1 \in [Conns -> ConnType] /\ \A d \in Conns : d # c => C1[d] = C[d]
      /\ C1[c].used = C[c].used /\ C1[c].state = C[c].state /\ C1[c].pcb = C[c].pcb
      /\ C1[c].recvmbox = NoMbox /\ C1[c].acceptmbox = C[c].acceptmbox
  BY <1>0, DrainedFields
<1> HIDE DEF C1, t
<1>4. q \in Seq(Conns \cup {"aborted", "nul"}) /\ ~NulIn(q) /\ Len(q) \in Nat /\ DOMAIN q = 1 .. Len(q)
  BY <1>0 DEF ConnType, Mbox, ConnOK, Boxes
<1>5. \A i \in 1 .. Len(q) : q[i] \in Conns \cup {"aborted"}
  BY <1>4 DEF NulIn
<1>6. \A i \in 1 .. Len(q), n \in Conns : q[i] = n => i \in Nat /\ InQueue(C, c, i, n)
  BY <1>4 DEF InQueue
<1>7. \A i \in 1 .. Len(q) : q[i] \in Conns => C[q[i]].used /\ h[q[i]].pc = "none" /\ q[i] # c
  BY <1>6 DEF Reach
<1>8. Droppable(C1, h, q)
  <2>1. q \in Seq(Conns \cup {"aborted"})
    BY <1>4, <1>5
  <2>2. \A i \in 1 .. Len(q) : q[i] \in Conns => C1[q[i]].used /\ h[q[i]].pc = "none"
    BY <1>3, <1>7
  <2>3. \A i, j \in 1 .. Len(q) : q[i] \in Conns /\ q[i] = q[j] => i = j
    BY <1>6 DEF Reach
  <2> QED BY <2>1, <2>2, <2>3 DEF Droppable
<1>9. PICK C2, P2 : Is(DropAll(t, q), C2, P2) /\ Base(C2, P2, h) /\ Dropped(C1, C2, q, Len(q))
  BY <1>2, <1>8, DropAllStep
<1>10. C2[c] = C1[c] /\ C2 \in [Conns -> ConnType]
  BY <1>7, <1>9 DEF Dropped
<1> DEFINE k == [C2[c] EXCEPT !.acceptmbox = NoMbox]
           C3 == [C2 EXCEPT ![c] = k]
<1>11. /\ k \in ConnType /\ k.used = C2[c].used /\ k.state = C2[c].state /\ k.innb = C2[c].innb
       /\ k.pcb = C2[c].pcb /\ k.msg = C2[c].msg /\ k.recvmbox = C2[c].recvmbox /\ k.acceptmbox = NoMbox
       /\ k.fatal = C2[c].fatal /\ k.write_offset = C2[c].write_offset /\ k.sem = C2[c].sem
       /\ k.api = C2[c].api
  <2>1. NoMbox \in Mbox(Conns \cup {"aborted", "nul"}) /\ C2[c] \in ConnType
    BY <1>10 DEF NoMbox, Mbox
  <2> QED BY <2>1 DEF ConnType
<1>12. Is(netconn_drain(s, c), C3, P2)
  <2>1. t.conn[c].acceptmbox.q = q
    BY <1>2, <1>3 DEF Is
  <2>2. netconn_drain(s, c) = [DropAll(t, q) EXCEPT !.conn[c].acceptmbox = NoMbox]
    BY <2>1 DEF netconn_drain, t
  <2> DEFINE v == DropAll(t, q)
  <2> HIDE DEF v
  <2>3. Is([v EXCEPT !.conn[c].acceptmbox = NoMbox], C3, P2)
    BY <1>9 DEF Is, v
  <2> QED BY <2>2, <2>3 DEF v
<1>13. \A d \in Conns : C3[d] = IF d = c THEN k ELSE C2[d]
  BY <1>10
<1> HIDE DEF k, C3
<1>14. Base(C3, P2, h)
  <2>1. /\ ConnOK(C2[c], h[c])
        /\ C2[c].pcb # NULL => Pair(c, C2[c], P2[C2[c].pcb], h[c])
    BY <1>9, PairFacts
  <2>2. ConnOK(k, h[c])
    <3>1. Control(k, h[c])
      BY <1>0, <1>11, <2>1 DEF ConnOK, Control
    <3>2. Boxes(k, h[c])
      BY <1>11, <2>1 DEF ConnOK, Boxes, NoMbox, NulIn
    <3>3. Count(k, h[c])
      BY <1>11, <2>1 DEF ConnOK, Count
    <3> QED BY <3>1, <3>2, <3>3 DEF ConnOK
  <2>3. k.pcb # NULL => Pair(c, k, P2[k.pcb], h[c])
    BY <1>11, <2>1 DEF Pair, Window
  <2>4. Base([C2 EXCEPT ![c] = k], P2, [h EXCEPT ![c] = h[c]])
    BY <1>0, <1>9, <1>11, <2>2, <2>3, ConnStep
  <2> QED BY <2>4, <1>0 DEF C3
<1>15. Reach(C3, h)
  <2> DEFINE Gone(n) == \E i \in 1 .. Len(q) : q[i] = n
  <2>1. \A d \in Conns : C2[d] = IF Gone(d) THEN NoConn ELSE C1[d]
    BY <1>9 DEF Dropped
  <2>2. \A d \in Conns : Gone(d) => C[d].used /\ h[d].pc = "none" /\ d # c /\ \E i \in Nat : InQueue(C, c, i, d)
    BY <1>6, <1>7
  <2>3. \A d \in Conns : Gone(d) => C[d].acceptmbox.q = <<>>
    <3>1. \A d \in Conns : ConnOK(C[d], h[d])
      BY DEF Base
    <3> QED BY <2>2, <3>1 DEF ConnOK, Control, Unaccepted, NoConn, NoMbox
  <2>3b. \A n \in Conns : (\E i \in Nat : InQueue(C, c, i, n)) => Gone(n)
    BY <1>4 DEF InQueue
  <2> HIDE DEF Gone
  <2>4. \A d \in Conns : C3[d].acceptmbox.q = IF d = c THEN <<>> ELSE C[d].acceptmbox.q
    BY <1>3, <1>11, <1>13, <2>1, <2>3 DEF NoConn, NoMbox
  <2>5. \A d, n \in Conns : \A i \in Nat : InQueue(C3, d, i, n) <=> d # c /\ InQueue(C, d, i, n)
    BY <2>4 DEF InQueue
  <2>6. \A d \in Conns : C3[d].used <=> C[d].used /\ ~Gone(d)
    BY <1>3, <1>10, <1>11, <1>13, <2>1, <2>2 DEF NoConn
  <2>7. \A d, n \in Conns : h[d].item = n \/ (\E i \in Nat : InQueue(C3, d, i, n)) =>
           C3[n].used /\ h[n].pc = "none"
    <3>1. SUFFICES ASSUME NEW d \in Conns, NEW n \in Conns,
                          h[d].item = n \/ (\E i \in Nat : InQueue(C3, d, i, n))
                   PROVE  C3[n].used /\ h[n].pc = "none"
      OBVIOUS
    <3>2. h[d].item = n \/ (d # c /\ \E i \in Nat : InQueue(C, d, i, n))
      BY <3>1, <2>5
    <3>3. C[n].used /\ h[n].pc = "none"
      BY <3>2 DEF Reach
    <3>4. ~Gone(n)
      BY <2>2, <3>2 DEF Reach
    <3> QED BY <3>3, <3>4, <2>6
  <2>8. \A d, e, n \in Conns : \A i \in Nat : ~(InQueue(C3, d, i, n) /\ h[e].item = n)
    BY <2>5 DEF Reach
  <2>9. \A d, e, n \in Conns : \A i, j \in Nat :
           InQueue(C3, d, i, n) /\ InQueue(C3, e, j, n) => d = e /\ i = j
    BY <2>5 DEF Reach
  <2>10. \A n \in Conns : C3[n].used /\ h[n].pc = "none" =>
           \E d \in Conns : h[d].item = n \/ \E i \in Nat : InQueue(C3, d, i, n)
    <3>1. SUFFICES ASSUME NEW n \in Conns, C3[n].used, h[n].pc = "none"
                   PROVE  \E d \in Conns : h[d].item = n \/ \E i \in Nat : InQueue(C3, d, i, n)
      OBVIOUS
    <3>2. C[n].used /\ ~Gone(n)
      BY <2>6, <3>1
    <3>3. PICK d \in Conns : h[d].item = n \/ \E i \in Nat : InQueue(C, d, i, n)
      BY <3>1, <3>2 DEF Reach
    <3>4. (\E i \in Nat : InQueue(C, d, i, n)) => d # c
      BY <2>3b, <3>2
    <3> QED BY <2>5, <3>3, <3>4
  <2>11. \A d, e, n \in Conns : h[d].item = n /\ h[e].item = n => d = e
    BY DEF Reach
  <2> QED BY <2>7, <2>8, <2>9, <2>10, <2>11 DEF Reach
<1>16. /\ C3[c].state = C[c].state /\ C3[c].pcb = C[c].pcb
       /\ C3[c].recvmbox = NoMbox /\ C3[c].acceptmbox = NoMbox
  BY <1>3, <1>10, <1>11, <1>13
<1> QED BY <1>12, <1>14, <1>15, <1>16

-----------------------------------------------------------------------------
(* Closing.                                                                *)

(* Its fields.                                                             *)
LEMMA CompletedFields ==
  ASSUME NEW o \in ConnType, NEW err \in Errors, NEW delayed \in BOOLEAN, delayed => o.sem = 0
  PROVE  LET k == Completed(o, err, delayed)
         IN  /\ k \in ConnType /\ k.used = o.used /\ k.state = "NONE" /\ k.innb = o.innb
             /\ k.pcb = o.pcb /\ k.msg = FALSE /\ k.recvmbox = o.recvmbox
             /\ k.acceptmbox = o.acceptmbox /\ k.fatal = o.fatal
             /\ k.write_offset = o.write_offset /\ k.sem = (IF delayed THEN 1 ELSE o.sem)
             /\ k.api = [o.api EXCEPT !.err = err] /\ k.api \in MsgType
             /\ k.api.err = err /\ k.api.shut = o.api.shut /\ k.api.nb = o.api.nb
             /\ k.api.len = o.api.len /\ k.api.timeo = o.api.timeo /\ k.api.late = o.api.late
             /\ k.api.given = o.api.given
<1> DEFINE a == [o.api EXCEPT !.err = err]
           n == IF delayed THEN o.sem + 1 ELSE o.sem
           k == Completed(o, err, delayed)
<1>1. o.api \in MsgType
  BY DEF ConnType
<1>2. /\ a \in MsgType /\ a.err = err /\ a.shut = o.api.shut /\ a.nb = o.api.nb
      /\ a.len = o.api.len /\ a.timeo = o.api.timeo /\ a.late = o.api.late /\ a.given = o.api.given
  BY <1>1 DEF MsgType, Errors
<1>3. n \in 0 .. 1 /\ n = (IF delayed THEN 1 ELSE o.sem)
  BY DEF ConnType
<1>4. k = [o EXCEPT !.api = a, !.msg = FALSE, !.state = "NONE", !.sem = n]
  BY DEF Completed, ConnType
<1>5. "NONE" \in States
  BY DEF States
<1> HIDE DEF a, n, k
<1>6. a \in MsgType
  BY <1>2
<1>7. n \in 0 .. 1
  BY <1>3
<1>8. k \in ConnType /\ k.used = o.used /\ k.state = "NONE" /\ k.innb = o.innb
      /\ k.pcb = o.pcb /\ k.msg = FALSE /\ k.recvmbox = o.recvmbox
      /\ k.acceptmbox = o.acceptmbox /\ k.fatal = o.fatal
      /\ k.write_offset = o.write_offset /\ k.sem = n /\ k.api = a
  BY <1>4, <1>5, <1>6, <1>7 DEF ConnType
<1> QED BY <1>2, <1>3, <1>8 DEF a, k

(* Complete changes the netconn only.                                      *)
LEMMA CompleteIs ==
  ASSUME NEW C \in [Conns -> ConnType], NEW P, NEW s, Is(s, C, P), NEW c \in Conns,
         NEW err, NEW delayed \in BOOLEAN
  PROVE  Is(Complete(s, c, err, delayed), [C EXCEPT ![c] = Completed(C[c], err, delayed)], P)
<1> DEFINE t == [s EXCEPT !.conn[c].api.err = err, !.conn[c].msg = FALSE, !.conn[c].state = "NONE"]
           k1 == [C[c] EXCEPT !.api.err = err, !.msg = FALSE, !.state = "NONE"]
<1>1. t.pcb = P /\ t.failed = FALSE
  BY DEF Is
<1>2. t.conn = [C EXCEPT ![c] = k1]
  BY DEF Is, ConnType
<1>3. t = [s EXCEPT !.conn = t.conn]
  BY DEF Is
<1> HIDE DEF t
<1>4. Is(t, t.conn, P)
  BY <1>1, <1>3 DEF Is
<1>5. Is(t, [C EXCEPT ![c] = k1], P)
  BY <1>2, <1>4
<1>6. CASE ~delayed
  <2>1. Complete(s, c, err, delayed) = t
    BY <1>6 DEF Complete, t
  <2>2. Completed(C[c], err, delayed) = k1
    BY <1>6 DEF Completed, ConnType
  <2> QED BY <1>5, <2>1, <2>2
<1>7. CASE delayed
  <2>1. Complete(s, c, err, delayed) = Signal(t, c)
    BY <1>7 DEF Complete, t
  <2>2. Completed(C[c], err, delayed) = [k1 EXCEPT !.sem = C[c].sem + 1]
    BY <1>7 DEF Completed, ConnType
  <2>3. k1.sem = C[c].sem
    BY DEF ConnType
  <2> DEFINE C1 == [C EXCEPT ![c] = k1]
  <2>4. C1[c] = k1 /\ [C1 EXCEPT ![c] = [k1 EXCEPT !.sem = C[c].sem + 1]] = [C EXCEPT ![c] = [k1 EXCEPT !.sem = C[c].sem + 1]]
    OBVIOUS
  <2> HIDE DEF k1, C1
  <2>5. Is(Signal(t, c), [C1 EXCEPT ![c] = [C1[c] EXCEPT !.sem = C1[c].sem + 1]], P)
    BY <1>5 DEF Is, Signal, C1
  <2> QED BY <2>1, <2>2, <2>3, <2>4, <2>5
<1> QED BY <1>6, <1>7

(* Its fields.                                                             *)
LEMMA UnlinkedFields ==
  ASSUME NEW o \in ConnType
  PROVE  LET k == Unlinked(o)
         IN  /\ k \in ConnType /\ k.used = o.used /\ k.state = o.state /\ k.innb = o.innb
             /\ k.pcb = NULL /\ k.msg = o.msg /\ k.recvmbox = o.recvmbox
             /\ k.acceptmbox = o.acceptmbox /\ k.fatal = o.fatal
             /\ k.write_offset = o.write_offset /\ k.sem = o.sem /\ k.api = o.api
  BY DEF Unlinked, ConnType

(* The end of a close that succeeded.                                      *)
LEMMA ClosedIs ==
  ASSUME NEW C \in [Conns -> ConnType], NEW P, NEW s, Is(s, C, P), NEW c \in Conns,
         NEW delayed \in BOOLEAN
  PROVE  Is(Complete([s EXCEPT !.conn[c].pcb = NULL], c, "OK", delayed),
            [C EXCEPT ![c] = Completed(Unlinked(C[c]), "OK", delayed)], P)
<1> DEFINE C1 == [C EXCEPT ![c] = Unlinked(C[c])]
           t == [s EXCEPT !.conn[c].pcb = NULL]
<1>1. Is(t, C1, P)
  BY DEF Is, Unlinked
<1>2. C1 \in [Conns -> ConnType] /\ C1[c] = Unlinked(C[c])
  BY UnlinkedFields
<1>3. \A k : [C1 EXCEPT ![c] = k] = [C EXCEPT ![c] = k]
  OBVIOUS
<1> HIDE DEF C1, t
<1>4. Is(Complete(t, c, "OK", delayed), [C1 EXCEPT ![c] = Completed(C1[c], "OK", delayed)], P)
  BY <1>1, <1>2, CompleteIs
<1> QED BY <1>2, <1>3, <1>4 DEF t

(* Its fields.                                                             *)
LEMMA DetachedFields ==
  ASSUME NEW o \in PcbType
  PROVE  LET r == Detached(o)
         IN  /\ r \in PcbType /\ r.st = o.st /\ r.arg = NULL /\ r.listener = o.listener
             /\ ~r.recv /\ ~r.sent /\ ~r.poll /\ ~r.err
             /\ r.accepts_pending = o.accepts_pending /\ r.rxclosed = o.rxclosed
             /\ r.refused = o.refused /\ r.out = o.out /\ r.pend = o.pend /\ r.unread = o.unread
  BY DEF Detached, PcbType

(* ClearCallbacks of a close.                                              *)
LEMMA ClearIs ==
  ASSUME NEW C, NEW P \in [Pcbs -> PcbType], NEW s, Is(s, C, P), NEW p \in Pcbs, P[p].st # "LISTEN"
  PROVE  Is(ClearCallbacks(s, p, "RDWR", TRUE), C, [P EXCEPT ![p] = Detached(P[p])])
<1> DEFINE o == P[p]
           r == [o EXCEPT !.arg = NULL, !.recv = o.recv /\ FALSE, !.sent = o.sent /\ FALSE,
                          !.poll = o.poll /\ FALSE, !.err = o.err /\ FALSE]
<1>1. s.pcb = P
  BY DEF Is
<1>2. ClearCallbacks(s, p, "RDWR", TRUE) = [s EXCEPT !.pcb[p] = r]
  BY <1>1 DEF ClearCallbacks
<1>3. r = Detached(o)
  BY DEF Detached
<1> HIDE DEF r
<1>4. Is([s EXCEPT !.pcb[p] = r], C, [P EXCEPT ![p] = r])
  BY DEF Is
<1> QED BY <1>2, <1>3, <1>4

(* The same for a listening pcb, which has no callbacks but accept.        *)
LEMMA ClearListenIs ==
  ASSUME NEW C, NEW P \in [Pcbs -> PcbType], NEW s, Is(s, C, P), NEW p \in Pcbs, P[p].st = "LISTEN"
  PROVE  Is(ClearCallbacks(s, p, "RDWR", TRUE), C, [P EXCEPT ![p] = [P[p] EXCEPT !.arg = NULL]])
<1> DEFINE r == [P[p] EXCEPT !.arg = NULL]
<1>1. s.pcb = P
  BY DEF Is
<1>2. ClearCallbacks(s, p, "RDWR", TRUE) = [s EXCEPT !.pcb[p] = r]
  BY <1>1 DEF ClearCallbacks
<1> HIDE DEF r
<1>4. Is([s EXCEPT !.pcb[p] = r], C, [P EXCEPT ![p] = r])
  BY DEF Is
<1> QED BY <1>2, <1>4 DEF r

(* tcp_close of a listening pcb.                                           *)
LEMMA CloseListenIs ==
  ASSUME NEW C, NEW U, NEW s, Is(s, C, U), NEW p, U[p].st = "LISTEN", U[p].unread = 0, NEW mem
  PROVE  tcp_close(s, p, mem).err = "OK" /\ Is(tcp_close(s, p, mem).s, C, Unlistened(U, p))
<1>1. s.pcb = U
  BY DEF Is
<1>2. ~(s.pcb[p].unread > 0)
  BY <1>1
<1>3. s.pcb[p].st = "LISTEN" /\ "LISTEN" # "CLOSED" /\ "LISTEN" # "SYN_SENT"
  BY <1>1
<1>4. tcp_close(s, p, mem) = tcp_close_shutdown(s, p, mem)
  BY <1>2, <1>3, Zenon DEF tcp_close
<1>5. tcp_close_shutdown(s, p, mem) = [s |-> tcp_listen_closed(s, p), err |-> "OK"]
  BY <1>3, Zenon DEF tcp_close_shutdown
<1>6. Is(tcp_listen_closed(s, p), C, Unlistened(U, p))
  BY <1>1 DEF Is, tcp_listen_closed, Unlistened
<1> QED BY <1>4, <1>5, <1>6

(* Its fields.                                                             *)
LEMMA RxClosedFields ==
  ASSUME NEW o \in PcbType
  PROVE  LET r == RxClosed(o)
         IN  /\ r \in PcbType /\ r.st = o.st /\ r.arg = o.arg /\ r.listener = o.listener
             /\ r.recv = o.recv /\ r.sent = o.sent /\ r.poll = o.poll /\ r.err = o.err
             /\ r.accepts_pending = o.accepts_pending /\ r.rxclosed
             /\ r.refused = o.refused /\ r.out = o.out /\ r.pend = o.pend /\ r.unread = o.unread
  BY DEF RxClosed, PcbType

(* tcp_close of a pcb that never was connected: it is freed.               *)
LEMMA CloseUnconnectedIs ==
  ASSUME NEW C, NEW U \in [Pcbs -> PcbType], NEW s, Is(s, C, U), NEW p \in Pcbs,
         U[p].st \in {"CLOSED", "SYN_SENT"}, U[p].unread = 0, Purgeable(U, p), NEW mem
  PROVE  /\ tcp_close(s, p, mem).err = "OK"
         /\ Is(tcp_close(s, p, mem).s, C, [Unpended(U, p) EXCEPT ![p] = NoPcb])
<1> DEFINE t == [s EXCEPT !.pcb[p].rxclosed = TRUE]
           V == [U EXCEPT ![p] = RxClosed(U[p])]
<1>1. s.pcb = U
  BY DEF Is
<1>2. Is(t, C, V)
  BY DEF Is, RxClosed
<1>3. V \in [Pcbs -> PcbType] /\ V[p].st = U[p].st /\ V[p].listener = U[p].listener
      /\ V[p].pend = U[p].pend /\ \A q \in Pcbs : q # p => V[q] = U[q]
  BY RxClosedFields
<1>4. t.pcb[p].st = U[p].st
  BY <1>2, <1>3 DEF Is
<1>5. ~(s.pcb[p].unread > 0) /\ s.pcb[p].st # "LISTEN"
  BY <1>1
<1>6. tcp_close(s, p, mem) = tcp_close_shutdown(t, p, mem)
  BY <1>5, Zenon DEF tcp_close
<1> HIDE DEF t, V
<1>7. t.pcb[p].st \in {"CLOSED", "SYN_SENT"}
  BY <1>4
<1>8. tcp_close_shutdown(t, p, mem) = [s |-> Freed(t, p), err |-> "OK"]
  <2>1. t.pcb[p].st # "LISTEN" /\ t.pcb[p].st # "ESTABLISHED" /\ t.pcb[p].st # "CLOSE_WAIT"
    BY <1>7
  <2> QED BY <1>7, <2>1, Zenon DEF tcp_close_shutdown
<1>9. Purgeable(V, p)
  BY <1>3 DEF Purgeable, Slot
<1>10. Is(Freed(t, p), C, [Unpended(V, p) EXCEPT ![p] = NoPcb])
  BY <1>2, <1>3, <1>9, FreedIs
<1>11. [Unpended(V, p) EXCEPT ![p] = NoPcb] = [Unpended(U, p) EXCEPT ![p] = NoPcb]
  BY <1>3 DEF Unpended
<1> QED BY <1>6, <1>8, <1>10, <1>11

(* tcp_close of a connection with unread data: an RST, and the pcb is      *)
(* freed or enters TIME_WAIT.                                              *)
LEMMA CloseUnreadIs ==
  ASSUME NEW C, NEW U \in [Pcbs -> PcbType], NEW s, Is(s, C, U), NEW p \in Pcbs,
         U[p].st \in {"ESTABLISHED", "CLOSE_WAIT"}, U[p].unread > 0, Slot(U, p),
         NoCallbacks(U[p]), NEW mem
  PROVE  RstSent(tcp_close(s, p, mem), C, U, p)
<1> DEFINE t == [s EXCEPT !.pcb[p].rxclosed = TRUE]
           v == RxClosed(U[p])
           V == [U EXCEPT ![p] = v]
<1>1. s.pcb = U
  BY DEF Is
<1>2. Is(t, C, V)
  BY DEF Is, RxClosed
<1>3a. U[p] \in PcbType
  OBVIOUS
<1>3. /\ v \in PcbType /\ v.st = U[p].st /\ v.arg = U[p].arg /\ v.listener = U[p].listener
      /\ v.recv = U[p].recv /\ v.sent = U[p].sent /\ v.poll = U[p].poll /\ v.err = U[p].err
      /\ v.pend = U[p].pend
  BY <1>3a, RxClosedFields
<1> HIDE DEF v
<1>4. V \in [Pcbs -> PcbType] /\ V[p] = v /\ \A q \in Pcbs : q # p => V[q] = U[q]
  BY <1>3
<1>5. s.pcb[p].unread > 0 /\ s.pcb[p].st # "LISTEN"
  BY <1>1
<1> HIDE DEF t, V
<1>6. Purgeable(V, p)
  BY <1>3, <1>4 DEF Purgeable, Slot
<1>7. \A r : [Unpended(V, p) EXCEPT ![p] = r] = [Unpended(U, p) EXCEPT ![p] = r]
  BY <1>3, <1>4 DEF Unpended
<1>8. CASE U[p].st = "ESTABLISHED"
  <2> DEFINE x == tcp_pcb_purge(t, p)
             w == Unpended(V, p)[p]
             W == [Unpended(V, p) EXCEPT ![p] = Purged(w)]
             r == [Purged(w) EXCEPT !.st = "TIME_WAIT"]
  <2>1. Is(x, C, W)
    BY <1>2, <1>3, <1>4, <1>6, <1>8, PurgeIs
  <2>2. s.pcb[p].st = "ESTABLISHED"
    BY <1>1, <1>8
  <2>3. tcp_close(s, p, mem) = [s |-> [x EXCEPT !.pcb[p].st = "TIME_WAIT"], err |-> "OK"]
    BY <1>5, <2>2, Zenon DEF tcp_close, t
  <2>4. /\ w \in PcbType /\ w.st = v.st /\ w.arg = v.arg /\ w.listener = v.listener
        /\ w.recv = v.recv /\ w.sent = v.sent /\ w.poll = v.poll /\ w.err = v.err
        /\ ~(w.listener # NULL /\ w.pend)
    BY <1>4, UnpendedSelf
  <2>5. W[p] = Purged(w) /\ [W EXCEPT ![p] = r] = [Unpended(V, p) EXCEPT ![p] = r]
    BY DEF Unpended
  <2> HIDE DEF x, w, W
  <2>6. Is([x EXCEPT !.pcb[p].st = "TIME_WAIT"], C, [W EXCEPT ![p] = [W[p] EXCEPT !.st = "TIME_WAIT"]])
    BY <2>1 DEF Is
  <2>7. 0 \in 0 .. SND_BUF
    BY NetconnAssumption
  <2>8. /\ r \in PcbType /\ r.st = "TIME_WAIT" /\ r.arg = w.arg /\ r.listener = w.listener
        /\ r.recv = w.recv /\ r.sent = w.sent /\ r.poll = w.poll /\ r.err = w.err /\ r.pend = w.pend
    BY <2>4, <2>7 DEF Purged, PcbType, TcpStates
  <2>9. PcbOK(r) /\ LetGo(U[p], r)
    BY <2>8, <2>4, <1>3 DEF PcbOK, LetGo, NoCallbacks, Orphan, Owned
  <2>10. Is(tcp_close(s, p, mem).s, C, [Unpended(U, p) EXCEPT ![p] = r])
    BY <2>3, <2>5, <2>6, <1>7
  <2> HIDE DEF r
  <2> QED BY <2>3, <2>8, <2>9, <2>10 DEF RstSent
<1>9. CASE U[p].st = "CLOSE_WAIT"
  <2>1. s.pcb[p].st = "CLOSE_WAIT" /\ s.pcb[p].st # "ESTABLISHED"
    BY <1>1, <1>9
  <2>2. tcp_close(s, p, mem) = [s |-> Freed(t, p), err |-> "OK"]
    BY <1>5, <2>1, Zenon DEF tcp_close, t
  <2>3. Is(Freed(t, p), C, [Unpended(V, p) EXCEPT ![p] = NoPcb])
    BY <1>2, <1>4, <1>6, FreedIs
  <2> QED BY <2>2, <2>3, <1>7, NoPcbIsOK DEF RstSent
<1> QED BY <1>8, <1>9

(* tcp_close of a connection with everything read: a FIN, if there is      *)
(* memory for it.                                                          *)
LEMMA CloseFinIs ==
  ASSUME NEW C, NEW U \in [Pcbs -> PcbType], NEW s, Is(s, C, U), NEW p \in Pcbs,
         U[p].st \in {"ESTABLISHED", "CLOSE_WAIT"}, U[p].unread = 0, NoCallbacks(U[p]), NEW mem
  PROVE  (mem => FinSent(tcp_close(s, p, mem), C, U, p)) /\ (~mem => FinNoMem(tcp_close(s, p, mem), C, U, p))
<1> DEFINE t == [s EXCEPT !.pcb[p].rxclosed = TRUE]
           v == RxClosed(U[p])
           V == [U EXCEPT ![p] = v]
           next == IF U[p].st = "ESTABLISHED" THEN "FIN_WAIT" ELSE "LAST_ACK"
           r == [v EXCEPT !.st = next]
<1>1. s.pcb = U
  BY DEF Is
<1>2. Is(t, C, V)
  BY DEF Is, RxClosed
<1>3a. U[p] \in PcbType
  OBVIOUS
<1>3. /\ v \in PcbType /\ v.st = U[p].st /\ v.arg = U[p].arg /\ v.listener = U[p].listener
      /\ v.recv = U[p].recv /\ v.sent = U[p].sent /\ v.poll = U[p].poll /\ v.err = U[p].err
      /\ v.pend = U[p].pend
  BY <1>3a, RxClosedFields
<1>5. ~(s.pcb[p].unread > 0) /\ s.pcb[p].st # "LISTEN"
  BY <1>1
<1>6. tcp_close(s, p, mem) = tcp_close_shutdown(t, p, mem)
  BY <1>5, Zenon DEF tcp_close
<1> HIDE DEF v
<1>4. V[p] = v
  OBVIOUS
<1>7. t.pcb[p].st = U[p].st
  BY <1>2, <1>3, <1>4 DEF Is
<1>8. [V EXCEPT ![p] = r] = [U EXCEPT ![p] = r]
  OBVIOUS
<1> HIDE DEF t, V
<1>9. tcp_close_shutdown(t, p, mem) =
        IF mem THEN [s |-> [t EXCEPT !.pcb[p].st = next], err |-> "OK"] ELSE [s |-> t, err |-> "MEM"]
  <2>1. CASE U[p].st = "ESTABLISHED"
    <3>1. t.pcb[p].st = "ESTABLISHED" /\ next = "FIN_WAIT"
      BY <1>7, <2>1
    <3> HIDE DEF next
    <3>2. tcp_close_shutdown(t, p, mem) =
            IF mem THEN [s |-> [t EXCEPT !.pcb[p].st = "FIN_WAIT"], err |-> "OK"] ELSE [s |-> t, err |-> "MEM"]
      BY <3>1, Zenon DEF tcp_close_shutdown
    <3> QED BY <3>1, <3>2
  <2>2. CASE U[p].st = "CLOSE_WAIT"
    <3>1. t.pcb[p].st = "CLOSE_WAIT" /\ next = "LAST_ACK"
      BY <1>7, <2>2
    <3> HIDE DEF next
    <3>2. tcp_close_shutdown(t, p, mem) =
            IF mem THEN [s |-> [t EXCEPT !.pcb[p].st = "LAST_ACK"], err |-> "OK"] ELSE [s |-> t, err |-> "MEM"]
      BY <3>1, Zenon DEF tcp_close_shutdown
    <3> QED BY <3>1, <3>2
  <2> QED BY <2>1, <2>2
<1>10. CASE ~mem
  BY <1>2, <1>6, <1>9, <1>10 DEF V, v, FinNoMem
<1>11. CASE mem
  <2>1. next \in {"FIN_WAIT", "LAST_ACK"} /\ next \in TcpStates
    BY DEF TcpStates
  <2> HIDE DEF next
  <2>2. /\ r \in PcbType /\ r.st = next /\ r.arg = v.arg /\ r.listener = v.listener
        /\ r.recv = v.recv /\ r.sent = v.sent /\ r.poll = v.poll /\ r.err = v.err /\ r.pend = v.pend
    BY <1>3, <2>1 DEF PcbType
  <2>3. Is([t EXCEPT !.pcb[p].st = next], C, [V EXCEPT ![p] = [V[p] EXCEPT !.st = next]])
    BY <1>2 DEF Is
  <2>4. Is(tcp_close(s, p, mem).s, C, [U EXCEPT ![p] = r]) /\ tcp_close(s, p, mem).err = "OK"
    BY <1>4, <1>6, <1>8, <1>9, <1>11, <2>3
  <2> HIDE DEF r
  <2>5. PcbOK(r) /\ r.st \notin Owned /\ BacklogKept(U[p], r)
    BY <1>3, <2>1, <2>2 DEF PcbOK, Orphan, Owned, BacklogKept, NoCallbacks
  <2> QED BY <1>11, <2>2, <2>4, <2>5 DEF FinSent
<1> QED BY <1>10, <1>11

(* It succeeded.                                                           *)
LEMMA CloseSucceeds ==
  ASSUME NEW s, NEW c, NEW mem, NEW delayed, s.conn[c].api.shut = "RDWR",
         CloseResult(s, c, mem).err = "OK"
  PROVE  lwip_netconn_do_close_internal(s, c, mem, delayed) =
           Complete(UnlinkPcb(CloseResult(s, c, mem).s, c), c, "OK", delayed)
<1>1. \A p : Closes(s, p, "RDWR") = TRUE
  BY DEF Closes
<1>2. CloseResult(s, c, mem).err # "MEM"
  OBVIOUS
<1> QED BY <1>1, <1>2, Zenon DEF lwip_netconn_do_close_internal, CloseResult, CloseCore, UnlinkPcb

(* It found no memory, and the time to wait has passed.                    *)
LEMMA CloseExpires ==
  ASSUME NEW s, NEW c, NEW mem, NEW delayed, s.conn[c].api.shut = "RDWR",
         CloseResult(s, c, mem).err = "MEM", s.conn[c].api.late
  PROVE  lwip_netconn_do_close_internal(s, c, mem, delayed) =
           Complete(UnlinkPcb(tcp_abandon(CloseResult(s, c, mem).s, s.conn[c].pcb), c), c, "OK", delayed)
<1>1. \A p : Closes(s, p, "RDWR") = TRUE
  BY DEF Closes
<1> QED BY <1>1, Zenon DEF lwip_netconn_do_close_internal, CloseResult, CloseCore, UnlinkPcb

(* It found no memory, and waits.                                          *)
LEMMA CloseRetries ==
  ASSUME NEW s, NEW c, NEW mem, NEW delayed, s.conn[c].api.shut = "RDWR",
         CloseResult(s, c, mem).err = "MEM", ~s.conn[c].api.late
  PROVE  lwip_netconn_do_close_internal(s, c, mem, delayed) =
           RestoreCallbacks(CloseResult(s, c, mem).s, c, s.conn[c].pcb, "RDWR")
<1>1. \A p : Closes(s, p, "RDWR") = TRUE
  BY DEF Closes
<1> QED BY <1>1, Zenon DEF lwip_netconn_do_close_internal, CloseResult, CloseCore

(* The same, with the netconn.                                             *)
LEMMA UnlinkedIs ==
  ASSUME NEW C \in [Conns -> ConnType], NEW P, NEW s, Is(s, C, P), NEW c \in Conns,
         NEW delayed \in BOOLEAN
  PROVE  Is(Complete(UnlinkPcb(s, c), c, "OK", delayed),
            [C EXCEPT ![c] = Completed(Unlinked(C[c]), "OK", delayed)], P)
BY ClosedIs DEF UnlinkPcb

(* Its fields.                                                             *)
LEMMA RestoredFields ==
  ASSUME NEW o \in PcbType, NEW c \in Conns
  PROVE  LET r == Restored(o, c)
         IN  /\ r \in PcbType /\ r.st = o.st /\ r.arg = c /\ r.listener = o.listener
             /\ ~r.recv /\ r.sent /\ r.poll /\ r.err
             /\ r.accepts_pending = o.accepts_pending /\ r.rxclosed
             /\ r.refused = o.refused /\ r.out = o.out /\ r.pend = o.pend /\ r.unread = o.unread
<1> DEFINE d == Detached(o)
           v == RxClosed(d)
           r == Restored(o, c)
<1>1. /\ d \in PcbType /\ d.st = o.st /\ d.listener = o.listener /\ ~d.recv
      /\ d.accepts_pending = o.accepts_pending
      /\ d.refused = o.refused /\ d.out = o.out /\ d.pend = o.pend /\ d.unread = o.unread
  BY DetachedFields
<1> HIDE DEF d
<1>2. /\ v \in PcbType /\ v.st = d.st /\ v.listener = d.listener /\ v.recv = d.recv
      /\ v.accepts_pending = d.accepts_pending /\ v.rxclosed
      /\ v.refused = d.refused /\ v.out = d.out /\ v.pend = d.pend /\ v.unread = d.unread
  BY <1>1, RxClosedFields
<1> HIDE DEF v
<1>3. r = [v EXCEPT !.sent = TRUE, !.poll = TRUE, !.err = TRUE, !.arg = c]
  BY DEF Restored, v, d
<1> HIDE DEF r
<1>4. v \in PcbType
  BY <1>2
<1>5. /\ r \in PcbType /\ r.st = v.st /\ r.arg = c /\ r.listener = v.listener
      /\ r.recv = v.recv /\ r.sent /\ r.poll /\ r.err
      /\ r.accepts_pending = v.accepts_pending /\ r.rxclosed = v.rxclosed
      /\ r.refused = v.refused /\ r.out = v.out /\ r.pend = v.pend /\ r.unread = v.unread
  BY <1>3, <1>4 DEF PcbType
<1> QED BY <1>1, <1>2, <1>5 DEF r

(* Pcbs that differ in p only, and not in whom it counts for.              *)
LEMMA UnpendedSame ==
  ASSUME NEW P, NEW V, NEW p \in Pcbs, \A q \in Pcbs : q # p => V[q] = P[q],
         V[p].listener = P[p].listener, V[p].pend = P[p].pend, NEW x
  PROVE  [Unpended(V, p) EXCEPT ![p] = x] = [Unpended(P, p) EXCEPT ![p] = x]
BY DEF Unpended

(* The callbacks are cleared first.                                        *)
LEMMA CloseCoreIs ==
  ASSUME NEW s, NEW C, NEW P, NEW c, NEW p, CloseReady(s, C, P, c, p)
  PROVE  /\ s.conn[c].pcb = p /\ s.conn[c].api.shut = "RDWR" /\ s.conn[c].api.late = C[c].api.late
         /\ P[p].st # "LISTEN" => Is(CloseCore(s, c), C, [P EXCEPT ![p] = Detached(P[p])])
         /\ P[p].st = "LISTEN" => Is(CloseCore(s, c), C, [P EXCEPT ![p] = [P[p] EXCEPT !.arg = NULL]])
<1> DEFINE t == Check(s, s.conn[c].state = "CLOSE" /\ s.conn[c].pcb # NULL /\ s.conn[c].msg)
<1>1. s.conn = C /\ s.conn[c].pcb = p /\ p # NULL /\ Is(s, C, P) /\ p \in Pcbs /\ P \in [Pcbs -> PcbType]
  BY NetconnAssumption DEF CloseReady, Is
<1>2. s.conn[c].state = "CLOSE" /\ s.conn[c].pcb # NULL /\ s.conn[c].msg
  BY <1>1 DEF CloseReady
<1>3. Is(t, C, P)
  BY <1>1, <1>2, CheckIs
<1>4. CloseCore(s, c) = ClearCallbacks(t, p, "RDWR", TRUE)
  BY <1>1, Zenon DEF CloseCore
<1> HIDE DEF t
<1>5. ASSUME P[p].st # "LISTEN"
      PROVE  Is(CloseCore(s, c), C, [P EXCEPT ![p] = Detached(P[p])])
  <2>1. Is(ClearCallbacks(t, p, "RDWR", TRUE), C, [P EXCEPT ![p] = Detached(P[p])])
    BY <1>1, <1>3, <1>5, ClearIs
  <2> QED BY <1>4, <2>1, Zenon
<1>6. ASSUME P[p].st = "LISTEN"
      PROVE  Is(CloseCore(s, c), C, [P EXCEPT ![p] = [P[p] EXCEPT !.arg = NULL]])
  <2>1. Is(ClearCallbacks(t, p, "RDWR", TRUE), C, [P EXCEPT ![p] = [P[p] EXCEPT !.arg = NULL]])
    BY <1>1, <1>3, <1>6, ClearListenIs
  <2> QED BY <1>4, <2>1, Zenon
<1> QED BY <1>1, <1>5, <1>6 DEF CloseReady

(* The netconn of a close that succeeded.                                  *)
LEMMA CloseDone ==
  ASSUME NEW s, NEW C, NEW P, NEW c, NEW p, CloseReady(s, C, P, c, p),
         NEW mem, NEW delayed \in BOOLEAN, NEW Q,
         CloseResult(s, c, mem).err = "OK", Is(CloseResult(s, c, mem).s, C, Q)
  PROVE  Is(lwip_netconn_do_close_internal(s, c, mem, delayed),
            [C EXCEPT ![c] = Completed(Unlinked(C[c]), "OK", delayed)], Q)
<1>0. s.conn[c].api.shut = "RDWR"
  BY DEF CloseReady, Is
<1>1. s.conn[c].api.shut = "RDWR" /\ C \in [Conns -> ConnType] /\ c \in Conns
  BY <1>0 DEF CloseReady
<1>2. lwip_netconn_do_close_internal(s, c, mem, delayed) =
        Complete(UnlinkPcb(CloseResult(s, c, mem).s, c), c, "OK", delayed)
  BY <1>1, CloseSucceeds, Zenon
<1> DEFINE v == CloseResult(s, c, mem).s
<1>3. Is(v, C, Q)
  OBVIOUS
<1> HIDE DEF v
<1>4. Is(Complete(UnlinkPcb(v, c), c, "OK", delayed), [C EXCEPT ![c] = Completed(Unlinked(C[c]), "OK", delayed)], Q)
  BY <1>1, <1>3, UnlinkedIs
<1> QED BY <1>2, <1>4, Zenon DEF v

(* The pcb once its callbacks are cleared, before tcp_close.               *)
LEMMA CloseCorePcb ==
  ASSUME NEW s, NEW C, NEW P, NEW c, NEW p, CloseReady(s, C, P, c, p), P[p].st # "LISTEN"
  PROVE  LET U == CorePcbs(P, p)
         IN  /\ Is(CloseCore(s, c), C, U) /\ U \in [Pcbs -> PcbType] /\ p \in Pcbs
             /\ \A mem : CloseResult(s, c, mem) = tcp_close(CloseCore(s, c), p, mem)
             /\ U[p] = Detached(P[p]) /\ \A x : [U EXCEPT ![p] = x] = [P EXCEPT ![p] = x]
             /\ U[p].st = P[p].st /\ U[p].listener = P[p].listener /\ U[p].pend = P[p].pend
             /\ U[p].unread = P[p].unread /\ NoCallbacks(U[p]) /\ Purgeable(U, p) /\ Slot(U, p)
             /\ \A x : [Unpended(U, p) EXCEPT ![p] = x] = [Unpended(P, p) EXCEPT ![p] = x]
             /\ \A q \in Pcbs : q # p => U[q] = P[q]
<1> DEFINE u == CloseCore(s, c)
           d == Detached(P[p])
           U == CorePcbs(P, p)
<1>1. P \in [Pcbs -> PcbType] /\ p \in Pcbs /\ P[p] \in PcbType /\ PcbOK(P[p]) /\ Slot(P, p) /\ P[p].st \in Owned
  BY DEF CloseReady
<1>2. Is(u, C, U)
  BY CloseCoreIs DEF CorePcbs
<1>3. \A mem : CloseResult(s, c, mem) = tcp_close(u, p, mem)
  <2>1. s.conn[c].pcb = p
    BY DEF CloseReady, Is
  <2> QED BY <2>1, Zenon DEF CloseResult
<1>4. /\ d \in PcbType /\ d.st = P[p].st /\ d.listener = P[p].listener
      /\ d.pend = P[p].pend /\ d.unread = P[p].unread /\ d.arg = NULL
      /\ ~d.recv /\ ~d.sent /\ ~d.poll /\ ~d.err
  BY <1>1, DetachedFields
<1>4a. U = [P EXCEPT ![p] = d]
  BY DEF CorePcbs
<1> HIDE DEF d, u, U
<1>5. U \in [Pcbs -> PcbType] /\ U[p] = d /\ \A q \in Pcbs : q # p => U[q] = P[q]
  BY <1>1, <1>4, <1>4a
<1>6. NoCallbacks(U[p])
  BY <1>4, <1>5 DEF NoCallbacks
<1>7. Slot(U, p)
  BY <1>1, <1>4, <1>5 DEF Slot
<1>8. Purgeable(U, p)
  BY <1>1, <1>4, <1>5, <1>7 DEF Purgeable, PcbOK, Owned
<1>9. \A x : [Unpended(U, p) EXCEPT ![p] = x] = [Unpended(P, p) EXCEPT ![p] = x]
  <2>1. U[p].listener = P[p].listener /\ U[p].pend = P[p].pend
    BY <1>4, <1>5
  <2> QED BY <1>1, <1>5, <2>1, UnpendedSame
<1>10. U[p] = Detached(P[p])
  BY <1>5 DEF d
<1>11. \A x : [U EXCEPT ![p] = x] = [P EXCEPT ![p] = x]
  BY <1>4a
<1>12. U[p].st = P[p].st /\ U[p].listener = P[p].listener /\ U[p].pend = P[p].pend
       /\ U[p].unread = P[p].unread
  BY <1>4, <1>5
<1> QED BY <1>1, <1>2, <1>3, <1>5, <1>6, <1>7, <1>8, <1>9, <1>10, <1>11, <1>12, Zenon DEF u, U

(* A close that ends at once: the pcb is let go with its slot.             *)
LEMMA CloseRstEnds ==
  ASSUME NEW s, NEW C, NEW P, NEW c, NEW p, CloseReady(s, C, P, c, p), P[p].st # "LISTEN",
         NEW mem, NEW delayed \in BOOLEAN, RstSent(CloseResult(s, c, mem), C, CorePcbs(P, p), p)
  PROVE  CloseEnds(lwip_netconn_do_close_internal(s, c, mem, delayed), C, P, c, p,
                   Completed(Unlinked(C[c]), "OK", delayed))
<1> DEFINE U == CorePcbs(P, p)
<1>1. CloseResult(s, c, mem).err = "OK"
  BY DEF RstSent
<1>2. PICK r \in PcbType : Is(CloseResult(s, c, mem).s, C, [Unpended(U, p) EXCEPT ![p] = r]) /\ PcbOK(r) /\ LetGo(U[p], r)
  BY DEF RstSent
<1>4. U[p].listener = P[p].listener /\ U[p].pend = P[p].pend /\ \A q \in Pcbs : q # p => U[q] = P[q]
  BY CloseCorePcb
<1>4a. p \in Pcbs
  BY DEF CloseReady
<1> HIDE DEF U
<1>3. [Unpended(U, p) EXCEPT ![p] = r] = [Unpended(P, p) EXCEPT ![p] = r]
  BY <1>4, <1>4a, UnpendedSame, SMTT(30)
<1>5. LetGo(P[p], r)
  BY <1>2, <1>4 DEF LetGo
<1>6. Is(CloseResult(s, c, mem).s, C, [Unpended(P, p) EXCEPT ![p] = r])
  BY <1>2, <1>3
<1>7. Is(lwip_netconn_do_close_internal(s, c, mem, delayed),
         [C EXCEPT ![c] = Completed(Unlinked(C[c]), "OK", delayed)], [Unpended(P, p) EXCEPT ![p] = r])
  BY <1>1, <1>6, CloseDone
<1> QED BY <1>2, <1>5, <1>7 DEF CloseEnds

(* A close that sends a FIN.                                               *)
LEMMA CloseFinEnds ==
  ASSUME NEW s, NEW C, NEW P, NEW c, NEW p, CloseReady(s, C, P, c, p), P[p].st # "LISTEN",
         NEW mem, NEW delayed \in BOOLEAN, FinSent(CloseResult(s, c, mem), C, CorePcbs(P, p), p)
  PROVE  CloseEnds(lwip_netconn_do_close_internal(s, c, mem, delayed), C, P, c, p,
                   Completed(Unlinked(C[c]), "OK", delayed))
<1> DEFINE U == CorePcbs(P, p)
<1>1. CloseResult(s, c, mem).err = "OK"
  BY DEF FinSent
<1>2. PICK r \in PcbType : Is(CloseResult(s, c, mem).s, C, [U EXCEPT ![p] = r]) /\ PcbOK(r)
                           /\ r.st \notin Owned /\ BacklogKept(U[p], r)
  BY DEF FinSent
<1>3. \A x : [U EXCEPT ![p] = x] = [P EXCEPT ![p] = x]
  BY CloseCorePcb
<1>4. U[p].listener = P[p].listener /\ U[p].pend = P[p].pend /\ U[p].st = P[p].st
  BY CloseCorePcb
<1> HIDE DEF U
<1>4a. P[p].st # "SYN_RCVD"
  BY DEF CloseReady, Owned
<1>5. BacklogKept(P[p], r)
  BY <1>2, <1>4, <1>4a DEF BacklogKept
<1>6. Is(CloseResult(s, c, mem).s, C, [P EXCEPT ![p] = r])
  BY <1>2, <1>3
<1>7. Is(lwip_netconn_do_close_internal(s, c, mem, delayed),
         [C EXCEPT ![c] = Completed(Unlinked(C[c]), "OK", delayed)], [P EXCEPT ![p] = r])
  BY <1>1, <1>6, CloseDone
<1> QED BY <1>2, <1>5, <1>7 DEF CloseEnds

(* The close of a listening netconn.                                       *)
LEMMA CloseListenEnds ==
  ASSUME NEW s, NEW C, NEW P, NEW c, NEW p, CloseReady(s, C, P, c, p), P[p].st = "LISTEN",
         NEW mem, NEW delayed \in BOOLEAN
  PROVE  CloseEnds(lwip_netconn_do_close_internal(s, c, mem, delayed), C, P, c, p,
                   Completed(Unlinked(C[c]), "OK", delayed))
<1> DEFINE u == CloseCore(s, c)
           o == [P[p] EXCEPT !.arg = NULL]
           U == [P EXCEPT ![p] = o]
<1>1. P \in [Pcbs -> PcbType] /\ p \in Pcbs /\ P[p] \in PcbType /\ PcbOK(P[p])
  BY DEF CloseReady
<1>2. Is(u, C, U)
  BY CloseCoreIs
<1>3. s.conn[c].pcb = p
  BY DEF CloseReady, Is
<1>4. CloseResult(s, c, mem) = tcp_close(u, p, mem)
  BY <1>3, Zenon DEF CloseResult
<1>5. o.st = "LISTEN" /\ o.unread = 0
  BY <1>1 DEF PcbOK, PcbType
<1> HIDE DEF u, o
<1>6. U[p].st = "LISTEN" /\ U[p].unread = 0
  BY <1>1, <1>5
<1>7. Unlistened(U, p) = Unlistened(P, p)
  BY DEF Unlistened
<1> HIDE DEF U
<1>8. tcp_close(u, p, mem).err = "OK" /\ Is(tcp_close(u, p, mem).s, C, Unlistened(U, p))
  BY <1>2, <1>6, CloseListenIs
<1>9. CloseResult(s, c, mem).err = "OK" /\ Is(CloseResult(s, c, mem).s, C, Unlistened(P, p))
  BY <1>4, <1>7, <1>8
<1>10. Is(lwip_netconn_do_close_internal(s, c, mem, delayed),
         [C EXCEPT ![c] = Completed(Unlinked(C[c]), "OK", delayed)], Unlistened(P, p))
  BY <1>9, CloseDone
<1> QED BY <1>10 DEF CloseEnds

(* Without memory for the FIN: the close is over, or it waits.             *)
LEMMA CloseNoMem ==
  ASSUME NEW s, NEW C, NEW P, NEW c, NEW p, CloseReady(s, C, P, c, p),
         P[p].st \in {"ESTABLISHED", "CLOSE_WAIT"},
         NEW mem, NEW delayed \in BOOLEAN, FinNoMem(CloseResult(s, c, mem), C, CorePcbs(P, p), p)
  PROVE  LET R == lwip_netconn_do_close_internal(s, c, mem, delayed)
         IN  \/ CloseEnds(R, C, P, c, p, Completed(Unlinked(C[c]), "OK", delayed))
             \/ CloseWaits(R, C, P, c, p)
<1> DEFINE R == lwip_netconn_do_close_internal(s, c, mem, delayed)
           U == CorePcbs(P, p)
           v == RxClosed(U[p])
           V == [U EXCEPT ![p] = v]
           x == CloseResult(s, c, mem).s
<1>a. C \in [Conns -> ConnType] /\ c \in Conns /\ P \in [Pcbs -> PcbType] /\ p \in Pcbs
  BY DEF CloseReady
<1>b. s.conn[c].pcb = p /\ s.conn[c].api.shut = "RDWR"
  BY DEF CloseReady, Is
<1>1. CloseResult(s, c, mem).err = "MEM" /\ Is(x, C, V)
  BY DEF FinNoMem
<1>2. /\ U \in [Pcbs -> PcbType] /\ U[p] = Detached(P[p])
      /\ U[p].st = P[p].st /\ U[p].listener = P[p].listener /\ U[p].pend = P[p].pend
      /\ NoCallbacks(U[p]) /\ Slot(U, p) /\ \A q \in Pcbs : q # p => U[q] = P[q]
  BY CloseCorePcb
<1>2a. \A y : [U EXCEPT ![p] = y] = [P EXCEPT ![p] = y]
  BY CloseCorePcb
<1>3. v = RxClosed(Detached(P[p]))
  BY <1>2
<1> HIDE DEF U
<1>4a. U[p] \in PcbType
  BY <1>2, <1>a
<1>4. /\ v \in PcbType /\ v.st = U[p].st /\ v.listener = U[p].listener /\ v.pend = U[p].pend
      /\ v.err = U[p].err /\ v.arg = U[p].arg
  BY <1>4a, RxClosedFields
<1> HIDE DEF v, x
<1>5. V \in [Pcbs -> PcbType] /\ V[p] = v /\ \A q \in Pcbs : q # p => V[q] = P[q]
  BY <1>2, <1>4, <1>a
<1>6. \A y : [V EXCEPT ![p] = y] = [P EXCEPT ![p] = y]
  BY <1>2a
<1>6a. \A q \in Pcbs : q # p => V[q] = U[q]
  BY <1>2, <1>5
<1> HIDE DEF V
<1>7. CASE s.conn[c].api.late
  <2>0. Slot(V, p)
    BY <1>2, <1>4, <1>5, <1>6a, <1>a DEF Slot
  <2>1. Purgeable(V, p) /\ ~V[p].err
    BY <1>2, <1>4, <1>5, <2>0 DEF Purgeable, NoCallbacks
  <2> DEFINE y == tcp_abandon(x, p)
             Q == [Unpended(V, p) EXCEPT ![p] = NoPcb]
  <2>2. Is(y, C, Q)
    BY <1>1, <1>5, <1>a, <2>1, AbandonOrphanIs
  <2>3. R = Complete(UnlinkPcb(tcp_abandon(CloseResult(s, c, mem).s, s.conn[c].pcb), c), c, "OK", delayed)
    BY <1>1, <1>7, <1>b, CloseExpires, Zenon
  <2>4. R = Complete(UnlinkPcb(y, c), c, "OK", delayed)
    BY <1>b, <2>3, Zenon DEF x
  <2>5. V[p].listener = P[p].listener /\ V[p].pend = P[p].pend
    BY <1>2, <1>4, <1>5
  <2>6. Q = [Unpended(P, p) EXCEPT ![p] = NoPcb]
    BY <1>5, <1>a, <2>5, UnpendedSame
  <2> HIDE DEF y, Q
  <2>7. Is(Complete(UnlinkPcb(y, c), c, "OK", delayed), [C EXCEPT ![c] = Completed(Unlinked(C[c]), "OK", delayed)], Q)
    BY <1>a, <2>2, UnlinkedIs
  <2>8. Is(R, [C EXCEPT ![c] = Completed(Unlinked(C[c]), "OK", delayed)], [Unpended(P, p) EXCEPT ![p] = NoPcb])
    BY <2>4, <2>6, <2>7, Zenon
  <2>9. P[p].st # "LISTEN" /\ NoPcb \in PcbType /\ PcbOK(NoPcb) /\ LetGo(P[p], NoPcb)
    BY NoPcbIsOK
  <2> QED BY <2>8, <2>9, Zenon DEF CloseEnds
<1>8. CASE ~s.conn[c].api.late
  <2> DEFINE y == Check(x, x.pcb[p].st # "LISTEN")
             w == [v EXCEPT !.sent = TRUE, !.poll = TRUE, !.err = TRUE, !.arg = c]
  <2>1. R = RestoreCallbacks(CloseResult(s, c, mem).s, c, s.conn[c].pcb, "RDWR")
    BY <1>1, <1>8, <1>b, CloseRetries, Zenon
  <2>2. R = RestoreCallbacks(x, c, p, "RDWR")
    BY <1>b, <2>1, Zenon DEF x
  <2>3. x.pcb = V /\ x.pcb[p] = v /\ x.pcb[p].st # "LISTEN"
    BY <1>1, <1>2, <1>4, <1>5 DEF Is
  <2>4. Is(y, C, V)
    BY <1>1, <2>3, CheckIs
  <2>5. RestoreCallbacks(x, c, p, "RDWR") = [y EXCEPT !.pcb[p] = [v EXCEPT !.sent = @ \/ "RDWR" # "RD", !.poll = TRUE, !.err = TRUE, !.arg = c]]
    BY <2>3, Zenon DEF RestoreCallbacks
  <2>6. w = Restored(P[p], c)
    BY <1>3 DEF Restored
  <2> HIDE DEF y
  <2>7. Is([y EXCEPT !.pcb[p] = w], C, [V EXCEPT ![p] = w])
    BY <2>4 DEF Is
  <2>8. [v EXCEPT !.sent = @ \/ "RDWR" # "RD", !.poll = TRUE, !.err = TRUE, !.arg = c] = w
    OBVIOUS
  <2> HIDE DEF w
  <2>9. Is(R, C, [V EXCEPT ![p] = w])
    BY <2>2, <2>5, <2>7, <2>8, Zenon
  <2>10. Is(R, C, [P EXCEPT ![p] = Restored(P[p], c)])
    BY <1>6, <2>6, <2>9
  <2> QED BY <2>10 DEF CloseWaits
<1> QED BY <1>7, <1>8

(* All the ways in which a close can end.                                  *)
LEMMA CloseInternalIs ==
  ASSUME NEW s, NEW C, NEW P, NEW c, NEW p, CloseReady(s, C, P, c, p),
         NEW mem \in BOOLEAN, NEW delayed \in BOOLEAN
  PROVE  LET R == lwip_netconn_do_close_internal(s, c, mem, delayed)
         IN  \/ CloseEnds(R, C, P, c, p, Completed(Unlinked(C[c]), "OK", delayed))
             \/ CloseWaits(R, C, P, c, p)
<1>1. P[p].st \in Owned /\ P[p].unread \in Nat /\ PcbOK(P[p])
  BY DEF CloseReady, PcbType
<1>2. CASE P[p].st = "LISTEN"
  BY <1>2, CloseListenEnds
<1>3. CASE P[p].st # "LISTEN"
  <2> DEFINE u == CloseCore(s, c)
             U == CorePcbs(P, p)
             r == CloseResult(s, c, mem)
  <2>1. /\ Is(u, C, U) /\ U \in [Pcbs -> PcbType] /\ p \in Pcbs
        /\ U[p].st = P[p].st /\ U[p].unread = P[p].unread /\ NoCallbacks(U[p])
        /\ Purgeable(U, p) /\ Slot(U, p)
    BY <1>3, CloseCorePcb
  <2>2. r = tcp_close(u, p, mem)
    BY <1>3, CloseCorePcb
  <2> HIDE DEF u, U, r
  <2>3. CASE P[p].st \in {"CLOSED", "SYN_SENT"}
    <3>1. U[p].unread = 0 /\ U[p].st \in {"CLOSED", "SYN_SENT"}
      BY <1>1, <2>1, <2>3 DEF PcbOK
    <3>2. tcp_close(u, p, mem).err = "OK" /\ Is(tcp_close(u, p, mem).s, C, [Unpended(U, p) EXCEPT ![p] = NoPcb])
      BY <2>1, <3>1, CloseUnconnectedIs
    <3>3. RstSent(r, C, U, p)
      BY <2>2, <3>2, NoPcbIsOK DEF RstSent
    <3> QED BY <1>3, <3>3, CloseRstEnds DEF r, U
  <2>4. CASE P[p].st \in {"ESTABLISHED", "CLOSE_WAIT"} /\ P[p].unread > 0
    <3>1. U[p].unread > 0 /\ U[p].st \in {"ESTABLISHED", "CLOSE_WAIT"}
      BY <2>1, <2>4
    <3>2. RstSent(r, C, U, p)
      BY <2>1, <2>2, <3>1, CloseUnreadIs
    <3> QED BY <1>3, <3>2, CloseRstEnds DEF r, U
  <2>5. CASE P[p].st \in {"ESTABLISHED", "CLOSE_WAIT"} /\ P[p].unread = 0
    <3>1. U[p].unread = 0 /\ U[p].st \in {"ESTABLISHED", "CLOSE_WAIT"}
      BY <2>1, <2>5
    <3>2. (mem => FinSent(tcp_close(u, p, mem), C, U, p)) /\ (~mem => FinNoMem(tcp_close(u, p, mem), C, U, p))
      BY <2>1, <3>1, CloseFinIs
    <3>3. CASE mem
      <4>1. FinSent(r, C, U, p)
        BY <2>2, <3>2, <3>3, Zenon
      <4> QED BY <1>3, <4>1, CloseFinEnds DEF r, U
    <3>4. CASE ~mem
      <4>1. FinNoMem(r, C, U, p)
        BY <2>2, <3>2, <3>4, Zenon
      <4> QED BY <2>5, <4>1, CloseNoMem DEF r, U
    <3> QED BY <3>3, <3>4
  <2> QED BY <1>1, <1>3, <2>3, <2>4, <2>5 DEF Owned
<1> QED BY <1>2, <1>3

(* The end of a close keeps the invariant.                                 *)
LEMMA CloseEndsStep ==
  ASSUME NEW C, NEW P, NEW h, Base(C, P, h), NEW c \in Conns, NEW p \in Pcbs, C[c].pcb = p,
         NEW R, NEW C0, NEW k0, C0 = [C EXCEPT ![c] = k0], NEW k, CloseEnds(R, C0, P, c, p, k)
  PROVE  \E P2 : Is(R, [C EXCEPT ![c] = k], P2) /\ Fits(C, P2, h, c)
<1>1. [C0 EXCEPT ![c] = k] = [C EXCEPT ![c] = k]
  OBVIOUS
<1>2. CASE P[p].st # "LISTEN" /\ \E r \in PcbType : /\ Is(R, [C0 EXCEPT ![c] = k], [Unpended(P, p) EXCEPT ![p] = r])
                                                    /\ PcbOK(r) /\ LetGo(P[p], r)
  <2>1. PICK r \in PcbType : /\ Is(R, [C0 EXCEPT ![c] = k], [Unpended(P, p) EXCEPT ![p] = r])
                             /\ PcbOK(r) /\ LetGo(P[p], r)
    BY <1>2
  <2> DEFINE P2 == [Unpended(P, p) EXCEPT ![p] = r]
  <2>2. Is(R, [C EXCEPT ![c] = k], P2)
    BY <1>1, <2>1
  <2>3. Fits(C, P2, h, c)
    BY <1>2, <2>1, ReleaseStep DEF Fits
  <2> QED BY <2>2, <2>3
<1>3. CASE \E r \in PcbType : /\ Is(R, [C0 EXCEPT ![c] = k], [P EXCEPT ![p] = r])
                              /\ PcbOK(r) /\ r.st \notin Owned /\ BacklogKept(P[p], r)
  <2>1. PICK r \in PcbType : /\ Is(R, [C0 EXCEPT ![c] = k], [P EXCEPT ![p] = r])
                             /\ PcbOK(r) /\ r.st \notin Owned /\ BacklogKept(P[p], r)
    BY <1>3
  <2> DEFINE P2 == [P EXCEPT ![p] = r]
  <2>2. Is(R, [C EXCEPT ![c] = k], P2)
    BY <1>1, <2>1
  <2>3. Fits(C, P2, h, c)
    BY <2>1, PairStep DEF Fits
  <2> QED BY <2>2, <2>3
<1>4. CASE P[p].st = "LISTEN" /\ Is(R, [C0 EXCEPT ![c] = k], Unlistened(P, p))
  <2>1. Is(R, [C EXCEPT ![c] = k], Unlistened(P, p))
    BY <1>1, <1>4
  <2>2. Fits(C, Unlistened(P, p), h, c)
    BY <1>4, UnlistenStep DEF Fits
  <2> QED BY <2>1, <2>2
<1> QED BY <1>2, <1>3, <1>4 DEF CloseEnds

(* A close that waits keeps the invariant.                                 *)
LEMMA CloseWaitsStep ==
  ASSUME NEW C, NEW P, NEW h, Base(C, P, h), NEW c \in Conns, NEW p \in Pcbs, C[c].pcb = p,
         P[p].st \in {"ESTABLISHED", "CLOSE_WAIT"},
         NEW k \in ConnType, NEW x \in ThreadType, ConnOK(k, x), k.pcb = p, k.state = "CLOSE"
  PROVE  Base([C EXCEPT ![c] = k], [P EXCEPT ![p] = Restored(P[p], c)], [h EXCEPT ![c] = x])
<1> DEFINE r == Restored(P[p], c)
<1>1. P[p] \in PcbType /\ PcbOK(P[p])
  BY DEF Base, Types
<1>2. /\ r \in PcbType /\ r.st = P[p].st /\ r.arg = c /\ r.listener = P[p].listener
      /\ ~r.recv /\ r.sent /\ r.poll /\ r.err
      /\ r.accepts_pending = P[p].accepts_pending /\ r.pend = P[p].pend /\ r.refused = P[p].refused
  BY <1>1, RestoredFields
<1> HIDE DEF r
<1>3. PcbOK(r)
  BY <1>1, <1>2 DEF PcbOK, Orphan
<1>4. BacklogKept(P[p], r)
  BY <1>2 DEF BacklogKept
<1>5. ~k.recvmbox.valid
  BY DEF ConnOK, Boxes
<1>6. Pair(c, k, r, x)
  BY <1>2, <1>5 DEF Pair, Owned
<1>7. p # NULL
  BY NetconnAssumption
<1>8. Base([C EXCEPT ![c] = k], [P EXCEPT ![p] = r], [h EXCEPT ![c] = x])
  BY <1>2, <1>3, <1>4, <1>6, <1>7, PairStep
<1> QED BY <1>8 DEF r

(* Its fields.                                                             *)
LEMMA StartedFields ==
  ASSUME NEW o \in ConnType, NEW state \in States, NEW a \in MsgType
  PROVE  LET k == Started(o, state, a)
         IN  /\ k \in ConnType /\ k.used = o.used /\ k.state = state /\ k.innb = o.innb
             /\ k.pcb = o.pcb /\ k.msg /\ k.recvmbox = o.recvmbox
             /\ k.acceptmbox = o.acceptmbox /\ k.fatal = o.fatal
             /\ k.write_offset = o.write_offset /\ k.sem = o.sem /\ k.api = a
<1> DEFINE k == Started(o, state, a)
<1>1. k \in ConnType
  BY DEF Started, ConnType
<1>2. /\ k.used = o.used /\ k.state = state /\ k.innb = o.innb /\ k.pcb = o.pcb /\ k.msg
      /\ k.recvmbox = o.recvmbox
  BY DEF Started, ConnType
<1>3. /\ k.acceptmbox = o.acceptmbox /\ k.fatal = o.fatal
      /\ k.write_offset = o.write_offset /\ k.sem = o.sem /\ k.api = a
  BY DEF Started, ConnType
<1> QED BY <1>1, <1>2, <1>3

(* What StartCall does to the state.                                       *)
LEMMA StartedIs ==
  ASSUME NEW C \in [Conns -> ConnType], NEW P, NEW s, Is(s, C, P), NEW c \in Conns,
         ~C[c].msg, C[c].write_offset = 0, NEW state, NEW a
  PROVE  Is(StartCall(s, c, state, a), [C EXCEPT ![c] = Started(C[c], state, a)], P)
<1> DEFINE y == Check(s, ~s.conn[c].msg /\ s.conn[c].write_offset = 0)
           t == [y EXCEPT !.conn[c].state = state, !.conn[c].msg = TRUE, !.conn[c].api = a]
<1>0. s.conn = C
  BY DEF Is
<1>1. Is(y, C, P)
  BY <1>0, CheckIs
<1> HIDE DEF y
<1>2. t.pcb = P /\ t.failed = FALSE
  BY <1>1 DEF Is
<1>3. t.conn = [C EXCEPT ![c] = [C[c] EXCEPT !.state = state, !.msg = TRUE, !.api = a]]
  BY <1>1 DEF Is, ConnType
<1>4. t = [y EXCEPT !.conn = t.conn]
  BY <1>1 DEF Is
<1> HIDE DEF t
<1>5. Is(t, t.conn, P)
  BY <1>1, <1>2, <1>4 DEF Is
<1>6. Is(t, [C EXCEPT ![c] = Started(C[c], state, a)], P)
  BY <1>3, <1>5 DEF Started
<1> QED BY <1>6, Zenon DEF t, y, StartCall

(* A step of the system that ends in such a state.                         *)
LEMMA BecomesIs ==
  ASSUME NEW s, NEW C, NEW P, Is(s, C, P), Becomes(s)
  PROVE  conn' = C /\ pcb' = P /\ failed' = FALSE
BY DEF Becomes, Is

(* An api_msg is well-formed.                                              *)
LEMMA NoMsgType == NoMsg \in MsgType
<1>1. 0 \in 0 .. SIZE
  BY NetconnAssumption
<1> QED BY <1>1 DEF NoMsg, MsgType

(* The api_msg of a close is well-formed.                                  *)
LEMMA CloseMsgType ==
  ASSUME NEW shut \in {"RD", "WR", "RDWR"}, NEW late \in BOOLEAN
  PROVE  CloseMsg(shut, late) \in MsgType /\ CloseMsg(shut, late).shut = shut
<1>1. NoMsg \in MsgType
  BY NoMsgType
<1> QED BY <1>1 DEF MsgType, CloseMsg

(* The api_msg of a write is well-formed.                                  *)
LEMMA WriteMsgType ==
  ASSUME NEW nb \in BOOLEAN, NEW timeo \in BOOLEAN, NEW late \in BOOLEAN
  PROVE  LET a == WriteMsg(nb, timeo, late)
         IN  a \in MsgType /\ a.given = 0 /\ a.shut = "RDWR"
<1>1. NoMsg \in MsgType
  BY NoMsgType
<1>2. NoMsg.given = 0 /\ NoMsg.shut = "RDWR"
  BY DEF NoMsg
<1> QED BY <1>1, <1>2 DEF MsgType, WriteMsg

(* Its fields.                                                             *)
LEMMA ReturnedFields ==
  ASSUME NEW o \in ConnType
  PROVE  LET k == Returned(o)
         IN  /\ k \in ConnType /\ k.used = o.used /\ k.state = o.state /\ k.innb = o.innb
             /\ k.pcb = o.pcb /\ k.msg = o.msg /\ k.recvmbox = o.recvmbox
             /\ k.acceptmbox = o.acceptmbox /\ k.fatal = o.fatal
             /\ k.write_offset = o.write_offset /\ k.sem = o.sem /\ k.api = NoMsg
<1>1. NoMsg \in MsgType
  BY NoMsgType
<1> QED BY <1>1 DEF Returned, ConnType

(* The state that a call leaves when it returns.                           *)
LEMMA ReturnedIs ==
  ASSUME NEW C \in [Conns -> ConnType], NEW P, NEW s, NEW c \in Conns, NEW k, Is(s, [C EXCEPT ![c] = k], P)
  PROVE  Is([s EXCEPT !.conn[c].api = NoMsg], [C EXCEPT ![c] = Returned(k)], P)
<1> DEFINE D == [C EXCEPT ![c] = k]
<1>0. \A x : [D EXCEPT ![c] = x] = [C EXCEPT ![c] = x]
  OBVIOUS
<1>1. D[c] = k
  OBVIOUS
<1> HIDE DEF D
<1>2. Is([s EXCEPT !.conn[c].api = NoMsg], [D EXCEPT ![c] = Returned(D[c])], P)
  BY DEF Is, Returned, D
<1> QED BY <1>0, <1>1, <1>2

(* The invariant gives what it needs.                                      *)
LEMMA ClosableFacts ==
  ASSUME NEW C, NEW P, NEW h, NEW s, NEW c, NEW p, Closable(C, P, h, s, c, p)
  PROVE  /\ C \in [Conns -> ConnType] /\ P \in [Pcbs -> PcbType] /\ h \in [Conns -> ThreadType]
         /\ c \in Conns /\ p \in Pcbs /\ p # NULL /\ C[c] \in ConnType /\ h[c] \in ThreadType /\ P[p] \in PcbType
         /\ C[c].used /\ ~C[c].msg /\ C[c].write_offset = 0 /\ C[c].sem = 0 /\ h[c].item = NULL
         /\ C[c].state \in {"NONE", "LISTEN", "CONNECT"}
         /\ P[p].st \in Owned /\ PcbOK(P[p]) /\ Slot(P, p)
         /\ (P[p].st = "LISTEN" <=> C[c].state = "LISTEN")
         /\ (P[p].st = "SYN_SENT" <=> C[c].state = "CONNECT")
         /\ (C[c].innb => C[c].state = "CONNECT")
         /\ P[p].arg = c /\ (P[p].st # "LISTEN" => P[p].err /\ P[p].poll)
<1>1. Base(C, P, h) /\ c \in Conns /\ p \in Pcbs /\ h[c].pc \in {"idle", "eof"} /\ C[c].pcb = p
  BY DEF Closable
<1>2. p # NULL
  BY <1>1, NetconnAssumption
<1>3. /\ C[c] \in ConnType /\ h[c] \in ThreadType /\ ConnOK(C[c], h[c])
      /\ C \in [Conns -> ConnType] /\ P \in [Pcbs -> PcbType] /\ h \in [Conns -> ThreadType]
      /\ P[p] \in PcbType /\ PcbOK(P[p]) /\ P[p].arg = c /\ Pair(c, C[c], P[p], h[c]) /\ P[p].st \in Owned
  BY <1>1, <1>2, PairFacts
<1>4. Slot(P, p)
  BY <1>1, SlotOK
<1>5. h[c].pc \in Quiet /\ h[c].pc \notin {"do_recv", "accepted", "none", "free"} \cup Waits
  BY <1>1 DEF Quiet, Waits
<1>6. /\ C[c].used /\ ~C[c].msg /\ C[c].sem = 0 /\ C[c].state \in {"NONE", "LISTEN", "CONNECT"}
      /\ (C[c].innb => C[c].state = "CONNECT")
  BY <1>3, <1>5 DEF ConnOK, Control
<1>7. C[c].write_offset = 0
  BY <1>1, <1>2, <1>3, <1>6 DEF ConnOK, Count
<1>8. h[c].item = NULL
  BY <1>3, <1>5 DEF ConnOK, Boxes
<1>9. /\ (P[p].st = "LISTEN" <=> C[c].state = "LISTEN")
      /\ (P[p].st = "SYN_SENT" <=> C[c].state = "CONNECT")
      /\ (P[p].st # "LISTEN" => P[p].err /\ P[p].poll)
  BY <1>3 DEF Pair
<1> QED BY <1>1, <1>2, <1>3, <1>4, <1>6, <1>7, <1>8, <1>9

(* A thread goes elsewhere.                                                *)
LEMMA GotoFields ==
  ASSUME NEW h \in [Conns -> ThreadType], NEW c \in Conns, NEW pc \in Pcs
  PROVE  LET x == [h[c] EXCEPT !.pc = pc]
         IN  x \in ThreadType /\ x.pc = pc /\ x.item = h[c].item
BY DEF ThreadType

(* netconn_shutdown(RDWR), netconn_close and netconn_delete.               *)
LEMMA CloseTcpRdwr ==
  ASSUME NEW C, NEW P, NEW s, NEW c, NEW p, Closable(C, P, th, s, c, p),
         NEW late \in BOOLEAN, NEW mem \in BOOLEAN, NEW wait, NEW done,
         \/ wait = "close" /\ done = "idle" /\ C[c].state # "CONNECT"
         \/ wait = "delconn" /\ done = "free",
         CloseTcp(s, c, "RDWR", late, mem, wait, done)
  PROVE  failed' = FALSE /\ Base(conn', pcb', th') /\ Reach(conn', th')
<1> DEFINE h == th
           a == CloseMsg("RDWR", late)
           k0 == Started(C[c], "CLOSE", a)
           C0 == [C EXCEPT ![c] = k0]
           s0 == StartCall(s, c, "CLOSE", a)
           r == lwip_netconn_do_close_internal(s0, c, mem, FALSE)
           o == Completed(Unlinked(k0), "OK", FALSE)
           Xw == [th[c] EXCEPT !.pc = wait]
           Xd == [th[c] EXCEPT !.pc = done]
<1>1. IF r.conn[c].state = "CLOSE" THEN Becomes(r) /\ Goto(c, wait)
      ELSE Becomes([r EXCEPT !.conn[c].api = NoMsg]) /\ Goto(c, done)
  BY Zenon DEF CloseTcp, CloseMsg, StartCall
<1>2. \A pc : Goto(c, pc) => th' = [th EXCEPT ![c] = [th[c] EXCEPT !.pc = pc]]
  BY DEF Goto
<1>3. /\ C \in [Conns -> ConnType] /\ P \in [Pcbs -> PcbType] /\ h \in [Conns -> ThreadType]
      /\ c \in Conns /\ p \in Pcbs /\ p # NULL /\ C[c] \in ConnType /\ h[c] \in ThreadType /\ P[p] \in PcbType
      /\ C[c].used /\ ~C[c].msg /\ C[c].write_offset = 0 /\ C[c].sem = 0 /\ h[c].item = NULL
      /\ C[c].state \in {"NONE", "LISTEN", "CONNECT"}
      /\ P[p].st \in Owned /\ PcbOK(P[p]) /\ Slot(P, p)
      /\ (P[p].st = "LISTEN" <=> C[c].state = "LISTEN")
      /\ (P[p].st = "SYN_SENT" <=> C[c].state = "CONNECT")
      /\ (C[c].innb => C[c].state = "CONNECT")
  BY ClosableFacts
<1>4. /\ Base(C, P, th) /\ Reach(C, th) /\ Is(s, C, P) /\ th[c].pc \in {"idle", "eof"} /\ C[c].pcb = p
      /\ C[c].recvmbox = NoMbox /\ C[c].acceptmbox = NoMbox
  BY DEF Closable
<1>5. a \in MsgType /\ a.shut = "RDWR"
  BY CloseMsgType
<1> HIDE DEF a
<1>6. /\ k0 \in ConnType /\ k0.used = C[c].used /\ k0.state = "CLOSE" /\ k0.innb = C[c].innb
      /\ k0.pcb = C[c].pcb /\ k0.msg /\ k0.recvmbox = C[c].recvmbox
      /\ k0.acceptmbox = C[c].acceptmbox /\ k0.write_offset = C[c].write_offset
      /\ k0.sem = C[c].sem /\ k0.api = a
  <2>1. "CLOSE" \in States
    BY DEF States
  <2>2. C[c] \in ConnType /\ a \in MsgType
    BY <1>3, <1>5
  <2>3. \A z \in States : LET k == Started(C[c], z, a)
         IN  /\ k \in ConnType /\ k.used = C[c].used /\ k.state = z /\ k.innb = C[c].innb
             /\ k.pcb = C[c].pcb /\ k.msg /\ k.recvmbox = C[c].recvmbox
             /\ k.acceptmbox = C[c].acceptmbox /\ k.fatal = C[c].fatal
             /\ k.write_offset = C[c].write_offset /\ k.sem = C[c].sem /\ k.api = a
    BY <2>2, StartedFields
  <2> QED BY <2>1, <2>3, Zenon
<1>7. Is(s0, C0, P)
  BY <1>3, <1>4, StartedIs
<1> HIDE DEF k0, s0
<1>8. C0 \in [Conns -> ConnType] /\ C0[c] = k0
  BY <1>3, <1>6
<1>9. CloseReady(s0, C0, P, c, p)
  BY <1>3, <1>4, <1>5, <1>6, <1>7, <1>8 DEF CloseReady
<1>10. CloseEnds(r, C0, P, c, p, Completed(Unlinked(C0[c]), "OK", FALSE)) \/ CloseWaits(r, C0, P, c, p)
  BY <1>9, CloseInternalIs
<1> HIDE DEF r
<1>11. /\ Xw \in ThreadType /\ Xw.pc = wait /\ Xw.item = NULL
       /\ Xd \in ThreadType /\ Xd.pc = done /\ Xd.item = NULL
  <2>1. wait \in Pcs /\ done \in Pcs
    BY DEF Pcs, Waits
  <2> QED BY <1>3, <2>1, GotoFields
<1> HIDE DEF Xw, Xd
<1>12. CASE CloseEnds(r, C0, P, c, p, o)
  <2>0. PICK P2 : Is(r, [C EXCEPT ![c] = o], P2) /\ Fits(C, P2, th, c)
    BY <1>3, <1>4, <1>12, CloseEndsStep
  <2>1. /\ o \in ConnType /\ o.used = k0.used /\ o.state = "NONE" /\ o.innb = k0.innb
        /\ o.pcb = NULL /\ o.msg = FALSE /\ o.recvmbox = k0.recvmbox
        /\ o.acceptmbox = k0.acceptmbox /\ o.write_offset = k0.write_offset /\ o.sem = k0.sem
    <3> DEFINE u == Unlinked(k0)
    <3>1. /\ u \in ConnType /\ u.used = k0.used /\ u.innb = k0.innb
          /\ u.pcb = NULL /\ u.recvmbox = k0.recvmbox
          /\ u.acceptmbox = k0.acceptmbox /\ u.write_offset = k0.write_offset /\ u.sem = k0.sem
      BY <1>6, UnlinkedFields
    <3> HIDE DEF u
    <3>2. LET z == Completed(u, "OK", FALSE)
          IN  /\ z \in ConnType /\ z.used = u.used /\ z.state = "NONE" /\ z.innb = u.innb
              /\ z.pcb = u.pcb /\ z.msg = FALSE /\ z.recvmbox = u.recvmbox
              /\ z.acceptmbox = u.acceptmbox /\ z.write_offset = u.write_offset /\ z.sem = u.sem
      <4>1. "OK" \in Errors /\ u \in ConnType /\ FALSE \in BOOLEAN
        BY <3>1 DEF Errors
      <4> QED BY <4>1, CompletedFields, ZenonT(40)
    <3> QED BY <3>1, <3>2 DEF u
  <2> HIDE DEF o
  <2> DEFINE k == Returned(o)
  <2>2. /\ k \in ConnType /\ k.used = o.used /\ k.state = o.state /\ k.innb = o.innb
        /\ k.pcb = o.pcb /\ k.msg = o.msg /\ k.recvmbox = o.recvmbox
        /\ k.acceptmbox = o.acceptmbox
        /\ k.write_offset = o.write_offset /\ k.sem = o.sem
    BY <2>1, ReturnedFields
  <2>3. r.conn = [C EXCEPT ![c] = o] /\ r.conn[c].state # "CLOSE"
    BY <1>3, <2>0, <2>1 DEF Is
  <2>4. Becomes([r EXCEPT !.conn[c].api = NoMsg]) /\ th' = [th EXCEPT ![c] = Xd]
    BY <1>1, <1>2, <2>3 DEF Xd
  <2>5. Is([r EXCEPT !.conn[c].api = NoMsg], [C EXCEPT ![c] = k], P2)
    BY <1>3, <2>0, ReturnedIs
  <2>6. conn' = [C EXCEPT ![c] = k] /\ pcb' = P2 /\ failed' = FALSE
    BY <2>4, <2>5, BecomesIs
  <2> HIDE DEF k
  <2>7. ConnOK(k, Xd)
    <3>1. /\ k.used /\ k.state = "NONE" /\ k.pcb = NULL /\ ~k.msg /\ k.recvmbox = NoMbox
          /\ k.acceptmbox = NoMbox /\ k.write_offset = 0 /\ k.sem = 0 /\ (k.innb => done = "free")
      BY <1>3, <1>4, <1>6, <2>1, <2>2
    <3>2. Control(k, Xd)
      BY <3>1, <1>11 DEF Control, Quiet, Waits
    <3>3. Boxes(k, Xd)
      BY <3>1, <1>11 DEF Boxes, NoMbox, NulIn
    <3>4. Count(k, Xd)
      BY <3>1, <1>11 DEF Count
    <3> QED BY <3>2, <3>3, <3>4 DEF ConnOK
  <2>8. Base(conn', pcb', th')
    BY <1>11, <2>0, <2>1, <2>2, <2>4, <2>6, <2>7 DEF Fits
  <2>9. Reach([C EXCEPT ![c] = k], [th EXCEPT ![c] = Xd])
    <3>1. k.used = C[c].used /\ k.acceptmbox.q = C[c].acceptmbox.q
      BY <1>6, <2>1, <2>2
    <3>2. Xd.item = th[c].item /\ (Xd.pc = "none" <=> th[c].pc = "none")
      BY <1>3, <1>4, <1>11
    <3> QED BY <1>3, <1>4, <3>1, <3>2, ReachKept
  <2> QED BY <2>4, <2>6, <2>8, <2>9
<1>13. CASE CloseWaits(r, C0, P, c, p)
  <2>1. P[p].st \in {"ESTABLISHED", "CLOSE_WAIT"} /\ Is(r, C0, [P EXCEPT ![p] = Restored(P[p], c)])
    BY <1>13 DEF CloseWaits
  <2>2. r.conn = C0 /\ r.conn[c].state = "CLOSE"
    BY <1>6, <1>8, <2>1 DEF Is
  <2>3. Becomes(r) /\ th' = [th EXCEPT ![c] = Xw]
    BY <1>1, <1>2, <2>2 DEF Xw
  <2>4. conn' = C0 /\ pcb' = [P EXCEPT ![p] = Restored(P[p], c)] /\ failed' = FALSE
    BY <2>1, <2>3, BecomesIs
  <2>5. ConnOK(k0, Xw)
    <3>1. /\ k0.used /\ k0.state = "CLOSE" /\ k0.pcb # NULL /\ k0.msg /\ k0.recvmbox = NoMbox
          /\ k0.acceptmbox = NoMbox /\ k0.write_offset = 0 /\ k0.sem = 0 /\ ~k0.innb
          /\ k0.api.shut = "RDWR"
      BY <1>3, <1>4, <1>5, <1>6, <2>1
    <3>2. Control(k0, Xw)
      BY <3>1, <1>11 DEF Control, Quiet, Waits
    <3>3. Boxes(k0, Xw)
      BY <3>1, <1>11 DEF Boxes, NoMbox, NulIn
    <3>4. Count(k0, Xw)
      BY <3>1, <1>11 DEF Count
    <3> QED BY <3>2, <3>3, <3>4 DEF ConnOK
  <2>6. Base(C0, [P EXCEPT ![p] = Restored(P[p], c)], [th EXCEPT ![c] = Xw])
    BY <1>3, <1>4, <1>6, <1>11, <2>1, <2>5, CloseWaitsStep
  <2>7. Reach(C0, [th EXCEPT ![c] = Xw])
    <3>1. k0.used = C[c].used /\ k0.acceptmbox.q = C[c].acceptmbox.q
      BY <1>6
    <3>2. Xw.item = th[c].item /\ (Xw.pc = "none" <=> th[c].pc = "none")
      BY <1>3, <1>4, <1>11
    <3> QED BY <1>3, <1>4, <3>1, <3>2, ReachKept
  <2> QED BY <2>3, <2>4, <2>6, <2>7
<1> QED BY <1>8, <1>10, <1>12, <1>13

(* Its fields.                                                             *)
LEMMA ReadShutFields ==
  ASSUME NEW o \in PcbType
  PROVE  LET r == ReadShut(o)
         IN  /\ r \in PcbType /\ r.st = o.st /\ r.arg = o.arg /\ r.listener = o.listener
             /\ ~r.recv /\ r.sent = o.sent /\ r.poll = o.poll /\ r.err = o.err
             /\ r.accepts_pending = o.accepts_pending /\ r.rxclosed
             /\ r.refused = "none" /\ r.out = o.out /\ r.pend = o.pend /\ r.unread = o.unread
BY DEF ReadShut, PcbType

(* tcp_shutdown(RD).                                                       *)
LEMMA ShutRdIs ==
  ASSUME NEW C, NEW U \in [Pcbs -> PcbType], NEW u, Is(u, C, U), NEW p \in Pcbs
  PROVE  Is([u EXCEPT !.pcb[p].rxclosed = TRUE, !.pcb[p].refused = "none"], C,
            [U EXCEPT ![p] = [U[p] EXCEPT !.rxclosed = TRUE, !.refused = "none"]])
<1> DEFINE v == [u EXCEPT !.pcb[p].rxclosed = TRUE, !.pcb[p].refused = "none"]
<1>1. v.conn = C /\ v.failed = FALSE
  BY DEF Is
<1>2. v.pcb = [U EXCEPT ![p] = [U[p] EXCEPT !.rxclosed = TRUE, !.refused = "none"]]
  BY DEF Is, PcbType
<1>3. v = [u EXCEPT !.pcb = v.pcb]
  BY DEF Is
<1> HIDE DEF v
<1>4. Is(v, C, v.pcb)
  BY <1>1, <1>3 DEF Is
<1>5. Is(v, C, [U EXCEPT ![p] = [U[p] EXCEPT !.rxclosed = TRUE, !.refused = "none"]])
  BY <1>2, <1>4
<1> QED BY <1>5 DEF v

(* netconn_shutdown(RD): the callbacks that read are gone, and the pcb     *)
(* stays.                                                                  *)
LEMMA CloseRdIs ==
  ASSUME NEW s, NEW C \in [Conns -> ConnType], NEW P \in [Pcbs -> PcbType], Is(s, C, P),
         NEW c \in Conns, NEW p \in Pcbs, C[c].pcb = p, C[c].state = "CLOSE", C[c].msg, C[c].api.shut = "RD",
         P[p].st \in Owned \ {"LISTEN"}, NEW mem \in BOOLEAN, NEW delayed \in BOOLEAN
  PROVE  Is(lwip_netconn_do_close_internal(s, c, mem, delayed),
            [C EXCEPT ![c] = Completed(C[c], "OK", delayed)], [P EXCEPT ![p] = ReadShut(P[p])])
<1> DEFINE t == Check(s, s.conn[c].state = "CLOSE" /\ s.conn[c].pcb # NULL /\ s.conn[c].msg)
           u == ClearCallbacks(t, p, "RD", FALSE)
           d == [P[p] EXCEPT !.recv = FALSE]
           U == [P EXCEPT ![p] = d]
           v == [u EXCEPT !.pcb[p].rxclosed = TRUE, !.pcb[p].refused = "none"]
<1>1. s.conn = C /\ s.pcb = P /\ s.conn[c].pcb = p /\ s.conn[c].api.shut = "RD" /\ p # NULL
  BY NetconnAssumption DEF Is
<1>2. s.conn[c].state = "CLOSE" /\ s.conn[c].pcb # NULL /\ s.conn[c].msg
  BY <1>1
<1>3. Is(t, C, P)
  BY <1>2, CheckIs
<1>4. Closes(s, p, "RD") = FALSE
  BY <1>1 DEF Closes, Owned
<1> HIDE DEF t
<1>5. t.pcb[p] = P[p] /\ P[p] \in PcbType
  BY <1>3 DEF Is
<1>6. u = [t EXCEPT !.pcb[p] = d]
  <2> DEFINE o == t.pcb[p]
             e == [o EXCEPT !.arg = @, !.recv = @ /\ ~("RD" # "WR"), !.sent = @ /\ ~("RD" # "RD"),
                            !.poll = @ /\ ~FALSE, !.err = @ /\ ~FALSE]
  <2>1. t.pcb[p].st # "LISTEN"
    BY <1>5 DEF Owned
  <2>2. u = [t EXCEPT !.pcb[p] = e]
    BY <2>1, Zenon DEF ClearCallbacks
  <2>3. o \in PcbType
    BY <1>5
  <2>4. o = P[p]
    BY <1>5
  <2> HIDE DEF o
  <2>5. e = [o EXCEPT !.recv = FALSE]
    BY <2>3 DEF PcbType
  <2>6. e = d
    BY <2>4, <2>5, Zenon
  <2> HIDE DEF e, d
  <2> QED BY <2>2, <2>6, Zenon
<1>6a. d.st = P[p].st /\ d \in PcbType
  BY <1>5 DEF PcbType
<1> HIDE DEF d, u
<1>7. Is(u, C, U)
  BY <1>3, <1>6 DEF Is
<1>8. d.st = P[p].st /\ U[p] = d /\ U \in [Pcbs -> PcbType]
  BY <1>6a
<1> HIDE DEF U
<1>9. u.pcb[p].st # "LISTEN"
  BY <1>7, <1>8 DEF Is, Owned
<1>10. tcp_shutdown(u, p, "RD", mem) = [s |-> v, err |-> "OK"]
  BY <1>9, Zenon DEF tcp_shutdown
<1>11. Is(v, C, [U EXCEPT ![p] = [d EXCEPT !.rxclosed = TRUE, !.refused = "none"]])
  <2>1. Is(v, C, [U EXCEPT ![p] = [U[p] EXCEPT !.rxclosed = TRUE, !.refused = "none"]])
    BY <1>7, <1>8, ShutRdIs, Zenon
  <2> HIDE DEF v
  <2> QED BY <1>8, <2>1
<1>12. [U EXCEPT ![p] = [d EXCEPT !.rxclosed = TRUE, !.refused = "none"]] = [P EXCEPT ![p] = ReadShut(P[p])]
  <2>1. [d EXCEPT !.rxclosed = TRUE, !.refused = "none"] = ReadShut(P[p])
    BY <1>5 DEF d, ReadShut, PcbType
  <2>2. \A x : [U EXCEPT ![p] = x] = [P EXCEPT ![p] = x]
    BY DEF U
  <2> QED BY <2>1, <2>2
<1>13. lwip_netconn_do_close_internal(s, c, mem, delayed) = Complete(v, c, "OK", delayed)
  <2> DEFINE r == tcp_shutdown(u, p, "RD", mem)
  <2>1. r.s = v /\ r.err = "OK" /\ r.err # "MEM"
    BY <1>10
  <2> HIDE DEF r
  <2>2. lwip_netconn_do_close_internal(s, c, mem, delayed) = Complete(r.s, c, r.err, delayed)
    BY <1>1, <1>4, <2>1, Zenon DEF lwip_netconn_do_close_internal, r, u, t
  <2> QED BY <2>1, <2>2, Zenon
<1> HIDE DEF v
<1>14. Is(Complete(v, c, "OK", delayed), [C EXCEPT ![c] = Completed(C[c], "OK", delayed)], [P EXCEPT ![p] = ReadShut(P[p])])
  BY <1>11, <1>12, CompleteIs
<1> QED BY <1>13, <1>14, Zenon

(* netconn_shutdown(RD), also at the end of the stream.                    *)
LEMMA CloseTcpRd ==
  ASSUME NEW C, NEW P, NEW s, NEW c, NEW p, Closable(C, P, th, s, c, p),
         NEW late \in BOOLEAN, NEW mem \in BOOLEAN, C[c].state = "NONE",
         CloseTcp(s, c, "RD", late, mem, "close", "idle")
  PROVE  failed' = FALSE /\ Base(conn', pcb', th') /\ Reach(conn', th')
<1> DEFINE a == CloseMsg("RD", late)
           k0 == Started(C[c], "CLOSE", a)
           C0 == [C EXCEPT ![c] = k0]
           s0 == StartCall(s, c, "CLOSE", a)
           r == lwip_netconn_do_close_internal(s0, c, mem, FALSE)
           o == Completed(k0, "OK", FALSE)
           k == Returned(o)
           x == [th[c] EXCEPT !.pc = "idle"]
           q == ReadShut(P[p])
<1>1. IF r.conn[c].state = "CLOSE" THEN Becomes(r) /\ Goto(c, "close")
      ELSE Becomes([r EXCEPT !.conn[c].api = NoMsg]) /\ Goto(c, "idle")
  BY Zenon DEF CloseTcp, CloseMsg, StartCall
<1>2. \A pc : Goto(c, pc) => th' = [th EXCEPT ![c] = [th[c] EXCEPT !.pc = pc]]
  BY DEF Goto
<1>3. /\ C \in [Conns -> ConnType] /\ P \in [Pcbs -> PcbType] /\ th \in [Conns -> ThreadType]
      /\ c \in Conns /\ p \in Pcbs /\ p # NULL /\ C[c] \in ConnType /\ th[c] \in ThreadType /\ P[p] \in PcbType
      /\ C[c].used /\ ~C[c].msg /\ C[c].write_offset = 0 /\ C[c].sem = 0 /\ th[c].item = NULL
      /\ P[p].st \in Owned /\ PcbOK(P[p]) /\ P[p].arg = c
      /\ P[p].st \notin {"LISTEN", "SYN_SENT"} /\ ~C[c].innb /\ P[p].err /\ P[p].poll
  BY ClosableFacts
<1>4. /\ Base(C, P, th) /\ Reach(C, th) /\ Is(s, C, P) /\ th[c].pc \in {"idle", "eof"} /\ C[c].pcb = p
      /\ C[c].recvmbox = NoMbox /\ C[c].acceptmbox = NoMbox
  BY DEF Closable
<1>5. a \in MsgType /\ a.shut = "RD"
  BY CloseMsgType
<1> HIDE DEF a
<1>6. /\ k0 \in ConnType /\ k0.used = C[c].used /\ k0.state = "CLOSE" /\ k0.innb = C[c].innb
      /\ k0.pcb = C[c].pcb /\ k0.msg /\ k0.recvmbox = C[c].recvmbox
      /\ k0.acceptmbox = C[c].acceptmbox /\ k0.write_offset = C[c].write_offset
      /\ k0.sem = C[c].sem /\ k0.api = a
  <2>1. "CLOSE" \in States
    BY DEF States
  <2>2. C[c] \in ConnType /\ a \in MsgType
    BY <1>3, <1>5
  <2>3. \A z \in States : LET e == Started(C[c], z, a)
         IN  /\ e \in ConnType /\ e.used = C[c].used /\ e.state = z /\ e.innb = C[c].innb
             /\ e.pcb = C[c].pcb /\ e.msg /\ e.recvmbox = C[c].recvmbox
             /\ e.acceptmbox = C[c].acceptmbox /\ e.fatal = C[c].fatal
             /\ e.write_offset = C[c].write_offset /\ e.sem = C[c].sem /\ e.api = a
    BY <2>2, StartedFields
  <2> QED BY <2>1, <2>3, Zenon
<1>7. Is(s0, C0, P)
  BY <1>3, <1>4, StartedIs
<1> HIDE DEF k0, s0
<1>8. C0 \in [Conns -> ConnType] /\ C0[c] = k0
  BY <1>3, <1>6
<1>8a. [C0 EXCEPT ![c] = o] = [C EXCEPT ![c] = o]
  BY <1>3
<1>9. Is(r, [C0 EXCEPT ![c] = Completed(C0[c], "OK", FALSE)], [P EXCEPT ![p] = q])
  <2>1. C0[c].pcb = p /\ C0[c].state = "CLOSE" /\ C0[c].msg /\ C0[c].api.shut = "RD" /\ P[p].st \in Owned \ {"LISTEN"}
    BY <1>3, <1>4, <1>5, <1>6, <1>8
  <2>2. Is(s0, C0, P) /\ C0 \in [Conns -> ConnType] /\ P \in [Pcbs -> PcbType] /\ c \in Conns /\ p \in Pcbs
    BY <1>3, <1>7, <1>8
  <2> HIDE DEF C0
  <2> QED BY <2>1, <2>2, CloseRdIs
<1> HIDE DEF r
<1>10. Is(r, [C EXCEPT ![c] = o], [P EXCEPT ![p] = q])
  BY <1>8, <1>8a, <1>9
<1>11. /\ o \in ConnType /\ o.used = k0.used /\ o.state = "NONE" /\ o.innb = k0.innb
       /\ o.pcb = k0.pcb /\ o.msg = FALSE /\ o.recvmbox = k0.recvmbox
       /\ o.acceptmbox = k0.acceptmbox /\ o.write_offset = k0.write_offset /\ o.sem = k0.sem
  <2>1. "OK" \in Errors /\ k0 \in ConnType /\ FALSE \in BOOLEAN
    BY <1>6 DEF Errors
  <2> QED BY <2>1, CompletedFields, Zenon
<1> HIDE DEF o
<1>12. /\ k \in ConnType /\ k.used = o.used /\ k.state = o.state /\ k.innb = o.innb
       /\ k.pcb = o.pcb /\ k.msg = o.msg /\ k.recvmbox = o.recvmbox
       /\ k.acceptmbox = o.acceptmbox /\ k.write_offset = o.write_offset /\ k.sem = o.sem /\ k.api = NoMsg
  BY <1>11, ReturnedFields
<1>13. Is([r EXCEPT !.conn[c].api = NoMsg], [C EXCEPT ![c] = k], [P EXCEPT ![p] = q])
  BY <1>3, <1>10, ReturnedIs
<1>14. x \in ThreadType /\ x.pc = "idle" /\ x.item = NULL
  <2>1. "idle" \in Pcs
    BY DEF Pcs
  <2> QED BY <1>3, <2>1, GotoFields
<1> HIDE DEF k, x
<1>15. r.conn = [C EXCEPT ![c] = o] /\ r.conn[c].state # "CLOSE"
  BY <1>3, <1>10, <1>11 DEF Is
<1>16. Becomes([r EXCEPT !.conn[c].api = NoMsg]) /\ th' = [th EXCEPT ![c] = x]
  BY <1>1, <1>2, <1>15 DEF x
<1>17. conn' = [C EXCEPT ![c] = k] /\ pcb' = [P EXCEPT ![p] = q] /\ failed' = FALSE
  BY <1>13, <1>16, BecomesIs
<1>18. /\ k.used /\ k.state = "NONE" /\ k.pcb = p /\ ~k.msg /\ k.recvmbox = NoMbox
       /\ k.acceptmbox = NoMbox /\ k.write_offset = 0 /\ k.sem = 0 /\ ~k.innb
  BY <1>3, <1>4, <1>6, <1>11, <1>12
<1>19. ConnOK(k, x)
  <2>1. Control(k, x)
    BY <1>3, <1>14, <1>18 DEF Control, Quiet, Waits
  <2>2. Boxes(k, x)
    BY <1>3, <1>14, <1>18 DEF Boxes, NoMbox, NulIn
  <2>3. Count(k, x)
    BY <1>14, <1>18 DEF Count
  <2> QED BY <2>1, <2>2, <2>3 DEF ConnOK
<1>20. /\ q \in PcbType /\ q.st = P[p].st /\ q.arg = P[p].arg /\ q.listener = P[p].listener
       /\ ~q.recv /\ q.sent = P[p].sent /\ q.poll = P[p].poll /\ q.err = P[p].err
       /\ q.accepts_pending = P[p].accepts_pending
       /\ q.refused = "none" /\ q.out = P[p].out /\ q.pend = P[p].pend /\ q.unread = P[p].unread
  BY <1>3, ReadShutFields
<1> HIDE DEF q
<1>21. PcbOK(q)
  BY <1>3, <1>20 DEF PcbOK, Owned, Orphan
<1>22. BacklogKept(P[p], q)
  BY <1>3, <1>20 DEF BacklogKept, Owned
<1>23. Pair(c, k, q, x)
  BY <1>3, <1>18, <1>20 DEF Pair, NoMbox
<1>24. Base([C EXCEPT ![c] = k], [P EXCEPT ![p] = q], [th EXCEPT ![c] = x])
  BY <1>3, <1>4, <1>12, <1>14, <1>18, <1>19, <1>20, <1>21, <1>22, <1>23, PairStep
<1>25. Reach([C EXCEPT ![c] = k], [th EXCEPT ![c] = x])
  <2>1. k.used = C[c].used /\ k.acceptmbox.q = C[c].acceptmbox.q
    BY <1>6, <1>11, <1>12
  <2>2. x.item = th[c].item /\ (x.pc = "none" <=> th[c].pc = "none")
    BY <1>3, <1>4, <1>14
  <2> QED BY <1>3, <1>4, <2>1, <2>2, ReachKept
<1> QED BY <1>16, <1>17, <1>24, <1>25

-----------------------------------------------------------------------------
(* The steps of a thread.                                                  *)

(* A thread that holds nothing goes elsewhere.                             *)
LEMMA QuietStep ==
  ASSUME NEW C, NEW P, NEW h, Base(C, P, h), Reach(C, h), NEW c \in Conns,
         h[c].pc \in {"idle", "eof", "recv", "accept"}, NEW pc \in {"idle", "recv", "accept"},
         pc = "recv" => C[c].recvmbox.valid /\ (C[c].pcb = NULL => C[c].recvmbox.q # <<>>)
  PROVE  LET h2 == [h EXCEPT ![c] = [h[c] EXCEPT !.pc = pc]]
         IN  Base(C, P, h2) /\ Reach(C, h2)
<1> DEFINE x == [h[c] EXCEPT !.pc = pc]
           k == C[c]
<1>1. /\ k \in ConnType /\ h[c] \in ThreadType /\ ConnOK(k, h[c])
      /\ C \in [Conns -> ConnType] /\ P \in [Pcbs -> PcbType] /\ h \in [Conns -> ThreadType]
      /\ [C EXCEPT ![c] = k] = C
      /\ k.pcb # NULL => Pair(c, k, P[k.pcb], h[c])
  BY PairFacts
<1>2. x \in ThreadType /\ x.pc = pc /\ x.item = h[c].item
  <2>1. pc \in Pcs
    BY DEF Pcs
  <2> QED BY <1>1, <2>1, GotoFields
<1>3. h[c].item = NULL
  BY <1>1 DEF ConnOK, Boxes
<1> HIDE DEF x, k
<1>4. Control(k, x)
  BY <1>1, <1>2 DEF ConnOK, Control, Quiet, Waits
<1>5. Boxes(k, x)
  BY <1>1, <1>2, <1>3 DEF ConnOK, Boxes, k
<1>6. Count(k, x)
  BY <1>1, <1>2 DEF ConnOK, Count
<1>7. Taken(x) = Taken(h[c])
  BY <1>2 DEF Taken
<1>8. ASSUME NEW r, Pair(c, k, r, h[c])
      PROVE  Pair(c, k, r, x)
  BY <1>2, <1>7, <1>8 DEF Pair, Window
<1>9. Base([C EXCEPT ![c] = k], P, [h EXCEPT ![c] = x])
  BY <1>1, <1>2, <1>4, <1>5, <1>6, <1>8, ConnStep DEF ConnOK, k
<1>10. Reach([C EXCEPT ![c] = k], [h EXCEPT ![c] = x])
  BY <1>1, <1>2, ReachKept DEF k
<1> QED BY <1>1, <1>9, <1>10 DEF x

(* netconn_close and netconn_shutdown.                                     *)
LEMMA DoClose ==
  ASSUME NetconnInv, NEW c \in Conns, NEW shut \in {"RD", "RDWR"}, NEW late \in BOOLEAN, NEW mem \in BOOLEAN,
         th[c].pc \in {"idle", "eof"}, lwip_netconn_do_close(c, shut, late, mem)
  PROVE  NetconnInv'
<1>1. failed = FALSE /\ Base(conn, pcb, th) /\ Reach(conn, th) /\ Is(Core, conn, pcb)
  BY DEF NetconnInv, Is, Core
<1>2. CASE conn[c].pcb # NULL /\ (shut = "RDWR" \/ conn[c].state # "LISTEN") /\ conn[c].state # "CONNECT"
  <2> DEFINE s == netconn_drain(Core, c)
  <2>1. CloseTcp(s, c, shut, late, mem, "close", "idle")
    <3>1. shut # "WR"
      OBVIOUS
    <3> QED BY <1>2, <3>1, Zenon DEF lwip_netconn_do_close
  <2>2. PICK C2, P2 : /\ Is(s, C2, P2) /\ Base(C2, P2, th) /\ Reach(C2, th)
                      /\ C2[c].state = conn[c].state /\ C2[c].pcb = conn[c].pcb
                      /\ C2[c].recvmbox = NoMbox /\ C2[c].acceptmbox = NoMbox
    BY <1>1, DrainStep
  <2> HIDE DEF s
  <2> DEFINE p == conn[c].pcb
  <2>3. p \in Pcbs
    BY <1>1, <1>2, PairFacts
  <2>4. Closable(C2, P2, th, s, c, p)
    BY <2>2, <2>3 DEF Closable
  <2> HIDE DEF p
  <2>5. C2[c].state # "CONNECT"
    BY <1>2, <2>2
  <2>6. CASE shut = "RDWR"
    <3>1. CloseTcp(s, c, "RDWR", late, mem, "close", "idle")
      BY <2>1, <2>6
    <3>2. failed' = FALSE /\ Base(conn', pcb', th') /\ Reach(conn', th')
      BY <2>4, <2>5, <3>1, CloseTcpRdwr
    <3> QED BY <3>2 DEF NetconnInv
  <2>7. CASE shut = "RD"
    <3>1. CloseTcp(s, c, "RD", late, mem, "close", "idle")
      BY <2>1, <2>7
    <3>2. C2[c].state \in {"NONE", "LISTEN", "CONNECT"}
      BY <2>4, ClosableFacts
    <3>3. C2[c].state = "NONE"
      BY <1>2, <2>2, <2>7, <3>2
    <3>4. failed' = FALSE /\ Base(conn', pcb', th') /\ Reach(conn', th')
      BY <2>4, <3>1, <3>3, CloseTcpRd
    <3> QED BY <3>4 DEF NetconnInv
  <2> QED BY <2>6, <2>7
<1>3. CASE ~(conn[c].pcb # NULL /\ (shut = "RDWR" \/ conn[c].state # "LISTEN") /\ conn[c].state # "CONNECT")
  <2>1. Becomes(Core) /\ Goto(c, "idle")
    BY <1>3, Zenon DEF lwip_netconn_do_close
  <2>2. conn' = conn /\ pcb' = pcb /\ failed' = FALSE
    BY <1>1, <2>1, BecomesIs
  <2>3. th' = [th EXCEPT ![c] = [th[c] EXCEPT !.pc = "idle"]]
    BY <2>1 DEF Goto
  <2>4. Base(conn, pcb, [th EXCEPT ![c] = [th[c] EXCEPT !.pc = "idle"]])
        /\ Reach(conn, [th EXCEPT ![c] = [th[c] EXCEPT !.pc = "idle"]])
    BY <1>1, QuietStep
  <2> QED BY <2>2, <2>3, <2>4 DEF NetconnInv
<1> QED BY <1>2, <1>3

(* A netconn is made or freed by its own thread: nobody holds it.          *)
LEMMA ReachMoved ==
  ASSUME NEW C \in [Conns -> ConnType], NEW h \in [Conns -> ThreadType], Reach(C, h),
         NEW c \in Conns, NEW k, NEW x, k.acceptmbox.q = C[c].acceptmbox.q, x.item = h[c].item,
         ~(C[c].used /\ h[c].pc = "none"), ~(k.used /\ x.pc = "none")
  PROVE  Reach([C EXCEPT ![c] = k], [h EXCEPT ![c] = x])
<1> DEFINE C2 == [C EXCEPT ![c] = k]
           h2 == [h EXCEPT ![c] = x]
<1>1. \A d \in Conns : C2[d] = (IF d = c THEN k ELSE C[d]) /\ h2[d] = (IF d = c THEN x ELSE h[d])
  OBVIOUS
<1> HIDE DEF C2, h2
<1>2. \A d, n \in Conns : \A i \in Nat : InQueue(C2, d, i, n) <=> InQueue(C, d, i, n)
  BY <1>1 DEF InQueue
<1>3. \A d \in Conns : h2[d].item = h[d].item
  BY <1>1
<1>4. \A n \in Conns : C2[n].used /\ h2[n].pc = "none" <=> C[n].used /\ h[n].pc = "none"
  BY <1>1
<1>5. \A d, n \in Conns : h2[d].item = n \/ (\E i \in Nat : InQueue(C2, d, i, n)) =>
        C2[n].used /\ h2[n].pc = "none"
  BY <1>2, <1>3, <1>4 DEF Reach
<1>6. \A n \in Conns : C2[n].used /\ h2[n].pc = "none" =>
        \E d \in Conns : h2[d].item = n \/ \E i \in Nat : InQueue(C2, d, i, n)
  BY <1>2, <1>3, <1>4 DEF Reach
<1>7. \A d, e, n \in Conns : h2[d].item = n /\ h2[e].item = n => d = e
  BY <1>3 DEF Reach
<1>7a. \A d, e, n \in Conns : \A i \in Nat : ~(InQueue(C2, d, i, n) /\ h2[e].item = n)
  BY <1>2, <1>3 DEF Reach
<1>7b. \A d, e, n \in Conns : \A i, j \in Nat :
         InQueue(C2, d, i, n) /\ InQueue(C2, e, j, n) => d = e /\ i = j
  BY <1>2 DEF Reach
<1>8. Reach(C2, h2)
  BY <1>5, <1>6, <1>7, <1>7a, <1>7b DEF Reach
<1> QED BY <1>8 DEF C2, h2

(* netconn_free.                                                           *)
LEMMA FreeKeeps ==
  ASSUME NetconnInv, NEW c \in Conns, netconn_free(c)
  PROVE  NetconnInv'
<1> DEFINE s == Check(Core, conn[c].pcb = NULL /\ ~conn[c].recvmbox.valid /\ ~conn[c].acceptmbox.valid)
           t == [s EXCEPT !.conn[c] = NoConn]
<1>1. failed = FALSE /\ Base(conn, pcb, th) /\ Reach(conn, th) /\ Is(Core, conn, pcb)
  BY DEF NetconnInv, Is, Core
<1>2. Becomes(t) /\ th' = [th EXCEPT ![c] = NoThread] /\ th[c].pc = "free"
  BY DEF netconn_free, At
<1>3. /\ conn[c] \in ConnType /\ th[c] \in ThreadType /\ ConnOK(conn[c], th[c])
      /\ conn \in [Conns -> ConnType] /\ th \in [Conns -> ThreadType]
  BY <1>1, PairFacts
<1>4. /\ conn[c].used /\ conn[c].pcb = NULL /\ conn[c].state = "NONE" /\ ~conn[c].recvmbox.valid
      /\ conn[c].acceptmbox = NoMbox /\ th[c].item = NULL /\ ~conn[c].acceptmbox.valid
  BY <1>2, <1>3 DEF ConnOK, Control, Boxes, NoMbox
<1>5. Is(s, conn, pcb)
  BY <1>1, <1>4, CheckIs
<1> HIDE DEF s
<1>6. Is(t, [conn EXCEPT ![c] = NoConn], pcb)
  BY <1>5 DEF Is
<1>7. conn' = [conn EXCEPT ![c] = NoConn] /\ pcb' = pcb /\ failed' = FALSE
  BY <1>2, <1>6, BecomesIs
<1>8. /\ NoThread \in ThreadType /\ NoThread.pc = "none" /\ NoThread.item = NULL
      /\ NoConn.pcb = NULL /\ NoConn.acceptmbox = NoMbox /\ ~NoConn.used
  BY DEF NoThread, ThreadType, Pcs, NoConn
<1>9. NoConn \in ConnType /\ ConnOK(NoConn, NoThread)
  BY <1>8, NoConnIsOK
<1>10. Base([conn EXCEPT ![c] = NoConn], pcb, [th EXCEPT ![c] = NoThread])
  BY <1>1, <1>4, <1>8, <1>9, ConnStep
<1>11. Reach([conn EXCEPT ![c] = NoConn], [th EXCEPT ![c] = NoThread])
  BY <1>1, <1>2, <1>3, <1>4, <1>8, ReachMoved
<1> QED BY <1>2, <1>7, <1>10, <1>11 DEF NetconnInv

(* netconn_delete.                                                         *)
LEMMA DeleteKeeps ==
  ASSUME NetconnInv, NEW c \in Conns, NEW late \in BOOLEAN, NEW mem \in BOOLEAN, netconn_delete(c, late, mem)
  PROVE  NetconnInv'
<1> DEFINE s == netconn_drain(Core, c)
           x == [th[c] EXCEPT !.pc = "free"]
<1>1. failed = FALSE /\ Base(conn, pcb, th) /\ Reach(conn, th) /\ Is(Core, conn, pcb)
  BY DEF NetconnInv, Is, Core
<1>2. IF s.conn[c].pcb # NULL THEN CloseTcp(s, c, "RDWR", late, mem, "delconn", "free")
      ELSE Becomes(s) /\ Goto(c, "free")
  BY Zenon DEF netconn_delete
<1>3. th[c].pc = "idle"
  BY DEF netconn_delete, At
<1>4. PICK C2, P2 : /\ Is(s, C2, P2) /\ Base(C2, P2, th) /\ Reach(C2, th)
                    /\ C2[c].recvmbox = NoMbox /\ C2[c].acceptmbox = NoMbox
  BY <1>1, <1>3, DrainStep
<1> HIDE DEF s
<1>5. s.conn = C2
  BY <1>4 DEF Is
<1> DEFINE p == C2[c].pcb
<1>6. CASE p # NULL
  <2>1. p \in Pcbs
    BY <1>4, <1>6, PairFacts
  <2>2. Closable(C2, P2, th, s, c, p)
    BY <1>3, <1>4, <2>1 DEF Closable
  <2>3. CloseTcp(s, c, "RDWR", late, mem, "delconn", "free")
    BY <1>2, <1>5, <1>6
  <2>4. failed' = FALSE /\ Base(conn', pcb', th') /\ Reach(conn', th')
    BY <2>2, <2>3, CloseTcpRdwr
  <2> QED BY <2>4 DEF NetconnInv
<1>7. CASE p = NULL
  <2>1. Becomes(s) /\ Goto(c, "free")
    BY <1>2, <1>5, <1>7
  <2>2. conn' = C2 /\ pcb' = P2 /\ failed' = FALSE
    BY <1>4, <2>1, BecomesIs
  <2>3. th' = [th EXCEPT ![c] = x]
    BY <2>1 DEF Goto
  <2> DEFINE k == C2[c]
  <2>4. /\ k \in ConnType /\ th[c] \in ThreadType /\ ConnOK(k, th[c])
        /\ C2 \in [Conns -> ConnType] /\ th \in [Conns -> ThreadType] /\ [C2 EXCEPT ![c] = k] = C2
    BY <1>4, PairFacts
  <2>5. x \in ThreadType /\ x.pc = "free" /\ x.item = th[c].item
    <3>1. "free" \in Pcs
      BY DEF Pcs
    <3> QED BY <2>4, <3>1, GotoFields
  <2>6. k.recvmbox = NoMbox /\ k.acceptmbox = NoMbox /\ k.pcb = NULL
    BY <1>4, <1>7
  <2> HIDE DEF x, k
  <2>7. Control(k, x)
    BY <1>3, <2>4, <2>5, <2>6 DEF ConnOK, Control, Quiet, Waits
  <2>8. Boxes(k, x)
    BY <1>3, <2>4, <2>5, <2>6 DEF ConnOK, Boxes, NoMbox, NulIn
  <2>9. Count(k, x)
    BY <1>3, <2>4, <2>5, <2>6 DEF ConnOK, Count
  <2>10. Base([C2 EXCEPT ![c] = k], P2, [th EXCEPT ![c] = x])
    BY <1>4, <2>4, <2>5, <2>6, <2>7, <2>8, <2>9, ConnStep DEF ConnOK, k
  <2>11. Reach([C2 EXCEPT ![c] = k], [th EXCEPT ![c] = x])
    BY <1>3, <1>4, <2>4, <2>5, ReachKept DEF k
  <2> QED BY <2>2, <2>3, <2>4, <2>10, <2>11 DEF NetconnInv
<1> QED BY <1>6, <1>7

(* netconn_shutdown, and the end of the stream in netconn_recv.            *)
LEMMA ShutdownKeeps ==
  ASSUME NetconnInv, "WR" \notin Hows, NEW c \in Conns, NEW shut \in Hows, NEW late \in BOOLEAN,
         NEW mem \in BOOLEAN, netconn_shutdown(c, shut, late, mem)
  PROVE  NetconnInv'
<1>1. shut \in {"RD", "RDWR"}
  BY NetconnAssumption
<1>2. th[c].pc = "idle" /\ lwip_netconn_do_close(c, shut, late, mem)
  BY DEF netconn_shutdown, At
<1> QED BY <1>1, <1>2, DoClose

(* RecvEof: the end of the data shuts down the receiving half.             *)
LEMMA EofKeeps ==
  ASSUME NetconnInv, NEW c \in Conns, RecvEof(c)
  PROVE  NetconnInv'
<1>1. th[c].pc = "eof" /\ lwip_netconn_do_close(c, "RD", FALSE, TRUE)
  BY DEF RecvEof, At
<1> QED BY <1>1, DoClose

(* netconn_recv, netconn_accept and their timeouts.                        *)
LEMMA WaitingKeeps ==
  ASSUME NetconnInv, NEW c \in Conns, netconn_recv(c) \/ netconn_accept(c) \/ FetchTimeout(c)
  PROVE  NetconnInv'
<1>1. failed = FALSE /\ Base(conn, pcb, th) /\ Reach(conn, th)
  BY DEF NetconnInv
<1>2. /\ conn' = conn /\ pcb' = pcb /\ failed' = failed
      /\ \E pc \in {"idle", "recv", "accept"} :
            /\ th' = [th EXCEPT ![c] = [th[c] EXCEPT !.pc = pc]]
            /\ pc = "recv" => conn[c].recvmbox.valid /\ ~conn[c].fatal
      /\ th[c].pc \in {"idle", "eof", "recv", "accept"}
  BY DEF netconn_recv, netconn_accept, FetchTimeout, Goto, At
<1>3. PICK pc \in {"idle", "recv", "accept"} :
            /\ th' = [th EXCEPT ![c] = [th[c] EXCEPT !.pc = pc]]
            /\ pc = "recv" => conn[c].recvmbox.valid /\ ~conn[c].fatal
  BY <1>2
<1>4. conn[c].recvmbox.valid /\ conn[c].pcb = NULL => conn[c].fatal
  BY <1>1, PairFacts DEF ConnOK, Boxes
<1>5. Base(conn, pcb, [th EXCEPT ![c] = [th[c] EXCEPT !.pc = pc]]) /\ Reach(conn, [th EXCEPT ![c] = [th[c] EXCEPT !.pc = pc]])
  BY <1>1, <1>2, <1>3, <1>4, QuietStep
<1> QED BY <1>1, <1>2, <1>3, <1>5 DEF NetconnInv

(* Its fields.                                                             *)
LEMMA SetUpFields ==
  ASSUME NEW o \in PcbType, NEW c \in Conns
  PROVE  LET r == SetUp(o, c)
         IN  /\ r \in PcbType /\ r.st = o.st /\ r.arg = c /\ r.listener = o.listener
             /\ r.recv /\ r.sent /\ r.poll /\ r.err
             /\ r.accepts_pending = o.accepts_pending /\ r.rxclosed = o.rxclosed
             /\ r.refused = o.refused /\ r.out = o.out /\ r.pend = o.pend /\ r.unread = o.unread
BY DEF SetUp, PcbType

(* What setup_tcp does to the state.                                       *)
LEMMA SetUpIs ==
  ASSUME NEW C, NEW P, NEW s, Is(s, C, P), NEW c, NEW p, p = C[c].pcb
  PROVE  Is(setup_tcp(s, c), C, [P EXCEPT ![p] = SetUp(P[p], c)])
<1>1. s.conn[c].pcb = p /\ s.pcb = P
  BY DEF Is
<1>2. setup_tcp(s, c) = [s EXCEPT !.pcb[p] = SetUp(s.pcb[p], c)]
  BY <1>1, Zenon DEF setup_tcp, SetUp
<1>3. Is([s EXCEPT !.pcb[p] = SetUp(P[p], c)], C, [P EXCEPT ![p] = SetUp(P[p], c)])
  BY DEF Is
<1> QED BY <1>1, <1>2, <1>3, Zenon

(* The fields of a new netconn.                                            *)
LEMMA NewConnFields ==
  ASSUME NEW p \in Pcbs
  PROVE  LET k == NewConn(p)
         IN  /\ k \in ConnType /\ k.used /\ k.state = "NONE" /\ ~k.innb /\ k.pcb = p /\ ~k.msg
             /\ k.recvmbox = NewMbox /\ k.acceptmbox = NoMbox /\ k.write_offset = 0 /\ k.sem = 0
             /\ k.api = NoMsg
<1>1. NoConn \in ConnType
  BY NoConnIsOK
<1>2. NewMbox \in Mbox({"data", "nul"})
  BY DEF NewMbox, Mbox
<1>3. /\ NoConn.state = "NONE" /\ ~NoConn.innb /\ ~NoConn.msg
      /\ NoConn.acceptmbox = NoMbox /\ NoConn.write_offset = 0 /\ NoConn.sem = 0 /\ NoConn.api = NoMsg
  BY DEF NoConn
<1> HIDE DEF NoConn
<1> QED BY <1>1, <1>2, <1>3 DEF NewConn, ConnType

(* An empty recvmbox holds no data.                                        *)
LEMMA NewMboxIs ==
  /\ NewMbox.valid /\ NewMbox.q = <<>> /\ DataIn(<<>>) = 0 /\ ~NulIn(<<>>) /\ NewMbox # NoMbox
  /\ ~NoMbox.valid /\ NoMbox.q = <<>>
<1>1. DOMAIN <<>> = {}
  OBVIOUS
<1>2. {i \in DOMAIN <<>> : <<>>[i] = "data"} = {}
  BY <1>1
<1>3. DataIn(<<>>) = 0
  BY <1>2, FS_EmptySet DEF DataIn
<1>4. ~NulIn(<<>>)
  BY <1>1 DEF NulIn
<1> QED BY <1>3, <1>4 DEF NewMbox, NoMbox

(* netconn_new.                                                            *)
LEMMA NewKeeps ==
  ASSUME NetconnInv, NEW c \in Conns, netconn_new(c)
  PROVE  NetconnInv'
<1> DEFINE p == CHOOSE p \in FreePcbs : TRUE
           o == [NoPcb EXCEPT !.st = "CLOSED"]
           r == SetUp(o, c)
           k == NewConn(p)
           s == [Core EXCEPT !.conn[c] = NewConn(p), !.pcb[p] = o]
           x == [th[c] EXCEPT !.pc = "idle"]
           C1 == [conn EXCEPT ![c] = k]
           P1 == [pcb EXCEPT ![p] = o]
<1>1. failed = FALSE /\ Base(conn, pcb, th) /\ Reach(conn, th) /\ Is(Core, conn, pcb)
  BY DEF NetconnInv, Is, Core
<1>2. ~conn[c].used /\ FreePcbs # {}
  BY DEF netconn_new
<1>3. Becomes(setup_tcp(s, c))
  BY Zenon DEF netconn_new, NewConn
<1>4. th' = [th EXCEPT ![c] = x]
  BY DEF netconn_new, Goto
<1>5. p \in Pcbs /\ pcb[p].st = "free"
  BY <1>2 DEF FreePcbs
<1> HIDE DEF p
<1>6. /\ conn[c] \in ConnType /\ th[c] \in ThreadType /\ ConnOK(conn[c], th[c])
      /\ conn \in [Conns -> ConnType] /\ th \in [Conns -> ThreadType] /\ pcb \in [Pcbs -> PcbType]
  BY <1>1, PairFacts
<1>7. th[c].pc = "none" /\ conn[c] = NoConn /\ th[c].item = NULL
  BY <1>2, <1>6 DEF ConnOK, Control, Boxes, Unaccepted
<1>8. pcb[p] = NoPcb
  BY <1>1, <1>5 DEF Base, PcbOK
<1>9. Is(s, C1, P1)
  <2>1. Core = [conn |-> conn, pcb |-> pcb, failed |-> failed]
    BY DEF Core
  <2> DEFINE u == Core
  <2>2. Is(u, conn, pcb)
    BY <1>1
  <2> HIDE DEF u, k, o
  <2>3. Is([u EXCEPT !.conn[c] = k, !.pcb[p] = o], C1, P1)
    BY <2>2 DEF Is
  <2> QED BY <2>3 DEF u, k
<1>10. /\ k \in ConnType /\ k.used /\ k.state = "NONE" /\ ~k.innb /\ k.pcb = p /\ ~k.msg
       /\ k.recvmbox = NewMbox /\ k.acceptmbox = NoMbox /\ k.write_offset = 0 /\ k.sem = 0
       /\ k.api = NoMsg
  BY <1>5, NewConnFields
<1>11. /\ NoPcb \in PcbType /\ NoPcb.unread = 0 /\ NoPcb.refused = "none" /\ NoPcb.out = 0
       /\ NoPcb.listener = NULL /\ ~NoPcb.pend /\ NoPcb.st = "free"
  BY NoPcbIsOK DEF NoPcb
<1>12. /\ o \in PcbType /\ o.unread = 0 /\ o.refused = "none" /\ o.out = 0
       /\ o.listener = NULL /\ ~o.pend /\ o.st = "CLOSED" /\ o.accepts_pending = NoPcb.accepts_pending
  <2> HIDE DEF NoPcb
  <2> QED BY <1>11 DEF PcbType, TcpStates
<1> HIDE DEF s, o, k
<1>13. C1[c] = k /\ P1[p] = o /\ \A y : [P1 EXCEPT ![p] = y] = [pcb EXCEPT ![p] = y]
  BY <1>5, <1>6
<1> HIDE DEF C1, P1
<1>14. Is(setup_tcp(s, c), C1, [P1 EXCEPT ![p] = SetUp(P1[p], c)])
  BY <1>9, <1>10, <1>13, SetUpIs
<1>15. Is(setup_tcp(s, c), C1, [pcb EXCEPT ![p] = r])
  BY <1>13, <1>14
<1>16. conn' = C1 /\ pcb' = [pcb EXCEPT ![p] = r] /\ failed' = FALSE
  BY <1>3, <1>15, BecomesIs
<1>17. /\ r \in PcbType /\ r.st = o.st /\ r.arg = c /\ r.listener = o.listener
       /\ r.recv /\ r.sent /\ r.poll /\ r.err
       /\ r.refused = o.refused /\ r.out = o.out /\ r.pend = o.pend /\ r.unread = o.unread
  BY <1>12, SetUpFields
<1>18. x \in ThreadType /\ x.pc = "idle" /\ x.item = NULL
  <2>1. "idle" \in Pcs
    BY DEF Pcs
  <2> QED BY <1>6, <1>7, <2>1, GotoFields
<1> HIDE DEF r, x
<1>19. PcbOK(r)
  BY <1>12, <1>17 DEF PcbOK, Orphan
<1>20. BacklogKept(pcb[p], r)
  BY <1>8, <1>11, <1>12, <1>17 DEF BacklogKept
<1>21. p # NULL
  BY <1>5, NetconnAssumption
<1>22. ConnOK(k, x)
  <2>1. Control(k, x)
    BY <1>10, <1>18, <1>21 DEF Control, Quiet, Waits
  <2>2. Boxes(k, x)
    BY <1>10, <1>18, <1>21, NewMboxIs DEF Boxes
  <2>3. Count(k, x)
    BY <1>10, <1>18 DEF Count
  <2> QED BY <2>1, <2>2, <2>3 DEF ConnOK
<1>23. Pair(c, k, r, x)
  <2>1. Taken(x) = 0
    BY <1>18 DEF Taken
  <2>2. k.recvmbox.q = <<>> /\ DataIn(k.recvmbox.q) = 0 /\ ~NulIn(k.recvmbox.q) /\ DOMAIN k.recvmbox.q = {}
    BY <1>10, NewMboxIs
  <2>3. Window(k, r, x)
    BY <1>12, <1>17, <2>1, <2>2 DEF Window
  <2> QED BY <1>10, <1>12, <1>17, <1>18, <2>3 DEF Pair, Owned
<1>24. Base([conn EXCEPT ![c] = k], [pcb EXCEPT ![p] = r], [th EXCEPT ![c] = x])
  <2>1. conn[c].pcb = NULL /\ pcb[p].st \notin Owned
    BY <1>5, <1>7 DEF NoConn, Owned
  <2> QED BY <1>1, <1>5, <1>10, <1>17, <1>18, <1>19, <1>20, <1>21, <1>22, <1>23, <2>1, PairStep
<1>25. Reach([conn EXCEPT ![c] = k], [th EXCEPT ![c] = x])
  <2>1. k.acceptmbox.q = conn[c].acceptmbox.q
    BY <1>7, <1>10 DEF NoConn
  <2> QED BY <1>1, <1>2, <1>6, <1>7, <1>18, <2>1, ReachMoved
<1> QED BY <1>4, <1>16, <1>24, <1>25 DEF NetconnInv, C1

(* netconn_connect without a pcb.                                          *)
LEMMA ConnectFails ==
  ASSUME NetconnInv, NEW c \in Conns, conn[c].pcb = NULL, th[c].pc = "idle",
         Becomes([Core EXCEPT !.conn[c].fatal = TRUE]), UNCHANGED th
  PROVE  NetconnInv'
<1> DEFINE o == conn[c]
           k == [o EXCEPT !.fatal = TRUE]
           u == Core
<1>1. failed = FALSE /\ Base(conn, pcb, th) /\ Reach(conn, th) /\ Is(u, conn, pcb)
  BY DEF NetconnInv, Is, Core
<1>2. /\ o \in ConnType /\ th[c] \in ThreadType /\ ConnOK(o, th[c])
      /\ conn \in [Conns -> ConnType] /\ th \in [Conns -> ThreadType] /\ [th EXCEPT ![c] = th[c]] = th
  BY <1>1, PairFacts
<1> HIDE DEF u, o
<1>3. Is([u EXCEPT !.conn[c].fatal = TRUE], [conn EXCEPT ![c] = k], pcb)
  BY <1>1 DEF Is, o
<1>4. conn' = [conn EXCEPT ![c] = k] /\ pcb' = pcb /\ failed' = FALSE
  BY <1>3, BecomesIs DEF u
<1>5. /\ k \in ConnType /\ k.used = o.used /\ k.state = o.state /\ k.innb = o.innb
      /\ k.pcb = o.pcb /\ k.msg = o.msg /\ k.recvmbox = o.recvmbox
      /\ k.acceptmbox = o.acceptmbox /\ k.fatal /\ k.write_offset = o.write_offset
      /\ k.sem = o.sem /\ k.api = o.api
  BY <1>2 DEF ConnType
<1> HIDE DEF k
<1>6. ConnOK(k, th[c])
  <2>1. Control(k, th[c])
    BY <1>2, <1>5 DEF ConnOK, Control, Quiet
  <2>2. Boxes(k, th[c])
    BY <1>2, <1>5 DEF ConnOK, Boxes
  <2>3. Count(k, th[c])
    BY <1>2, <1>5 DEF ConnOK, Count
  <2> QED BY <2>1, <2>2, <2>3 DEF ConnOK
<1>7. Base([conn EXCEPT ![c] = k], pcb, [th EXCEPT ![c] = th[c]])
  BY <1>1, <1>2, <1>5, <1>6, ConnStep DEF o
<1>8. Reach([conn EXCEPT ![c] = k], [th EXCEPT ![c] = th[c]])
  BY <1>1, <1>2, <1>5, ReachKept DEF o
<1> QED BY <1>2, <1>4, <1>7, <1>8 DEF NetconnInv

(* The netconn and its pcb change in one step, and nothing else.           *)
LEMMA PairKeeps ==
  ASSUME NetconnInv, NEW c \in Conns, NEW p \in Pcbs, conn[c].pcb = p,
         NEW k \in ConnType, NEW r \in PcbType, NEW x \in ThreadType,
         ConnOK(k, x), PcbOK(r), k.pcb = p, Pair(c, k, r, x), BacklogKept(pcb[p], r),
         k.used = conn[c].used, k.acceptmbox.q = conn[c].acceptmbox.q,
         x.item = th[c].item \/ (x.item \notin Conns /\ th[c].item \notin Conns),
         x.pc = "none" <=> th[c].pc = "none",
         NEW s, Is(s, [conn EXCEPT ![c] = k], [pcb EXCEPT ![p] = r]), Becomes(s),
         th' = [th EXCEPT ![c] = x]
  PROVE  NetconnInv'
<1>1. failed = FALSE /\ Base(conn, pcb, th) /\ Reach(conn, th)
  BY DEF NetconnInv
<1>2. conn \in [Conns -> ConnType] /\ th \in [Conns -> ThreadType]
  BY <1>1, PairFacts
<1>3. conn' = [conn EXCEPT ![c] = k] /\ pcb' = [pcb EXCEPT ![p] = r] /\ failed' = FALSE
  BY BecomesIs
<1>4. p # NULL
  BY NetconnAssumption
<1>5. Base([conn EXCEPT ![c] = k], [pcb EXCEPT ![p] = r], [th EXCEPT ![c] = x])
  BY <1>1, <1>4, PairStep
<1>6. Reach([conn EXCEPT ![c] = k], [th EXCEPT ![c] = x])
  BY <1>1, <1>2, ReachKept
<1> QED BY <1>3, <1>5, <1>6 DEF NetconnInv

(* netconn_connect of a pcb that is not closed, or without memory.         *)
LEMMA ConnectRefused ==
  ASSUME NetconnInv, NEW c \in Conns, conn[c].pcb # NULL, th[c].pc = "idle", conn[c].state = "NONE",
         Becomes(setup_tcp(Core, c)), UNCHANGED th
  PROVE  NetconnInv'
<1> DEFINE p == conn[c].pcb
           r == SetUp(pcb[p], c)
<1>1. failed = FALSE /\ Base(conn, pcb, th) /\ Reach(conn, th) /\ Is(Core, conn, pcb)
  BY DEF NetconnInv, Is, Core
<1>2. /\ conn[c] \in ConnType /\ th[c] \in ThreadType /\ ConnOK(conn[c], th[c])
      /\ [th EXCEPT ![c] = th[c]] = th /\ [conn EXCEPT ![c] = conn[c]] = conn
      /\ p \in Pcbs /\ pcb[p] \in PcbType /\ PcbOK(pcb[p]) /\ pcb[p].arg = c
      /\ Pair(c, conn[c], pcb[p], th[c]) /\ pcb[p].st \in Owned
  BY <1>1, PairFacts
<1>3. Is(setup_tcp(Core, c), conn, [pcb EXCEPT ![p] = r])
  BY <1>1, SetUpIs
<1> HIDE DEF p
<1>4. /\ r \in PcbType /\ r.st = pcb[p].st /\ r.arg = c /\ r.listener = pcb[p].listener
      /\ r.recv /\ r.sent /\ r.poll /\ r.err /\ r.accepts_pending = pcb[p].accepts_pending
      /\ r.refused = pcb[p].refused /\ r.out = pcb[p].out /\ r.pend = pcb[p].pend /\ r.unread = pcb[p].unread
  BY <1>2, SetUpFields
<1> HIDE DEF r
<1>5. pcb[p].st \notin {"LISTEN", "SYN_SENT"}
  BY <1>2 DEF Pair
<1>6. PcbOK(r)
  BY <1>2, <1>4, <1>5 DEF PcbOK, Owned, Orphan
<1>7. BacklogKept(pcb[p], r)
  BY <1>2, <1>4, <1>5 DEF BacklogKept, Owned
<1>8. Pair(c, conn[c], r, th[c])
  BY <1>2, <1>4 DEF Pair, Window
<1>9. conn[c].pcb = p
  BY DEF p
<1>10. Is(setup_tcp(Core, c), [conn EXCEPT ![c] = conn[c]], [pcb EXCEPT ![p] = r]) /\ th' = [th EXCEPT ![c] = th[c]]
  BY <1>2, <1>3
<1> QED BY <1>2, <1>4, <1>6, <1>7, <1>8, <1>9, <1>10, PairKeeps

(* The fields of a netconn that connects.                                  *)
LEMMA ConnectingFields ==
  ASSUME NEW o \in ConnType, NEW nb \in BOOLEAN
  PROVE  LET k == Connecting(o, nb)
         IN  /\ k \in ConnType /\ k.used = o.used /\ k.state = "CONNECT" /\ (k.innb <=> nb)
             /\ k.pcb = o.pcb /\ (k.msg <=> ~nb) /\ k.recvmbox = o.recvmbox
             /\ k.acceptmbox = o.acceptmbox /\ k.fatal = o.fatal
             /\ k.write_offset = o.write_offset /\ k.sem = o.sem /\ k.api = o.api
<1> DEFINE k == Connecting(o, nb)
<1>1. k \in ConnType
  BY DEF Connecting, ConnType, States
<1>2. /\ k.used = o.used /\ k.state = "CONNECT" /\ (k.innb <=> nb) /\ k.pcb = o.pcb
      /\ k.recvmbox = o.recvmbox
  BY DEF Connecting, ConnType
<1>3. k.msg <=> ~nb
  BY DEF Connecting, ConnType
<1>4. /\ k.acceptmbox = o.acceptmbox /\ k.fatal = o.fatal
      /\ k.write_offset = o.write_offset /\ k.sem = o.sem /\ k.api = o.api
  BY DEF Connecting, ConnType
<1> QED BY <1>1, <1>2, <1>3, <1>4

(* What tcp_connect and do_connect do to the state.                        *)
LEMMA ConnectIs ==
  ASSUME NEW C \in [Conns -> ConnType], NEW P \in [Pcbs -> PcbType], NEW s, Is(s, C, P),
         NEW c \in Conns, NEW p \in Pcbs, NEW nb
  PROVE  Is([s EXCEPT !.pcb[p].st = "SYN_SENT", !.conn[c].state = "CONNECT",
                      !.conn[c].innb = nb, !.conn[c].msg = ~nb],
            [C EXCEPT ![c] = Connecting(C[c], nb)], [P EXCEPT ![p] = SynSent(P[p])])
<1> DEFINE t == [s EXCEPT !.pcb[p].st = "SYN_SENT", !.conn[c].state = "CONNECT",
                          !.conn[c].innb = nb, !.conn[c].msg = ~nb]
<1>1. t.failed = FALSE
  BY DEF Is
<1>2. t.pcb = [P EXCEPT ![p] = SynSent(P[p])]
  BY DEF Is, SynSent
<1>3. t.conn = [C EXCEPT ![c] = Connecting(C[c], nb)]
  BY DEF Is, Connecting, ConnType
<1>4. t = [s EXCEPT !.conn = t.conn, !.pcb = t.pcb]
  BY DEF Is
<1> HIDE DEF t
<1>5. Is(t, t.conn, t.pcb)
  BY <1>1, <1>4 DEF Is
<1>6. Is(t, [C EXCEPT ![c] = Connecting(C[c], nb)], [P EXCEPT ![p] = SynSent(P[p])])
  BY <1>2, <1>3, <1>5
<1> QED BY <1>6, Zenon DEF t

(* netconn_connect sends the SYN.                                          *)
LEMMA ConnectStarts ==
  ASSUME NetconnInv, NEW c \in Conns, conn[c].pcb # NULL, th[c].pc = "idle", conn[c].state = "NONE",
         NEW nb \in BOOLEAN, NEW p, p = conn[c].pcb, pcb[p].st = "CLOSED",
         Becomes([setup_tcp(Core, c) EXCEPT !.pcb[p].st = "SYN_SENT", !.conn[c].state = "CONNECT",
                                   !.conn[c].innb = nb, !.conn[c].msg = ~nb]),
         Goto(c, IF nb THEN "idle" ELSE "connect")
  PROVE  NetconnInv'
<1> DEFINE v == SetUp(pcb[p], c)
           P1 == [pcb EXCEPT ![p] = v]
           r == SynSent(v)
           k == Connecting(conn[c], nb)
           pc == IF nb THEN "idle" ELSE "connect"
           x == [th[c] EXCEPT !.pc = pc]
           u == setup_tcp(Core, c)
           t == [u EXCEPT !.pcb[p].st = "SYN_SENT", !.conn[c].state = "CONNECT",
                          !.conn[c].innb = nb, !.conn[c].msg = ~nb]
<1>1. failed = FALSE /\ Base(conn, pcb, th) /\ Reach(conn, th) /\ Is(Core, conn, pcb)
  BY DEF NetconnInv, Is, Core
<1>2. /\ conn[c] \in ConnType /\ th[c] \in ThreadType /\ ConnOK(conn[c], th[c])
      /\ conn \in [Conns -> ConnType] /\ th \in [Conns -> ThreadType] /\ pcb \in [Pcbs -> PcbType]
      /\ p \in Pcbs /\ pcb[p] \in PcbType /\ PcbOK(pcb[p])
      /\ Pair(c, conn[c], pcb[p], th[c])
  BY <1>1, PairFacts
<1>3. Is(u, conn, P1)
  BY <1>1, SetUpIs
<1>4. /\ v \in PcbType /\ v.st = pcb[p].st /\ v.arg = c /\ v.listener = pcb[p].listener
      /\ v.recv /\ v.sent /\ v.poll /\ v.err /\ v.accepts_pending = pcb[p].accepts_pending
      /\ v.refused = pcb[p].refused /\ v.out = pcb[p].out /\ v.pend = pcb[p].pend /\ v.unread = pcb[p].unread
  BY <1>2, SetUpFields
<1> HIDE DEF v, u
<1>5. P1 \in [Pcbs -> PcbType] /\ P1[p] = v /\ \A y : [P1 EXCEPT ![p] = y] = [pcb EXCEPT ![p] = y]
  BY <1>2, <1>4
<1>6. /\ r \in PcbType /\ r.st = "SYN_SENT" /\ r.arg = v.arg /\ r.listener = v.listener
      /\ r.recv = v.recv /\ r.sent = v.sent /\ r.poll = v.poll /\ r.err = v.err
      /\ r.refused = v.refused /\ r.out = v.out /\ r.pend = v.pend /\ r.unread = v.unread
  BY <1>4 DEF SynSent, PcbType, TcpStates
<1>7. /\ k \in ConnType /\ k.used = conn[c].used /\ k.state = "CONNECT" /\ (k.innb <=> nb)
      /\ k.pcb = conn[c].pcb /\ (k.msg <=> ~nb) /\ k.recvmbox = conn[c].recvmbox
      /\ k.acceptmbox = conn[c].acceptmbox /\ k.fatal = conn[c].fatal
      /\ k.write_offset = conn[c].write_offset /\ k.sem = conn[c].sem /\ k.api = conn[c].api
  BY <1>2, ConnectingFields
<1> HIDE DEF P1
<1>8. Is(t, [conn EXCEPT ![c] = k], [P1 EXCEPT ![p] = SynSent(P1[p])])
  BY <1>2, <1>3, <1>5, ConnectIs, Zenon
<1>9. Becomes(t)
  BY Zenon DEF u
<1>10. Is(t, [conn EXCEPT ![c] = k], [pcb EXCEPT ![p] = r])
  <2> HIDE DEF t, k
  <2> QED BY <1>5, <1>8
<1>11. x \in ThreadType /\ x.pc = pc /\ x.item = th[c].item
  <2>1. pc \in Pcs
    BY DEF Pcs, Waits
  <2> HIDE DEF pc
  <2> QED BY <1>2, <2>1, GotoFields
<1>12. th' = [th EXCEPT ![c] = x]
  BY DEF Goto
<1>13. pc \in {"idle", "connect"} /\ (pc = "idle" <=> nb)
  OBVIOUS
<1> HIDE DEF r, k, x, t, pc
<1>14. /\ conn[c].sem = 0 /\ th[c].item = NULL /\ conn[c].used /\ conn[c].write_offset = 0
       /\ ~conn[c].acceptmbox.valid
  BY <1>2 DEF ConnOK, Control, Boxes, Count, Quiet
<1>15. ConnOK(k, x)
  <2>1. Control(k, x)
    BY <1>7, <1>11, <1>13, <1>14 DEF Control, Quiet, Waits
  <2>2. Boxes(k, x)
    BY <1>2, <1>7, <1>11, <1>13, <1>14 DEF ConnOK, Boxes
  <2>3. Count(k, x)
    BY <1>7, <1>11, <1>13, <1>14 DEF Count
  <2> QED BY <2>1, <2>2, <2>3 DEF ConnOK
<1>16. PcbOK(r)
  BY <1>2, <1>4, <1>6 DEF PcbOK, Orphan
<1>17. BacklogKept(pcb[p], r)
  BY <1>4, <1>6 DEF BacklogKept
<1>18. Pair(c, k, r, x)
  <2>1. Taken(x) = Taken(th[c])
    BY <1>11, <1>13 DEF Taken
  <2>2. ASSUME k.recvmbox.valid
        PROVE  Window(k, r, x)
    BY <1>2, <1>4, <1>6, <1>7, <2>1, <2>2 DEF Pair, Window
  <2> QED BY <1>4, <1>6, <1>7, <1>11, <1>13, <2>2 DEF Pair, Owned
<1>19. (x.pc = "none" <=> th[c].pc = "none") /\ k.acceptmbox.q = conn[c].acceptmbox.q /\ k.pcb = p
  BY <1>7, <1>11, <1>13
<1> QED BY <1>2, <1>6, <1>7, <1>9, <1>10, <1>11, <1>12, <1>15, <1>16, <1>17, <1>18, <1>19, PairKeeps

(* netconn_connect.                                                        *)
LEMMA ConnectKeeps ==
  ASSUME NetconnInv, NEW c \in Conns, NEW nb \in BOOLEAN, NEW syn \in BOOLEAN, netconn_connect(c, nb, syn)
  PROVE  NetconnInv'
<1> DEFINE p == conn[c].pcb
<1>1. th[c].pc = "idle" /\ conn[c].state = "NONE"
  BY DEF netconn_connect, At
<1>2. CASE p = NULL
  <2>1. Becomes([Core EXCEPT !.conn[c].fatal = TRUE]) /\ UNCHANGED th
    BY <1>2, Zenon DEF netconn_connect
  <2> QED BY <1>1, <1>2, <2>1, ConnectFails, Zenon
<1>3. CASE p # NULL /\ pcb[p].st = "CLOSED" /\ syn
  <2>1. /\ Becomes([setup_tcp(Core, c) EXCEPT !.pcb[p].st = "SYN_SENT", !.conn[c].state = "CONNECT",
                                   !.conn[c].innb = nb, !.conn[c].msg = ~nb])
        /\ Goto(c, IF nb THEN "idle" ELSE "connect")
    BY <1>3, Zenon DEF netconn_connect
  <2> QED BY <1>1, <1>3, <2>1, ConnectStarts, Zenon
<1>4. CASE p # NULL /\ ~(pcb[p].st = "CLOSED" /\ syn)
  <2>1. Becomes(setup_tcp(Core, c)) /\ UNCHANGED th
    BY <1>4, Zenon DEF netconn_connect
  <2> QED BY <1>1, <1>4, <2>1, ConnectRefused, Zenon
<1> QED BY <1>2, <1>3, <1>4

(* The state that tcp_listen leaves.                                       *)
LEMMA ListenIs ==
  ASSUME NEW C \in [Conns -> ConnType], NEW P \in [Pcbs -> PcbType], NEW s, Is(s, C, P),
         NEW c \in Conns, NEW p \in Pcbs, NEW r, NEW m
  PROVE  Is([s EXCEPT !.conn[c].acceptmbox = m, !.conn[c].state = "LISTEN", !.pcb[p] = r],
            [C EXCEPT ![c] = [C[c] EXCEPT !.acceptmbox = m, !.state = "LISTEN"]], [P EXCEPT ![p] = r])
<1> DEFINE t == [s EXCEPT !.conn[c].acceptmbox = m, !.conn[c].state = "LISTEN", !.pcb[p] = r]
           k == [C[c] EXCEPT !.acceptmbox = m, !.state = "LISTEN"]
<1>1. t.failed = FALSE /\ t.pcb = [P EXCEPT ![p] = r]
  BY DEF Is
<1>2. t.conn = [C EXCEPT ![c] = k]
  BY DEF Is, ConnType
<1>3. t = [s EXCEPT !.conn = t.conn, !.pcb = t.pcb]
  BY DEF Is
<1> HIDE DEF t
<1>4. Is(t, t.conn, t.pcb)
  BY <1>1, <1>3 DEF Is
<1> HIDE DEF k
<1>5. Is(t, [C EXCEPT ![c] = k], [P EXCEPT ![p] = r])
  BY <1>1, <1>2, <1>4
<1> QED BY <1>5, Zenon DEF t, k

(* netconn_listen: tcp_listen replaces the pcb, or there is no memory for  *)
(* the acceptmbox and the pcb is freed.                                    *)
LEMMA ListenKeeps ==
  ASSUME NetconnInv, NEW c \in Conns, NEW mbox \in BOOLEAN, netconn_listen(c, mbox)
  PROVE  NetconnInv'
<1> DEFINE p == conn[c].pcb
           u == Core
           s == [u EXCEPT !.conn[c].recvmbox = NoMbox]
           d == Drained(conn[c])
           C1 == [conn EXCEPT ![c] = d]
<1>1. failed = FALSE /\ Base(conn, pcb, th) /\ Reach(conn, th) /\ Is(u, conn, pcb)
  BY DEF NetconnInv, Is, Core
<1>2. /\ th[c].pc = "idle" /\ p # NULL /\ conn[c].state = "NONE" /\ pcb[p].st = "CLOSED"
      /\ ~conn[c].fatal /\ UNCHANGED th
  BY DEF netconn_listen, At
<1>3. /\ conn[c] \in ConnType /\ th[c] \in ThreadType /\ ConnOK(conn[c], th[c])
      /\ conn \in [Conns -> ConnType] /\ th \in [Conns -> ThreadType] /\ pcb \in [Pcbs -> PcbType]
      /\ p \in Pcbs /\ pcb[p] \in PcbType /\ PcbOK(pcb[p]) /\ [th EXCEPT ![c] = th[c]] = th
  BY <1>1, <1>2, PairFacts
<1>4. Becomes(IF mbox THEN [s EXCEPT !.conn[c].acceptmbox = NewMbox, !.conn[c].state = "LISTEN",
                                     !.pcb[p] = [NoPcb EXCEPT !.st = "LISTEN", !.arg = c]]
                      ELSE [s EXCEPT !.conn[c].pcb = NULL, !.pcb[p] = NoPcb])
  BY Zenon DEF netconn_listen
<1> HIDE DEF u, p
<1>5. Is(s, C1, pcb)
  BY <1>1 DEF Is, Drained
<1>6. /\ d \in ConnType /\ d.used = conn[c].used /\ d.state = conn[c].state /\ d.innb = conn[c].innb
      /\ d.pcb = conn[c].pcb /\ d.msg = conn[c].msg /\ d.recvmbox = NoMbox
      /\ d.acceptmbox = conn[c].acceptmbox
      /\ d.fatal = conn[c].fatal /\ d.write_offset = conn[c].write_offset /\ d.sem = conn[c].sem /\ d.api = conn[c].api
  BY <1>3, DrainedFields
<1>7. /\ conn[c].sem = 0 /\ th[c].item = NULL /\ conn[c].used /\ conn[c].write_offset = 0
      /\ conn[c].acceptmbox = NoMbox /\ ~conn[c].msg /\ ~conn[c].innb
  BY <1>2, <1>3 DEF ConnOK, Control, Boxes, Count, Quiet, p
<1> HIDE DEF s, d
<1>8. C1 \in [Conns -> ConnType] /\ C1[c] = d /\ \A y : [C1 EXCEPT ![c] = y] = [conn EXCEPT ![c] = y]
  BY <1>3, <1>6
<1> HIDE DEF C1
<1>9. pcb[p].listener = NULL /\ ~pcb[p].pend
  BY <1>2, <1>3 DEF PcbOK
<1>10. /\ NoPcb \in PcbType /\ NoPcb.unread = 0 /\ NoPcb.refused = "none" /\ NoPcb.out = 0
       /\ NoPcb.listener = NULL /\ ~NoPcb.pend /\ NoPcb.st = "free" /\ NoPcb.accepts_pending = 0
       /\ ~NoPcb.recv /\ ~NoPcb.sent /\ ~NoPcb.poll /\ ~NoPcb.err /\ PcbOK(NoPcb)
  BY NoPcbIsOK DEF NoPcb
<1> HIDE DEF NoPcb
<1>11. CASE mbox
  <2> DEFINE r == [NoPcb EXCEPT !.st = "LISTEN", !.arg = c]
             k == [d EXCEPT !.acceptmbox = NewMbox, !.state = "LISTEN"]
             t == [s EXCEPT !.conn[c].acceptmbox = NewMbox, !.conn[c].state = "LISTEN", !.pcb[p] = r]
  <2>1. Becomes(t)
    BY <1>4, <1>11, Zenon
  <2>2. /\ r \in PcbType /\ r.unread = 0 /\ r.refused = "none" /\ r.out = 0
        /\ r.listener = NULL /\ ~r.pend /\ r.st = "LISTEN" /\ r.arg = c /\ r.accepts_pending = 0
        /\ ~r.recv /\ ~r.sent /\ ~r.poll /\ ~r.err
    BY <1>10 DEF PcbType, TcpStates
  <2>3. NewMbox \in Mbox(Conns \cup {"aborted", "nul"})
    BY DEF NewMbox, Mbox
  <2>4. /\ k \in ConnType /\ k.used = d.used /\ k.state = "LISTEN" /\ k.innb = d.innb
        /\ k.pcb = d.pcb /\ k.msg = d.msg /\ k.recvmbox = d.recvmbox /\ k.acceptmbox = NewMbox
        /\ k.write_offset = d.write_offset /\ k.sem = d.sem /\ k.api = d.api
    BY <1>6, <2>3 DEF ConnType, States
  <2> HIDE DEF r
  <2>5. Is(t, [C1 EXCEPT ![c] = [C1[c] EXCEPT !.acceptmbox = NewMbox, !.state = "LISTEN"]],
           [pcb EXCEPT ![p] = r])
    BY <1>3, <1>5, <1>8, ListenIs, Zenon
  <2> HIDE DEF t
  <2>6. Is(t, [C1 EXCEPT ![c] = k], [pcb EXCEPT ![p] = r])
    BY <1>8, <2>5
  <2> HIDE DEF k
  <2>9. Is(t, [conn EXCEPT ![c] = k], [pcb EXCEPT ![p] = r])
    BY <1>8, <2>6
  <2>10. k.used /\ k.pcb = p /\ p # NULL /\ ~k.msg /\ ~k.innb /\ k.sem = 0 /\ k.write_offset = 0
    BY <1>2, <1>6, <1>7, <2>4 DEF p
  <2>11. Control(k, th[c])
    BY <1>2, <2>4, <2>10 DEF Control, Quiet, Waits
  <2>12. Boxes(k, th[c])
    BY <1>2, <1>6, <1>7, <2>4, <2>10, NewMboxIs DEF Boxes
  <2>13. Count(k, th[c])
    BY <1>2, <2>4, <2>10 DEF Count
  <2>14. PcbOK(r)
    BY <2>2 DEF PcbOK, Orphan
  <2>15. BacklogKept(pcb[p], r)
    BY <1>2, <1>9, <2>2 DEF BacklogKept
  <2>16. Pair(c, k, r, th[c])
    BY <1>6, <2>2, <2>4, NewMboxIs DEF Pair, Owned
  <2>17. k.used = conn[c].used /\ k.acceptmbox.q = conn[c].acceptmbox.q /\ conn[c].pcb = p
    BY <1>6, <1>7, <2>4, NewMboxIs DEF p
  <2>18. th' = [th EXCEPT ![c] = th[c]]
    BY <1>2, <1>3
  <2> QED BY <1>3, <2>1, <2>2, <2>4, <2>9, <2>10, <2>11, <2>12, <2>13, <2>14, <2>15, <2>16, <2>17, <2>18,
             PairKeeps DEF ConnOK
<1>12. CASE ~mbox
  <2> DEFINE k == Unlinked(d)
             t == [s EXCEPT !.conn[c].pcb = NULL, !.pcb[p] = NoPcb]
  <2>1. Becomes(t)
    BY <1>4, <1>12, Zenon
  <2>2. Is(t, [C1 EXCEPT ![c] = Unlinked(C1[c])], [pcb EXCEPT ![p] = NoPcb])
    BY <1>5 DEF Is, Unlinked
  <2>3. /\ k \in ConnType /\ k.used = d.used /\ k.state = d.state /\ k.innb = d.innb
        /\ k.pcb = NULL /\ k.msg = d.msg /\ k.recvmbox = d.recvmbox
        /\ k.acceptmbox = d.acceptmbox /\ k.fatal = d.fatal
        /\ k.write_offset = d.write_offset /\ k.sem = d.sem /\ k.api = d.api
    BY <1>6, UnlinkedFields
  <2> HIDE DEF t, k
  <2>4. Is(t, [conn EXCEPT ![c] = k], [pcb EXCEPT ![p] = NoPcb])
    BY <1>8, <2>2 DEF k
  <2>5. conn' = [conn EXCEPT ![c] = k] /\ pcb' = [pcb EXCEPT ![p] = NoPcb] /\ failed' = FALSE
    BY <2>1, <2>4, BecomesIs
  <2>6. /\ k.used /\ ~k.msg /\ ~k.innb /\ k.sem = 0 /\ k.write_offset = 0 /\ k.state = "NONE"
        /\ k.recvmbox = NoMbox /\ k.acceptmbox = NoMbox
    BY <1>2, <1>6, <1>7, <2>3
  <2>7. ConnOK(k, th[c])
    <3>1. Control(k, th[c])
      BY <1>2, <2>3, <2>6 DEF Control, Quiet, Waits
    <3>2. Boxes(k, th[c])
      BY <1>2, <1>7, <2>3, <2>6, NewMboxIs DEF Boxes
    <3>3. Count(k, th[c])
      BY <1>2, <2>3, <2>6 DEF Count
    <3> QED BY <3>1, <3>2, <3>3 DEF ConnOK
  <2>8. BacklogKept(pcb[p], NoPcb) /\ NoPcb.st \notin Owned
    BY <1>2, <1>9, <1>10 DEF BacklogKept, Owned
  <2>9. Base([conn EXCEPT ![c] = k], [pcb EXCEPT ![p] = NoPcb], [th EXCEPT ![c] = th[c]])
    <3>1. conn[c].pcb = p
      BY DEF p
    <3> QED BY <1>1, <1>3, <1>10, <2>3, <2>7, <2>8, <3>1, PairStep
  <2>10. Reach([conn EXCEPT ![c] = k], [th EXCEPT ![c] = th[c]])
    <3>1. k.used = conn[c].used /\ k.acceptmbox.q = conn[c].acceptmbox.q
      BY <1>6, <2>3
    <3> QED BY <1>1, <1>3, <3>1, ReachKept
  <2> QED BY <1>2, <1>3, <2>5, <2>9, <2>10 DEF NetconnInv
<1> QED BY <1>11, <1>12

-----------------------------------------------------------------------------
(* Writing.                                                                *)

(* The ends of lwip_netconn_do_writemore.                                  *)
LEMMA WriteReduces ==
  ASSUME NEW s, NEW c, NEW mem, NEW rte, NEW delayed,
         NEW t, t = WriteStart(s, c),
         NEW w, w = Written(t, c, s.conn[c].pcb, WriteLen(s, c)),
         NEW R, R = lwip_netconn_do_writemore(s, c, mem, rte, delayed)
  PROVE  \/ R = WriteDone(t, c, "ERR", 0, delayed)
         \/ s.conn[c].api.timeo /\ R = WriteDone(t, c, "OK", s.conn[c].write_offset, delayed)
         \/ /\ s.pcb[s.conn[c].pcb].st \in {"ESTABLISHED", "CLOSE_WAIT"}
            /\ \/ R = WriteDone(w, c, "ERR", 0, delayed)
               \/ /\ w.conn[c].write_offset = SIZE \/ s.conn[c].api.nb
                  /\ R = WriteDone(w, c, "OK", w.conn[c].write_offset, delayed)
               \/ w.conn[c].write_offset # SIZE /\ R = w
               \/ R = t
BY ZenonT(40) DEF lwip_netconn_do_writemore, WriteStart, WriteLen, WriteDone

(* The fields of the netconn.                                              *)
LEMMA GrownFields ==
  ASSUME NEW o \in ConnType, NEW len \in Nat, o.write_offset + len <= SIZE, o.api.given = o.write_offset
  PROVE  LET k == Grown(o, len)
         IN  /\ k \in ConnType /\ k.used = o.used /\ k.state = o.state /\ k.innb = o.innb
             /\ k.pcb = o.pcb /\ k.msg = o.msg /\ k.recvmbox = o.recvmbox
             /\ k.acceptmbox = o.acceptmbox /\ k.fatal = o.fatal
             /\ k.write_offset = o.write_offset + len /\ k.sem = o.sem
             /\ k.api \in MsgType /\ k.api.given = k.write_offset
             /\ k.api.shut = o.api.shut /\ k.api.nb = o.api.nb /\ k.api.timeo = o.api.timeo
<1> DEFINE a == [o.api EXCEPT !.given = o.api.given + len]
           n == o.write_offset + len
           k == Grown(o, len)
<1>1. o.api \in MsgType /\ o.write_offset \in 0 .. SIZE /\ SIZE \in Nat
  BY NetconnAssumption DEF ConnType
<1>2. n \in 0 .. SIZE /\ o.api.given + len = n
  BY <1>1
<1> HIDE DEF n
<1>3. a = [o.api EXCEPT !.given = n]
  BY <1>2
<1>4. a \in MsgType /\ a.given = n /\ a.shut = o.api.shut /\ a.nb = o.api.nb /\ a.timeo = o.api.timeo
  BY <1>1, <1>2, <1>3 DEF MsgType
<1>5. k = [o EXCEPT !.write_offset = n, !.api = a]
  BY DEF Grown, ConnType, n
<1>0. n \in 0 .. SIZE /\ a \in MsgType
  BY <1>2, <1>4
<1> HIDE DEF a, k
<1>6. /\ k \in ConnType /\ k.used = o.used /\ k.state = o.state /\ k.innb = o.innb
      /\ k.pcb = o.pcb /\ k.msg = o.msg /\ k.recvmbox = o.recvmbox
      /\ k.acceptmbox = o.acceptmbox /\ k.fatal = o.fatal
      /\ k.write_offset = n /\ k.sem = o.sem /\ k.api = a
  BY <1>5, <1>0 DEF ConnType
<1> QED BY <1>4, <1>6 DEF k, n

(* The fields of the pcb.                                                  *)
LEMMA SendingFields ==
  ASSUME NEW o \in PcbType, NEW len \in Nat, o.out + len <= SND_BUF
  PROVE  LET r == Sending(o, len)
         IN  /\ r \in PcbType /\ r.st = o.st /\ r.arg = o.arg /\ r.listener = o.listener
             /\ r.recv = o.recv /\ r.sent = o.sent /\ r.poll = o.poll /\ r.err = o.err
             /\ r.accepts_pending = o.accepts_pending /\ r.rxclosed = o.rxclosed
             /\ r.refused = o.refused /\ r.pend = o.pend /\ r.unread = o.unread
             /\ r.out = o.out + len
<1> DEFINE n == o.out + len
<1>1. n \in 0 .. SND_BUF
  BY NetconnAssumption DEF PcbType
<1> HIDE DEF n
<1>2. Sending(o, len) = [o EXCEPT !.out = n]
  BY DEF Sending, n
<1>3. LET r == Sending(o, len)
      IN  /\ r \in PcbType /\ r.st = o.st /\ r.arg = o.arg /\ r.listener = o.listener
          /\ r.recv = o.recv /\ r.sent = o.sent /\ r.poll = o.poll /\ r.err = o.err
          /\ r.accepts_pending = o.accepts_pending /\ r.rxclosed = o.rxclosed
          /\ r.refused = o.refused /\ r.pend = o.pend /\ r.unread = o.unread
          /\ r.out = n
  BY <1>1, <1>2 DEF PcbType
<1> QED BY <1>3 DEF n

(* Written changes these two.                                              *)
LEMMA WrittenIs ==
  ASSUME NEW C \in [Conns -> ConnType], NEW P \in [Pcbs -> PcbType], NEW s, Is(s, C, P),
         NEW c \in Conns, NEW p \in Pcbs, NEW len
  PROVE  Is(Written(s, c, p, len), [C EXCEPT ![c] = Grown(C[c], len)], [P EXCEPT ![p] = Sending(P[p], len)])
<1> DEFINE old == s.conn[c]
           k == [old EXCEPT !.write_offset = @ + len, !.api.given = @ + len]
           t == [s EXCEPT !.pcb[p].out = @ + len, !.conn[c] = k]
<1>0. old = C[c] /\ C[c] \in ConnType
  BY DEF Is
<1>k. k = Grown(C[c], len)
  BY <1>0 DEF Grown, ConnType
<1> HIDE DEF k
<1>1. t.failed = FALSE
  BY DEF Is
<1>2. t.pcb = [P EXCEPT ![p] = Sending(P[p], len)]
  BY DEF Is, Sending
<1>3. t.conn = [C EXCEPT ![c] = Grown(C[c], len)]
  BY <1>k DEF Is
<1>4. t = [s EXCEPT !.conn = t.conn, !.pcb = t.pcb]
  BY DEF Is
<1> HIDE DEF t
<1>5. Is(t, t.conn, t.pcb)
  BY <1>1, <1>4 DEF Is
<1>6. Is(t, [C EXCEPT ![c] = Grown(C[c], len)], [P EXCEPT ![p] = Sending(P[p], len)])
  BY <1>2, <1>3, <1>5
<1> QED BY <1>6, Zenon DEF t, k, Written

(* CompletedFields, as one formula.                                        *)
LEMMA CompletedAs ==
  ASSUME NEW o \in ConnType, NEW err \in Errors, NEW delayed \in BOOLEAN, delayed => o.sem = 0
  PROVE  CompletedFrom(Completed(o, err, delayed), o, err, IF delayed THEN 1 ELSE o.sem)
<1> DEFINE a == [o.api EXCEPT !.err = err]
           n == IF delayed THEN o.sem + 1 ELSE o.sem
           k == Completed(o, err, delayed)
<1>1. o.api \in MsgType
  BY DEF ConnType
<1>2. /\ a \in MsgType /\ a.err = err /\ a.shut = o.api.shut /\ a.nb = o.api.nb
      /\ a.len = o.api.len /\ a.timeo = o.api.timeo /\ a.late = o.api.late /\ a.given = o.api.given
  BY <1>1 DEF MsgType, Errors
<1>3. n \in 0 .. 1 /\ n = (IF delayed THEN 1 ELSE o.sem)
  BY DEF ConnType
<1>4. k = [o EXCEPT !.api = a, !.msg = FALSE, !.state = "NONE", !.sem = n]
  BY DEF Completed, ConnType
<1>5. "NONE" \in States
  BY DEF States
<1> HIDE DEF a, n, k
<1>6. a \in MsgType
  BY <1>2
<1>7. n \in 0 .. 1
  BY <1>3
<1>8. k \in ConnType /\ k.used = o.used /\ k.state = "NONE" /\ k.innb = o.innb
      /\ k.pcb = o.pcb /\ ~k.msg /\ k.recvmbox = o.recvmbox
      /\ k.acceptmbox = o.acceptmbox /\ k.fatal = o.fatal
      /\ k.write_offset = o.write_offset /\ k.sem = n /\ k.api = a
  BY <1>4, <1>5, <1>6, <1>7 DEF ConnType
<1> QED BY <1>2, <1>3, <1>8 DEF k, CompletedFrom

(* Its fields.                                                             *)
LEMMA FinishedFields ==
  ASSUME NEW o \in ConnType, NEW err \in {"OK", "ERR"}, NEW n \in 0 .. SIZE, NEW delayed \in BOOLEAN, delayed => o.sem = 0
  PROVE  FinishedFrom(Finished(o, err, n, delayed), o, err, n, delayed)
<1> DEFINE d == Completed(o, err, delayed)
           a == [d.api EXCEPT !.len = n]
           k == [d EXCEPT !.write_offset = 0, !.api = a]
<1>0. err \in Errors
  BY DEF Errors
<1>1. CompletedFrom(d, o, err, IF delayed THEN 1 ELSE o.sem)
  BY <1>0, CompletedAs
<1> HIDE DEF d
<1>a. d \in ConnType /\ d.api \in MsgType
  BY <1>1 DEF CompletedFrom
<1>2. a \in MsgType /\ a.err = d.api.err /\ a.shut = d.api.shut /\ a.nb = d.api.nb /\ a.len = n
      /\ a.timeo = d.api.timeo /\ a.given = d.api.given
  BY <1>a DEF MsgType
<1>3. Finished(o, err, n, delayed) = k
  BY <1>a DEF Finished, ConnType, d
<1>4. 0 \in 0 .. SIZE
  BY NetconnAssumption
<1>5. d \in ConnType /\ a \in MsgType
  BY <1>a, <1>2
<1> HIDE DEF a
<1>6. /\ k \in ConnType /\ k.used = d.used /\ k.state = d.state /\ k.innb = d.innb
      /\ k.pcb = d.pcb /\ k.msg = d.msg /\ k.recvmbox = d.recvmbox
      /\ k.acceptmbox = d.acceptmbox /\ k.fatal = d.fatal
      /\ k.write_offset = 0 /\ k.sem = d.sem /\ k.api = a
  BY <1>4, <1>5 DEF ConnType
<1> HIDE DEF k
<1> QED BY <1>1, <1>2, <1>3, <1>6 DEF CompletedFrom, FinishedFrom

(* WriteDone changes the netconn only.                                     *)
LEMMA WriteDoneIs ==
  ASSUME NEW C \in [Conns -> ConnType], NEW P, NEW s, Is(s, C, P), NEW c \in Conns,
         NEW err, NEW n, NEW delayed \in BOOLEAN
  PROVE  Is(WriteDone(s, c, err, n, delayed), [C EXCEPT ![c] = Finished(C[c], err, n, delayed)], P)
<1> DEFINE v == Complete(s, c, err, delayed)
           d == Completed(C[c], err, delayed)
           D == [C EXCEPT ![c] = d]
           t == [v EXCEPT !.conn[c].write_offset = 0, !.conn[c].api.len = n]
<1>1. Is(v, D, P)
  BY CompleteIs
<1>2. D[c] = d
  OBVIOUS
<1>3. \A x : [D EXCEPT ![c] = x] = [C EXCEPT ![c] = x]
  OBVIOUS
<1> HIDE DEF v, D, d
<1>4. t.failed = FALSE /\ t.pcb = P
  BY <1>1 DEF Is
<1>5. t.conn = [D EXCEPT ![c] = [D[c] EXCEPT !.write_offset = 0, !.api.len = n]]
  BY <1>1 DEF Is
<1>6. v = [conn |-> D, pcb |-> P, failed |-> FALSE]
  BY <1>1 DEF Is
<1>6b. t \in [conn : {t.conn}, pcb : {t.pcb}, failed : {t.failed}]
  BY <1>1 DEF Is
<1> HIDE DEF t
<1>7. Is(t, t.conn, P)
  BY <1>4, <1>6b DEF Is
<1>8. Is(t, [C EXCEPT ![c] = [d EXCEPT !.write_offset = 0, !.api.len = n]], P)
  BY <1>2, <1>3, <1>5, <1>7
<1> QED BY <1>8, Zenon DEF t, v, d, WriteDone, Finished

(* Nothing is written.                                                     *)
LEMMA GrownByNothing ==
  ASSUME NEW C \in [Conns -> ConnType], NEW P \in [Pcbs -> PcbType], NEW c \in Conns, NEW p \in Pcbs
  PROVE  /\ Grown(C[c], 0) = C[c] /\ Sending(P[p], 0) = P[p]
         /\ [C EXCEPT ![c] = Grown(C[c], 0)] = C /\ [P EXCEPT ![p] = Sending(P[p], 0)] = P
<1>0. C[c].write_offset \in 0 .. SIZE /\ C[c].api \in MsgType /\ C[c] \in ConnType /\ P[p] \in PcbType
  BY DEF ConnType
<1>a. P[p].out \in 0 .. SND_BUF /\ C[c].api.given \in 0 .. SIZE
  BY <1>0 DEF PcbType, MsgType
<1>1. C[c].write_offset \in Nat /\ P[p].out \in Nat /\ C[c].api.given \in Nat /\ C[c].api \in MsgType
      /\ C[c] \in ConnType /\ P[p] \in PcbType
  BY <1>0, <1>a
<1>2. C[c].write_offset + 0 = C[c].write_offset /\ P[p].out + 0 = P[p].out /\ C[c].api.given + 0 = C[c].api.given
  BY <1>1
<1>3. Sending(P[p], 0) = P[p]
  BY <1>1, <1>2 DEF Sending, PcbType
<1>4. [C[c].api EXCEPT !.given = C[c].api.given + 0] = C[c].api
  BY <1>1, <1>2 DEF MsgType
<1>5. Grown(C[c], 0) = [C[c] EXCEPT !.write_offset = C[c].write_offset, !.api = C[c].api]
  BY <1>1, <1>2, <1>4 DEF Grown, ConnType
<1>6. Grown(C[c], 0) = C[c]
  BY <1>1, <1>5 DEF ConnType
<1> QED BY <1>3, <1>6

(* What lwip_netconn_do_writemore does to the state.                       *)
LEMMA WritemoreIs ==
  ASSUME NEW s, NEW C, NEW P, NEW c, NEW p, WriteReady(s, C, P, c, p),
         NEW mem, NEW rte, NEW delayed \in BOOLEAN
  PROVE  WriteGoes(lwip_netconn_do_writemore(s, c, mem, rte, delayed), C, P, c, p, delayed)
<1> DEFINE R == lwip_netconn_do_writemore(s, c, mem, rte, delayed)
           t == WriteStart(s, c)
           len == WriteLen(s, c)
           w == Written(t, c, p, len)
           k == Grown(C[c], len)
           D == [C EXCEPT ![c] = k]
           Q == [P EXCEPT ![p] = Sending(P[p], len)]
<1>1. /\ C \in [Conns -> ConnType] /\ P \in [Pcbs -> PcbType] /\ Is(s, C, P)
      /\ c \in Conns /\ p \in Pcbs /\ C[c].pcb = p /\ C[c].state = "WRITE" /\ C[c].msg
      /\ C[c].write_offset < SIZE /\ C[c].api.given = C[c].write_offset
  BY DEF WriteReady
<1>2. p # NULL /\ SIZE \in Nat /\ SND_BUF \in Nat
  BY <1>1, NetconnAssumption
<1>3. /\ s.conn[c].state = "WRITE" /\ s.conn[c].msg /\ s.conn[c].pcb = p /\ s.conn[c].write_offset < SIZE
      /\ s.conn[c] = C[c] /\ s.pcb[p] = P[p]
  BY <1>1 DEF Is
<1>4. Is(t, C, P)
  <2>1. s.conn[c].state = "WRITE" /\ s.conn[c].msg /\ s.conn[c].pcb # NULL /\ s.conn[c].write_offset < SIZE
    BY <1>2, <1>3
  <2> QED BY <1>1, <2>1, CheckIs DEF WriteStart
<1>5. C[c].write_offset \in 0 .. SIZE /\ P[p].out \in 0 .. SND_BUF /\ C[c] \in ConnType
  BY <1>1 DEF ConnType, PcbType
<1>6. len \in Nat /\ C[c].write_offset + len <= SIZE /\ P[p].out + len <= SND_BUF
  BY <1>2, <1>3, <1>5 DEF WriteLen
<1> HIDE DEF t, len
<1>7. Is(w, D, Q)
  BY <1>1, <1>4, WrittenIs
<1>8. k \in ConnType /\ k.write_offset = C[c].write_offset + len
  BY <1>1, <1>5, <1>6, GrownFields
<1> HIDE DEF w, k
<1>9. D \in [Conns -> ConnType] /\ D[c] = k /\ \A x : [D EXCEPT ![c] = x] = [C EXCEPT ![c] = x]
  BY <1>1, <1>8
<1>10. w.conn[c].write_offset = C[c].write_offset + len
  BY <1>7, <1>8, <1>9 DEF Is
<1> HIDE DEF D, Q, R
<1>11. ASSUME NEW err, NEW n
       PROVE  /\ Is(WriteDone(t, c, err, n, delayed), [C EXCEPT ![c] = Finished(C[c], err, n, delayed)], P)
              /\ Is(WriteDone(w, c, err, n, delayed), [C EXCEPT ![c] = Finished(k, err, n, delayed)], Q)
  <2>1. Is(WriteDone(w, c, err, n, delayed), [D EXCEPT ![c] = Finished(D[c], err, n, delayed)], Q)
    BY <1>1, <1>7, <1>9, WriteDoneIs
  <2>2. Is(WriteDone(t, c, err, n, delayed), [C EXCEPT ![c] = Finished(C[c], err, n, delayed)], P)
    BY <1>1, <1>4, WriteDoneIs
  <2> QED BY <2>1, <2>2, <1>9
<1>12. /\ Grown(C[c], 0) = C[c] /\ [C EXCEPT ![c] = Grown(C[c], 0)] = C
       /\ [P EXCEPT ![p] = Sending(P[p], 0)] = P /\ C[c].write_offset + 0 = C[c].write_offset /\ P[p].out + 0 = P[p].out
  BY <1>1, <1>5, GrownByNothing
<1>13. 0 \in Nat /\ C[c].write_offset + 0 <= SIZE /\ P[p].out + 0 <= SND_BUF /\ C[c].write_offset + 0 < SIZE
       /\ 0 \in 0 .. SIZE /\ C[c].write_offset \in 0 .. SIZE /\ C[c].write_offset + len \in 0 .. SIZE
  BY <1>1, <1>2, <1>5, <1>6
<1>14. \/ R = WriteDone(t, c, "ERR", 0, delayed)
       \/ s.conn[c].api.timeo /\ R = WriteDone(t, c, "OK", s.conn[c].write_offset, delayed)
       \/ /\ s.pcb[s.conn[c].pcb].st \in {"ESTABLISHED", "CLOSE_WAIT"}
          /\ \/ R = WriteDone(w, c, "ERR", 0, delayed)
             \/ /\ w.conn[c].write_offset = SIZE \/ s.conn[c].api.nb
                /\ R = WriteDone(w, c, "OK", w.conn[c].write_offset, delayed)
             \/ w.conn[c].write_offset # SIZE /\ R = w
             \/ R = t
  <2>1. w = Written(t, c, s.conn[c].pcb, WriteLen(s, c)) /\ t = WriteStart(s, c)
    BY <1>3 DEF w, t, len
  <2>2. R = lwip_netconn_do_writemore(s, c, mem, rte, delayed)
    BY DEF R
  <2> QED BY <2>1, <2>2, WriteReduces
<1>15. CASE R = WriteDone(t, c, "ERR", 0, delayed)
  <2>1. WriteEnds(R, C, P, c, p, 0, "ERR", 0, delayed)
    BY <1>11, <1>12, <1>15 DEF WriteEnds
  <2> QED BY <1>13, <2>1 DEF WriteGoes, R
<1>16. CASE s.conn[c].api.timeo /\ R = WriteDone(t, c, "OK", s.conn[c].write_offset, delayed)
  <2>0. C[c].api.timeo /\ R = WriteDone(t, c, "OK", C[c].write_offset, delayed)
    BY <1>3, <1>16
  <2>a. Is(R, [C EXCEPT ![c] = Finished(Grown(C[c], 0), "OK", C[c].write_offset, delayed)],
              [P EXCEPT ![p] = Sending(P[p], 0)])
    BY <1>11, <1>12, <2>0
  <2>1. WriteEnds(R, C, P, c, p, 0, "OK", C[c].write_offset, delayed)
    BY <1>12, <2>0, <2>a DEF WriteEnds
  <2> QED BY <1>13, <2>1 DEF WriteGoes, R
<1>17. CASE P[p].st \in {"ESTABLISHED", "CLOSE_WAIT"} /\ R = WriteDone(w, c, "ERR", 0, delayed)
  <2>1. WriteEnds(R, C, P, c, p, len, "ERR", 0, delayed)
    BY <1>11, <1>17 DEF WriteEnds, k, Q
  <2> QED BY <1>6, <1>13, <2>1 DEF WriteGoes, R
<1>18. CASE /\ P[p].st \in {"ESTABLISHED", "CLOSE_WAIT"}
            /\ w.conn[c].write_offset = SIZE \/ s.conn[c].api.nb
            /\ R = WriteDone(w, c, "OK", w.conn[c].write_offset, delayed)
  <2> DEFINE n == C[c].write_offset + len
  <2>0. R = WriteDone(w, c, "OK", n, delayed) /\ (n = SIZE \/ C[c].api.nb)
    BY <1>3, <1>10, <1>18
  <2>1. WriteEnds(R, C, P, c, p, len, "OK", n, delayed)
    BY <1>11, <1>18, <2>0 DEF WriteEnds, k, Q
  <2> QED BY <1>6, <1>13, <2>1 DEF WriteGoes, R
<1>19. CASE P[p].st \in {"ESTABLISHED", "CLOSE_WAIT"} /\ w.conn[c].write_offset # SIZE /\ R = w
  <2>1. WriteWaits(R, C, P, c, p, len)
    BY <1>2, <1>6, <1>7, <1>10, <1>13, <1>19 DEF WriteWaits, D, Q, k
  <2> QED BY <1>6, <2>1 DEF WriteGoes, R
<1>20. CASE P[p].st \in {"ESTABLISHED", "CLOSE_WAIT"} /\ R = t
  <2>1. WriteWaits(R, C, P, c, p, 0)
    BY <1>4, <1>12, <1>13, <1>20 DEF WriteWaits
  <2> QED BY <1>13, <2>1 DEF WriteGoes, R
<1> QED BY <1>3, <1>14, <1>15, <1>16, <1>17, <1>18, <1>19, <1>20

(* Whatever a write does, the netconn and its pcb still fit together.      *)
LEMMA WriteGoesFits ==
  ASSUME NEW C \in [Conns -> ConnType], NEW P \in [Pcbs -> PcbType], NEW c \in Conns, NEW p \in Pcbs,
         Writer(c, p, C[c], P[p]), PcbOK(P[p]), NEW R, NEW delayed \in BOOLEAN,
         WriteGoes(R, C, P, c, p, delayed)
  PROVE  WriteFits(R, C, P, c, p, delayed)
<1>1. PICK len \in Nat :
        /\ C[c].write_offset + len <= SIZE /\ P[p].out + len <= SND_BUF
        /\ \/ WriteWaits(R, C, P, c, p, len)
           \/ \E err \in {"OK", "ERR"}, n \in 0 .. SIZE : WriteEnds(R, C, P, c, p, len, err, n, delayed)
  BY DEF WriteGoes
<1> DEFINE r == Sending(P[p], len)
           g == Grown(C[c], len)
<1>2. C[c] \in ConnType /\ P[p] \in PcbType /\ p # NULL /\ Writer(c, p, C[c], P[p])
  BY NetconnAssumption
<1>3. /\ r \in PcbType /\ r.st = P[p].st /\ r.arg = P[p].arg /\ r.listener = P[p].listener
      /\ r.recv = P[p].recv /\ r.sent = P[p].sent /\ r.poll = P[p].poll /\ r.err = P[p].err
      /\ r.accepts_pending = P[p].accepts_pending /\ r.rxclosed = P[p].rxclosed
      /\ r.refused = P[p].refused /\ r.pend = P[p].pend /\ r.unread = P[p].unread
      /\ r.out = P[p].out + len
  BY <1>1, <1>2, SendingFields
<1>4. C[c].api.given = C[c].write_offset
  BY DEF Writer
<1>5. /\ g \in ConnType /\ g.used = C[c].used /\ g.state = C[c].state /\ g.innb = C[c].innb
      /\ g.pcb = C[c].pcb /\ g.msg = C[c].msg /\ g.recvmbox = C[c].recvmbox
      /\ g.acceptmbox = C[c].acceptmbox /\ g.fatal = C[c].fatal
      /\ g.write_offset = C[c].write_offset + len /\ g.sem = C[c].sem
      /\ g.api \in MsgType /\ g.api.given = g.write_offset
      /\ g.api.shut = C[c].api.shut /\ g.api.nb = C[c].api.nb /\ g.api.timeo = C[c].api.timeo
  BY <1>1, <1>2, <1>4, GrownFields
<1>6. SameLinks(P[p], r)
  BY <1>3 DEF SameLinks
<1>7. len = 0 => r.out = P[p].out
  BY <1>2, <1>3 DEF PcbType
<1>8. len = 0 \/ P[p].st \in {"ESTABLISHED", "CLOSE_WAIT"}
  BY <1>1 DEF WriteWaits, WriteEnds
<1> HIDE DEF r, g
<1>9. PcbOK(r)
  BY <1>2, <1>3, <1>7, <1>8 DEF PcbOK, Orphan, Writer
(* What does not depend on how the write goes on. *)
<1>10. ASSUME NEW k \in ConnType, NEW x \in ThreadType, k.used, ~k.innb, k.pcb = p,
              k.recvmbox = C[c].recvmbox, k.acceptmbox = NoMbox, k.state \in {"WRITE", "NONE"},
              x.pc \in {"write", "written"}, x.item = NULL,
              k.state = "WRITE" => P[p].st \in {"ESTABLISHED", "CLOSE_WAIT"}
       PROVE  Boxes(k, x) /\ Pair(c, k, r, x)
  <2>1. Boxes(k, x)
    BY <1>2, <1>10, NewMboxIs DEF Boxes, Writer
  <2>2. Taken(x) = 0
    BY <1>10 DEF Taken
  <2>3. ASSUME k.recvmbox.valid
        PROVE  r.recv /\ Window(k, r, x)
    <3>1. P[p].recv /\ Window(C[c], P[p], x)
      BY <1>10, <2>2, <2>3 DEF Writer
    <3> QED BY <1>3, <1>10, <3>1 DEF Window
  <2>4. r.arg = c /\ r.st \in {"CLOSED", "ESTABLISHED", "CLOSE_WAIT"} /\ r.err /\ r.poll
    BY <1>2, <1>3 DEF Writer
  <2>5. Pair(c, k, r, x)
    BY <1>3, <1>10, <2>3, <2>4 DEF Pair, Owned
  <2> QED BY <2>1, <2>5
<1>11. CASE WriteWaits(R, C, P, c, p, len)
  <2>1. /\ Is(R, [C EXCEPT ![c] = g], [P EXCEPT ![p] = r]) /\ C[c].write_offset + len < SIZE
        /\ P[p].st \in {"ESTABLISHED", "CLOSE_WAIT"}
    BY <1>11 DEF WriteWaits, g, r
  <2>2. g.used /\ ~g.innb /\ g.pcb = p /\ g.acceptmbox = NoMbox /\ g.state = "WRITE" /\ g.msg /\ g.sem = 0
    BY <1>2, <1>5 DEF Writer
  <2>3. ASSUME NEW x \in ThreadType, x.item = NULL, x.pc = "write"
        PROVE  ConnOK(g, x) /\ Pair(c, g, r, x)
    <3>1. Boxes(g, x) /\ Pair(c, g, r, x)
      BY <1>5, <1>10, <2>1, <2>2, <2>3
    <3>2. Control(g, x)
      BY <1>2, <2>2, <2>3 DEF Control, Quiet, Waits
    <3>3. Count(g, x)
      BY <1>5, <2>1, <2>2, <2>3 DEF Count
    <3> QED BY <3>1, <3>2, <3>3 DEF ConnOK
  <2> QED BY <1>3, <1>5, <1>6, <1>9, <2>1, <2>2, <2>3 DEF WriteFits
<1>12. CASE \E err \in {"OK", "ERR"}, n \in 0 .. SIZE : WriteEnds(R, C, P, c, p, len, err, n, delayed)
  <2>0. PICK err \in {"OK", "ERR"}, n \in 0 .. SIZE : WriteEnds(R, C, P, c, p, len, err, n, delayed)
    BY <1>12
  <2> DEFINE k == Finished(g, err, n, delayed)
  <2>1. /\ Is(R, [C EXCEPT ![c] = k], [P EXCEPT ![p] = r])
        /\ err = "OK" => C[c].write_offset + len = IF C[c].api.nb \/ C[c].api.timeo THEN n ELSE SIZE
    BY <2>0 DEF WriteEnds, g, r
  <2>2. g.used /\ ~g.innb /\ g.pcb = p /\ g.acceptmbox = NoMbox /\ g.sem = 0
    BY <1>2, <1>5 DEF Writer
  <2>3. /\ k \in ConnType /\ k.used = g.used /\ k.state = "NONE" /\ k.innb = g.innb
        /\ k.pcb = g.pcb /\ ~k.msg /\ k.recvmbox = g.recvmbox
        /\ k.acceptmbox = g.acceptmbox /\ k.fatal = g.fatal
        /\ k.write_offset = 0 /\ k.sem = (IF delayed THEN 1 ELSE g.sem)
        /\ k.api.err = err /\ k.api.shut = g.api.shut /\ k.api.nb = g.api.nb
        /\ k.api.len = n /\ k.api.timeo = g.api.timeo /\ k.api.given = g.api.given
    <3>1. FinishedFrom(k, g, err, n, delayed)
      BY <1>5, <2>2, FinishedFields
    <3> QED BY <3>1 DEF FinishedFrom
  <2> HIDE DEF k
  <2>4. ASSUME NEW x \in ThreadType, x.item = NULL, x.pc = IF delayed THEN "write" ELSE "written"
        PROVE  ConnOK(k, x) /\ Pair(c, k, r, x)
    <3>0. x.pc \in {"write", "written"} /\ (delayed => x.pc = "write") /\ (~delayed => x.pc = "written")
      BY <2>4
    <3>1. Boxes(k, x) /\ Pair(c, k, r, x)
      BY <1>5, <1>10, <2>2, <2>3, <2>4, <3>0
    <3>2. Control(k, x)
      BY <1>2, <2>2, <2>3, <3>0 DEF Control, Quiet, Waits
    <3>3. Count(k, x)
      BY <1>5, <2>1, <2>3, <2>4 DEF Count
    <3> QED BY <3>1, <3>2, <3>3 DEF ConnOK
  <2>5. k.used /\ k.pcb = p /\ k.acceptmbox = NoMbox /\ k.state = "NONE" /\ k \in ConnType
    BY <2>2, <2>3
  <2> QED BY <1>3, <1>6, <1>9, <2>1, <2>4, <2>5 DEF WriteFits
<1> QED BY <1>1, <1>11, <1>12

(* The start of a call, once its assertion has been checked.               *)
LEMMA StartIs ==
  ASSUME NEW C \in [Conns -> ConnType], NEW P, NEW y, Is(y, C, P), NEW c \in Conns, NEW state, NEW a
  PROVE  Is([y EXCEPT !.conn[c].state = state, !.conn[c].msg = TRUE, !.conn[c].api = a],
            [C EXCEPT ![c] = Started(C[c], state, a)], P)
<1> DEFINE t == [y EXCEPT !.conn[c].state = state, !.conn[c].msg = TRUE, !.conn[c].api = a]
<1>2. t.pcb = P /\ t.failed = FALSE
  BY DEF Is
<1>3. t.conn = [C EXCEPT ![c] = [C[c] EXCEPT !.state = state, !.msg = TRUE, !.api = a]]
  BY DEF Is, ConnType
<1>4. t = [y EXCEPT !.conn = t.conn]
  BY DEF Is
<1> HIDE DEF t
<1>5. Is(t, t.conn, P)
  BY <1>2, <1>4 DEF Is
<1>6. Is(t, [C EXCEPT ![c] = Started(C[c], state, a)], P)
  BY <1>3, <1>5 DEF Started
<1> QED BY <1>6, Zenon DEF t

(* A part of a write ends with a netconn and a pcb that fit.               *)
LEMMA WriteFitsKeeps ==
  ASSUME NetconnInv, NEW c \in Conns, NEW p \in Pcbs, conn[c].pcb = p, conn[c].acceptmbox = NoMbox,
         NEW k0, NEW r0, pcb[p].st # "LISTEN", SameLinks(pcb[p], r0), r0.st # "SYN_RCVD",
         NEW R, NEW delayed \in BOOLEAN,
         WriteFits(R, [conn EXCEPT ![c] = k0], [pcb EXCEPT ![p] = r0], c, p, delayed), Becomes(R),
         th[c].item = NULL, th[c].pc # "none",
         WriteMoves(R, c, delayed)
  PROVE  NetconnInv'
<1> DEFINE C == [conn EXCEPT ![c] = k0]
           P == [pcb EXCEPT ![p] = r0]
<1>1. /\ conn \in [Conns -> ConnType] /\ th \in [Conns -> ThreadType] /\ pcb \in [Pcbs -> PcbType]
      /\ [th EXCEPT ![c] = th[c]] = th /\ conn[c].used /\ th[c] \in ThreadType
  <2>1. Base(conn, pcb, th)
    BY DEF NetconnInv
  <2>2. ConnOK(conn[c], th[c])
    BY <2>1, PairFacts
  <2> QED BY <2>1, <2>2, PairFacts DEF ConnOK, Control
<1>2. (\A x : [C EXCEPT ![c] = x] = [conn EXCEPT ![c] = x])
  BY <1>1
<1>3. (\A x : [P EXCEPT ![p] = x] = [pcb EXCEPT ![p] = x]) /\ P[p] = r0
  BY <1>1
<1> HIDE DEF C, P
<1>4. WriteFits(R, C, P, c, p, delayed)
  BY DEF C, P
<1>5. PICK k \in ConnType, r \in PcbType :
     /\ Is(R, [C EXCEPT ![c] = k], [P EXCEPT ![p] = r])
     /\ k.used /\ k.pcb = p /\ k.acceptmbox = NoMbox /\ PcbOK(r) /\ SameLinks(P[p], r)
     /\ k.state \in {"WRITE", "NONE"}
     /\ \A x \in ThreadType :
          x.item = NULL /\ x.pc = (IF delayed \/ k.state = "WRITE" THEN "write" ELSE "written") =>
             ConnOK(k, x) /\ Pair(c, k, r, x)
  BY <1>4 DEF WriteFits
<1>6. Is(R, [conn EXCEPT ![c] = k], [pcb EXCEPT ![p] = r])
  BY <1>2, <1>3, <1>5
<1>7. R.conn[c] = k
  BY <1>1, <1>6 DEF Is
<1>8. BacklogKept(pcb[p], r)
  BY <1>3, <1>5 DEF SameLinks, BacklogKept
<1> DEFINE pc == IF delayed \/ k.state = "WRITE" THEN "write" ELSE "written"
           x == [th[c] EXCEPT !.pc = pc]
<1>9. pc \in {"write", "written"} /\ pc \in Pcs
  BY DEF Pcs, Waits
<1>10. th' = [th EXCEPT ![c] = x]
  <2>1. CASE ~delayed
    BY <1>7, <2>1 DEF WriteMoves
  <2>2. CASE delayed
    <3>1. x = th[c] /\ th' = th
      BY <1>1, <2>2 DEF ThreadType, WriteMoves
    <3> QED BY <1>1, <3>1
  <2> QED BY <2>1, <2>2
<1>11. x \in ThreadType /\ x.pc = pc /\ x.item = NULL
  <2> HIDE DEF pc
  <2> QED BY <1>1, <1>9, GotoFields
<1> HIDE DEF x
<1>12. ConnOK(k, x) /\ Pair(c, k, r, x) /\ x.pc # "none"
  BY <1>5, <1>9, <1>11
<1>13. /\ k.used = conn[c].used /\ k.acceptmbox.q = conn[c].acceptmbox.q
       /\ (x.pc = "none" <=> th[c].pc = "none") /\ x.item = th[c].item
  <2>1. k.used \in BOOLEAN /\ conn[c].used \in BOOLEAN
    BY <1>1 DEF ConnType
  <2> QED BY <1>1, <1>5, <1>11, <1>12, <2>1
<1> HIDE DEF pc
<1> QED BY <1>5, <1>6, <1>8, <1>10, <1>11, <1>12, <1>13, PairKeeps

(* netconn_write.                                                          *)
LEMMA WriteKeeps ==
  ASSUME NetconnInv, NEW c \in Conns, NEW nb \in BOOLEAN, NEW timeo \in BOOLEAN, NEW late \in BOOLEAN,
         NEW mem \in BOOLEAN, NEW rte \in BOOLEAN, netconn_write(c, nb, timeo, late, mem, rte)
  PROVE  NetconnInv'
<1> DEFINE p == conn[c].pcb
           y == Check(Core, ~conn[c].msg /\ conn[c].write_offset = 0)
           a == [NoMsg EXCEPT !.nb = nb, !.timeo = timeo, !.late = late]
           s == [y EXCEPT !.conn[c].state = "WRITE", !.conn[c].msg = TRUE, !.conn[c].api = a]
           R == lwip_netconn_do_writemore(s, c, mem, rte, FALSE)
           k0 == Started(conn[c], "WRITE", a)
           C == [conn EXCEPT ![c] = k0]
<1>1. /\ th[c].pc = "idle" /\ conn[c].state = "NONE" /\ p # NULL /\ Becomes(R)
      /\ Goto(c, IF R.conn[c].state = "WRITE" THEN "write" ELSE "written")
  BY Zenon DEF netconn_write, At
<1> HIDE DEF R, s, a, y
<1>2. failed = FALSE /\ Base(conn, pcb, th) /\ Reach(conn, th) /\ Is(Core, conn, pcb)
  BY DEF NetconnInv, Is, Core
<1>3. /\ conn[c] \in ConnType /\ th[c] \in ThreadType /\ ConnOK(conn[c], th[c])
      /\ conn \in [Conns -> ConnType] /\ th \in [Conns -> ThreadType] /\ pcb \in [Pcbs -> PcbType]
      /\ p \in Pcbs /\ pcb[p] \in PcbType /\ PcbOK(pcb[p])
      /\ Pair(c, conn[c], pcb[p], th[c]) /\ [pcb EXCEPT ![p] = pcb[p]] = pcb
  BY <1>1, <1>2, PairFacts
<1>4. /\ conn[c].used /\ conn[c].sem = 0 /\ ~conn[c].msg /\ ~conn[c].innb /\ conn[c].write_offset = 0
      /\ conn[c].acceptmbox = NoMbox /\ (~conn[c].recvmbox.valid => conn[c].recvmbox = NoMbox)
      /\ th[c].item = NULL
  BY <1>1, <1>3 DEF ConnOK, Control, Boxes, Count, Quiet
<1>5. Is(y, conn, pcb)
  BY <1>2, <1>4, CheckIs DEF y
<1>6. a \in MsgType /\ a.given = 0 /\ a.shut = "RDWR"
  BY WriteMsgType, Zenon DEF WriteMsg, a
<1>7. \A z \in States : Is([y EXCEPT !.conn[c].state = z, !.conn[c].msg = TRUE, !.conn[c].api = a],
                           [conn EXCEPT ![c] = Started(conn[c], z, a)], pcb)
  BY <1>3, <1>5, StartIs, Zenon
<1>8. "WRITE" \in States
  BY DEF States
<1>9. Is(s, C, pcb)
  BY <1>7, <1>8, Zenon DEF s
<1>10. /\ k0 \in ConnType /\ k0.used = conn[c].used /\ k0.state = "WRITE" /\ k0.innb = conn[c].innb
       /\ k0.pcb = conn[c].pcb /\ k0.msg /\ k0.recvmbox = conn[c].recvmbox
       /\ k0.acceptmbox = conn[c].acceptmbox /\ k0.fatal = conn[c].fatal
       /\ k0.write_offset = conn[c].write_offset /\ k0.sem = conn[c].sem /\ k0.api = a
  BY <1>3, <1>6, <1>8, StartedFields, Zenon
<1> HIDE DEF k0
<1>11. C \in [Conns -> ConnType] /\ C[c] = k0
  BY <1>3, <1>10
<1> HIDE DEF C
<1>12. 0 < SIZE
  BY NetconnAssumption
<1>13. WriteReady(s, C, pcb, c, p)
  BY <1>3, <1>4, <1>6, <1>9, <1>10, <1>11, <1>12 DEF WriteReady
<1>14. WriteGoes(R, C, pcb, c, p, FALSE)
  <2>1. \A d \in BOOLEAN : WriteGoes(lwip_netconn_do_writemore(s, c, mem, rte, d), C, pcb, c, p, d)
    BY <1>13, WritemoreIs
  <2> QED BY <2>1, Zenon DEF R
<1>15. Writer(c, p, C[c], pcb[p])
  <2>1. pcb[p].st \in {"CLOSED", "ESTABLISHED", "CLOSE_WAIT"} /\ pcb[p].arg = c /\ pcb[p].err /\ pcb[p].poll
    BY <1>1, <1>3 DEF Pair, Owned
  <2>2. ASSUME k0.recvmbox.valid
        PROVE  pcb[p].recv /\ \A x : Taken(x) = 0 => Window(k0, pcb[p], x)
    <3>1. Taken(th[c]) = 0
      BY <1>1 DEF Taken
    <3> QED BY <1>3, <1>10, <2>2, <3>1 DEF Pair, Window
  <2>3. k0.api.given = k0.write_offset /\ k0.write_offset < SIZE
    BY <1>4, <1>6, <1>10, <1>12
  <2> QED BY <1>4, <1>10, <1>11, <2>1, <2>2, <2>3 DEF Writer
<1>16. WriteFits(R, C, pcb, c, p, FALSE)
  <2>1. \A d \in BOOLEAN : WriteGoes(R, C, pcb, c, p, d) => WriteFits(R, C, pcb, c, p, d)
    BY <1>3, <1>11, <1>15, WriteGoesFits
  <2> QED BY <1>14, <2>1, Zenon
<1>17. WriteFits(R, [conn EXCEPT ![c] = k0], [pcb EXCEPT ![p] = pcb[p]], c, p, FALSE)
  BY <1>3, <1>16 DEF C
<1>18. SameLinks(pcb[p], pcb[p]) /\ pcb[p].st \notin {"LISTEN", "SYN_RCVD"}
  BY <1>1, <1>3 DEF SameLinks, Pair, Owned
<1>19. th' = [th EXCEPT ![c] = [th[c] EXCEPT !.pc = IF R.conn[c].state = "WRITE" THEN "write" ELSE "written"]]
  BY <1>1 DEF Goto
<1>20. th[c].item = NULL /\ th[c].pc # "none" /\ conn[c].acceptmbox = NoMbox /\ Becomes(R)
  BY <1>1, <1>4
<1>21. \A d \in BOOLEAN : ~d => WriteMoves(R, c, d)
  BY <1>19 DEF WriteMoves
<1>22. \A d \in BOOLEAN : ~d /\ WriteFits(R, [conn EXCEPT ![c] = k0], [pcb EXCEPT ![p] = pcb[p]], c, p, d) => NetconnInv'
  <2> HIDE DEF p
  <2>1. conn[c].pcb = p
    BY DEF p
  <2>2. ASSUME NEW d \in BOOLEAN, ~d, WriteFits(R, [conn EXCEPT ![c] = k0], [pcb EXCEPT ![p] = pcb[p]], c, p, d)
        PROVE  NetconnInv'
    <3>0. pcb[p].st # "LISTEN" /\ pcb[p].st # "SYN_RCVD" /\ SameLinks(pcb[p], pcb[p]) /\ p \in Pcbs /\ WriteMoves(R, c, d)
      BY <1>3, <1>18, <1>21, <2>2
    <3> QED BY <1>20, <2>1, <2>2, <3>0, WriteFitsKeeps, Zenon
  <2> QED BY <2>2
<1> QED BY <1>17, <1>22, Zenon

(* A netconn changes, and its pcb does not.                                *)
LEMMA ConnKeeps ==
  ASSUME NetconnInv, NEW c \in Conns, NEW k \in ConnType, NEW x \in ThreadType,
         ConnOK(k, x), k.pcb = conn[c].pcb, k.pcb # NULL => Pair(c, k, pcb[k.pcb], x),
         k.used = conn[c].used, k.acceptmbox.q = conn[c].acceptmbox.q,
         x.item = th[c].item \/ (x.item \notin Conns /\ th[c].item \notin Conns),
         x.pc = "none" <=> th[c].pc = "none",
         conn' = [conn EXCEPT ![c] = k], pcb' = pcb, failed' = FALSE, th' = [th EXCEPT ![c] = x]
  PROVE  NetconnInv'
<1>1. failed = FALSE /\ Base(conn, pcb, th) /\ Reach(conn, th)
  BY DEF NetconnInv
<1>2. conn \in [Conns -> ConnType] /\ th \in [Conns -> ThreadType]
  BY <1>1, PairFacts
<1>5. Base([conn EXCEPT ![c] = k], pcb, [th EXCEPT ![c] = x])
  BY <1>1, ConnStep
<1>6. Reach([conn EXCEPT ![c] = k], [th EXCEPT ![c] = x])
  BY <1>1, <1>2, ReachKept
<1> QED BY <1>5, <1>6 DEF NetconnInv

(* What NetconnInv says of one netconn and of its thread.                  *)
LEMMA InvFacts ==
  ASSUME NetconnInv, NEW c \in Conns
  PROVE  /\ Base(conn, pcb, th) /\ Reach(conn, th) /\ Is(Core, conn, pcb) /\ failed = FALSE
         /\ conn[c] \in ConnType /\ th[c] \in ThreadType /\ ConnOK(conn[c], th[c])
         /\ conn \in [Conns -> ConnType] /\ th \in [Conns -> ThreadType] /\ pcb \in [Pcbs -> PcbType]
         /\ conn[c].pcb # NULL => /\ conn[c].pcb \in Pcbs /\ pcb[conn[c].pcb] \in PcbType
                                  /\ PcbOK(pcb[conn[c].pcb]) /\ pcb[conn[c].pcb].arg = c
                                  /\ Pair(c, conn[c], pcb[conn[c].pcb], th[c])
<1>1. failed = FALSE /\ Base(conn, pcb, th) /\ Reach(conn, th) /\ Is(Core, conn, pcb)
  BY DEF NetconnInv, Is, Core
<1> QED BY <1>1, PairFacts

(* netconn_write returns.                                                  *)
LEMMA WriteReturnsKeeps ==
  ASSUME NetconnInv, NEW c \in Conns, WriteReturns(c)
  PROVE  NetconnInv'
<1> DEFINE k == Returned(conn[c])
           x == [th[c] EXCEPT !.pc = "idle"]
           p == conn[c].pcb
<1>1. th[c].pc = "written" /\ Becomes([Core EXCEPT !.conn[c].api = NoMsg]) /\ th' = [th EXCEPT ![c] = x]
  BY DEF WriteReturns, At, Goto
<1>2. /\ Is(Core, conn, pcb) /\ conn[c] \in ConnType /\ th[c] \in ThreadType /\ ConnOK(conn[c], th[c])
      /\ conn \in [Conns -> ConnType] /\ th \in [Conns -> ThreadType]
      /\ p # NULL => Pair(c, conn[c], pcb[p], th[c])
  BY InvFacts
<1>3. Is([Core EXCEPT !.conn[c].api = NoMsg], [conn EXCEPT ![c] = k], pcb)
  <2>1. conn = [conn EXCEPT ![c] = conn[c]]
    BY <1>2
  <2>2. Is(Core, [conn EXCEPT ![c] = conn[c]], pcb)
    BY <1>2, <2>1
  <2> QED BY <1>2, <2>2, ReturnedIs, Zenon
<1>4. conn' = [conn EXCEPT ![c] = k] /\ pcb' = pcb /\ failed' = FALSE
  BY <1>1, <1>3, BecomesIs, Zenon
<1>5. /\ k \in ConnType /\ k.used = conn[c].used /\ k.state = conn[c].state /\ k.innb = conn[c].innb
      /\ k.pcb = conn[c].pcb /\ k.msg = conn[c].msg /\ k.recvmbox = conn[c].recvmbox
      /\ k.acceptmbox = conn[c].acceptmbox /\ k.fatal = conn[c].fatal
      /\ k.write_offset = conn[c].write_offset /\ k.sem = conn[c].sem /\ k.api = NoMsg
  BY <1>2, ReturnedFields
<1>6. x \in ThreadType /\ x.pc = "idle" /\ x.item = th[c].item
  BY <1>2 DEF ThreadType, Pcs
<1> HIDE DEF k, x
<1>7. NoMsg.shut = "RDWR"
  BY DEF NoMsg
<1>8. ConnOK(k, x)
  <2>1. Control(k, x)
    BY <1>1, <1>2, <1>5, <1>6, <1>7 DEF ConnOK, Control, Quiet, Waits
  <2>2. Boxes(k, x)
    BY <1>1, <1>2, <1>5, <1>6 DEF ConnOK, Boxes
  <2>3. Count(k, x)
    <3>1. conn[c].state # "WRITE"
      BY <1>1, <1>2 DEF ConnOK, Control, Quiet
    <3> QED BY <1>1, <1>2, <1>5, <1>6, <3>1 DEF ConnOK, Count
  <2> QED BY <2>1, <2>2, <2>3 DEF ConnOK
<1>9. ASSUME k.pcb # NULL
      PROVE  Pair(c, k, pcb[k.pcb], x)
  <2>1. Pair(c, conn[c], pcb[k.pcb], th[c])
    BY <1>2, <1>5, <1>9
  <2>2. Taken(x) = Taken(th[c])
    BY <1>1, <1>6 DEF Taken
  <2> QED BY <1>1, <1>5, <1>6, <2>1, <2>2 DEF Pair, Window
<1>10. (x.pc = "none" <=> th[c].pc = "none") /\ k.acceptmbox.q = conn[c].acceptmbox.q
  BY <1>1, <1>5, <1>6
<1> QED BY <1>1, <1>4, <1>5, <1>6, <1>8, <1>9, <1>10, ConnKeeps

(* The fields of a netconn whose call is late.                             *)
LEMMA ExpiredFields ==
  ASSUME NEW o \in ConnType
  PROVE  LET k == Expired(o)
         IN  /\ k \in ConnType /\ k.used = o.used /\ k.state = o.state /\ k.innb = o.innb
             /\ k.pcb = o.pcb /\ k.msg = o.msg /\ k.recvmbox = o.recvmbox
             /\ k.acceptmbox = o.acceptmbox /\ k.fatal = o.fatal
             /\ k.write_offset = o.write_offset /\ k.sem = o.sem
             /\ k.api.err = o.api.err /\ k.api.shut = o.api.shut /\ k.api.nb = o.api.nb
             /\ k.api.len = o.api.len /\ k.api.timeo = o.api.timeo /\ k.api.given = o.api.given
<1> DEFINE a == [o.api EXCEPT !.late = TRUE]
<1>1. o.api \in MsgType
  BY DEF ConnType
<1>2. a \in MsgType /\ a.err = o.api.err /\ a.shut = o.api.shut /\ a.nb = o.api.nb
      /\ a.len = o.api.len /\ a.timeo = o.api.timeo /\ a.given = o.api.given
  BY <1>1 DEF MsgType
<1>3. Expired(o) = [o EXCEPT !.api = a]
  BY DEF Expired, ConnType
<1>4. a \in MsgType
  BY <1>2
<1> HIDE DEF a
<1>5. LET k == Expired(o)
      IN  /\ k \in ConnType /\ k.used = o.used /\ k.state = o.state /\ k.innb = o.innb
          /\ k.pcb = o.pcb /\ k.msg = o.msg /\ k.recvmbox = o.recvmbox
          /\ k.acceptmbox = o.acceptmbox /\ k.fatal = o.fatal
          /\ k.write_offset = o.write_offset /\ k.sem = o.sem /\ k.api = a
  BY <1>3, <1>4 DEF ConnType
<1> QED BY <1>2, <1>5

(* A timeout passes.                                                       *)
LEMMA LateKeeps ==
  ASSUME NetconnInv, NEW c \in Conns, Late(c)
  PROVE  NetconnInv'
<1> DEFINE k == Expired(conn[c])
           p == conn[c].pcb
<1>1. th[c].pc \in Waits /\ conn' = [conn EXCEPT ![c].api.late = TRUE] /\ UNCHANGED <<pcb, th, failed>>
  BY DEF Late
<1>2. /\ Is(Core, conn, pcb) /\ conn[c] \in ConnType /\ th[c] \in ThreadType /\ ConnOK(conn[c], th[c])
      /\ conn \in [Conns -> ConnType] /\ th \in [Conns -> ThreadType] /\ failed = FALSE
      /\ p # NULL => Pair(c, conn[c], pcb[p], th[c])
  BY InvFacts
<1>3. conn' = [conn EXCEPT ![c] = k] /\ pcb' = pcb /\ failed' = FALSE /\ th' = [th EXCEPT ![c] = th[c]]
  BY <1>1, <1>2 DEF Expired
<1>5. /\ k \in ConnType /\ k.used = conn[c].used /\ k.state = conn[c].state /\ k.innb = conn[c].innb
      /\ k.pcb = conn[c].pcb /\ k.msg = conn[c].msg /\ k.recvmbox = conn[c].recvmbox
      /\ k.acceptmbox = conn[c].acceptmbox /\ k.fatal = conn[c].fatal
      /\ k.write_offset = conn[c].write_offset /\ k.sem = conn[c].sem
      /\ k.api.err = conn[c].api.err /\ k.api.shut = conn[c].api.shut /\ k.api.nb = conn[c].api.nb
      /\ k.api.len = conn[c].api.len /\ k.api.timeo = conn[c].api.timeo /\ k.api.given = conn[c].api.given
  BY <1>2, ExpiredFields
<1> HIDE DEF k
<1>6. th[c].pc # "none"
  BY <1>1 DEF Waits
<1>8. ConnOK(k, th[c])
  <2>1. Control(k, th[c])
    BY <1>2, <1>5, <1>6 DEF ConnOK, Control
  <2>2. Boxes(k, th[c])
    BY <1>2, <1>5 DEF ConnOK, Boxes
  <2>3. Count(k, th[c])
    BY <1>2, <1>5 DEF ConnOK, Count
  <2> QED BY <2>1, <2>2, <2>3 DEF ConnOK
<1>9. ASSUME k.pcb # NULL
      PROVE  Pair(c, k, pcb[k.pcb], th[c])
  <2>1. Pair(c, conn[c], pcb[k.pcb], th[c])
    BY <1>2, <1>5, <1>9
  <2> QED BY <1>5, <2>1 DEF Pair, Window
<1>10. k.acceptmbox.q = conn[c].acceptmbox.q
  BY <1>5
<1> QED BY <1>2, <1>3, <1>5, <1>8, <1>9, <1>10, ConnKeeps

(* The fields of a netconn whose thread woke up.                           *)
LEMMA WokenFields ==
  ASSUME NEW o \in ConnType, o.sem = 1, NEW a \in MsgType
  PROVE  LET k == Woken(o, a)
         IN  /\ k \in ConnType /\ k.used = o.used /\ k.state = o.state /\ k.innb = o.innb
             /\ k.pcb = o.pcb /\ k.msg = o.msg /\ k.recvmbox = o.recvmbox
             /\ k.acceptmbox = o.acceptmbox /\ k.fatal = o.fatal
             /\ k.write_offset = o.write_offset /\ k.sem = 0 /\ k.api = a
<1>1. Woken(o, a) = [o EXCEPT !.sem = 0, !.api = a]
  BY DEF Woken
<1>2. 0 \in 0 .. 1
  OBVIOUS
<1> HIDE DEF Woken
<1> QED BY <1>1, <1>2 DEF ConnType

(* What Wake does to the state.                                            *)
LEMMA WokenIs ==
  ASSUME NEW C \in [Conns -> ConnType], NEW P, NEW y, Is(y, C, P), NEW c \in Conns, NEW b \in BOOLEAN
  PROVE  Is([y EXCEPT !.conn[c].sem = @ - 1, !.conn[c].api = IF b THEN @ ELSE NoMsg],
            [C EXCEPT ![c] = Woken(C[c], IF b THEN C[c].api ELSE NoMsg)], P)
<1> DEFINE t == [y EXCEPT !.conn[c].sem = @ - 1, !.conn[c].api = IF b THEN @ ELSE NoMsg]
           a == IF b THEN C[c].api ELSE NoMsg
<1>2. t.pcb = P /\ t.failed = FALSE
  BY DEF Is
<1>3. t.conn = [C EXCEPT ![c] = [C[c] EXCEPT !.sem = C[c].sem - 1, !.api = a]]
  BY DEF Is, ConnType
<1>4. t = [y EXCEPT !.conn = t.conn]
  BY DEF Is
<1> HIDE DEF t, a
<1>5. Is(t, t.conn, P)
  BY <1>2, <1>4 DEF Is
<1>6. Is(t, [C EXCEPT ![c] = Woken(C[c], a)], P)
  BY <1>3, <1>5 DEF Woken
<1> QED BY <1>6, Zenon DEF t, a

(* A waiting thread is woken.                                              *)
LEMMA WakeKeeps ==
  ASSUME NetconnInv, NEW c \in Conns, Wake(c)
  PROVE  NetconnInv'
<1> DEFINE b == th[c].pc = "write"
           a == IF b THEN conn[c].api ELSE NoMsg
           k == Woken(conn[c], a)
           p == conn[c].pcb
           good == CASE At(c, "connect") -> conn[c].state # "CONNECT"
                     [] At(c, "write") -> conn[c].state # "WRITE"
                     [] OTHER -> conn[c].state = "NONE"
           y == Check(Core, good)
           s == [y EXCEPT !.conn[c].sem = @ - 1, !.conn[c].api = IF b THEN @ ELSE NoMsg]
           pc == CASE At(c, "write") -> "written"
                   [] At(c, "delconn") /\ conn[c].api.err = "OK" -> "free"
                   [] OTHER -> "idle"
           x == [th[c] EXCEPT !.pc = pc]
<1>1. th[c].pc \in Waits /\ conn[c].sem > 0 /\ Becomes(s) /\ Goto(c, pc)
  BY Zenon DEF Wake, At
<1>2. /\ Is(Core, conn, pcb) /\ conn[c] \in ConnType /\ th[c] \in ThreadType /\ ConnOK(conn[c], th[c])
      /\ conn \in [Conns -> ConnType] /\ th \in [Conns -> ThreadType]
      /\ p # NULL => Pair(c, conn[c], pcb[p], th[c])
  BY InvFacts
<1> HIDE DEF s, y, pc, good
<1>3. conn[c].sem = 1
  BY <1>1, <1>2 DEF ConnType
<1>4. /\ ~conn[c].msg /\ conn[c].state = "NONE" /\ conn[c].used /\ ~conn[c].innb
      /\ th[c].pc = "delconn" => conn[c].api.err = "OK" /\ p = NULL
  BY <1>1, <1>2, <1>3 DEF ConnOK, Control, Waits
<1>5. good
  <2>1. conn[c].state # "CONNECT" /\ conn[c].state # "WRITE" /\ conn[c].state = "NONE"
    BY <1>4
  <2> QED BY <2>1, Zenon DEF good
<1>6. Is(y, conn, pcb)
  BY <1>2, <1>5, CheckIs DEF y
<1>7. Is(s, [conn EXCEPT ![c] = k], pcb)
  <2>1. b \in BOOLEAN
    OBVIOUS
  <2> HIDE DEF b
  <2> QED BY <1>2, <1>6, <2>1, WokenIs, Zenon DEF s
<1>8. conn' = [conn EXCEPT ![c] = k] /\ pcb' = pcb /\ failed' = FALSE
  <2> HIDE DEF k
  <2> QED BY <1>1, <1>7, BecomesIs
<1>9. a \in MsgType /\ (b => a = conn[c].api) /\ (~b => a = NoMsg)
  BY <1>2, NoMsgType DEF ConnType
<1> HIDE DEF a
<1>10. /\ k \in ConnType /\ k.used = conn[c].used /\ k.state = conn[c].state /\ k.innb = conn[c].innb
       /\ k.pcb = conn[c].pcb /\ k.msg = conn[c].msg /\ k.recvmbox = conn[c].recvmbox
       /\ k.acceptmbox = conn[c].acceptmbox /\ k.fatal = conn[c].fatal
       /\ k.write_offset = conn[c].write_offset /\ k.sem = 0 /\ k.api = a
  BY <1>2, <1>3, <1>9, WokenFields
<1>11. /\ th[c].pc = "write" => pc = "written"
       /\ th[c].pc = "delconn" => pc = "free"
       /\ th[c].pc \in {"connect", "close"} => pc = "idle"
  <2>1. CASE th[c].pc = "write"
    BY <2>1, Zenon DEF pc, At
  <2>2. CASE th[c].pc = "delconn"
    <3>1. th[c].pc # "write" /\ conn[c].api.err = "OK"
      BY <1>4, <2>2
    <3> QED BY <2>2, <3>1, Zenon DEF pc, At
  <2>3. CASE th[c].pc \in {"connect", "close"}
    <3>1. th[c].pc # "write" /\ th[c].pc # "delconn"
      BY <2>3
    <3>2. pc = "idle"
      BY <3>1, Zenon DEF pc, At
    <3> QED BY <3>1, <3>2
  <2>4. th[c].pc \notin {"write", "delconn", "connect", "close"} \/ th[c].pc \in {"write", "delconn", "connect", "close"}
    OBVIOUS
  <2> QED BY <2>1, <2>2, <2>3
<1>12. pc \in {"written", "free", "idle"} /\ (pc = "free" <=> th[c].pc = "delconn") /\ (pc = "written" <=> th[c].pc = "write")
       /\ pc \in Pcs
  BY <1>1, <1>11 DEF Waits, Pcs
<1>13. x \in ThreadType /\ x.pc = pc /\ x.item = th[c].item
  BY <1>2, <1>12, GotoFields
<1>14. th' = [th EXCEPT ![c] = x]
  BY <1>1 DEF Goto
<1> HIDE DEF k, x
<1>15. NoMsg.shut = "RDWR"
  BY DEF NoMsg
<1>16. ConnOK(k, x)
  <2>1. Control(k, x)
    BY <1>2, <1>4, <1>10, <1>12, <1>13 DEF ConnOK, Control, Quiet, Waits
  <2>2. Boxes(k, x)
    BY <1>1, <1>2, <1>4, <1>10, <1>12, <1>13 DEF ConnOK, Boxes, Waits
  <2>3. Count(k, x)
    BY <1>2, <1>4, <1>9, <1>10, <1>12, <1>13 DEF ConnOK, Count
  <2> QED BY <2>1, <2>2, <2>3 DEF ConnOK
<1>17. ASSUME k.pcb # NULL
      PROVE  Pair(c, k, pcb[k.pcb], x)
  <2>1. Pair(c, conn[c], pcb[k.pcb], th[c])
    BY <1>2, <1>10, <1>17
  <2>2. Taken(x) = 0 /\ Taken(th[c]) = 0
    BY <1>1, <1>12, <1>13 DEF Taken, Waits
  <2> QED BY <1>4, <1>10, <1>12, <1>13, <2>1, <2>2 DEF Pair, Window
<1>18. (x.pc = "none" <=> th[c].pc = "none") /\ k.acceptmbox.q = conn[c].acceptmbox.q
  BY <1>1, <1>10, <1>12, <1>13 DEF Waits
<1> QED BY <1>8, <1>10, <1>13, <1>14, <1>16, <1>17, <1>18, ConnKeeps

(* A message is put into a queue.                                          *)
LEMMA DataInAppend ==
  ASSUME NEW S, NEW q \in Seq(S), NEW m \in S
  PROVE  DataIn(Append(q, m)) = DataIn(q) + (IF m = "data" THEN 1 ELSE 0)
<1> DEFINE A == {i \in DOMAIN q : q[i] = "data"}
           B == {i \in DOMAIN Append(q, m) : Append(q, m)[i] = "data"}
           n == Len(q) + 1
<1>1. Len(q) \in Nat /\ Len(Append(q, m)) = Len(q) + 1
  OBVIOUS
<1>2. \A i : i \in DOMAIN q <=> i \in Nat /\ 1 <= i /\ i <= Len(q)
  OBVIOUS
<1>3. \A i : i \in DOMAIN Append(q, m) <=> i \in Nat /\ 1 <= i /\ i <= Len(q) + 1
  OBVIOUS
<1>4. \A i : i \in Nat /\ 1 <= i /\ i <= Len(q) => Append(q, m)[i] = q[i]
  OBVIOUS
<1>5. Append(q, m)[n] = m
  OBVIOUS
<1>6. IsFiniteSet(A) /\ DataIn(q) \in Nat
  BY DataInType
<1>7. CASE m = "data"
  <2>1. B = A \cup {n} /\ n \notin A
    BY <1>1, <1>2, <1>3, <1>4, <1>5, <1>7
  <2> QED BY <2>1, <1>6, <1>7, FS_AddElement DEF DataIn
<1>8. CASE m # "data"
  <2>1. B = A
    BY <1>1, <1>2, <1>3, <1>4, <1>5, <1>8
  <2>2. DataIn(Append(q, m)) = DataIn(q)
    BY <2>1 DEF DataIn
  <2> QED BY <2>2, <1>6, <1>8
<1> QED BY <1>7, <1>8

(* The first message is taken from a queue.                                *)
LEMMA DataInTail ==
  ASSUME NEW S, NEW q \in Seq(S), q # <<>>
  PROVE  DataIn(q) = (IF Head(q) = "data" THEN 1 ELSE 0) + DataIn(Tail(q))
<1> DEFINE A == {i \in DOMAIN q : q[i] = "data"}
           B == {i \in DOMAIN Tail(q) : Tail(q)[i] = "data"}
           f == [i \in B |-> i + 1]
<1>1. Len(q) \in Nat /\ Len(q) >= 1 /\ Len(Tail(q)) = Len(q) - 1 /\ Tail(q) \in Seq(S)
  OBVIOUS
<1>2. \A i : i \in DOMAIN q <=> i \in Nat /\ 1 <= i /\ i <= Len(q)
  OBVIOUS
<1>3. \A i : i \in DOMAIN Tail(q) <=> i \in Nat /\ 1 <= i /\ i <= Len(q) - 1
  BY <1>1
<1>4. \A i : i \in Nat /\ 1 <= i /\ i <= Len(q) - 1 => Tail(q)[i] = q[i + 1]
  BY <1>1
<1>5. Head(q) = q[1]
  OBVIOUS
<1>6. IsFiniteSet(A) /\ DataIn(q) \in Nat /\ IsFiniteSet(B) /\ DataIn(Tail(q)) \in Nat
  BY <1>1, DataInType
<1>7. \A i \in B : i \in Nat /\ i + 1 \in A \ {1}
  BY <1>1, <1>2, <1>3, <1>4
<1>8. \A j \in A \ {1} : j - 1 \in B /\ j = (j - 1) + 1
  BY <1>1, <1>2, <1>3, <1>4
<1>9. ExistsBijection(B, A \ {1})
  <2> HIDE DEF A, B
  <2>1. f \in [B -> A \ {1}]
    BY <1>7
  <2>2. \A i, j \in B : f[i] = f[j] => i = j
    BY <1>7
  <2>3. \A j \in A \ {1} : \E i \in B : f[i] = j
    BY <1>8
  <2> HIDE DEF f
  <2>4. f \in Bijection(B, A \ {1})
    BY <2>1, <2>2, <2>3 DEF Bijection, Injection, Surjection, IsInjective
  <2> QED BY <2>4 DEF ExistsBijection
<1>10. Cardinality(A \ {1}) = DataIn(Tail(q))
  BY <1>6, <1>9, FS_Bijection DEF DataIn
<1>11. 1 \in A <=> Head(q) = "data"
  BY <1>1, <1>2, <1>5
<1>12. Cardinality(A \ {1}) = IF 1 \in A THEN Cardinality(A) - 1 ELSE Cardinality(A)
  <2> HIDE DEF A
  <2> QED BY <1>6, FS_RemoveElement
<1>13. DataIn(q) = Cardinality(A)
  BY DEF DataIn
<1> HIDE DEF A, B
<1> QED BY <1>6, <1>10, <1>11, <1>12, <1>13

(* The fields of a netconn after a fetch from its recvmbox.                *)
LEMMA TookOneFields ==
  ASSUME NEW o \in ConnType, o.recvmbox.q # <<>>
  PROVE  LET k == TookOne(o)
         IN  /\ k \in ConnType /\ k.used = o.used /\ k.state = o.state /\ k.innb = o.innb
             /\ k.pcb = o.pcb /\ k.msg = o.msg /\ k.recvmbox.valid = o.recvmbox.valid
             /\ k.recvmbox.q = Tail(o.recvmbox.q)
             /\ k.acceptmbox = o.acceptmbox /\ k.fatal = o.fatal
             /\ k.write_offset = o.write_offset /\ k.sem = o.sem /\ k.api = o.api
             /\ o.recvmbox.q \in Seq({"data", "nul"}) /\ Head(o.recvmbox.q) \in {"data", "nul"}
<1> DEFINE m == [o.recvmbox EXCEPT !.q = Tail(o.recvmbox.q)]
<1>1. o.recvmbox \in Mbox({"data", "nul"})
  BY DEF ConnType
<1>2. o.recvmbox.q \in Seq({"data", "nul"}) /\ o.recvmbox.valid \in BOOLEAN
  BY <1>1 DEF Mbox
<1>3. Tail(o.recvmbox.q) \in Seq({"data", "nul"}) /\ Head(o.recvmbox.q) \in {"data", "nul"}
  BY <1>2
<1>4. m \in Mbox({"data", "nul"}) /\ m.valid = o.recvmbox.valid /\ m.q = Tail(o.recvmbox.q)
  BY <1>1, <1>3 DEF Mbox
<1>5. TookOne(o) = [o EXCEPT !.recvmbox = m]
  BY DEF TookOne, ConnType
<1>6. m \in Mbox({"data", "nul"})
  BY <1>4
<1> HIDE DEF m
<1>7. LET k == TookOne(o)
      IN  /\ k \in ConnType /\ k.used = o.used /\ k.state = o.state /\ k.innb = o.innb
          /\ k.pcb = o.pcb /\ k.msg = o.msg /\ k.recvmbox = m
          /\ k.acceptmbox = o.acceptmbox /\ k.fatal = o.fatal
          /\ k.write_offset = o.write_offset /\ k.sem = o.sem /\ k.api = o.api
  BY <1>5, <1>6 DEF ConnType
<1> QED BY <1>2, <1>3, <1>4, <1>7

(* netconn_recv_data fetches a message.                                    *)
LEMMA RecvFetchKeeps ==
  ASSUME NetconnInv, NEW c \in Conns, RecvFetch(c)
  PROVE  NetconnInv'
<1> DEFINE q == conn[c].recvmbox.q
           k == TookOne(conn[c])
           x == [pc |-> "do_recv", item |-> Head(q)]
           p == conn[c].pcb
<1>1. /\ th[c].pc = "recv" /\ q # <<>> /\ th' = [th EXCEPT ![c] = x]
      /\ conn' = [conn EXCEPT ![c].recvmbox.q = Tail(@)] /\ UNCHANGED <<pcb, failed>>
  BY DEF RecvFetch, At
<1>2. /\ conn[c] \in ConnType /\ th[c] \in ThreadType /\ ConnOK(conn[c], th[c])
      /\ conn \in [Conns -> ConnType] /\ th \in [Conns -> ThreadType] /\ failed = FALSE
      /\ p # NULL => Pair(c, conn[c], pcb[p], th[c])
  BY InvFacts
<1>3. /\ k \in ConnType /\ k.used = conn[c].used /\ k.state = conn[c].state /\ k.innb = conn[c].innb
      /\ k.pcb = conn[c].pcb /\ k.msg = conn[c].msg /\ k.recvmbox.valid = conn[c].recvmbox.valid
      /\ k.recvmbox.q = Tail(q) /\ k.acceptmbox = conn[c].acceptmbox /\ k.fatal = conn[c].fatal
      /\ k.write_offset = conn[c].write_offset /\ k.sem = conn[c].sem /\ k.api = conn[c].api
      /\ q \in Seq({"data", "nul"}) /\ Head(q) \in {"data", "nul"}
  BY <1>1, <1>2, TookOneFields
<1>4. conn' = [conn EXCEPT ![c] = k] /\ pcb' = pcb /\ failed' = FALSE
  BY <1>1, <1>2 DEF TookOne
<1>5. x \in ThreadType /\ x.pc = "do_recv" /\ x.item = Head(q)
  BY <1>3 DEF ThreadType, Pcs
<1> HIDE DEF k, x, q
<1>6. k.recvmbox.valid /\ k.state \notin {"LISTEN", "CLOSE"}
  BY <1>1, <1>2, <1>3 DEF ConnOK, Boxes
<1>7. ConnOK(k, x)
  <2>1. Control(k, x)
    BY <1>1, <1>2, <1>3, <1>5 DEF ConnOK, Control, Quiet, Waits
  <2>2. Boxes(k, x)
    BY <1>1, <1>2, <1>3, <1>5, <1>6 DEF ConnOK, Boxes
  <2>3. Count(k, x)
    <3>1. conn[c].state # "WRITE"
      BY <1>1, <1>2 DEF ConnOK, Control, Quiet
    <3> QED BY <1>1, <1>2, <1>3, <1>5, <3>1 DEF ConnOK, Count
  <2> QED BY <2>1, <2>2, <2>3 DEF ConnOK
<1>8. ASSUME k.pcb # NULL
      PROVE  Pair(c, k, pcb[k.pcb], x)
  <2> DEFINE r == pcb[k.pcb]
  <2>1. Pair(c, conn[c], r, th[c]) /\ Window(conn[c], r, th[c]) /\ r.recv
    BY <1>2, <1>3, <1>6, <1>8 DEF Pair
  <2> HIDE DEF r
  <2>2. Taken(th[c]) = 0 /\ Taken(x) = IF Head(q) = "data" THEN 1 ELSE 0
    BY <1>1, <1>5 DEF Taken
  <2>3. DataIn(q) = Taken(x) + DataIn(Tail(q)) /\ DataIn(q) \in Nat /\ DataIn(Tail(q)) \in Nat /\ Taken(x) \in Nat
    <3>1. q # <<>> /\ Tail(q) \in Seq({"data", "nul"})
      BY <1>1, <1>3 DEF q
    <3>2. DataIn(q) \in Nat /\ DataIn(Tail(q)) \in Nat
      BY <1>3, <3>1, DataInType
    <3>3. DataIn(q) = (IF Head(q) = "data" THEN 1 ELSE 0) + DataIn(Tail(q))
      BY <1>3, <3>1, DataInTail
    <3> QED BY <2>2, <3>2, <3>3
  <2>4. r.unread = Taken(x) + (IF r.refused = "none" THEN 0 ELSE 1) + DataIn(k.recvmbox.q)
    <3>1. r.unread = 0 + (IF r.refused = "none" THEN 0 ELSE 1) + DataIn(q)
      BY <2>1, <2>2 DEF Window, q
    <3> QED BY <1>3, <2>3, <3>1
  <2>5. q # <<>> /\ Len(q) \in Nat /\ Len(q) >= 1 /\ Len(Tail(q)) = Len(q) - 1 /\ Head(q) = q[1]
    BY <1>1, <1>3 DEF q
  <2>6. \A i \in DOMAIN q : q[i] = "nul" => i = Len(q)
    BY <2>1 DEF Window, q
  <2>7. \A i : i \in DOMAIN Tail(q) => i \in Nat /\ 1 <= i /\ i <= Len(q) - 1 /\ Tail(q)[i] = q[i + 1] /\ i + 1 \in DOMAIN q
    BY <1>3, <2>5
  <2>8. \A i \in DOMAIN k.recvmbox.q : k.recvmbox.q[i] = "nul" => i = Len(k.recvmbox.q)
    BY <1>3, <2>5, <2>6, <2>7
  <2>9. NulIn(k.recvmbox.q) => NulIn(q)
    BY <1>3, <2>7 DEF NulIn
  <2>10. Window(k, r, x)
    BY <2>1, <2>4, <2>8, <2>9 DEF Window, q
  <2>11. ASSUME x.item = "nul"
         PROVE  k.recvmbox.q = <<>> /\ r.st = "CLOSE_WAIT" /\ r.refused = "none"
    <3>1. 1 \in DOMAIN q /\ q[1] = "nul"
      BY <1>3, <1>5, <2>5, <2>11
    <3>2. Len(q) = 1 /\ NulIn(q)
      BY <2>6, <3>1 DEF NulIn
    <3>3. Tail(q) = <<>>
      BY <1>3, <2>5, <3>2
    <3> QED BY <1>3, <2>1, <3>2, <3>3 DEF Window, q
  <2>12. Pair(c, k, r, x)
    BY <1>3, <1>5, <2>1, <2>10, <2>11 DEF Pair
  <2> QED BY <2>12 DEF r
<1>9. (x.pc = "none" <=> th[c].pc = "none") /\ k.acceptmbox.q = conn[c].acceptmbox.q
  BY <1>1, <1>3, <1>5
<1>10. x.item \notin Conns /\ th[c].item \notin Conns
  <2>1. th[c].item = NULL
    BY <1>1, <1>2 DEF ConnOK, Boxes
  <2> QED BY <2>1, <1>3, <1>5, NetconnAssumption DEF Messages
<1> QED BY <1>1, <1>3, <1>4, <1>5, <1>7, <1>8, <1>9, <1>10, ConnKeeps

(* lwip_netconn_do_recv: the window is returned.                           *)
LEMMA DoRecvKeeps ==
  ASSUME NetconnInv, NEW c \in Conns, lwip_netconn_do_recv(c)
  PROVE  NetconnInv'
<1> DEFINE p == conn[c].pcb
           k == conn[c]
           x == [pc |-> IF th[c].item = "data" THEN "idle" ELSE "eof", item |-> NULL]
           R == IF p # NULL THEN tcp_recved(Core, p, 1) ELSE Core
<1>1. th[c].pc = "do_recv" /\ Becomes(R) /\ th' = [th EXCEPT ![c] = x]
  BY DEF lwip_netconn_do_recv, At
<1> HIDE DEF R
<1>2. /\ conn[c] \in ConnType /\ th[c] \in ThreadType /\ ConnOK(conn[c], th[c])
      /\ conn \in [Conns -> ConnType] /\ th \in [Conns -> ThreadType] /\ Is(Core, conn, pcb)
      /\ p # NULL => p \in Pcbs /\ pcb[p] \in PcbType /\ PcbOK(pcb[p]) /\ Pair(c, conn[c], pcb[p], th[c])
  BY InvFacts
<1>3. x \in ThreadType /\ x.pc \in {"idle", "eof"} /\ x.item = NULL
  BY DEF ThreadType, Pcs
<1>4. [conn EXCEPT ![c] = k] = conn
  BY <1>2
<1> HIDE DEF x
<1>5. th[c].item \in {"data", "nul"}
  BY <1>1, <1>2 DEF ConnOK, Boxes
<1>6. ConnOK(k, x)
  <2>1. Control(k, x)
    BY <1>1, <1>2, <1>3 DEF ConnOK, Control, Quiet, Waits
  <2>2. Boxes(k, x)
    BY <1>1, <1>2, <1>3 DEF ConnOK, Boxes
  <2>3. Count(k, x)
    <3>1. conn[c].state # "WRITE"
      BY <1>1, <1>2 DEF ConnOK, Control, Quiet
    <3> QED BY <1>1, <1>2, <1>3, <3>1 DEF ConnOK, Count
  <2> QED BY <2>1, <2>2, <2>3 DEF ConnOK
<1>7. (x.pc = "none" <=> th[c].pc = "none") /\ x.item \notin Conns /\ th[c].item \notin Conns
  BY <1>1, <1>3, <1>5, NetconnAssumption DEF Messages
<1>8. CASE p = NULL
  <2>1. R = Core
    BY <1>8 DEF R
  <2>2. conn' = conn /\ pcb' = pcb /\ failed' = FALSE
    BY <1>1, <1>2, <2>1, BecomesIs
  <2>3. conn' = [conn EXCEPT ![c] = k]
    BY <1>4, <2>2
  <2> QED BY <1>1, <1>2, <1>3, <1>6, <1>7, <1>8, <2>2, <2>3, ConnKeeps
<1>9. CASE p # NULL
  <2> DEFINE r == Recved(pcb[p], 1)
  <2>1. Is(R, conn, [pcb EXCEPT ![p] = r])
    <3>1. R = tcp_recved(Core, p, 1)
      BY <1>9 DEF R
    <3> QED BY <1>2, <3>1, RecvedIs
  <2>2. /\ r \in PcbType /\ PcbOK(r) /\ r.st = pcb[p].st /\ r.arg = pcb[p].arg /\ r.listener = pcb[p].listener
        /\ r.recv = pcb[p].recv /\ r.poll = pcb[p].poll /\ r.err = pcb[p].err
        /\ r.accepts_pending = pcb[p].accepts_pending /\ r.refused = pcb[p].refused /\ r.pend = pcb[p].pend
        /\ r.unread = (IF pcb[p].unread > 1 THEN pcb[p].unread - 1 ELSE 0)
    BY <1>2, <1>9, RecvedFields
  <2> HIDE DEF r
  <2>3. Is(R, [conn EXCEPT ![c] = k], [pcb EXCEPT ![p] = r])
    BY <1>4, <2>1
  <2>4. BacklogKept(pcb[p], r)
    BY <2>2 DEF BacklogKept
  <2>5. ASSUME k.recvmbox.valid
        PROVE  r.recv /\ Window(k, r, x)
    <3>1. pcb[p].recv /\ Window(k, pcb[p], th[c])
      BY <1>2, <1>9, <2>5 DEF Pair
    <3>2. Taken(x) = 0 /\ Taken(th[c]) = (IF th[c].item = "data" THEN 1 ELSE 0)
      BY <1>1, <1>3 DEF Taken
    <3>3. DataIn(k.recvmbox.q) \in Nat
      <4>1. k.recvmbox.q \in Seq({"data", "nul"})
        BY <1>2 DEF ConnType, Mbox
      <4> QED BY <4>1, DataInType
    <3>4. th[c].item = "nul" => DataIn(k.recvmbox.q) = 0 /\ pcb[p].refused = "none"
      <4>1. th[c].item = "nul" => k.recvmbox.q = <<>> /\ pcb[p].refused = "none"
        BY <1>1, <1>2, <1>9, <2>5 DEF Pair
      <4> QED BY <4>1, NewMboxIs
    <3> DEFINE ref == IF pcb[p].refused = "none" THEN 0 ELSE 1
    <3>5. pcb[p].unread = (IF th[c].item = "data" THEN 1 ELSE 0) + ref + DataIn(k.recvmbox.q)
      BY <3>1, <3>2 DEF Window
    <3>6. ref \in Nat /\ (pcb[p].refused = "none" => ref = 0)
      OBVIOUS
    <3> HIDE DEF ref
    <3>7. r.unread = 0 + ref + DataIn(k.recvmbox.q)
      BY <1>5, <2>2, <3>3, <3>4, <3>5, <3>6
    <3>8. r.unread = Taken(x) + (IF r.refused = "none" THEN 0 ELSE 1) + DataIn(k.recvmbox.q)
      BY <2>2, <3>2, <3>7 DEF ref
    <3> QED BY <2>2, <3>1, <3>8 DEF Window
  <2>6. Pair(c, k, r, x)
    BY <1>2, <1>3, <1>9, <2>2, <2>5 DEF Pair
  <2>7. p \in Pcbs /\ k.pcb = p
    BY <1>2, <1>9
  <2> HIDE DEF p
  <2>8. conn[c].pcb = p
    BY DEF p
  <2> QED BY <1>1, <1>2, <1>3, <1>6, <1>7, <2>2, <2>3, <2>4, <2>6, <2>7, <2>8, PairKeeps
<1> QED BY <1>8, <1>9

(* A netconn goes from an acceptmbox to the thread that accepts it.        *)
LEMMA ReachFetched ==
  ASSUME NEW C \in [Conns -> ConnType], NEW h \in [Conns -> ThreadType], Reach(C, h),
         NEW c \in Conns, NEW k, NEW x, NEW S, NEW q \in Seq(S), q # <<>>, C[c].acceptmbox.q = q,
         k.used = C[c].used, k.acceptmbox.q = Tail(q), h[c].item \notin Conns,
         h[c].pc # "none", x.pc # "none",
         \A n \in Conns : x.item = n <=> Head(q) = n
  PROVE  Reach([C EXCEPT ![c] = k], [h EXCEPT ![c] = x])
<1> DEFINE C2 == [C EXCEPT ![c] = k]
           h2 == [h EXCEPT ![c] = x]
<1>1. \A d \in Conns : C2[d] = (IF d = c THEN k ELSE C[d]) /\ h2[d] = (IF d = c THEN x ELSE h[d])
  OBVIOUS
<1> HIDE DEF C2, h2
<1>2. Len(q) \in Nat /\ Len(q) >= 1 /\ Head(q) = q[1] /\ Len(Tail(q)) = Len(q) - 1
  OBVIOUS
<1>3. \A i : i \in DOMAIN q <=> i \in Nat /\ 1 <= i /\ i <= Len(q)
  OBVIOUS
<1>4. \A i : i \in DOMAIN Tail(q) <=> i \in Nat /\ 1 <= i /\ i <= Len(q) - 1
  BY <1>2
<1>5. \A i : i \in Nat /\ 1 <= i /\ i <= Len(q) - 1 => Tail(q)[i] = q[i + 1]
  BY <1>2
<1>6. \A i \in Nat, n \in Conns : InQueue(C2, c, i, n) => InQueue(C, c, i + 1, n) /\ i >= 1
  <2> SUFFICES ASSUME NEW i \in Nat, NEW n \in Conns, InQueue(C2, c, i, n)
               PROVE  InQueue(C, c, i + 1, n) /\ i >= 1
    OBVIOUS
  <2>1. i \in DOMAIN Tail(q) /\ Tail(q)[i] = n
    BY <1>1 DEF InQueue
  <2>2. 1 <= i /\ i <= Len(q) - 1
    BY <1>4, <2>1
  <2>3. i + 1 \in DOMAIN q /\ q[i + 1] = n
    BY <1>2, <1>3, <1>5, <2>1, <2>2
  <2> QED BY <2>2, <2>3 DEF InQueue
<1>7. \A i \in Nat, n \in Conns : InQueue(C, c, i, n) => i = 1 \/ (i - 1 \in Nat /\ InQueue(C2, c, i - 1, n))
  <2> SUFFICES ASSUME NEW i \in Nat, NEW n \in Conns, InQueue(C, c, i, n), i # 1
               PROVE  i - 1 \in Nat /\ InQueue(C2, c, i - 1, n)
    OBVIOUS
  <2>1. i \in DOMAIN q /\ q[i] = n
    BY DEF InQueue
  <2>2. 1 <= i - 1 /\ i - 1 <= Len(q) - 1 /\ i - 1 \in Nat /\ (i - 1) + 1 = i
    BY <1>2, <1>3, <2>1
  <2>3. Tail(q)[i - 1] = n /\ i - 1 \in DOMAIN Tail(q)
    BY <1>4, <1>5, <2>1, <2>2
  <2> QED BY <1>1, <2>2, <2>3 DEF InQueue
<1>8. \A d, n \in Conns : \A i \in Nat : d # c => (InQueue(C2, d, i, n) <=> InQueue(C, d, i, n))
  BY <1>1 DEF InQueue
<1>9. \A n \in Conns : InQueue(C, c, 1, n) <=> h2[c].item = n
  BY <1>1, <1>2, <1>3 DEF InQueue
<1>10. \A d \in Conns : d # c => h2[d].item = h[d].item
  BY <1>1
<1>11. \A d \in Conns : (C2[d].used <=> C[d].used) /\ (h2[d].pc = "none" <=> h[d].pc = "none")
  BY <1>1
<1>12. 1 \in Nat /\ \A i \in Nat : i + 1 \in Nat /\ (i >= 1 => i + 1 # 1)
  OBVIOUS
<1>13. ASSUME NEW d \in Conns, NEW n \in Conns, h2[d].item = n \/ (\E i \in Nat : InQueue(C2, d, i, n))
       PROVE  C2[n].used /\ h2[n].pc = "none"
  <2>1. h[d].item = n \/ (\E i \in Nat : InQueue(C, d, i, n))
    <3>1. CASE d = c
      BY <1>6, <1>9, <1>12, <1>13, <3>1
    <3>2. CASE d # c
      BY <1>8, <1>10, <1>13, <3>2
    <3> QED BY <3>1, <3>2
  <2>2. C[n].used /\ h[n].pc = "none"
    BY <2>1 DEF Reach
  <2> QED BY <1>11, <2>2
<1>14. ASSUME NEW d \in Conns, NEW e \in Conns, NEW n \in Conns, h2[d].item = n, h2[e].item = n
       PROVE  d = e
  BY <1>9, <1>10, <1>12, <1>14 DEF Reach
<1>15. ASSUME NEW d \in Conns, NEW e \in Conns, NEW n \in Conns, NEW i \in Nat, InQueue(C2, d, i, n), h2[e].item = n
       PROVE  FALSE
  <2>1. \E j \in Nat : InQueue(C, d, j, n) /\ (d = c => j # 1)
    BY <1>6, <1>8, <1>12, <1>15
  <2>2. PICK j \in Nat : InQueue(C, d, j, n) /\ (d = c => j # 1)
    BY <2>1
  <2>3. CASE e = c
    <3>1. InQueue(C, c, 1, n)
      BY <1>9, <1>15, <2>3
    <3>2. d = c /\ j = 1
      BY <1>12, <2>2, <3>1 DEF Reach
    <3> QED BY <2>2, <3>2
  <2>4. CASE e # c
    <3>1. h[e].item = n
      BY <1>10, <1>15, <2>4
    <3> QED BY <2>2, <3>1 DEF Reach
  <2> QED BY <2>3, <2>4
<1>16. ASSUME NEW d \in Conns, NEW e \in Conns, NEW n \in Conns, NEW i \in Nat, NEW j \in Nat,
              InQueue(C2, d, i, n), InQueue(C2, e, j, n)
       PROVE  d = e /\ i = j
  <2> DEFINE a == IF d = c THEN i + 1 ELSE i
             b == IF e = c THEN j + 1 ELSE j
  <2>1. a \in Nat /\ b \in Nat /\ InQueue(C, d, a, n) /\ InQueue(C, e, b, n)
    <3>1. InQueue(C, d, a, n)
      BY <1>6, <1>8, <1>16
    <3>2. InQueue(C, e, b, n)
      BY <1>6, <1>8, <1>16
    <3> QED BY <3>1, <3>2
  <2>2. d = e /\ a = b
    BY <2>1 DEF Reach
  <2> QED BY <2>2
<1>17. ASSUME NEW n \in Conns, C2[n].used, h2[n].pc = "none"
       PROVE  \E d \in Conns : h2[d].item = n \/ \E i \in Nat : InQueue(C2, d, i, n)
  <2>1. C[n].used /\ h[n].pc = "none"
    BY <1>11, <1>17
  <2>2. PICK d \in Conns : h[d].item = n \/ \E i \in Nat : InQueue(C, d, i, n)
    BY <2>1 DEF Reach
  <2> QED BY <1>7, <1>8, <1>9, <1>10, <2>2
<1>18. Reach(C2, h2)
  BY <1>13, <1>14, <1>15, <1>16, <1>17 DEF Reach
<1> QED BY <1>18 DEF C2, h2

(* The fields of a netconn after a fetch from its acceptmbox.              *)
LEMMA TookConnFields ==
  ASSUME NEW o \in ConnType, o.acceptmbox.q # <<>>
  PROVE  LET k == TookConn(o)
         IN  /\ k \in ConnType /\ k.used = o.used /\ k.state = o.state /\ k.innb = o.innb
             /\ k.pcb = o.pcb /\ k.msg = o.msg /\ k.acceptmbox.valid = o.acceptmbox.valid
             /\ k.acceptmbox.q = Tail(o.acceptmbox.q)
             /\ k.recvmbox = o.recvmbox /\ (o.fatal => k.fatal)
             /\ k.write_offset = o.write_offset /\ k.sem = o.sem /\ k.api = o.api
             /\ o.acceptmbox.q \in Seq(Conns \cup {"aborted", "nul"})
<1> DEFINE m == [o.acceptmbox EXCEPT !.q = Tail(o.acceptmbox.q)]
           b == o.fatal \/ Head(o.acceptmbox.q) = "nul"
           T == Conns \cup {"aborted", "nul"}
<1>1. o.acceptmbox \in Mbox(T)
  BY DEF ConnType
<1> HIDE DEF T
<1>2. o.acceptmbox.q \in Seq(T) /\ o.acceptmbox.valid \in BOOLEAN
  BY <1>1 DEF Mbox
<1>3. Tail(o.acceptmbox.q) \in Seq(T)
  BY <1>2
<1>4. m \in Mbox(T) /\ m.valid = o.acceptmbox.valid /\ m.q = Tail(o.acceptmbox.q)
  BY <1>1, <1>3 DEF Mbox
<1>5. TookConn(o) = [o EXCEPT !.acceptmbox = m, !.fatal = b]
  BY DEF TookConn, ConnType
<1>6. m \in Mbox(T) /\ b \in BOOLEAN /\ (o.fatal => b)
  BY <1>4
<1> HIDE DEF m, b
<1>7. LET k == TookConn(o)
      IN  /\ k \in ConnType /\ k.used = o.used /\ k.state = o.state /\ k.innb = o.innb
          /\ k.pcb = o.pcb /\ k.msg = o.msg /\ k.acceptmbox = m
          /\ k.recvmbox = o.recvmbox /\ k.fatal = b
          /\ k.write_offset = o.write_offset /\ k.sem = o.sem /\ k.api = o.api
  BY <1>5, <1>6 DEF ConnType, T
<1> QED BY <1>2, <1>4, <1>6, <1>7 DEF T

(* netconn_accept fetches a message.                                       *)
LEMMA AcceptFetchKeeps ==
  ASSUME NetconnInv, NEW c \in Conns, AcceptFetch(c)
  PROVE  NetconnInv'
<1> DEFINE q == conn[c].acceptmbox.q
           m == Head(q)
           k == TookConn(conn[c])
           x == IF m \in Conns THEN [pc |-> "accepted", item |-> m] ELSE [pc |-> "idle", item |-> NULL]
           p == conn[c].pcb
<1>1. /\ th[c].pc = "accept" /\ q # <<>> /\ th' = [th EXCEPT ![c] = x]
      /\ conn' = [conn EXCEPT ![c].acceptmbox.q = Tail(@), ![c].fatal = @ \/ m = "nul"] /\ UNCHANGED <<pcb, failed>>
  BY DEF AcceptFetch, At
<1>2. /\ conn[c] \in ConnType /\ th[c] \in ThreadType /\ ConnOK(conn[c], th[c])
      /\ conn \in [Conns -> ConnType] /\ th \in [Conns -> ThreadType] /\ failed = FALSE
      /\ p # NULL => Pair(c, conn[c], pcb[p], th[c])
  BY InvFacts
<1>3. /\ k \in ConnType /\ k.used = conn[c].used /\ k.state = conn[c].state /\ k.innb = conn[c].innb
      /\ k.pcb = conn[c].pcb /\ k.msg = conn[c].msg /\ k.acceptmbox.valid = conn[c].acceptmbox.valid
      /\ k.acceptmbox.q = Tail(q) /\ k.recvmbox = conn[c].recvmbox /\ (conn[c].fatal => k.fatal)
      /\ k.write_offset = conn[c].write_offset /\ k.sem = conn[c].sem /\ k.api = conn[c].api
      /\ q \in Seq(Conns \cup {"aborted", "nul"})
  BY <1>1, <1>2, TookConnFields
<1>4. conn' = [conn EXCEPT ![c] = k] /\ pcb' = pcb /\ failed' = FALSE
  BY <1>1, <1>2 DEF TookConn
<1>5. /\ x \in ThreadType /\ x.pc \in {"accepted", "idle"}
      /\ x.pc = "accepted" => m \in Conns /\ x.item = m
      /\ x.pc = "idle" => m \notin Conns /\ x.item = NULL
  <2>1. CASE m \in Conns
    BY <2>1 DEF ThreadType, Pcs
  <2>2. CASE m \notin Conns
    BY <2>2 DEF ThreadType, Pcs
  <2> QED BY <2>1, <2>2
<1> HIDE DEF k, x, m
<1>6. conn[c].acceptmbox.valid /\ k.state = "LISTEN" /\ th[c].item = NULL /\ ~conn[c].recvmbox.valid
  BY <1>1, <1>2, <1>3, NewMboxIs DEF ConnOK, Boxes
<1>7. ~NulIn(Tail(q))
  <2>1. ~NulIn(q)
    BY <1>2 DEF ConnOK, Boxes
  <2> HIDE DEF q
  <2>2. \A i : i \in DOMAIN Tail(q) => Tail(q)[i] = q[i + 1] /\ i + 1 \in DOMAIN q
    BY <1>1, <1>3
  <2> QED BY <2>1, <2>2 DEF NulIn
<1>8. ConnOK(k, x)
  <2>1. Control(k, x)
    BY <1>1, <1>2, <1>3, <1>5 DEF ConnOK, Control, Quiet, Waits
  <2>2. Boxes(k, x)
    BY <1>1, <1>2, <1>3, <1>5, <1>6, <1>7 DEF ConnOK, Boxes
  <2>3. Count(k, x)
    BY <1>2, <1>3, <1>5, <1>6 DEF ConnOK, Count
  <2> QED BY <2>1, <2>2, <2>3 DEF ConnOK
<1>9. ASSUME k.pcb # NULL
      PROVE  Pair(c, k, pcb[k.pcb], x)
  <2>1. Pair(c, conn[c], pcb[k.pcb], th[c])
    BY <1>2, <1>3, <1>9
  <2> QED BY <1>3, <1>6, <2>1 DEF Pair
<1>10. Base([conn EXCEPT ![c] = k], pcb, [th EXCEPT ![c] = x])
  BY <1>2, <1>3, <1>5, <1>8, <1>9, ConnStep DEF NetconnInv
<1>11. Reach([conn EXCEPT ![c] = k], [th EXCEPT ![c] = x])
  <2>1. NULL \notin Conns
    BY NetconnAssumption
  <2>2. \A n \in Conns : x.item = n <=> Head(q) = n
    BY <1>5, <2>1 DEF m
  <2>3. th[c].item \notin Conns /\ th[c].pc # "none" /\ x.pc # "none"
    BY <1>1, <1>5, <1>6, <2>1
  <2>4. Reach(conn, th)
    BY DEF NetconnInv
  <2> QED BY <1>1, <1>2, <1>3, <2>2, <2>3, <2>4, ReachFetched
<1> QED BY <1>1, <1>4, <1>10, <1>11 DEF NetconnInv

(* A netconn gets a thread of its own.                                     *)
LEMMA ReachAccepted ==
  ASSUME NEW C, NEW h, NEW h2, Reach(C, h), NEW c \in Conns, NEW n \in Conns, h[c].item = n, n # c,
         h2[c].item \notin Conns, h[c].pc # "none", h2[c].pc # "none", h2[n].pc # "none", h2[n].item = h[n].item,
         \A d \in Conns : d # c /\ d # n => h2[d].item = h[d].item /\ h2[d].pc = h[d].pc
  PROVE  Reach(C, h2)
<1>1. \A d \in Conns : d # c => h2[d].item = h[d].item
  OBVIOUS
<1>2. \A d \in Conns : h[d].item = n => d = c
  BY DEF Reach
<1>3. \A d \in Conns, i \in Nat : ~InQueue(C, d, i, n)
  BY DEF Reach
<1>4. ASSUME NEW d \in Conns, NEW m \in Conns, h2[d].item = m \/ (\E i \in Nat : InQueue(C, d, i, m))
      PROVE  C[m].used /\ h2[m].pc = "none"
  <2>1. m # n /\ (h[d].item = m \/ (\E i \in Nat : InQueue(C, d, i, m)))
    BY <1>1, <1>2, <1>3, <1>4
  <2>2. C[m].used /\ h[m].pc = "none"
    BY <2>1 DEF Reach
  <2> QED BY <2>1, <2>2
<1>5. ASSUME NEW d \in Conns, NEW e \in Conns, NEW m \in Conns, h2[d].item = m, h2[e].item = m
      PROVE  d = e
  BY <1>1, <1>5 DEF Reach
<1>6. ASSUME NEW d \in Conns, NEW e \in Conns, NEW m \in Conns, NEW i \in Nat, InQueue(C, d, i, m), h2[e].item = m
      PROVE  FALSE
  BY <1>1, <1>6 DEF Reach
<1>7. ASSUME NEW m \in Conns, C[m].used, h2[m].pc = "none"
      PROVE  \E d \in Conns : h2[d].item = m \/ \E i \in Nat : InQueue(C, d, i, m)
  <2>1. m # n /\ m # c /\ h[m].pc = "none"
    BY <1>7
  <2>2. PICK d \in Conns : h[d].item = m \/ \E i \in Nat : InQueue(C, d, i, m)
    BY <1>7, <2>1 DEF Reach
  <2> QED BY <1>1, <2>1, <2>2
<1>8. \A d, e, m \in Conns : \A i, j \in Nat : InQueue(C, d, i, m) /\ InQueue(C, e, j, m) => d = e /\ i = j
  BY DEF Reach
<1> QED BY <1>4, <1>5, <1>6, <1>7, <1>8 DEF Reach

(* lwip_netconn_do_accepted.                                               *)
LEMMA DoAcceptedKeeps ==
  ASSUME NetconnInv, NEW c \in Conns, lwip_netconn_do_accepted(c)
  PROVE  NetconnInv'
<1> DEFINE n == th[c].item
           p == conn[n].pcb
           x == [pc |-> "idle", item |-> NULL]
           y == [th[n] EXCEPT !.pc = "idle"]
           R == IF p # NULL THEN tcp_backlog_accepted(Core, p) ELSE Core
           Q == IF p # NULL THEN Unpended(pcb, p) ELSE pcb
           h1 == [th EXCEPT ![c] = x]
           h2 == [h1 EXCEPT ![n] = y]
<1>1. th[c].pc = "accepted" /\ Becomes(R) /\ th' = [th EXCEPT ![c] = [pc |-> "idle", item |-> NULL], ![n].pc = "idle"]
  BY DEF lwip_netconn_do_accepted, At
<1> HIDE DEF R
<1>2. /\ conn[c] \in ConnType /\ th[c] \in ThreadType /\ ConnOK(conn[c], th[c])
      /\ conn \in [Conns -> ConnType] /\ th \in [Conns -> ThreadType] /\ Is(Core, conn, pcb)
      /\ pcb \in [Pcbs -> PcbType] /\ Base(conn, pcb, th) /\ Reach(conn, th)
  BY InvFacts
<1>3. n \in Conns
  BY <1>1, <1>2 DEF ConnOK, Boxes
<1>4. conn[n].used /\ th[n].pc = "none" /\ n # c
  BY <1>1, <1>2, <1>3 DEF Reach
<1>5. /\ conn[n] \in ConnType /\ th[n] \in ThreadType /\ ConnOK(conn[n], th[n])
      /\ p # NULL => p \in Pcbs /\ pcb[p].st \in Owned
  BY <1>2, <1>3, PairFacts
<1> HIDE DEF n
<1>6. Is(R, conn, Q)
  <2>1. CASE p = NULL
    BY <1>2, <2>1 DEF R
  <2>2. CASE p # NULL
    <3>1. Slot(pcb, p) /\ p \in Pcbs
      BY <1>2, <1>5, <2>2, SlotOK
    <3>2. R = tcp_backlog_accepted(Core, p) /\ Q = Unpended(pcb, p)
      BY <2>2 DEF R
    <3> QED BY <1>2, <3>1, <3>2, BacklogAcceptedIs
  <2> QED BY <2>1, <2>2
<1>7. Base(conn, Q, th)
  <2>1. CASE p = NULL
    BY <1>2, <2>1
  <2>2. CASE p # NULL
    <3>1. pcb[p].st # "SYN_RCVD" /\ p \in Pcbs
      BY <1>5, <2>2 DEF Owned
    <3> QED BY <1>2, <2>2, <3>1, UnpendStep
  <2> QED BY <2>1, <2>2
<1> HIDE DEF Q
<1>8. conn' = conn /\ pcb' = Q /\ failed' = FALSE
  BY <1>1, <1>6, BecomesIs
<1>9. x \in ThreadType /\ x.pc = "idle" /\ x.item = NULL
  BY DEF ThreadType, Pcs
<1>10. y \in ThreadType /\ y.pc = "idle" /\ y.item = th[n].item
  BY <1>5 DEF ThreadType, Pcs
<1> HIDE DEF x, y
<1>11. ConnOK(conn[c], x)
  <2>1. Control(conn[c], x)
    BY <1>1, <1>2, <1>9 DEF ConnOK, Control, Quiet, Waits
  <2>2. Boxes(conn[c], x)
    BY <1>1, <1>2, <1>9 DEF ConnOK, Boxes
  <2>3. Count(conn[c], x)
    <3>1. conn[c].state # "WRITE"
      BY <1>1, <1>2 DEF ConnOK, Control, Quiet
    <3> QED BY <1>2, <1>9, <3>1 DEF ConnOK, Count
  <2> QED BY <2>1, <2>2, <2>3 DEF ConnOK
<1>12. ASSUME NEW r, Pair(c, conn[c], r, th[c])
       PROVE  Pair(c, conn[c], r, x)
  <2>1. Taken(x) = 0 /\ Taken(th[c]) = 0
    BY <1>1, <1>9 DEF Taken
  <2> QED BY <1>9, <1>12, <2>1 DEF Pair, Window
<1>13. Base(conn, Q, h1)
  <2>1. conn[c].pcb # NULL => Pair(c, conn[c], Q[conn[c].pcb], th[c])
    BY <1>7, PairFacts
  <2>2. Base([conn EXCEPT ![c] = conn[c]], Q, [th EXCEPT ![c] = x])
    BY <1>2, <1>7, <1>9, <1>11, <1>12, <2>1, ConnStep
  <2>3. [conn EXCEPT ![c] = conn[c]] = conn
    BY <1>2
  <2> QED BY <2>2, <2>3
<1>14. h1[n] = th[n]
  BY <1>2, <1>3, <1>4
<1>15. ConnOK(conn[n], y)
  <2>0. Unaccepted(conn[n])
    BY <1>4, <1>5, <1>2 DEF ConnOK, Control, NoConn
  <2>1. Control(conn[n], y)
    BY <1>4, <1>5, <1>10, <2>0 DEF Control, Quiet, Waits, Unaccepted
  <2>2. Boxes(conn[n], y)
    BY <1>4, <1>5, <1>10, <2>0 DEF ConnOK, Boxes, Unaccepted
  <2>3. Count(conn[n], y)
    BY <1>10, <2>0 DEF Count, Unaccepted
  <2> QED BY <2>1, <2>2, <2>3 DEF ConnOK
<1>16. ASSUME NEW r, Pair(n, conn[n], r, th[n])
       PROVE  Pair(n, conn[n], r, y)
  <2>1. Taken(y) = 0 /\ Taken(th[n]) = 0
    BY <1>4, <1>10 DEF Taken
  <2> QED BY <1>4, <1>10, <1>16, <2>1 DEF Pair, Window
<1>17. Base(conn, Q, h2)
  <2>1. conn[n].pcb # NULL => Pair(n, conn[n], Q[conn[n].pcb], th[n])
    BY <1>3, <1>7, PairFacts
  <2> HIDE DEF h1
  <2>2. Base([conn EXCEPT ![n] = conn[n]], Q, [h1 EXCEPT ![n] = y])
    BY <1>3, <1>5, <1>10, <1>13, <1>15, <1>16, <2>1, ConnStep
  <2>3. [conn EXCEPT ![n] = conn[n]] = conn
    BY <1>2
  <2> QED BY <2>2, <2>3
<1>18. th' = h2
  BY <1>1, <1>2, <1>3, <1>4 DEF x, y
<1>19. /\ h2[c] = x /\ h2[n] = y
       /\ \A d \in Conns : d # c /\ d # n => h2[d] = th[d]
  BY <1>2, <1>3, <1>4
<1> HIDE DEF h2
<1>20. Reach(conn, h2)
  <2>1. NULL \notin Conns
    BY NetconnAssumption
  <2>2. th[c].item = n
    BY DEF n
  <2> QED BY <1>1, <1>2, <1>3, <1>4, <1>9, <1>10, <1>19, <2>1, <2>2, ReachAccepted
<1> QED BY <1>8, <1>17, <1>18, <1>20 DEF NetconnInv

-----------------------------------------------------------------------------
(* The steps of TCP.                                                       *)

(* A pcb and the netconn it belongs to.                                    *)
LEMMA PcbFacts ==
  ASSUME NetconnInv, NEW p \in Pcbs
  PROVE  /\ Base(conn, pcb, th) /\ Reach(conn, th) /\ Is(Core, conn, pcb) /\ failed = FALSE
         /\ conn \in [Conns -> ConnType] /\ th \in [Conns -> ThreadType] /\ pcb \in [Pcbs -> PcbType]
         /\ pcb[p] \in PcbType /\ PcbOK(pcb[p]) /\ Slot(pcb, p)
         /\ pcb[p].st # "LISTEN" => Purgeable(pcb, p)
         /\ pcb[p].st \in Owned => pcb[p].arg \in Conns /\ conn[pcb[p].arg].pcb = p
<1>1. failed = FALSE /\ Base(conn, pcb, th) /\ Reach(conn, th) /\ Is(Core, conn, pcb)
  BY DEF NetconnInv, Is, Core
<1>2. /\ conn \in [Conns -> ConnType] /\ th \in [Conns -> ThreadType] /\ pcb \in [Pcbs -> PcbType]
      /\ pcb[p] \in PcbType
  BY <1>1 DEF Base, Types
<1>3. PcbOK(pcb[p]) /\ (pcb[p].st \in Owned => pcb[p].arg \in Conns /\ conn[pcb[p].arg].pcb = p)
  BY <1>1 DEF Base, Links
<1>4. Slot(pcb, p) /\ (pcb[p].st # "LISTEN" => Purgeable(pcb, p))
  BY <1>1, SlotOK, PurgeableOK
<1> QED BY <1>1, <1>2, <1>3, <1>4

(* A pcb that belongs to nobody is freed or goes to TIME_WAIT.             *)
LEMMA LetGoKeeps ==
  ASSUME NetconnInv, NEW p \in Pcbs, pcb[p].st \notin Owned, NEW r \in PcbType, PcbOK(r), LetGo(pcb[p], r),
         NEW s, Is(s, conn, [Unpended(pcb, p) EXCEPT ![p] = r]), Becomes(s), UNCHANGED th
  PROVE  NetconnInv'
<1>1. conn' = conn /\ pcb' = [Unpended(pcb, p) EXCEPT ![p] = r] /\ failed' = FALSE
  BY BecomesIs
<1>2. Base(conn, pcb, th) /\ Reach(conn, th)
  BY DEF NetconnInv
<1>3. Base(conn, [Unpended(pcb, p) EXCEPT ![p] = r], th)
  BY <1>2, FreedStep
<1> QED BY <1>1, <1>2, <1>3 DEF NetconnInv

(* AbandonStep, as one formula.                                            *)
LEMMA AbandonGivesUp ==
  ASSUME NEW C, NEW P, NEW h, Base(C, P, h), Reach(C, h), NEW c \in Conns, NEW p \in Pcbs,
         C[c].pcb = p, P[p].st # "LISTEN"
  PROVE  GivenUp(C, P, h, c, p)
<1>1. /\ ErrReady(C[c])
      /\ Base([C EXCEPT ![c] = Errd(C[c])], [Unpended(P, p) EXCEPT ![p] = NoPcb], h)
      /\ Reach(C, h) => Reach([C EXCEPT ![c] = Errd(C[c])], h)
      /\ P[p].err /\ P[p].arg = c /\ P[p].st # "TIME_WAIT"
  BY AbandonStep
<1> QED BY <1>1 DEF GivenUp

(* A pcb is given up.                                                      *)
LEMMA AbandonKeeps ==
  ASSUME NetconnInv, NEW p \in Pcbs, pcb[p].st \notin {"LISTEN", "free"}, Becomes(tcp_abandon(Core, p)), UNCHANGED th
  PROVE  NetconnInv'
<1> DEFINE s == tcp_abandon(Core, p)
<1>0. Becomes(s)
  OBVIOUS
<1> HIDE DEF s
<1>1. /\ Base(conn, pcb, th) /\ Reach(conn, th) /\ Is(Core, conn, pcb)
      /\ conn \in [Conns -> ConnType] /\ th \in [Conns -> ThreadType] /\ pcb \in [Pcbs -> PcbType]
      /\ pcb[p] \in PcbType /\ PcbOK(pcb[p]) /\ Purgeable(pcb, p)
      /\ pcb[p].st \in Owned => pcb[p].arg \in Conns /\ conn[pcb[p].arg].pcb = p
  BY PcbFacts
<1>2. CASE pcb[p].st \in Owned
  <2> DEFINE c == pcb[p].arg
             C2 == [conn EXCEPT ![c] = Errd(conn[c])]
             P2 == [Unpended(pcb, p) EXCEPT ![p] = NoPcb]
  <2>1. c \in Conns /\ conn[c].pcb = p /\ pcb[p].st # "LISTEN" /\ pcb[p].arg = c
    BY <1>1, <1>2
  <2> HIDE DEF c
  <2>2. GivenUp(conn, pcb, th, c, p)
    BY <1>1, <2>1, AbandonGivesUp
  <2>3. Is(s, C2, P2)
    BY <1>1, <2>1, <2>2, AbandonIs DEF s, GivenUp
  <2>4. Base(C2, P2, th) /\ Reach(C2, th)
    BY <1>1, <2>2 DEF GivenUp
  <2> HIDE DEF C2, P2
  <2>5. conn' = C2 /\ pcb' = P2 /\ failed' = FALSE
    BY <1>0, <2>3, BecomesIs
  <2> QED BY <2>4, <2>5 DEF NetconnInv
<1>3. CASE pcb[p].st \notin Owned
  <2>1. ~pcb[p].err
    BY <1>1, <1>3 DEF PcbOK, Orphan, Owned, PcbType, TcpStates
  <2>2. Is(s, conn, [Unpended(pcb, p) EXCEPT ![p] = NoPcb])
    BY <1>1, <2>1, AbandonOrphanIs DEF s
  <2>3. NoPcb \in PcbType /\ PcbOK(NoPcb) /\ LetGo(pcb[p], NoPcb)
    BY NoPcbIsOK
  <2> HIDE DEF NoPcb
  <2> QED BY <1>0, <1>3, <2>2, <2>3, LetGoKeeps
<1> QED BY <1>2, <1>3

(* An RST, a timer or the lack of a pcb.                                   *)
LEMMA PcbDiesKeeps ==
  ASSUME NetconnInv, NEW p \in Pcbs, PcbDies(p)
  PROVE  NetconnInv'
<1>1. pcb[p].st \in Active /\ Becomes(tcp_abandon(Core, p)) /\ UNCHANGED th
  BY DEF PcbDies
<1>2. pcb[p].st \notin {"LISTEN", "free"}
  BY <1>1 DEF Active
<1> QED BY <1>1, <1>2, AbandonKeeps, Zenon

(* A pcb without a netconn is freed.                                       *)
LEMMA FreedKeeps ==
  ASSUME NetconnInv, NEW p \in Pcbs, pcb[p].st \notin Owned \cup {"free"}, Becomes(Freed(Core, p)), UNCHANGED th
  PROVE  NetconnInv'
<1> DEFINE s == Freed(Core, p)
<1>0. Becomes(s)
  OBVIOUS
<1> HIDE DEF s
<1>1. /\ Is(Core, conn, pcb) /\ pcb \in [Pcbs -> PcbType] /\ Purgeable(pcb, p)
  BY PcbFacts DEF Owned
<1>2. Is(s, conn, [Unpended(pcb, p) EXCEPT ![p] = NoPcb])
  BY <1>1, FreedIs DEF s
<1>3. NoPcb \in PcbType /\ PcbOK(NoPcb) /\ LetGo(pcb[p], NoPcb)
  BY NoPcbIsOK
<1> HIDE DEF NoPcb
<1> QED BY <1>0, <1>2, <1>3, LetGoKeeps

(* The end of TIME_WAIT.                                                   *)
LEMMA TimeWaitOverKeeps ==
  ASSUME NetconnInv, NEW p \in Pcbs, TimeWaitOver(p)
  PROVE  NetconnInv'
<1>1. pcb[p].st = "TIME_WAIT" /\ Becomes(Freed(Core, p)) /\ UNCHANGED th
  BY DEF TimeWaitOver
<1>2. pcb[p].st \notin Owned \cup {"free"}
  BY <1>1 DEF Owned
<1> QED BY <1>1, <1>2, FreedKeeps, Zenon

(* The fields of a pcb that enters TIME_WAIT.                              *)
LEMMA WaitingFields ==
  ASSUME NEW o \in PcbType
  PROVE  LET r == Waiting(o)
         IN  /\ r \in PcbType /\ r.st = "TIME_WAIT" /\ r.arg = o.arg /\ r.listener = o.listener
             /\ r.recv = o.recv /\ r.sent = o.sent /\ r.poll = o.poll /\ r.err = o.err
             /\ r.accepts_pending = o.accepts_pending /\ r.rxclosed = o.rxclosed
             /\ r.refused = "none" /\ r.out = 0 /\ r.pend = o.pend /\ r.unread = o.unread
<1> DEFINE u == Purged(o)
<1>1. /\ u \in PcbType /\ u.arg = o.arg /\ u.listener = o.listener
      /\ u.recv = o.recv /\ u.sent = o.sent /\ u.poll = o.poll /\ u.err = o.err
      /\ u.accepts_pending = o.accepts_pending /\ u.rxclosed = o.rxclosed
      /\ u.refused = "none" /\ u.out = 0 /\ u.pend = o.pend /\ u.unread = o.unread
  <2>1. 0 \in 0 .. SND_BUF
    BY NetconnAssumption
  <2> QED BY <2>1 DEF Purged, PcbType
<1> HIDE DEF u
<1>2. Waiting(o) = [u EXCEPT !.st = "TIME_WAIT"]
  BY DEF Waiting, u
<1> QED BY <1>1, <1>2 DEF PcbType, TcpStates

(* The ACK of a FIN.                                                       *)
LEMMA FinAckedKeeps ==
  ASSUME NetconnInv, NEW p \in Pcbs, FinAcked(p)
  PROVE  NetconnInv'
<1>1. CASE pcb[p].st = "CLOSING" /\ Becomes([tcp_pcb_purge(Core, p) EXCEPT !.pcb[p].st = "TIME_WAIT"])
  <2> DEFINE U == Unpended(pcb, p)
             V == [U EXCEPT ![p] = Purged(U[p])]
             r == Waiting(U[p])
             u == tcp_pcb_purge(Core, p)
             s == [u EXCEPT !.pcb[p].st = "TIME_WAIT"]
  <2>1. Is(Core, conn, pcb) /\ pcb \in [Pcbs -> PcbType] /\ Purgeable(pcb, p) /\ PcbOK(pcb[p])
    BY <1>1, PcbFacts
  <2>2. Is(u, conn, V)
    BY <1>1, <2>1, PurgeIs
  <2>3. Becomes(s)
    BY <1>1, Zenon
  <2>4. /\ U[p] \in PcbType /\ U[p].st = pcb[p].st /\ U[p].arg = pcb[p].arg /\ U[p].listener = pcb[p].listener
        /\ U[p].recv = pcb[p].recv /\ U[p].sent = pcb[p].sent /\ U[p].poll = pcb[p].poll /\ U[p].err = pcb[p].err
        /\ ~(U[p].listener # NULL /\ U[p].pend)
    BY <2>1, UnpendedSelf
  <2>5. V[p] = Purged(U[p]) /\ \A y : [V EXCEPT ![p] = y] = [U EXCEPT ![p] = y]
    BY DEF Unpended
  <2> HIDE DEF U, V, u
  <2>6. Is(s, conn, [V EXCEPT ![p] = [V[p] EXCEPT !.st = "TIME_WAIT"]])
    <3>1. s.conn = conn /\ s.failed = FALSE /\ s.pcb = [V EXCEPT ![p] = [V[p] EXCEPT !.st = "TIME_WAIT"]]
      BY <2>2 DEF Is
    <3>2. s \in [conn : {s.conn}, pcb : {s.pcb}, failed : {s.failed}]
      BY <2>2 DEF Is
    <3> HIDE DEF s
    <3> QED BY <3>1, <3>2 DEF Is
  <2> HIDE DEF s
  <2>7. Is(s, conn, [U EXCEPT ![p] = r])
    BY <2>5, <2>6 DEF Waiting
  <2>8. /\ r \in PcbType /\ r.st = "TIME_WAIT" /\ r.arg = U[p].arg /\ r.listener = U[p].listener
        /\ r.recv = U[p].recv /\ r.sent = U[p].sent /\ r.poll = U[p].poll /\ r.err = U[p].err /\ r.pend = U[p].pend
    BY <2>4, WaitingFields
  <2> HIDE DEF r
  <2>9. PcbOK(r)
    BY <1>1, <2>1, <2>4, <2>8 DEF PcbOK, Orphan
  <2>10. LetGo(pcb[p], r) /\ pcb[p].st \notin Owned
    <3>1. r.pend \in BOOLEAN
      BY <2>8 DEF PcbType
    <3> QED BY <1>1, <2>4, <2>8, <3>1 DEF LetGo, Owned
  <2>11. UNCHANGED th
    BY DEF FinAcked
  <2> QED BY <2>3, <2>7, <2>8, <2>9, <2>10, <2>11, LetGoKeeps DEF U
<1>2. CASE pcb[p].st = "LAST_ACK" /\ Becomes(IF ~pcb[p].rxclosed THEN tcp_abandon(Core, p) ELSE Freed(Core, p))
  <2>1. UNCHANGED th /\ pcb[p].st \notin Owned \cup {"free", "LISTEN"}
    BY <1>2 DEF FinAcked, Owned
  <2>2. CASE pcb[p].rxclosed
    <3>1. Becomes(Freed(Core, p))
      BY <1>2, <2>2, Zenon
    <3> QED BY <2>1, <3>1, FreedKeeps
  <2>3. CASE ~pcb[p].rxclosed
    <3>1. Becomes(tcp_abandon(Core, p))
      BY <1>2, <2>3, Zenon
    <3> QED BY <2>1, <3>1, AbandonKeeps
  <2> QED BY <2>2, <2>3
<1> QED BY <1>1, <1>2, Zenon DEF FinAcked

(* Continue has three cases.                                               *)
LEMMA ContinueCases ==
  ASSUME NEW s, NEW c, NEW mem, NEW rte
  PROVE  /\ s.conn[c].state = "WRITE" => Continue(s, c, mem, rte) = lwip_netconn_do_writemore(s, c, mem, rte, TRUE)
         /\ s.conn[c].state = "CLOSE" => Continue(s, c, mem, rte) = lwip_netconn_do_close_internal(s, c, mem, TRUE)
         /\ s.conn[c].state # "WRITE" /\ s.conn[c].state # "CLOSE" => Continue(s, c, mem, rte) = s
<1>1. "WRITE" # "CLOSE"
  OBVIOUS
<1>2. ASSUME s.conn[c].state = "WRITE"
      PROVE  Continue(s, c, mem, rte) = lwip_netconn_do_writemore(s, c, mem, rte, TRUE)
  <2>1. s.conn[c].state # "CLOSE"
    BY <1>1, <1>2
  <2> QED BY <1>2, <2>1, Zenon DEF Continue
<1>3. ASSUME s.conn[c].state = "CLOSE"
      PROVE  Continue(s, c, mem, rte) = lwip_netconn_do_close_internal(s, c, mem, TRUE)
  <2>1. s.conn[c].state # "WRITE"
    BY <1>1, <1>3
  <2> QED BY <1>3, <2>1, Zenon DEF Continue
<1>4. ASSUME s.conn[c].state # "WRITE" /\ s.conn[c].state # "CLOSE"
      PROVE  Continue(s, c, mem, rte) = s
  BY <1>4, Zenon DEF Continue
<1> QED BY <1>2, <1>3, <1>4, Zenon

(* The close of a waiting thread ends.                                     *)
LEMMA ClosedOK ==
  ASSUME NEW o \in ConnType, NEW x \in ThreadType, ConnOK(o, x), o.state = "CLOSE",
         NEW k, k = Completed(Unlinked(o), "OK", TRUE)
  PROVE  /\ k \in ConnType /\ ConnOK(k, x) /\ k.pcb = NULL /\ k.used = o.used
         /\ k.acceptmbox.q = o.acceptmbox.q
<1>1. /\ x.pc \in {"close", "delconn"} /\ o.sem = 0 /\ ~o.innb /\ o.used
      /\ o.recvmbox = NoMbox /\ o.acceptmbox = NoMbox
  <2>1. Control(o, x) /\ Boxes(o, x) /\ x.pc \in Pcs /\ o.sem \in 0 .. 1
    BY DEF ConnOK, ThreadType, ConnType
  <2>2. x.pc # "none"
    BY <2>1 DEF Control, Unaccepted, NoConn
  <2>3. x.pc \notin Quiet \cup {"free"}
    BY <2>1 DEF Control
  <2>4. x.pc \in Waits
    BY <2>1, <2>2, <2>3 DEF Quiet, Pcs
  <2>5. o.sem = 0 /\ ~o.innb /\ o.used /\ x.pc \notin {"connect", "write"}
    BY <2>1, <2>2, <2>4 DEF Control
  <2>6. o.recvmbox = NoMbox /\ o.acceptmbox = NoMbox
    BY <2>1 DEF Boxes
  <2> QED BY <2>4, <2>5, <2>6 DEF Waits
<1> DEFINE u == Unlinked(o)
<1>2. /\ u \in ConnType /\ u.used = o.used /\ u.innb = o.innb /\ u.pcb = NULL
      /\ u.recvmbox = o.recvmbox /\ u.acceptmbox = o.acceptmbox /\ u.sem = o.sem
  BY UnlinkedFields
<1> HIDE DEF u
<1>3. k = Completed(u, "OK", TRUE)
  BY DEF u
<1>4. ASSUME NEW e \in Errors, NEW d \in BOOLEAN, d => u.sem = 0
      PROVE  CompletedFrom(Completed(u, e, d), u, e, IF d THEN 1 ELSE u.sem)
  BY <1>2, <1>4, CompletedAs
<1>5. CompletedFrom(k, u, "OK", 1)
  <2>1. "OK" \in Errors /\ TRUE \in BOOLEAN
    BY DEF Errors
  <2>2. u.sem = 0
    BY <1>1, <1>2
  <2>3. CompletedFrom(Completed(u, "OK", TRUE), u, "OK", IF TRUE THEN 1 ELSE u.sem)
    BY <1>4, <2>1, <2>2, Zenon
  <2> QED BY <1>3, <2>3, Zenon
<1>6. /\ k \in ConnType /\ k.used = o.used /\ k.state = "NONE" /\ ~k.innb /\ k.pcb = NULL /\ ~k.msg
      /\ k.recvmbox = NoMbox /\ k.acceptmbox = NoMbox /\ k.sem = 1 /\ k.api.err = "OK"
  BY <1>1, <1>2, <1>5 DEF CompletedFrom
<1>7. Control(k, x)
  BY <1>1, <1>6 DEF Control, Quiet, Waits
<1>8. Boxes(k, x)
  BY <1>1, <1>6, NewMboxIs, ZenonT(40) DEF ConnOK, Boxes, NulIn
<1>9. Count(k, x)
  BY <1>1, <1>6 DEF Count
<1> QED BY <1>1, <1>6, <1>7, <1>8, <1>9 DEF ConnOK

(* sent_tcp or poll_tcp goes on with the close of a waiting thread.        *)
LEMMA CloseContinues ==
  ASSUME NEW C, NEW P, Base(C, P, th), Reach(C, th), NEW s, Is(s, C, P), NEW c \in Conns, NEW p \in Pcbs,
         C[c].pcb = p, C[c].state = "CLOSE", NEW mem \in BOOLEAN,
         Becomes(lwip_netconn_do_close_internal(s, c, mem, TRUE)), UNCHANGED th
  PROVE  NetconnInv'
<1> DEFINE R == lwip_netconn_do_close_internal(s, c, mem, TRUE)
           k == Completed(Unlinked(C[c]), "OK", TRUE)
<1>1. /\ C[c] \in ConnType /\ th[c] \in ThreadType /\ ConnOK(C[c], th[c])
      /\ C \in [Conns -> ConnType] /\ P \in [Pcbs -> PcbType] /\ th \in [Conns -> ThreadType]
      /\ [C EXCEPT ![c] = C[c]] = C /\ [th EXCEPT ![c] = th[c]] = th
  BY PairFacts
<1>2. /\ P[p] \in PcbType /\ PcbOK(P[p]) /\ Pair(c, C[c], P[p], th[c])
      /\ P[p].st \in Owned
  <2>1. C[c].pcb # NULL
    BY NetconnAssumption
  <2> QED BY <2>1, PairFacts
<1>3. C[c].msg /\ C[c].api.shut = "RDWR"
  BY <1>1 DEF ConnOK, Control, Quiet, Waits, Unaccepted, NoConn, ThreadType, Pcs
<1>4. CloseReady(s, C, P, c, p)
  <2>1. Slot(P, p)
    BY SlotOK
  <2> QED BY <1>1, <1>2, <1>3, <2>1 DEF CloseReady
<1>5. /\ k \in ConnType /\ ConnOK(k, th[c]) /\ k.pcb = NULL /\ k.used = C[c].used
      /\ k.acceptmbox.q = C[c].acceptmbox.q
  BY <1>1, ClosedOK
<1>6. CloseEnds(R, C, P, c, p, k) \/ CloseWaits(R, C, P, c, p)
  <2>1. ASSUME NEW d \in BOOLEAN
        PROVE  LET Rd == lwip_netconn_do_close_internal(s, c, mem, d)
               IN  \/ CloseEnds(Rd, C, P, c, p, Completed(Unlinked(C[c]), "OK", d))
                   \/ CloseWaits(Rd, C, P, c, p)
    BY <1>4, CloseInternalIs
  <2> QED BY <2>1, Zenon
<1>7. Becomes(R)
  OBVIOUS
<1> HIDE DEF R, k
<1>8. CASE CloseEnds(R, C, P, c, p, k)
  <2>1. PICK P2 : Is(R, [C EXCEPT ![c] = k], P2) /\ Fits(C, P2, th, c)
    BY <1>1, <1>8, CloseEndsStep
  <2>2. conn' = [C EXCEPT ![c] = k] /\ pcb' = P2 /\ failed' = FALSE
    BY <1>7, <2>1, BecomesIs
  <2>3. Base([C EXCEPT ![c] = k], P2, [th EXCEPT ![c] = th[c]])
    BY <1>1, <1>5, <2>1 DEF Fits
  <2>4. Reach([C EXCEPT ![c] = k], [th EXCEPT ![c] = th[c]])
    BY <1>1, <1>5, ReachKept
  <2> QED BY <1>1, <2>2, <2>3, <2>4 DEF NetconnInv
<1>9. CASE CloseWaits(R, C, P, c, p)
  <2>1. Is(R, C, [P EXCEPT ![p] = Restored(P[p], c)]) /\ P[p].st \in {"ESTABLISHED", "CLOSE_WAIT"}
    BY <1>9 DEF CloseWaits
  <2>2. conn' = C /\ pcb' = [P EXCEPT ![p] = Restored(P[p], c)] /\ failed' = FALSE
    BY <1>7, <2>1, BecomesIs
  <2>3. Base([C EXCEPT ![c] = C[c]], [P EXCEPT ![p] = Restored(P[p], c)], [th EXCEPT ![c] = th[c]])
    BY <1>1, <2>1, CloseWaitsStep
  <2> QED BY <1>1, <2>2, <2>3 DEF NetconnInv
<1> QED BY <1>6, <1>8, <1>9

(* A waiting write.                                                        *)
LEMMA WaitingWriter ==
  ASSUME NEW o \in ConnType, NEW x \in ThreadType, ConnOK(o, x), o.state = "WRITE",
         NEW c, NEW p, o.pcb = p, NEW q, Pair(c, o, q, x), NEW r, SamePcb(q, r)
  PROVE  Writer(c, p, o, r) /\ x.pc = "write" /\ x.item = NULL /\ o.acceptmbox = NoMbox
<1>1. Control(o, x) /\ Boxes(o, x) /\ Count(o, x) /\ x.pc \in Pcs /\ o.sem \in 0 .. 1
  BY DEF ConnOK, ThreadType, ConnType
<1>2. x.pc # "none"
  BY <1>1 DEF Control, Unaccepted, NoConn
<1>3. x.pc \notin Quiet \cup {"free"}
  BY <1>1 DEF Control
<1>4. x.pc \in Waits
  BY <1>1, <1>2, <1>3 DEF Quiet, Pcs
<1>5. o.sem = 0 /\ ~o.innb /\ o.used /\ x.pc = "write" /\ o.msg
  BY <1>1, <1>2, <1>4 DEF Control
<1>6. o.acceptmbox = NoMbox /\ x.item = NULL /\ (~o.recvmbox.valid => o.recvmbox = NoMbox)
  BY <1>1, <1>5 DEF Boxes
<1>7. o.write_offset < SIZE /\ o.api.given = o.write_offset
  BY <1>1 DEF Count
<1>8. r.arg = c /\ r.st \in {"CLOSED", "ESTABLISHED", "CLOSE_WAIT"} /\ r.err /\ r.poll
  BY DEF Pair, SamePcb, SameLinks, Owned
<1>9. ASSUME o.recvmbox.valid
      PROVE  r.recv /\ \A z : Taken(z) = 0 => Window(o, r, z)
  <2>1. Taken(x) = 0
    BY <1>5 DEF Taken
  <2>2. q.recv /\ Window(o, q, x)
    BY <1>9 DEF Pair
  <2> QED BY <2>1, <2>2 DEF Window, SamePcb, SameLinks
<1> QED BY <1>5, <1>6, <1>7, <1>8, <1>9 DEF Writer

(* sent_tcp and poll_tcp.                                                  *)
LEMMA ContinueKeeps ==
  ASSUME NetconnInv, NEW p \in Pcbs, NEW c \in Conns, conn[c].pcb = p, pcb[p].st # "LISTEN",
         NEW r \in PcbType, SamePcb(pcb[p], r), PcbOK(r),
         NEW s, Is(s, conn, [pcb EXCEPT ![p] = r]), NEW mem \in BOOLEAN, NEW rte \in BOOLEAN,
         Becomes(Continue(Callback(s, c), c, mem, rte)), UNCHANGED th
  PROVE  NetconnInv'
<1> DEFINE P == [pcb EXCEPT ![p] = r]
           t == Callback(s, c)
           R == Continue(t, c, mem, rte)
<1>1. /\ Base(conn, pcb, th) /\ Reach(conn, th) /\ p # NULL
      /\ conn[c] \in ConnType /\ th[c] \in ThreadType /\ ConnOK(conn[c], th[c])
      /\ conn \in [Conns -> ConnType] /\ th \in [Conns -> ThreadType] /\ pcb \in [Pcbs -> PcbType]
      /\ Pair(c, conn[c], pcb[p], th[c]) /\ pcb[p] \in PcbType /\ PcbOK(pcb[p])
  <2>1. conn[c].pcb # NULL
    BY NetconnAssumption
  <2> QED BY <2>1, InvFacts
<1>2. [conn EXCEPT ![c] = conn[c]] = conn /\ [th EXCEPT ![c] = th[c]] = th /\ P[p] = r /\ P \in [Pcbs -> PcbType]
  BY <1>1
<1>3. Pair(c, conn[c], r, th[c]) /\ BacklogKept(pcb[p], r) /\ r.st # "SYN_RCVD"
  BY <1>1 DEF Pair, Window, SamePcb, SameLinks, BacklogKept, Owned
<1>4. Base(conn, P, th)
  <2>1. Base([conn EXCEPT ![c] = conn[c]], [pcb EXCEPT ![p] = r], [th EXCEPT ![c] = th[c]])
    BY <1>1, <1>3, PairStep
  <2> QED BY <1>2, <2>1
<1>5. conn[c].used
  BY <1>1 DEF ConnOK, Control, NoConn, Unaccepted
<1>6. Is(t, conn, P)
  BY <1>5, CallbackIs
<1>7. Becomes(R)
  OBVIOUS
<1> HIDE DEF P, t
<1>8. t.conn[c].state = conn[c].state
  BY <1>6 DEF Is
<1>9. CASE conn[c].state = "WRITE"
  <2>1. R = lwip_netconn_do_writemore(t, c, mem, rte, TRUE)
    BY <1>8, <1>9, ContinueCases, Zenon
  <2> HIDE DEF R
  <2>2. /\ Writer(c, p, conn[c], r) /\ th[c].pc = "write" /\ th[c].item = NULL
        /\ conn[c].acceptmbox = NoMbox
    BY <1>1, <1>9, WaitingWriter
  <2>3. WriteReady(t, conn, P, c, p)
    BY <1>1, <1>2, <1>6, <1>9, <2>2 DEF WriteReady, Writer
  <2>4. ASSUME NEW d \in BOOLEAN
        PROVE  WriteGoes(lwip_netconn_do_writemore(t, c, mem, rte, d), conn, P, c, p, d)
    BY <2>3, WritemoreIs
  <2>5. WriteGoes(R, conn, P, c, p, TRUE)
    BY <2>1, <2>4, Zenon
  <2>6. ASSUME NEW d \in BOOLEAN, WriteGoes(R, conn, P, c, p, d)
        PROVE  WriteFits(R, conn, P, c, p, d)
    BY <1>1, <1>2, <2>2, <2>6, WriteGoesFits
  <2>7. WriteFits(R, conn, P, c, p, TRUE)
    BY <2>5, <2>6, Zenon
  <2>8. WriteMoves(R, c, TRUE)
    BY <2>2, Zenon DEF WriteMoves
  <2>9. ASSUME NEW d \in BOOLEAN, WriteFits(R, [conn EXCEPT ![c] = conn[c]], [pcb EXCEPT ![p] = r], c, p, d),
               WriteMoves(R, c, d)
        PROVE  NetconnInv'
    <3>1. SameLinks(pcb[p], r) /\ th[c].pc # "none"
      BY <2>2 DEF SamePcb
    <3> QED BY <1>1, <1>3, <1>7, <2>2, <2>9, <3>1, WriteFitsKeeps
  <2>10. WriteFits(R, [conn EXCEPT ![c] = conn[c]], [pcb EXCEPT ![p] = r], c, p, TRUE)
    BY <1>2, <2>7, Zenon DEF P
  <2> QED BY <2>8, <2>9, <2>10, Zenon
<1>10. CASE conn[c].state = "CLOSE"
  <2>1. R = lwip_netconn_do_close_internal(t, c, mem, TRUE)
    BY <1>8, <1>10, ContinueCases, Zenon
  <2>2. Becomes(lwip_netconn_do_close_internal(t, c, mem, TRUE))
    BY <1>7, <2>1, Zenon
  <2> HIDE DEF R
  <2> QED BY <1>1, <1>4, <1>6, <1>10, <2>2, CloseContinues, Zenon
<1>11. CASE conn[c].state \notin {"WRITE", "CLOSE"}
  <2>0. t.conn[c].state # "WRITE" /\ t.conn[c].state # "CLOSE"
    BY <1>8, <1>11
  <2>1. R = t
    <3>1. ASSUME t.conn[c].state # "WRITE", t.conn[c].state # "CLOSE"
          PROVE  Continue(t, c, mem, rte) = t
      BY <3>1, Zenon DEF Continue
    <3> QED BY <2>0, <3>1
  <2> HIDE DEF R
  <2>2. conn' = conn /\ pcb' = P /\ failed' = FALSE
    BY <1>6, <1>7, <2>1, BecomesIs
  <2> QED BY <1>1, <1>4, <2>2 DEF NetconnInv
<1> QED BY <1>9, <1>10, <1>11

(* Poll: poll_tcp continues the call in progress.                          *)
LEMMA PollKeeps ==
  ASSUME NetconnInv, NEW p \in Pcbs, NEW mem \in BOOLEAN, NEW rte \in BOOLEAN, Poll(p, mem, rte)
  PROVE  NetconnInv'
<1> DEFINE c == pcb[p].arg
<1>1. /\ pcb[p].st \in Active /\ pcb[p].poll /\ Becomes(poll_tcp(Core, c, mem, rte)) /\ UNCHANGED th
  BY Zenon DEF Poll
<1>2. /\ Is(Core, conn, pcb) /\ pcb \in [Pcbs -> PcbType]
      /\ pcb[p] \in PcbType /\ PcbOK(pcb[p])
      /\ pcb[p].st \in Owned => pcb[p].arg \in Conns /\ conn[pcb[p].arg].pcb = p
  BY PcbFacts
<1>3. pcb[p].st \in Owned /\ pcb[p].st # "LISTEN"
  BY <1>1, <1>2 DEF PcbOK, Active, TcpStates, Owned, Orphan
<1>4. c \in Conns /\ conn[c].pcb = p /\ c # NULL
  BY <1>2, <1>3, NetconnAssumption
<1>5. Becomes(Continue(Callback(Core, c), c, mem, rte))
  BY <1>1, <1>4, Zenon DEF poll_tcp
<1> HIDE DEF c
<1>6. Is(Core, conn, [pcb EXCEPT ![p] = pcb[p]]) /\ SamePcb(pcb[p], pcb[p])
  <2>1. [pcb EXCEPT ![p] = pcb[p]] = pcb
    BY <1>2
  <2> QED BY <1>2, <2>1 DEF SamePcb, SameLinks
<1> QED BY <1>1, <1>2, <1>3, <1>4, <1>5, <1>6, ContinueKeeps

(* Acked: sent_tcp continues the call in progress.                         *)
LEMMA AckedKeeps ==
  ASSUME NetconnInv, NEW p \in Pcbs, NEW mem \in BOOLEAN, NEW rte \in BOOLEAN, Acked(p, mem, rte)
  PROVE  NetconnInv'
<1> DEFINE c == pcb[p].arg
           s == [Core EXCEPT !.pcb[p].out = @ - 1]
           r == AckedOne(pcb[p])
<1>1. /\ pcb[p].st \in Active /\ pcb[p].out > 0
      /\ Becomes(IF pcb[p].sent THEN sent_tcp(s, c, mem, rte) ELSE s) /\ UNCHANGED th
  BY Zenon DEF Acked
<1>2. /\ Is(Core, conn, pcb) /\ pcb \in [Pcbs -> PcbType] /\ Base(conn, pcb, th) /\ Reach(conn, th)
      /\ pcb[p] \in PcbType /\ PcbOK(pcb[p])
      /\ pcb[p].st \in Owned => pcb[p].arg \in Conns /\ conn[pcb[p].arg].pcb = p
  BY PcbFacts
<1>3. pcb[p].st \notin {"LISTEN", "free", "CLOSED", "SYN_SENT", "SYN_RCVD"}
  BY <1>1, <1>2 DEF PcbOK, Active
<1>4. Is(s, conn, [pcb EXCEPT ![p] = r])
  <2> DEFINE y == Core
  <2>1. Is(y, conn, pcb) /\ s = [y EXCEPT !.pcb[p].out = @ - 1]
    BY <1>2
  <2> HIDE DEF y, s
  <2>2. s.conn = conn /\ s.failed = FALSE /\ s.pcb = [pcb EXCEPT ![p] = [pcb[p] EXCEPT !.out = pcb[p].out - 1]]
    BY <2>1, <1>2 DEF Is
  <2>3. s \in [conn : {s.conn}, pcb : {s.pcb}, failed : {s.failed}]
    BY <2>1 DEF Is
  <2> QED BY <2>2, <2>3 DEF Is, AckedOne
<1> HIDE DEF s
<1>5. /\ r \in PcbType /\ SamePcb(pcb[p], r) /\ r.st = pcb[p].st /\ r.arg = pcb[p].arg
  <2>1. pcb[p].out - 1 \in 0 .. SND_BUF
    BY <1>1, <1>2, NetconnAssumption DEF PcbType
  <2> QED BY <1>2, <2>1 DEF PcbType, SamePcb, SameLinks, AckedOne
<1>6. PcbOK(r)
  BY <1>2, <1>3, <1>5 DEF PcbOK, SamePcb, SameLinks
<1> HIDE DEF r
<1>7. CASE pcb[p].sent
  <2>1. pcb[p].st \in Owned /\ pcb[p].st # "LISTEN"
    BY <1>1, <1>2, <1>7 DEF PcbOK, Active, TcpStates, Owned, Orphan
  <2>2. c \in Conns /\ conn[c].pcb = p /\ c # NULL
    BY <1>2, <2>1, NetconnAssumption
  <2>3. Becomes(Continue(Callback(s, c), c, mem, rte))
    BY <1>1, <1>7, <2>2, Zenon DEF sent_tcp
  <2> HIDE DEF c
  <2> QED BY <1>1, <1>4, <1>5, <1>6, <2>1, <2>2, <2>3, ContinueKeeps
<1>8. CASE ~pcb[p].sent
  <2>1. conn' = conn /\ pcb' = [pcb EXCEPT ![p] = r] /\ failed' = FALSE
    <3>1. Becomes(s)
      BY <1>1, <1>8, Zenon
    <3> QED BY <1>4, <3>1, BecomesIs
  <2>2. BacklogKept(pcb[p], r)
    BY <1>3, <1>5 DEF BacklogKept, SamePcb, SameLinks
  <2>3. Base(conn, [pcb EXCEPT ![p] = r], th)
    <3>1. CASE pcb[p].st \in Owned
      <4>1. c \in Conns /\ conn[c].pcb = p /\ p # NULL
        BY <1>2, <3>1, NetconnAssumption
      <4> HIDE DEF c
      <4>2. /\ conn[c] \in ConnType /\ th[c] \in ThreadType /\ ConnOK(conn[c], th[c])
            /\ Pair(c, conn[c], pcb[p], th[c])
        BY <4>1, InvFacts
      <4>3. Pair(c, conn[c], r, th[c])
        BY <1>5, <4>2 DEF Pair, Window, SamePcb, SameLinks
      <4>4. Base([conn EXCEPT ![c] = conn[c]], [pcb EXCEPT ![p] = r], [th EXCEPT ![c] = th[c]])
        BY <1>2, <1>5, <1>6, <2>2, <4>1, <4>2, <4>3, PairStep
      <4>5. [conn EXCEPT ![c] = conn[c]] = conn /\ [th EXCEPT ![c] = th[c]] = th
        BY <1>2, <4>1, PairFacts
      <4> QED BY <4>4, <4>5
    <3>2. CASE pcb[p].st \notin Owned
      BY <1>2, <1>5, <1>6, <2>2, <3>2, PcbStep
    <3> QED BY <3>1, <3>2
  <2> QED BY <1>1, <1>2, <2>1, <2>3 DEF NetconnInv
<1> QED BY <1>7, <1>8

(* The fields of the netconn that is connected.                            *)
LEMMA ConnectedFields ==
  ASSUME NEW o \in ConnType, o.sem = 0
  PROVE  LET k == Connected(o)
         IN  /\ k \in ConnType /\ k.used = o.used /\ k.state = "NONE" /\ ~k.innb
             /\ k.pcb = o.pcb /\ ~k.msg /\ k.recvmbox = o.recvmbox
             /\ k.acceptmbox = o.acceptmbox /\ k.fatal = o.fatal
             /\ k.write_offset = o.write_offset /\ k.api = o.api
             /\ k.sem = (IF o.innb THEN 0 ELSE 1)
<1> DEFINE n == IF o.innb THEN o.sem ELSE o.sem + 1
<1>1. n \in 0 .. 1 /\ n = (IF o.innb THEN 0 ELSE 1)
  BY DEF ConnType
<1>2. Connected(o) = [o EXCEPT !.innb = FALSE, !.msg = FALSE, !.state = "NONE", !.sem = n]
  BY DEF Connected
<1> HIDE DEF n
<1> QED BY <1>1, <1>2 DEF ConnType, States

(* Nothing but its state changes.                                          *)
LEMMA InStateFields ==
  ASSUME NEW o \in PcbType, NEW st \in TcpStates
  PROVE  LET r == InState(o, st)
         IN  /\ r \in PcbType /\ r.st = st /\ r.arg = o.arg /\ r.listener = o.listener
             /\ r.recv = o.recv /\ r.sent = o.sent /\ r.poll = o.poll /\ r.err = o.err
             /\ r.accepts_pending = o.accepts_pending /\ r.rxclosed = o.rxclosed
             /\ r.refused = o.refused /\ r.out = o.out /\ r.pend = o.pend /\ r.unread = o.unread
BY DEF InState, PcbType

(* A step of TCP that sets the state of a pcb.                             *)
LEMMA InStateIs ==
  ASSUME NEW C, NEW P, NEW y, Is(y, C, P), NEW p \in Pcbs, P \in [Pcbs -> PcbType], NEW st
  PROVE  Is([y EXCEPT !.pcb[p].st = st], C, [P EXCEPT ![p] = InState(P[p], st)])
<1> DEFINE t == [y EXCEPT !.pcb[p].st = st]
<1>1. t.conn = C /\ t.failed = FALSE /\ t.pcb = [P EXCEPT ![p] = InState(P[p], st)]
  BY DEF Is, InState
<1>2. t \in [conn : {t.conn}, pcb : {t.pcb}, failed : {t.failed}]
  BY DEF Is
<1> HIDE DEF t
<1>3. Is(t, C, [P EXCEPT ![p] = InState(P[p], st)])
  BY <1>1, <1>2 DEF Is
<1> QED BY <1>3 DEF t

(* lwip_netconn_do_connected.                                              *)
LEMMA DoConnectedIs ==
  ASSUME NEW C \in [Conns -> ConnType], NEW P, NEW s, Is(s, C, P), NEW c \in Conns, NEW p, C[c].pcb = p,
         C[c].used, C[c].state = "CONNECT", C[c].msg = ~C[c].innb
  PROVE  Is(lwip_netconn_do_connected(s, c), [C EXCEPT ![c] = Connected(C[c])], [P EXCEPT ![p] = SetUp(P[p], c)])
<1> DEFINE b == s.conn[c].state = "CONNECT" /\ s.conn[c].msg = ~s.conn[c].innb
           y == Check(Callback(s, c), b)
           t == [y EXCEPT !.conn[c].innb = FALSE, !.conn[c].msg = FALSE, !.conn[c].state = "NONE"]
           o == C[c]
<1>1. s.conn = C /\ s.conn[c] = o
  BY DEF Is
<1>2. b
  BY <1>1
<1>3. Is(Callback(s, c), C, P)
  BY CallbackIs
<1> HIDE DEF b
<1>4. Is(y, C, P)
  BY <1>2, <1>3, CheckIs
<1>5. lwip_netconn_do_connected(s, c) = IF o.innb THEN setup_tcp(t, c) ELSE setup_tcp(Signal(t, c), c)
  <2>1. lwip_netconn_do_connected(s, c) = IF s.conn[c].innb THEN setup_tcp(t, c) ELSE setup_tcp(Signal(t, c), c)
    BY Zenon DEF lwip_netconn_do_connected, b
  <2> HIDE DEF t, o
  <2> QED BY <1>1, <2>1
<1> HIDE DEF y
<1>6. t.failed = FALSE /\ t.pcb = P
      /\ t.conn = [C EXCEPT ![c] = [o EXCEPT !.innb = FALSE, !.msg = FALSE, !.state = "NONE"]]
  BY <1>4 DEF Is
<1>7. t \in [conn : {t.conn}, pcb : {t.pcb}, failed : {t.failed}]
  BY <1>4 DEF Is
<1> HIDE DEF t
<1>8. CASE o.innb
  <2>1. Is(t, [C EXCEPT ![c] = Connected(o)], P)
    <3>1. [o EXCEPT !.innb = FALSE, !.msg = FALSE, !.state = "NONE"] = Connected(o)
      BY <1>8 DEF Connected, ConnType
    <3> QED BY <1>6, <1>7, <3>1 DEF Is
  <2>2. [C EXCEPT ![c] = Connected(o)][c].pcb = p
    BY DEF Connected, ConnType
  <2>3. Is(setup_tcp(t, c), [C EXCEPT ![c] = Connected(o)], [P EXCEPT ![p] = SetUp(P[p], c)])
    BY <2>1, <2>2, SetUpIs
  <2> QED BY <1>5, <1>8, <2>3
<1>9. CASE ~o.innb
  <2> DEFINE u == Signal(t, c)
             k == [o EXCEPT !.innb = FALSE, !.msg = FALSE, !.state = "NONE"]
  <2>1. u.failed = FALSE /\ u.pcb = P /\ u.conn = [C EXCEPT ![c] = [k EXCEPT !.sem = k.sem + 1]]
    BY <1>6, <1>7 DEF Signal
  <2>2. u \in [conn : {u.conn}, pcb : {u.pcb}, failed : {u.failed}]
    BY <1>7 DEF Signal
  <2>3. [k EXCEPT !.sem = k.sem + 1] = Connected(o)
    BY <1>9 DEF Connected, ConnType
  <2> HIDE DEF u
  <2>4. Is(u, [C EXCEPT ![c] = Connected(o)], P)
    BY <2>1, <2>2, <2>3 DEF Is
  <2>5. [C EXCEPT ![c] = Connected(o)][c].pcb = p
    BY DEF Connected, ConnType
  <2>6. Is(setup_tcp(u, c), [C EXCEPT ![c] = Connected(o)], [P EXCEPT ![p] = SetUp(P[p], c)])
    BY <2>4, <2>5, SetUpIs
  <2> QED BY <1>5, <1>9, <2>6 DEF u
<1> QED BY <1>8, <1>9

(* A netconn whose connection is in progress.                              *)
LEMMA ConnectingOK ==
  ASSUME NEW o \in ConnType, NEW x \in ThreadType, ConnOK(o, x), o.state = "CONNECT", o.pcb # NULL,
         NEW k, k = Connected(o)
  PROVE  /\ k \in ConnType /\ ConnOK(k, x) /\ o.used /\ o.msg = ~o.innb /\ k.used = o.used /\ k.pcb = o.pcb
         /\ k.acceptmbox = o.acceptmbox /\ k.recvmbox = o.recvmbox /\ k.state = "NONE"
<1>1. Control(o, x) /\ Boxes(o, x) /\ Count(o, x) /\ x.pc \in Pcs /\ o.sem \in 0 .. 1
  BY DEF ConnOK, ThreadType, ConnType
<1>2. x.pc \notin {"none", "free"} /\ o.used
  BY <1>1 DEF Control, Unaccepted, NoConn
<1>3. CASE x.pc \in Quiet
  <2>1. o.sem = 0 /\ ~o.msg /\ o.innb
    BY <1>1, <1>3 DEF Control
  <2>2. /\ k \in ConnType /\ k.used = o.used /\ k.state = "NONE" /\ ~k.innb /\ k.pcb = o.pcb /\ ~k.msg
        /\ k.recvmbox = o.recvmbox /\ k.acceptmbox = o.acceptmbox /\ k.fatal = o.fatal
        /\ k.write_offset = o.write_offset /\ k.api = o.api /\ k.sem = 0
    BY <2>1, ConnectedFields
  <2>3. Control(k, x)
    BY <1>2, <1>3, <2>2 DEF Control, Quiet, Waits
  <2>4. Boxes(k, x)
    BY <1>1, <1>2, <1>3, <2>2 DEF Boxes, Quiet
  <2>5. Count(k, x)
    BY <1>1, <1>3, <2>2 DEF Count, Quiet
  <2>6. o.msg = ~o.innb
    BY <2>1 DEF ConnType
  <2> QED BY <1>2, <2>2, <2>3, <2>4, <2>5, <2>6 DEF ConnOK
<1>4. CASE x.pc \in Waits
  <2>1. o.sem = 0 /\ o.msg /\ ~o.innb /\ x.pc = "connect"
    BY <1>1, <1>4 DEF Control
  <2>2. /\ k \in ConnType /\ k.used = o.used /\ k.state = "NONE" /\ ~k.innb /\ k.pcb = o.pcb /\ ~k.msg
        /\ k.recvmbox = o.recvmbox /\ k.acceptmbox = o.acceptmbox /\ k.fatal = o.fatal
        /\ k.write_offset = o.write_offset /\ k.api = o.api /\ k.sem = 1
    BY <2>1, ConnectedFields
  <2>3. Control(k, x)
    BY <1>2, <2>1, <2>2 DEF Control, Quiet, Waits
  <2>4. Boxes(k, x)
    BY <1>1, <1>2, <2>1, <2>2 DEF Boxes
  <2>5. Count(k, x)
    BY <1>1, <2>1, <2>2 DEF Count
  <2>6. o.msg = ~o.innb
    BY <2>1 DEF ConnType
  <2> QED BY <1>2, <2>2, <2>3, <2>4, <2>5, <2>6 DEF ConnOK
<1> QED BY <1>1, <1>2, <1>3, <1>4 DEF Pcs, Quiet

(* The SYN|ACK of the peer.                                                *)
LEMMA SynAckKeeps ==
  ASSUME NetconnInv, NEW p \in Pcbs, SynAck(p)
  PROVE  NetconnInv'
<1> DEFINE c == pcb[p].arg
           s == [Core EXCEPT !.pcb[p].st = "ESTABLISHED"]
           o == InState(pcb[p], "ESTABLISHED")
           k == Connected(conn[c])
           P == [pcb EXCEPT ![p] = o]
           r == SetUp(o, c)
           R == lwip_netconn_do_connected(s, c)
<1>1. /\ pcb[p].st = "SYN_SENT" /\ UNCHANGED th /\ Becomes(IF c = NULL THEN s ELSE R)
  BY Zenon DEF SynAck
<1>2. /\ Is(Core, conn, pcb) /\ pcb \in [Pcbs -> PcbType] /\ pcb[p] \in PcbType /\ PcbOK(pcb[p])
      /\ pcb[p].arg \in Conns /\ conn[pcb[p].arg].pcb = p
  <2>1. pcb[p].st \in Owned
    BY <1>1 DEF Owned
  <2> QED BY <2>1, PcbFacts
<1>3. c \in Conns /\ conn[c].pcb = p /\ c # NULL /\ p # NULL
  BY <1>2, NetconnAssumption
<1> HIDE DEF c
<1>4. Is(s, conn, P)
  BY <1>2, InStateIs
<1>5. Becomes(R)
  BY <1>1, <1>3, Zenon
<1> HIDE DEF s
<1>6. /\ o \in PcbType /\ o.st = "ESTABLISHED" /\ o.listener = pcb[p].listener
      /\ o.accepts_pending = pcb[p].accepts_pending /\ o.refused = pcb[p].refused /\ o.out = pcb[p].out
      /\ o.pend = pcb[p].pend /\ o.unread = pcb[p].unread
  BY <1>2, InStateFields DEF TcpStates
<1> HIDE DEF o
<1>7. /\ r \in PcbType /\ r.st = "ESTABLISHED" /\ r.arg = c /\ r.listener = pcb[p].listener
      /\ r.recv /\ r.sent /\ r.poll /\ r.err
      /\ r.accepts_pending = pcb[p].accepts_pending /\ r.refused = pcb[p].refused /\ r.out = pcb[p].out
      /\ r.pend = pcb[p].pend /\ r.unread = pcb[p].unread
  BY <1>3, <1>6, SetUpFields
<1>8. /\ conn[c] \in ConnType /\ th[c] \in ThreadType /\ ConnOK(conn[c], th[c])
      /\ conn \in [Conns -> ConnType] /\ th \in [Conns -> ThreadType]
      /\ Pair(c, conn[c], pcb[p], th[c])
  BY <1>3, InvFacts
<1>9. conn[c].state = "CONNECT"
  BY <1>1, <1>8 DEF Pair
<1>10. /\ k \in ConnType /\ ConnOK(k, th[c]) /\ conn[c].used /\ conn[c].msg = ~conn[c].innb /\ k.used = conn[c].used
       /\ k.pcb = p /\ k.acceptmbox = conn[c].acceptmbox /\ k.recvmbox = conn[c].recvmbox /\ k.state = "NONE"
  BY <1>3, <1>8, <1>9, ConnectingOK
<1>11. Is(R, [conn EXCEPT ![c] = k], [pcb EXCEPT ![p] = r])
  <2>1. P[p] = o /\ \A z : [P EXCEPT ![p] = z] = [pcb EXCEPT ![p] = z]
    BY <1>2
  <2> HIDE DEF P, k
  <2>2. Is(R, [conn EXCEPT ![c] = k], [P EXCEPT ![p] = SetUp(P[p], c)])
    BY <1>3, <1>4, <1>8, <1>9, <1>10, DoConnectedIs DEF k
  <2> QED BY <2>1, <2>2
<1> HIDE DEF k, r, R
<1>12. Pair(c, k, r, th[c])
  <2>1. ASSUME k.recvmbox.valid
        PROVE  Window(k, r, th[c])
    BY <1>1, <1>7, <1>8, <1>10, <2>1 DEF Pair, Window
  <2>2. k.recvmbox.valid /\ th[c].pc = "do_recv" /\ th[c].item = "nul" => FALSE
    BY <1>1, <1>8, <1>10 DEF Pair
  <2> QED BY <1>7, <1>10, <2>1, <2>2 DEF Pair, Owned
<1>13. PcbOK(r)
  BY <1>1, <1>2, <1>7 DEF PcbOK, Orphan
<1>14. BacklogKept(pcb[p], r)
  BY <1>1, <1>7 DEF BacklogKept
<1>15. th' = [th EXCEPT ![c] = th[c]]
  BY <1>1, <1>8
<1>16. k.acceptmbox.q = conn[c].acceptmbox.q
  BY <1>10
<1> QED BY <1>3, <1>5, <1>7, <1>8, <1>10, <1>11, <1>12, <1>13, <1>14, <1>15, <1>16, PairKeeps

(* Nothing else of the pcb changes.                                        *)
LEMMA MovedFields ==
  ASSUME NEW o \in PcbType, NEW st \in TcpStates, NEW n \in 0 .. WND, NEW f \in {"none", "data", "fin"}
  PROVE  LET r == Moved(o, st, n, f)
         IN  /\ r \in PcbType /\ r.st = st /\ r.arg = o.arg /\ r.listener = o.listener
             /\ r.recv = o.recv /\ r.sent = o.sent /\ r.poll = o.poll /\ r.err = o.err
             /\ r.accepts_pending = o.accepts_pending /\ r.rxclosed = o.rxclosed
             /\ r.refused = f /\ r.out = o.out /\ r.pend = o.pend /\ r.unread = n
BY DEF Moved, PcbType

(* A netconn that gets mail stays well-formed.                             *)
LEMMA GotFits ==
  ASSUME NEW o \in ConnType, NEW x \in ThreadType, ConnOK(o, x), o.recvmbox.valid,
         NEW b \in Mbox({"data", "nul"}), b.valid, o.recvmbox.q # <<>> => b.q # <<>>
  PROVE  LET k == Got(o, b)
         IN  /\ k \in ConnType /\ ConnOK(k, x) /\ k.used = o.used /\ k.state = o.state
             /\ k.pcb = o.pcb /\ k.recvmbox = b /\ k.acceptmbox = o.acceptmbox
<1> DEFINE k == Got(o, b)
<1>1. /\ k \in ConnType /\ k.used = o.used /\ k.state = o.state /\ k.innb = o.innb
      /\ k.pcb = o.pcb /\ k.msg = o.msg /\ k.recvmbox = b
      /\ k.acceptmbox = o.acceptmbox /\ k.fatal = o.fatal
      /\ k.write_offset = o.write_offset /\ k.sem = o.sem /\ k.api = o.api
  BY DEF Got, ConnType
<1> HIDE DEF k
<1>2. Control(k, x)
  <2>1. x.pc = "none" => Unaccepted(k)
    <3>1. o # NoConn
      BY NewMboxIs DEF NoConn
    <3> QED BY <1>1, <3>1 DEF ConnOK, Control, Unaccepted
  <2> QED BY <1>1, <2>1 DEF ConnOK, Control
<1>3. Boxes(k, x)
  BY <1>1 DEF ConnOK, Boxes
<1>4. Count(k, x)
  BY <1>1 DEF ConnOK, Count
<1> QED BY <1>1, <1>2, <1>3, <1>4 DEF ConnOK, k

(* What recv_tcp posts.                                                    *)
LEMMA PostedMail ==
  ASSUME NEW b \in Mbox({"data", "nul"}), b.valid, ~NulIn(b.q), NEW m \in {"data", "nul"},
         NEW b2, b2 = Posted(b, m, RECVMBOX_SIZE), NEW full, full = Full(b, RECVMBOX_SIZE)
  PROVE  /\ Mail(b2, DataIn(b.q) + (IF m = "data" /\ ~full THEN 1 ELSE 0), m = "nul")
         /\ b2.q # <<>> /\ (full => b2 = b) /\ b2 \in Mbox({"data", "nul"}) /\ b2.valid
         /\ (m = "data" => ~NulIn(b2.q)) /\ full \in BOOLEAN /\ b.q \in Seq({"data", "nul"})
<1>0. RECVMBOX_SIZE \in Nat \ {0}
  BY NetconnAssumption
<1>1. /\ b2 \in Mbox({"data", "nul"}) /\ b2.valid /\ b2.q # <<>>
      /\ Len(b.q) < RECVMBOX_SIZE => b2.q = Append(b.q, m)
      /\ ~(Len(b.q) < RECVMBOX_SIZE) => b2.q = b.q
  <2> DEFINE S == {"data", "nul"}
  <2>1. b \in [valid : BOOLEAN, q : Seq(S)] /\ m \in S
    BY DEF Mbox
  <2> HIDE DEF S
  <2>2. /\ Posted(b, m, RECVMBOX_SIZE) \in [valid : BOOLEAN, q : Seq(S)]
        /\ Posted(b, m, RECVMBOX_SIZE).valid = b.valid
        /\ ~b.valid => Posted(b, m, RECVMBOX_SIZE) = b
        /\ b.valid /\ Len(b.q) < RECVMBOX_SIZE => Posted(b, m, RECVMBOX_SIZE).q = Append(b.q, m)
        /\ b.valid /\ ~(Len(b.q) < RECVMBOX_SIZE) => Posted(b, m, RECVMBOX_SIZE).q = b.q
        /\ b.valid => Posted(b, m, RECVMBOX_SIZE).q # <<>>
    BY <1>0, <2>1, PostedIs, Zenon
  <2> QED BY <2>2 DEF Mbox, S
<1>2. b.q \in Seq({"data", "nul"}) /\ Len(b.q) \in Nat
  BY DEF Mbox
<1>3. full = ~(Len(b.q) < RECVMBOX_SIZE)
  BY <1>0, <1>2 DEF Full
<1>4. DataIn(b.q) \in Nat
  BY <1>2, DataInType
<1>5. CASE Len(b.q) < RECVMBOX_SIZE
  <2>1. DataIn(b2.q) = DataIn(b.q) + (IF m = "data" THEN 1 ELSE 0)
    BY <1>1, <1>2, <1>5, DataInAppend
  <2>2. \A i : i \in DOMAIN b2.q <=> i \in Nat /\ 1 <= i /\ i <= Len(b.q) + 1
    BY <1>1, <1>2, <1>5
  <2>3. \A i : i \in DOMAIN b.q <=> i \in Nat /\ 1 <= i /\ i <= Len(b.q)
    BY <1>2
  <2>4. /\ \A i \in DOMAIN b.q : b2.q[i] = b.q[i]
        /\ b2.q[Len(b.q) + 1] = m /\ Len(b2.q) = Len(b.q) + 1
    <3>1. b2.q = Append(b.q, m)
      BY <1>1, <1>5
    <3>2. \A i : i \in Nat /\ 1 <= i /\ i <= Len(b.q) => Append(b.q, m)[i] = b.q[i]
      BY <1>2
    <3>3. Append(b.q, m)[Len(b.q) + 1] = m /\ Len(Append(b.q, m)) = Len(b.q) + 1
      BY <1>2
    <3> QED BY <2>3, <3>1, <3>2, <3>3
  <2>5. \A i \in DOMAIN b.q : b.q[i] # "nul"
    BY DEF NulIn
  <2>6. \A i \in DOMAIN b2.q : i \in DOMAIN b.q \/ i = Len(b.q) + 1
    BY <1>2, <2>2, <2>3
  <2>7. \A i \in DOMAIN b2.q : b2.q[i] = "nul" => i = Len(b2.q) /\ m = "nul"
    BY <2>4, <2>5, <2>6
  <2> QED BY <1>1, <1>2, <1>3, <1>4, <1>5, <2>1, <2>7 DEF Mail, NulIn
<1>6. CASE ~(Len(b.q) < RECVMBOX_SIZE)
  <2>1. b2 = b
    BY <1>1, <1>6 DEF Mbox
  <2>2. full /\ DataIn(b.q) + (IF m = "data" /\ ~full THEN 1 ELSE 0) = DataIn(b.q)
    <3>1. full
      BY <1>3, <1>6
    <3>2. (IF m = "data" /\ ~full THEN 1 ELSE 0) = 0
      BY <3>1
    <3> QED BY <1>4, <3>1, <3>2
  <2>3. Mail(b, DataIn(b.q), m = "nul")
    BY <1>1, <2>1 DEF Mail, NulIn
  <2> QED BY <1>1, <1>2, <1>3, <2>1, <2>2, <2>3
<1> QED BY <1>5, <1>6

(* recv_tcp for a netconn in use and its pcb.                              *)
LEMMA RecvTcpIs ==
  ASSUME NEW C \in [Conns -> ConnType], NEW P, NEW s, Is(s, C, P), NEW c \in Conns, NEW p,
         C[c].used, C[c].pcb = p, NEW m \in {"data", "nul"}
  PROVE  RecvGives(recv_tcp(s, c, p, m), C, P, c, p, m)
<1> DEFINE R == recv_tcp(s, c, p, m)
           y == Callback(s, c)
           b == s.conn[c].pcb = p
           t == Check(y, b)
           u == [t EXCEPT !.conn[c].recvmbox = Posted(@, m, RECVMBOX_SIZE)]
           full == Full(s.conn[c].recvmbox, RECVMBOX_SIZE)
<1>1. s.conn = C /\ s.conn[c] = C[c]
  BY DEF Is
<1>2. Is(y, C, P) /\ b
  BY <1>1, CallbackIs
<1>3. R = IF ~s.conn[c].recvmbox.valid
          THEN [s |-> IF m = "data" THEN tcp_recved(t, p, 1) ELSE t, err |-> "OK"]
          ELSE [s |-> u, err |-> IF full THEN "MEM" ELSE "OK"]
  BY Zenon DEF recv_tcp
<1> HIDE DEF y, b, R
<1> SUFFICES RecvGives(R, C, P, c, p, m)
  BY DEF R
<1>4. Is(t, C, P)
  BY <1>2, CheckIs
<1> HIDE DEF t
<1>5. CASE ~C[c].recvmbox.valid
  <2>1. R = [s |-> IF m = "data" THEN tcp_recved(t, p, 1) ELSE t, err |-> "OK"]
    BY <1>1, <1>3, <1>5
  <2>2. R.err = "OK" /\ R.s = IF m = "data" THEN tcp_recved(t, p, 1) ELSE t
    BY <2>1
  <2>3. Is(tcp_recved(t, p, 1), C, [P EXCEPT ![p] = Recved(P[p], 1)])
    BY <1>4, RecvedIs
  <2> QED BY <1>4, <1>5, <2>2, <2>3 DEF RecvGives
<1>6. CASE C[c].recvmbox.valid
  <2>1. R = [s |-> u, err |-> IF full THEN "MEM" ELSE "OK"]
    BY <1>1, <1>3, <1>6
  <2>2. R.s = u /\ R.err = IF full THEN "MEM" ELSE "OK"
    BY <2>1
  <2>3. u.failed = FALSE /\ u.pcb = P
        /\ u.conn = [C EXCEPT ![c] = [C[c] EXCEPT !.recvmbox = Posted(C[c].recvmbox, m, RECVMBOX_SIZE)]]
    BY <1>4 DEF Is
  <2>4. u \in [conn : {u.conn}, pcb : {u.pcb}, failed : {u.failed}]
    BY <1>4 DEF Is
  <2> HIDE DEF u
  <2>5. Is(u, [C EXCEPT ![c] = Got(C[c], Posted(C[c].recvmbox, m, RECVMBOX_SIZE))], P)
    BY <2>3, <2>4 DEF Is, Got
  <2>6. full = Full(C[c].recvmbox, RECVMBOX_SIZE)
    BY <1>1
  <2> HIDE DEF full
  <2> QED BY <1>6, <2>2, <2>5, <2>6 DEF RecvGives
<1> QED BY <1>5, <1>6

(* A step of TCP that keeps or drops refused data.                         *)
LEMMA RefusedIs ==
  ASSUME NEW C, NEW P \in [Pcbs -> PcbType], NEW y, Is(y, C, P), NEW p \in Pcbs, NEW f
  PROVE  Is([y EXCEPT !.pcb[p].refused = f], C, [P EXCEPT ![p] = Moved(P[p], P[p].st, P[p].unread, f)])
<1> DEFINE t == [y EXCEPT !.pcb[p].refused = f]
<1>0. [P[p] EXCEPT !.refused = f] = Moved(P[p], P[p].st, P[p].unread, f)
  BY DEF Moved, PcbType
<1>1. t.conn = C /\ t.failed = FALSE /\ t.pcb = [P EXCEPT ![p] = [P[p] EXCEPT !.refused = f]]
  BY DEF Is
<1>2. t \in [conn : {t.conn}, pcb : {t.pcb}, failed : {t.failed}]
  BY DEF Is
<1> HIDE DEF t
<1>3. Is(t, C, [P EXCEPT ![p] = Moved(P[p], P[p].st, P[p].unread, f)])
  BY <1>0, <1>1, <1>2 DEF Is
<1> QED BY <1>3 DEF t

(* Data that nobody takes: the window opens again.                         *)
LEMMA TakenIs ==
  ASSUME NEW C, NEW P \in [Pcbs -> PcbType], NEW p \in Pcbs, NEW y, Is(y, C, [P EXCEPT ![p] = Recved(P[p], 1)]), NEW f
  PROVE  Is([y EXCEPT !.pcb[p].refused = f], C, [P EXCEPT ![p] = Moved(P[p], P[p].st, Less(P[p].unread), f)])
<1> DEFINE o == P[p]
           q == Recved(o, 1)
           Q == [P EXCEPT ![p] = q]
<1>1. o \in PcbType
  OBVIOUS
<1>2. q = [o EXCEPT !.unread = Less(o.unread)]
  BY DEF Recved, Less
<1>3. q \in PcbType /\ q.st = o.st /\ q.unread = Less(o.unread)
  <2>1. Less(o.unread) \in 0 .. WND
    BY <1>1, NetconnAssumption DEF PcbType, Less
  <2> QED BY <1>1, <1>2, <2>1 DEF PcbType
<1>4. Moved(q, q.st, q.unread, f) = Moved(o, o.st, Less(o.unread), f)
  BY <1>1, <1>2, <1>3 DEF Moved, PcbType
<1> HIDE DEF q
<1>5. Q[p] = q /\ Q \in [Pcbs -> PcbType] /\ \A z : [Q EXCEPT ![p] = z] = [P EXCEPT ![p] = z]
  BY <1>3
<1> HIDE DEF Q
<1>6. Is(y, C, Q)
  BY DEF Q, q
<1>7. Is([y EXCEPT !.pcb[p].refused = f], C, [Q EXCEPT ![p] = Moved(Q[p], Q[p].st, Q[p].unread, f)])
  BY <1>5, <1>6, RefusedIs
<1>8. [Q EXCEPT ![p] = Moved(Q[p], Q[p].st, Q[p].unread, f)] = [P EXCEPT ![p] = Moved(P[p], P[p].st, Less(P[p].unread), f)]
  BY <1>4, <1>5
<1> QED BY <1>7, <1>8

(* Data for a pcb without a netconn, or for one that does not read.        *)
LEMMA EventRecvDrops ==
  ASSUME NEW C \in [Conns -> ConnType], NEW P \in [Pcbs -> PcbType], NEW s, Is(s, C, P), NEW p \in Pcbs, NEW fin,
         NEW c, \/ ~P[p].recv
                \/ /\ P[p].recv /\ c \in Conns /\ P[p].arg = c /\ C[c].used /\ C[c].pcb = p
                   /\ ~C[c].recvmbox.valid
  PROVE  Is(EventRecv(s, p, fin), C, [P EXCEPT ![p] = Moved(P[p], P[p].st, Less(P[p].unread), "none")])
<1>1. s.pcb = P
  BY DEF Is
<1>2. CASE ~P[p].recv
  <2> DEFINE y == tcp_recved(s, p, 1)
  <2>1. EventRecv(s, p, fin) = [y EXCEPT !.pcb[p].refused = "none"]
    BY <1>1, <1>2 DEF EventRecv
  <2>2. Is(y, C, [P EXCEPT ![p] = Recved(P[p], 1)])
    BY RecvedIs
  <2> HIDE DEF y
  <2>3. ASSUME NEW f
        PROVE  Is([y EXCEPT !.pcb[p].refused = f], C, [P EXCEPT ![p] = Moved(P[p], P[p].st, Less(P[p].unread), f)])
    BY <2>2, TakenIs
  <2> QED BY <2>1, <2>3, Zenon
<1>3. CASE /\ P[p].recv /\ c \in Conns /\ P[p].arg = c /\ C[c].used /\ C[c].pcb = p
           /\ ~C[c].recvmbox.valid
  <2> DEFINE R == recv_tcp(s, c, p, "data")
             y == R.s
             f == IF R.err = "OK" THEN "none" ELSE IF fin THEN "fin" ELSE "data"
  <2>1. c # NULL
    BY <1>3, NetconnAssumption
  <2>2. EventRecv(s, p, fin) = [y EXCEPT !.pcb[p].refused = f]
    BY <1>1, <1>3, <2>1, Zenon DEF EventRecv
  <2>3. R.err = "OK" /\ Is(y, C, [P EXCEPT ![p] = Recved(P[p], 1)])
    <3>1. ASSUME NEW m \in {"data", "nul"}
          PROVE  RecvGives(recv_tcp(s, c, p, m), C, P, c, p, m)
      BY <1>3, RecvTcpIs
    <3>2. RecvGives(R, C, P, c, p, "data")
      BY <3>1, Zenon
    <3> HIDE DEF R
    <3> QED BY <1>3, <3>2 DEF RecvGives
  <2>4. f = "none"
    BY <2>3
  <2> HIDE DEF y, f
  <2>5. Is([y EXCEPT !.pcb[p].refused = f], C, [P EXCEPT ![p] = Moved(P[p], P[p].st, Less(P[p].unread), f)])
    BY <2>3, TakenIs
  <2> QED BY <2>2, <2>4, <2>5, Zenon
<1> QED BY <1>2, <1>3

(* Data for a netconn that reads.                                          *)
LEMMA EventRecvPosts ==
  ASSUME NEW C \in [Conns -> ConnType], NEW P \in [Pcbs -> PcbType], NEW s, Is(s, C, P), NEW p \in Pcbs, NEW fin,
         NEW c \in Conns, P[p].recv, P[p].arg = c, C[c].used, C[c].pcb = p, C[c].recvmbox.valid
  PROVE  LET full == Full(C[c].recvmbox, RECVMBOX_SIZE)
             f == IF ~full THEN "none" ELSE IF fin THEN "fin" ELSE "data"
         IN  Is(EventRecv(s, p, fin), [C EXCEPT ![c] = Got(C[c], Posted(C[c].recvmbox, "data", RECVMBOX_SIZE))],
                [P EXCEPT ![p] = Moved(P[p], P[p].st, P[p].unread, f)])
<1> DEFINE R == recv_tcp(s, c, p, "data")
           y == R.s
           full == Full(C[c].recvmbox, RECVMBOX_SIZE)
           f == IF R.err = "OK" THEN "none" ELSE IF fin THEN "fin" ELSE "data"
           D == [C EXCEPT ![c] = Got(C[c], Posted(C[c].recvmbox, "data", RECVMBOX_SIZE))]
<1>1. s.pcb = P
  BY DEF Is
<1>2. c # NULL
  BY NetconnAssumption
<1>3. EventRecv(s, p, fin) = [y EXCEPT !.pcb[p].refused = f]
  BY <1>1, <1>2, Zenon DEF EventRecv
<1>4. R.err = (IF full THEN "MEM" ELSE "OK") /\ Is(y, D, P)
  <2>1. ASSUME NEW m \in {"data", "nul"}
        PROVE  RecvGives(recv_tcp(s, c, p, m), C, P, c, p, m)
    BY RecvTcpIs
  <2>2. RecvGives(R, C, P, c, p, "data")
    BY <2>1, Zenon
  <2> HIDE DEF R
  <2> QED BY <2>2 DEF RecvGives
<1>5. f = IF ~full THEN "none" ELSE IF fin THEN "fin" ELSE "data"
  <2> HIDE DEF full, R
  <2> QED BY <1>4
<1> HIDE DEF y, f, D
<1>6. Is([y EXCEPT !.pcb[p].refused = f], D, [P EXCEPT ![p] = Moved(P[p], P[p].st, P[p].unread, f)])
  BY <1>4, RefusedIs
<1> QED BY <1>3, <1>5, <1>6, Zenon DEF D

(* The end of the stream, when nobody reads.                               *)
LEMMA EventClosedDrops ==
  ASSUME NEW C \in [Conns -> ConnType], NEW P \in [Pcbs -> PcbType], NEW s, Is(s, C, P), NEW p \in Pcbs,
         NEW c, \/ ~P[p].recv
                \/ /\ P[p].recv /\ c \in Conns /\ P[p].arg = c /\ C[c].used /\ C[c].pcb = p
                   /\ ~C[c].recvmbox.valid
  PROVE  Is(EventClosed(s, p), C, P)
<1>1. s.pcb = P
  BY DEF Is
<1>2. CASE ~P[p].recv
  <2>1. EventClosed(s, p) = s
    BY <1>1, <1>2, Zenon DEF EventClosed
  <2> QED BY <2>1
<1>3. CASE /\ P[p].recv /\ c \in Conns /\ P[p].arg = c /\ C[c].used /\ C[c].pcb = p
           /\ ~C[c].recvmbox.valid
  <2> DEFINE R == recv_tcp(s, c, p, "nul")
  <2>1. c # NULL
    BY <1>3, NetconnAssumption
  <2>2. EventClosed(s, p) = R.s
    BY <1>1, <1>3, <2>1, Zenon DEF EventClosed
  <2>3. ASSUME NEW m \in {"data", "nul"}
        PROVE  RecvGives(recv_tcp(s, c, p, m), C, P, c, p, m)
    BY <1>3, RecvTcpIs
  <2>4. RecvGives(R, C, P, c, p, "nul")
    BY <2>3, Zenon
  <2> HIDE DEF R
  <2>5. Is(R.s, C, P)
    BY <1>3, <2>4 DEF RecvGives
  <2> QED BY <2>2, <2>5
<1> QED BY <1>2, <1>3

(* The end of the stream, for a netconn that reads.                        *)
LEMMA EventClosedPosts ==
  ASSUME NEW C \in [Conns -> ConnType], NEW P \in [Pcbs -> PcbType], NEW s, Is(s, C, P), NEW p \in Pcbs,
         NEW c \in Conns, P[p].recv, P[p].arg = c, C[c].used, C[c].pcb = p, C[c].recvmbox.valid
  PROVE  Is(EventClosed(s, p), [C EXCEPT ![c] = Got(C[c], Posted(C[c].recvmbox, "nul", RECVMBOX_SIZE))], P)
<1> DEFINE R == recv_tcp(s, c, p, "nul")
<1>1. s.pcb = P /\ c # NULL
  BY NetconnAssumption DEF Is
<1>2. EventClosed(s, p) = R.s
  BY <1>1, Zenon DEF EventClosed
<1>3. ASSUME NEW m \in {"data", "nul"}
      PROVE  RecvGives(recv_tcp(s, c, p, m), C, P, c, p, m)
  BY RecvTcpIs
<1>4. RecvGives(R, C, P, c, p, "nul")
  BY <1>3, Zenon
<1> HIDE DEF R
<1>5. Is(R.s, [C EXCEPT ![c] = Got(C[c], Posted(C[c].recvmbox, "nul", RECVMBOX_SIZE))], P)
  BY <1>4 DEF RecvGives
<1> QED BY <1>2, <1>5

(* Data that nobody takes.                                                 *)
LEMMA OfferedDrops ==
  ASSUME NEW C \in [Conns -> ConnType], NEW P \in [Pcbs -> PcbType], NEW s, Is(s, C, P), NEW p \in Pcbs,
         NEW fin \in BOOLEAN,
         NEW c, \/ ~P[p].recv
                \/ /\ P[p].recv /\ c \in Conns /\ P[p].arg = c /\ C[c].used /\ C[c].pcb = p
                   /\ ~C[c].recvmbox.valid
  PROVE  Is(Offered(s, p, fin), C, [P EXCEPT ![p] = Moved(P[p], P[p].st, Less(P[p].unread), "none")])
<1> DEFINE t == EventRecv(s, p, fin)
           r == Moved(P[p], P[p].st, Less(P[p].unread), "none")
           Q == [P EXCEPT ![p] = r]
<1>1. Is(t, C, Q)
  BY EventRecvDrops
<1>2. r \in PcbType /\ r.recv = P[p].recv /\ r.arg = P[p].arg
  <2>1. Less(P[p].unread) \in 0 .. WND
    BY NetconnAssumption DEF PcbType, Less
  <2>2. P[p] \in PcbType /\ P[p].st \in TcpStates
    BY DEF PcbType
  <2> QED BY <2>1, <2>2, MovedFields
<1> HIDE DEF r
<1>3. Q \in [Pcbs -> PcbType] /\ Q[p] = r
  BY <1>2
<1> HIDE DEF t, Q
<1>4. \/ ~Q[p].recv
      \/ /\ Q[p].recv /\ c \in Conns /\ Q[p].arg = c /\ C[c].used /\ C[c].pcb = p
         /\ ~C[c].recvmbox.valid
  BY <1>2, <1>3
<1>5. Is(EventClosed(t, p), C, Q)
  BY <1>1, <1>3, <1>4, EventClosedDrops
<1> QED BY <1>1, <1>5 DEF Offered, t, Q, r

(* Data for a netconn that reads: it is posted, or TCP keeps it.           *)
LEMMA OfferedPosts ==
  ASSUME NEW C \in [Conns -> ConnType], NEW P \in [Pcbs -> PcbType], NEW s, Is(s, C, P), NEW p \in Pcbs,
         NEW fin \in BOOLEAN, NEW c \in Conns, P[p].recv, P[p].arg = c, C[c].used, C[c].pcb = p, C[c].recvmbox.valid
  PROVE  LET full == Full(C[c].recvmbox, RECVMBOX_SIZE)
             f == IF ~full THEN "none" ELSE IF fin THEN "fin" ELSE "data"
         IN  Is(Offered(s, p, fin), [C EXCEPT ![c] = Got(C[c], MailOf(C[c].recvmbox, fin))],
                [P EXCEPT ![p] = Moved(P[p], P[p].st, P[p].unread, f)])
<1> DEFINE o == C[c]
           full == Full(o.recvmbox, RECVMBOX_SIZE)
           f == IF ~full THEN "none" ELSE IF fin THEN "fin" ELSE "data"
           t == EventRecv(s, p, fin)
           b == Posted(o.recvmbox, "data", RECVMBOX_SIZE)
           k == Got(o, b)
           D == [C EXCEPT ![c] = k]
           r == Moved(P[p], P[p].st, P[p].unread, f)
           Q == [P EXCEPT ![p] = r]
<1>1. Is(t, D, Q)
  BY EventRecvPosts
<1>2. /\ full => b = o.recvmbox
      /\ b \in Mbox({"data", "nul"}) /\ b.valid
  <2>1. o.recvmbox \in Mbox({"data", "nul"}) /\ RECVMBOX_SIZE \in Nat \ {0}
    BY NetconnAssumption DEF ConnType
  <2>2. full => b = o.recvmbox
    BY <2>1 DEF Posted
  <2> DEFINE S == {"data", "nul"}
  <2>3. o.recvmbox \in [valid : BOOLEAN, q : Seq(S)] /\ "data" \in S
    BY <2>1 DEF Mbox
  <2> HIDE DEF S
  <2>4. b \in [valid : BOOLEAN, q : Seq(S)] /\ b.valid = o.recvmbox.valid
    BY <2>1, <2>3, PostedIs
  <2> QED BY <2>2, <2>4 DEF Mbox, S
<1>3. o \in ConnType
  OBVIOUS
<1> HIDE DEF b
<1>4. k \in ConnType /\ k.used = o.used /\ k.pcb = p /\ k.recvmbox = b
  BY <1>2, <1>3 DEF Got, ConnType
<1>5. f \in {"none", "data", "fin"}
  OBVIOUS
<1> HIDE DEF f
<1>6. r \in PcbType /\ r.recv /\ r.arg = c /\ r.refused = f
  <2>1. P[p] \in PcbType
    OBVIOUS
  <2> QED BY <1>5, <2>1 DEF Moved, PcbType
<1> HIDE DEF r, k
<1>7. Q \in [Pcbs -> PcbType] /\ Q[p] = r /\ D \in [Conns -> ConnType] /\ D[c] = k
  BY <1>4, <1>6
<1>8. t.pcb[p].refused = f
  BY <1>1, <1>6, <1>7 DEF Is
<1> HIDE DEF t, Q, D
<1>9. CASE full
  <2>1. f # "none"
    BY <1>9 DEF f
  <2>2. Offered(s, p, fin) = t
    BY <1>8, <2>1 DEF Offered, t
  <2>3. MailOf(o.recvmbox, fin) = b
    BY <1>2, <1>9 DEF MailOf
  <2>4. D = [C EXCEPT ![c] = Got(C[c], MailOf(C[c].recvmbox, fin))]
    BY <2>3 DEF D, k
  <2> QED BY <1>1, <2>2, <2>4 DEF Q, r, f
<1>10. CASE ~full /\ fin
  <2>1. f = "none"
    BY <1>10 DEF f
  <2>2. Offered(s, p, fin) = EventClosed(t, p)
    BY <1>8, <1>10, <2>1 DEF Offered, t
  <2>3. MailOf(o.recvmbox, fin) = Posted(b, "nul", RECVMBOX_SIZE)
    BY <1>10 DEF MailOf, b
  <2>4. Is(EventClosed(t, p), [D EXCEPT ![c] = Got(D[c], Posted(D[c].recvmbox, "nul", RECVMBOX_SIZE))], Q)
    BY <1>1, <1>2, <1>4, <1>6, <1>7, EventClosedPosts
  <2>5. Got(k, Posted(b, "nul", RECVMBOX_SIZE)) = Got(o, Posted(b, "nul", RECVMBOX_SIZE))
    BY <1>3 DEF Got, k, ConnType
  <2>6. [D EXCEPT ![c] = Got(D[c], Posted(D[c].recvmbox, "nul", RECVMBOX_SIZE))] = [C EXCEPT ![c] = Got(C[c], MailOf(C[c].recvmbox, fin))]
    <3>1. \A z : [D EXCEPT ![c] = z] = [C EXCEPT ![c] = z]
      BY DEF D
    <3>2. Got(D[c], Posted(D[c].recvmbox, "nul", RECVMBOX_SIZE)) = Got(k, Posted(b, "nul", RECVMBOX_SIZE))
      BY <1>4, <1>7
    <3>3. Got(D[c], Posted(D[c].recvmbox, "nul", RECVMBOX_SIZE)) = Got(C[c], MailOf(C[c].recvmbox, fin))
      BY <2>3, <2>5, <3>2
    <3> QED BY <3>1, <3>3
  <2> QED BY <2>2, <2>4, <2>6 DEF Q, r, f
<1>11. CASE ~full /\ ~fin
  <2>2. Offered(s, p, fin) = t
    BY <1>11 DEF Offered, t
  <2>3. MailOf(o.recvmbox, fin) = b
    BY <1>11 DEF MailOf, b
  <2>4. D = [C EXCEPT ![c] = Got(C[c], MailOf(C[c].recvmbox, fin))]
    BY <2>3 DEF D, k
  <2> QED BY <1>1, <2>2, <2>4 DEF Q, r, f
<1> QED BY <1>9, <1>10, <1>11

(* The mailbox that recv_tcp leaves.                                       *)
LEMMA MailOfIs ==
  ASSUME NEW b \in Mbox({"data", "nul"}), b.valid, ~NulIn(b.q), NEW fin \in BOOLEAN,
         NEW full, full = Full(b, RECVMBOX_SIZE)
  PROVE  /\ Mail(MailOf(b, fin), DataIn(b.q) + (IF full THEN 0 ELSE 1), fin /\ ~full)
         /\ b.q # <<>> => MailOf(b, fin).q # <<>>
         /\ full \in BOOLEAN /\ DataIn(b.q) \in Nat
<1> DEFINE b1 == Posted(b, "data", RECVMBOX_SIZE)
           b2 == Posted(b1, "nul", RECVMBOX_SIZE)
           full1 == Full(b1, RECVMBOX_SIZE)
<1>1. \A m \in {"data", "nul"} :
        LET z == Posted(b, m, RECVMBOX_SIZE)
        IN  /\ Mail(z, DataIn(b.q) + (IF m = "data" /\ ~full THEN 1 ELSE 0), m = "nul")
            /\ z.q # <<>> /\ (full => z = b) /\ z \in Mbox({"data", "nul"}) /\ z.valid
            /\ (m = "data" => ~NulIn(z.q)) /\ full \in BOOLEAN /\ b.q \in Seq({"data", "nul"})
  BY PostedMail
<1>2. /\ Mail(b1, DataIn(b.q) + (IF "data" = "data" /\ ~full THEN 1 ELSE 0), "data" = "nul")
      /\ b1.q # <<>> /\ (full => b1 = b) /\ b1 \in Mbox({"data", "nul"}) /\ b1.valid
      /\ ~NulIn(b1.q) /\ full \in BOOLEAN /\ b.q \in Seq({"data", "nul"})
  BY <1>1, Zenon
<1>3. DataIn(b.q) \in Nat
  BY <1>2, DataInType
<1>4. CASE full
  <2>1. MailOf(b, fin) = b
    BY <1>4 DEF MailOf
  <2>2. Mail(b, DataIn(b.q) + 0, FALSE)
    BY <1>3 DEF Mail, NulIn
  <2> QED BY <1>2, <1>3, <1>4, <2>1, <2>2 DEF Mail
<1>5. CASE ~full /\ ~fin
  <2>1. MailOf(b, fin) = b1
    BY <1>5 DEF MailOf
  <2> HIDE DEF b1
  <2> QED BY <1>2, <1>3, <1>5, <2>1 DEF Mail
<1>6. CASE ~full /\ fin
  <2>1. MailOf(b, fin) = b2
    BY <1>6 DEF MailOf
  <2>2. DataIn(b1.q) = DataIn(b.q) + 1 /\ DataIn(b1.q) \in Nat
    <3> HIDE DEF b1
    <3> QED BY <1>2, <1>3, <1>6 DEF Mail
  <2> HIDE DEF b1
  <2>3. \A m \in {"data", "nul"} :
          LET z == Posted(b1, m, RECVMBOX_SIZE)
          IN  /\ Mail(z, DataIn(b1.q) + (IF m = "data" /\ ~full1 THEN 1 ELSE 0), m = "nul")
              /\ z.q # <<>>
    BY <1>2, PostedMail
  <2>4. Mail(b2, DataIn(b1.q) + (IF "nul" = "data" /\ ~full1 THEN 1 ELSE 0), "nul" = "nul") /\ b2.q # <<>>
    BY <2>3, Zenon
  <2> HIDE DEF b2, full1
  <2>5. Mail(b2, DataIn(b.q) + 1, TRUE)
    BY <2>2, <2>4 DEF Mail
  <2> QED BY <1>2, <1>3, <1>6, <2>1, <2>4, <2>5 DEF Mail
<1> QED BY <1>2, <1>4, <1>5, <1>6

(* The netconn keeps its pcb, when the mailbox and the window agree.       *)
LEMMA SameEndKeeps ==
  ASSUME NetconnInv, NEW p \in Pcbs, NEW c \in Conns, conn[c].pcb = p,
         NEW r \in PcbType, SameEnd(pcb[p], r), r.st = "ESTABLISHED" => r.refused # "fin",
         NEW k, \/ k = conn[c] /\ ~conn[c].recvmbox.valid
                \/ /\ conn[c].recvmbox.valid
                   /\ \E b : /\ k = Got(conn[c], b) /\ b \in Mbox({"data", "nul"}) /\ b.valid
                             /\ conn[c].recvmbox.q # <<>> => b.q # <<>>
                             /\ Window(k, r, th[c])
                   /\ ~(th[c].pc = "do_recv" /\ th[c].item = "nul"),
         NEW s, Is(s, [conn EXCEPT ![c] = k], [pcb EXCEPT ![p] = r]), Becomes(s), UNCHANGED th
  PROVE  NetconnInv'
<1>1. /\ conn[c] \in ConnType /\ th[c] \in ThreadType /\ ConnOK(conn[c], th[c])
      /\ conn \in [Conns -> ConnType] /\ th \in [Conns -> ThreadType]
      /\ Pair(c, conn[c], pcb[p], th[c]) /\ PcbOK(pcb[p])
  <2>1. conn[c].pcb # NULL
    BY NetconnAssumption
  <2> QED BY <2>1, InvFacts
<1>2. PcbOK(r)
  BY DEF PcbOK, SameEnd, Orphan
<1>3. BacklogKept(pcb[p], r)
  BY DEF BacklogKept, SameEnd
<1>4. th' = [th EXCEPT ![c] = th[c]]
  BY <1>1
<1>5. /\ k \in ConnType /\ ConnOK(k, th[c]) /\ k.used = conn[c].used /\ k.state = conn[c].state
      /\ k.pcb = p /\ k.acceptmbox = conn[c].acceptmbox /\ k.recvmbox.valid = conn[c].recvmbox.valid
  <2>1. CASE k = conn[c]
    BY <1>1, <2>1
  <2>2. ASSUME conn[c].recvmbox.valid, NEW b, k = Got(conn[c], b), b \in Mbox({"data", "nul"}), b.valid,
               conn[c].recvmbox.q # <<>> => b.q # <<>>
        PROVE  /\ k \in ConnType /\ ConnOK(k, th[c]) /\ k.used = conn[c].used /\ k.state = conn[c].state
               /\ k.pcb = p /\ k.acceptmbox = conn[c].acceptmbox /\ k.recvmbox.valid
    BY <1>1, <2>2, GotFits
  <2>3. conn[c].recvmbox.valid \in BOOLEAN /\ (k \in ConnType => k.recvmbox.valid \in BOOLEAN)
    BY <1>1 DEF ConnType, Mbox
  <2> QED BY <2>1, <2>2, <2>3
<1>6. Pair(c, k, r, th[c])
  <2>1. /\ r.arg = c /\ r.st \in Owned
        /\ r.st = "LISTEN" <=> k.state = "LISTEN"
        /\ r.st = "SYN_SENT" <=> k.state = "CONNECT"
        /\ r.st # "LISTEN" => r.err /\ r.poll
    BY <1>1, <1>5 DEF Pair, SameEnd, Owned
  <2>2. ASSUME k.recvmbox.valid
        PROVE  r.recv /\ Window(k, r, th[c]) /\ ~(th[c].pc = "do_recv" /\ th[c].item = "nul")
    BY <1>1, <1>5, <2>2 DEF Pair, SameEnd
  <2>3. r.st \in {"ESTABLISHED", "CLOSE_WAIT"}
    BY DEF SameEnd
  <2> QED BY <2>1, <2>2, <2>3 DEF Pair
<1>7. k.acceptmbox.q = conn[c].acceptmbox.q
  BY <1>5
<1> QED BY <1>1, <1>2, <1>3, <1>4, <1>5, <1>6, <1>7, PairKeeps

(* Data is offered to the netconn of the pcb.                              *)
LEMMA OfferKeeps ==
  ASSUME NetconnInv, NEW p \in Pcbs, NEW c \in Conns, conn[c].pcb = p,
         NEW o \in PcbType, SameEnd(pcb[p], o), NEW fin \in BOOLEAN, fin => o.st = "CLOSE_WAIT",
         conn[c].recvmbox.valid =>
           /\ o.unread = Taken(th[c]) + 1 + DataIn(conn[c].recvmbox.q) /\ ~NulIn(conn[c].recvmbox.q)
           /\ ~(th[c].pc = "do_recv" /\ th[c].item = "nul"),
         NEW s, Is(s, conn, [pcb EXCEPT ![p] = o]), Becomes(Offered(s, p, fin)), UNCHANGED th
  PROVE  NetconnInv'
<1> DEFINE P == [pcb EXCEPT ![p] = o]
           R == Offered(s, p, fin)
<1>1. /\ conn[c] \in ConnType /\ th[c] \in ThreadType /\ ConnOK(conn[c], th[c])
      /\ conn \in [Conns -> ConnType] /\ th \in [Conns -> ThreadType] /\ pcb \in [Pcbs -> PcbType]
      /\ Pair(c, conn[c], pcb[p], th[c]) /\ PcbOK(pcb[p])
  <2>1. conn[c].pcb # NULL
    BY NetconnAssumption
  <2> QED BY <2>1, InvFacts
<1>2. P[p] = o /\ P \in [Pcbs -> PcbType] /\ \A z : [P EXCEPT ![p] = z] = [pcb EXCEPT ![p] = z]
  BY <1>1
<1>3. Is(s, conn, P) /\ Becomes(R)
  OBVIOUS
<1>4. conn[c].used
  BY <1>1, NetconnAssumption DEF ConnOK, Control, NoConn, Unaccepted
<1>5. o.arg = c /\ (conn[c].recvmbox.valid => o.recv) /\ o.st \in TcpStates
  BY <1>1 DEF Pair, SameEnd, PcbType
<1> HIDE DEF P, R
<1>6. CASE ~conn[c].recvmbox.valid
  <2> DEFINE n == Less(o.unread)
             r == Moved(o, o.st, n, "none")
  <2>1. Is(R, conn, [P EXCEPT ![p] = Moved(P[p], P[p].st, Less(P[p].unread), "none")])
    <3>1. \/ ~P[p].recv
          \/ /\ P[p].recv /\ c \in Conns /\ P[p].arg = c /\ conn[c].used /\ conn[c].pcb = p
             /\ ~conn[c].recvmbox.valid
      BY <1>2, <1>4, <1>5, <1>6
    <3> QED BY <1>1, <1>2, <1>3, <3>1, OfferedDrops DEF R
  <2>2. n \in 0 .. WND
    BY NetconnAssumption DEF PcbType, Less
  <2>3. Is(R, conn, [pcb EXCEPT ![p] = r])
    BY <1>2, <2>1
  <2> HIDE DEF n
  <2>4. /\ r \in PcbType /\ r.st = o.st /\ r.arg = o.arg /\ r.listener = o.listener
        /\ r.recv = o.recv /\ r.sent = o.sent /\ r.poll = o.poll /\ r.err = o.err
        /\ r.accepts_pending = o.accepts_pending /\ r.refused = "none" /\ r.pend = o.pend
    BY <1>5, <2>2, MovedFields
  <2> HIDE DEF r
  <2>5. SameEnd(pcb[p], r) /\ r.refused # "fin"
    BY <2>4 DEF SameEnd
  <2>6. Is(R, [conn EXCEPT ![c] = conn[c]], [pcb EXCEPT ![p] = r])
    <3>1. [conn EXCEPT ![c] = conn[c]] = conn
      BY <1>1
    <3> QED BY <2>3, <3>1
  <2> QED BY <1>3, <1>6, <2>4, <2>5, <2>6, SameEndKeeps
<1>7. CASE conn[c].recvmbox.valid
  <2> DEFINE full == Full(conn[c].recvmbox, RECVMBOX_SIZE)
             f == IF ~full THEN "none" ELSE IF fin THEN "fin" ELSE "data"
             b == MailOf(conn[c].recvmbox, fin)
             k == Got(conn[c], b)
             r == Moved(o, o.st, o.unread, f)
  <2>1. Is(R, [conn EXCEPT ![c] = k], [P EXCEPT ![p] = Moved(P[p], P[p].st, P[p].unread, f)])
    BY <1>1, <1>2, <1>3, <1>4, <1>5, <1>7, OfferedPosts DEF R
  <2>2. Is(R, [conn EXCEPT ![c] = k], [pcb EXCEPT ![p] = r])
    BY <1>2, <2>1
  <2>3. /\ Mail(b, DataIn(conn[c].recvmbox.q) + (IF full THEN 0 ELSE 1), fin /\ ~full)
        /\ conn[c].recvmbox.q # <<>> => b.q # <<>>
        /\ full \in BOOLEAN /\ DataIn(conn[c].recvmbox.q) \in Nat
    <3>1. conn[c].recvmbox \in Mbox({"data", "nul"})
      BY <1>1 DEF ConnType
    <3> QED BY <1>7, <3>1, MailOfIs
  <2> HIDE DEF full
  <2>4. /\ f \in {"none", "data", "fin"} /\ (f = "none" <=> ~full) /\ (f = "fin" => fin)
    BY <2>3
  <2> HIDE DEF f, b
  <2>5. /\ r \in PcbType /\ r.st = o.st /\ r.arg = o.arg /\ r.listener = o.listener
        /\ r.recv = o.recv /\ r.sent = o.sent /\ r.poll = o.poll /\ r.err = o.err
        /\ r.accepts_pending = o.accepts_pending /\ r.refused = f /\ r.pend = o.pend /\ r.unread = o.unread
    BY <2>4 DEF Moved, PcbType
  <2>6. k.recvmbox = b
    BY <1>1 DEF Got, ConnType
  <2> HIDE DEF r, k
  <2>7. SameEnd(pcb[p], r) /\ (r.st = "ESTABLISHED" => r.refused # "fin")
    BY <2>4, <2>5 DEF SameEnd
  <2>8. Window(k, r, th[c])
    <3>1. o.unread = Taken(th[c]) + 1 + DataIn(conn[c].recvmbox.q) /\ Taken(th[c]) \in Nat
      BY <1>7 DEF Taken
    <3>2. r.unread = Taken(th[c]) + (IF r.refused = "none" THEN 0 ELSE 1) + DataIn(b.q)
      <4>1. CASE full
        BY <2>3, <2>4, <2>5, <3>1, <4>1 DEF Mail
      <4>2. CASE ~full
        BY <2>3, <2>4, <2>5, <3>1, <4>2 DEF Mail
      <4> QED BY <4>1, <4>2
    <3>3. NulIn(b.q) => r.st = "CLOSE_WAIT" /\ r.refused = "none"
      BY <2>3, <2>4, <2>5 DEF Mail
    <3>4. \A i \in DOMAIN b.q : b.q[i] = "nul" => i = Len(b.q)
      BY <2>3 DEF Mail
    <3> QED BY <2>6, <3>2, <3>3, <3>4 DEF Window
  <2>9. \E bb : /\ k = Got(conn[c], bb) /\ bb \in Mbox({"data", "nul"}) /\ bb.valid
                /\ conn[c].recvmbox.q # <<>> => bb.q # <<>>
                /\ Window(k, r, th[c])
    BY <2>3, <2>8 DEF k, Mail
  <2> QED BY <1>3, <1>7, <2>2, <2>5, <2>7, <2>9, SameEndKeeps
<1> QED BY <1>6, <1>7

(* A pcb without a netconn moves between the states of its end.            *)
LEMMA OrphanMoves ==
  ASSUME NetconnInv, NEW p \in Pcbs, pcb[p].st \in Orphan, NEW st \in Orphan \ {"TIME_WAIT"},
         NEW n \in 0 .. WND, NEW f \in {"none", "data", "fin"},
         NEW s, Is(s, conn, [pcb EXCEPT ![p] = Moved(pcb[p], st, n, f)]), Becomes(s), UNCHANGED th
  PROVE  NetconnInv'
<1> DEFINE r == Moved(pcb[p], st, n, f)
<1>1. /\ Base(conn, pcb, th) /\ Reach(conn, th) /\ pcb[p] \in PcbType /\ PcbOK(pcb[p])
  BY PcbFacts
<1>2. /\ r \in PcbType /\ r.st = st /\ r.arg = pcb[p].arg /\ r.listener = pcb[p].listener
      /\ r.recv = pcb[p].recv /\ r.sent = pcb[p].sent /\ r.poll = pcb[p].poll /\ r.err = pcb[p].err
      /\ r.pend = pcb[p].pend
  <2>1. st \in TcpStates
    BY DEF Orphan, TcpStates
  <2> QED BY <1>1, <2>1, MovedFields
<1>3. Is(s, conn, [pcb EXCEPT ![p] = r])
  OBVIOUS
<1> HIDE DEF r
<1>4. conn' = conn /\ pcb' = [pcb EXCEPT ![p] = r] /\ failed' = FALSE
  BY <1>3, BecomesIs
<1>5. PcbOK(r) /\ BacklogKept(pcb[p], r) /\ pcb[p].st \notin Owned /\ r.st \notin Owned
  <2>1. PcbOK(r)
    BY <1>1, <1>2 DEF PcbOK, Orphan
  <2>2. BacklogKept(pcb[p], r)
    BY <1>2 DEF BacklogKept, Orphan
  <2> QED BY <1>2, <2>1, <2>2 DEF Orphan, Owned
<1>6. Base(conn, [pcb EXCEPT ![p] = r], th)
  BY <1>1, <1>2, <1>5, PcbStep
<1> QED BY <1>1, <1>4, <1>6 DEF NetconnInv

(* tcp_process_refused_data.                                               *)
LEMMA RefusedKeeps ==
  ASSUME NetconnInv, NEW p \in Pcbs, tcp_process_refused_data(p)
  PROVE  NetconnInv'
<1> DEFINE fin == pcb[p].refused = "fin"
           c == pcb[p].arg
<1>1. pcb[p].st \in Active /\ pcb[p].refused # "none" /\ Becomes(Offered(Core, p, fin)) /\ UNCHANGED th
  BY Zenon DEF tcp_process_refused_data, Offered
<1>2. /\ Is(Core, conn, pcb) /\ pcb \in [Pcbs -> PcbType] /\ conn \in [Conns -> ConnType]
      /\ pcb[p] \in PcbType /\ PcbOK(pcb[p])
      /\ pcb[p].st \in Owned => pcb[p].arg \in Conns /\ conn[pcb[p].arg].pcb = p
  BY PcbFacts
<1>3. fin \in BOOLEAN /\ (fin => pcb[p].st # "ESTABLISHED")
  BY <1>2 DEF PcbOK
<1>4. [pcb EXCEPT ![p] = pcb[p]] = pcb
  BY <1>2
<1>5. CASE pcb[p].st \in Owned
  <2>1. pcb[p].st \in {"ESTABLISHED", "CLOSE_WAIT"}
    BY <1>1, <1>2, <1>5 DEF PcbOK, Owned
  <2>2. c \in Conns /\ conn[c].pcb = p /\ p # NULL
    BY <1>2, <1>5, NetconnAssumption
  <2> HIDE DEF c
  <2>3. Pair(c, conn[c], pcb[p], th[c])
    BY <2>2, InvFacts
  <2>4. SameEnd(pcb[p], pcb[p]) /\ (fin => pcb[p].st = "CLOSE_WAIT")
    BY <1>3, <2>1 DEF SameEnd
  <2>5. ASSUME conn[c].recvmbox.valid
        PROVE  /\ pcb[p].unread = Taken(th[c]) + 1 + DataIn(conn[c].recvmbox.q) /\ ~NulIn(conn[c].recvmbox.q)
               /\ ~(th[c].pc = "do_recv" /\ th[c].item = "nul")
    BY <1>1, <2>3, <2>5 DEF Pair, Window
  <2> HIDE DEF fin
  <2>6. Is(Core, conn, [pcb EXCEPT ![p] = pcb[p]])
    BY <1>2, <1>4
  <2> QED BY <1>1, <1>2, <1>3, <2>2, <2>4, <2>5, <2>6, OfferKeeps
<1>6. CASE pcb[p].st \notin Owned
  <2>1. pcb[p].st \in Orphan \ {"TIME_WAIT"} /\ ~pcb[p].recv
    BY <1>1, <1>2, <1>6 DEF PcbOK, Active, TcpStates, Owned, Orphan
  <2> HIDE DEF fin, c
  <2>2. Is(Offered(Core, p, fin), conn, [pcb EXCEPT ![p] = Moved(pcb[p], pcb[p].st, Less(pcb[p].unread), "none")])
    BY <1>2, <1>3, <2>1, OfferedDrops
  <2>3. Less(pcb[p].unread) \in 0 .. WND
    BY <1>2, NetconnAssumption DEF PcbType, Less
  <2>4. ASSUME NEW n \in 0 .. WND, NEW f \in {"none", "data", "fin"},
               Is(Offered(Core, p, fin), conn, [pcb EXCEPT ![p] = Moved(pcb[p], pcb[p].st, n, f)])
        PROVE  NetconnInv'
    <3>1. pcb[p].st \in Orphan
      BY <2>1
    <3> QED BY <1>1, <2>1, <2>4, <3>1, OrphanMoves
  <2> QED BY <2>2, <2>3, <2>4, Zenon
<1> QED BY <1>5, <1>6

(* A segment: where it leads, and the window it takes.                     *)
LEMMA MoveIs ==
  ASSUME NEW C, NEW P \in [Pcbs -> PcbType], NEW y, Is(y, C, P), NEW p \in Pcbs, NEW next, NEW data \in BOOLEAN
  PROVE  LET n == IF data THEN P[p].unread + 1 ELSE P[p].unread
         IN  Is([y EXCEPT !.pcb[p].st = next, !.pcb[p].unread = IF data THEN @ + 1 ELSE @], C,
                [P EXCEPT ![p] = Moved(P[p], next, n, P[p].refused)])
<1> DEFINE n == IF data THEN P[p].unread + 1 ELSE P[p].unread
           t == [y EXCEPT !.pcb[p].st = next, !.pcb[p].unread = IF data THEN @ + 1 ELSE @]
<1>0. [P[p] EXCEPT !.st = next, !.unread = n] = Moved(P[p], next, n, P[p].refused)
  <2> HIDE DEF n
  <2> QED BY DEF Moved, PcbType
<1>1. t.conn = C /\ t.failed = FALSE /\ t.pcb = [P EXCEPT ![p] = [P[p] EXCEPT !.st = next, !.unread = n]]
  BY DEF Is, PcbType
<1>2. t \in [conn : {t.conn}, pcb : {t.pcb}, failed : {t.failed}]
  BY DEF Is
<1> HIDE DEF t, n
<1>3. Is(t, C, [P EXCEPT ![p] = Moved(P[p], next, n, P[p].refused)])
  BY <1>0, <1>1, <1>2 DEF Is
<1> QED BY <1>3 DEF t, n

(* A purged pcb holds no place in a backlog.                               *)
LEMMA PurgedPcbsIs ==
  ASSUME NEW P \in [Pcbs -> PcbType], NEW p \in Pcbs, Slot(P, p)
  PROVE  PurgedFrom(PurgedPcbs(P, p), P, p)
<1> DEFINE U == Unpended(P, p)
           u == U[p]
           V == PurgedPcbs(P, p)
<1>1. /\ u \in PcbType /\ u.st = P[p].st /\ u.arg = P[p].arg /\ u.listener = P[p].listener
      /\ u.recv = P[p].recv /\ u.sent = P[p].sent /\ u.poll = P[p].poll /\ u.err = P[p].err
      /\ u.unread = P[p].unread /\ ~(u.listener # NULL /\ u.pend)
  BY UnpendedSelf
<1>2. \A q \in Pcbs : U[q] \in PcbType
  <2> SUFFICES ASSUME NEW q \in Pcbs PROVE U[q] \in PcbType
    OBVIOUS
  <2>1. CASE q = p
    BY <1>1, <2>1
  <2>2. CASE q # p /\ q = P[p].listener /\ P[p].pend
    <3>1. U[q] = [P[q] EXCEPT !.accepts_pending = P[q].accepts_pending - 1]
      BY <2>2 DEF Unpended
    <3>2. P[q] \in PcbType /\ P[q].accepts_pending - 1 \in Nat
      BY <2>2, NetconnAssumption DEF Slot
    <3> HIDE DEF U
    <3> QED BY <3>1, <3>2 DEF PcbType
  <2>3. CASE q # p /\ ~(q = P[p].listener /\ P[p].pend)
    BY <2>3 DEF Unpended
  <2> QED BY <2>1, <2>2, <2>3
<1>3. U \in [Pcbs -> PcbType]
  <2>1. U = [q \in Pcbs |-> U[q]]
    BY DEF Unpended
  <2> HIDE DEF U
  <2> QED BY <1>2, <2>1
<1> HIDE DEF U
<1>4. V[p] = Purged(u) /\ \A z : [V EXCEPT ![p] = z] = [U EXCEPT ![p] = z]
  BY <1>3 DEF PurgedPcbs, U
<1>5. /\ Purged(u) \in PcbType /\ Purged(u).st = u.st /\ Purged(u).arg = u.arg /\ Purged(u).listener = u.listener
      /\ Purged(u).recv = u.recv /\ Purged(u).sent = u.sent /\ Purged(u).poll = u.poll /\ Purged(u).err = u.err
      /\ Purged(u).unread = u.unread /\ Purged(u).refused = "none" /\ Purged(u).pend = u.pend
  <2> HIDE DEF u
  <2>1. 0 \in 0 .. SND_BUF
    BY NetconnAssumption
  <2> QED BY <1>1, <2>1 DEF Purged, PcbType
<1>6. V \in [Pcbs -> PcbType]
  BY <1>3, <1>5 DEF PurgedPcbs, U
<1> HIDE DEF V, u
<1>7. PurgedFrom(V, P, p)
  BY <1>1, <1>4, <1>5, <1>6 DEF PurgedFrom, U
<1> QED BY <1>7 DEF V

(* A segment for a pcb without a netconn.                                  *)
LEMMA OrphanEnds ==
  ASSUME NetconnInv, NEW p \in Pcbs, pcb[p].st = "FIN_WAIT", NEW next, NEW Q, OrphanPcbs(Q, p, next),
         NEW n \in 0 .. WND, NEW f \in {"none", "data", "fin"},
         NEW s, Is(s, conn, [Q EXCEPT ![p] = Moved(Q[p], next, n, f)]), Becomes(s), UNCHANGED th
  PROVE  NetconnInv'
<1>1. CASE next \in {"FIN_WAIT", "CLOSING"} /\ Q = pcb
  <2>1. next \in Orphan \ {"TIME_WAIT"} /\ pcb[p].st \in Orphan
    BY <1>1 DEF Orphan
  <2> QED BY <1>1, <2>1, OrphanMoves
<1>2. CASE next = "TIME_WAIT" /\ Q = PurgedPcbs(pcb, p)
  <2> DEFINE r == Moved(Q[p], next, n, f)
  <2>1. pcb \in [Pcbs -> PcbType] /\ Slot(pcb, p) /\ PcbOK(pcb[p])
    BY PcbFacts
  <2>2. /\ Q \in [Pcbs -> PcbType] /\ \A z : [Q EXCEPT ![p] = z] = [Unpended(pcb, p) EXCEPT ![p] = z]
        /\ Q[p].st = pcb[p].st /\ Q[p].arg = pcb[p].arg /\ Q[p].listener = pcb[p].listener
        /\ Q[p].recv = pcb[p].recv /\ Q[p].sent = pcb[p].sent /\ Q[p].poll = pcb[p].poll /\ Q[p].err = pcb[p].err
        /\ ~(Q[p].listener # NULL /\ Q[p].pend)
    <3>1. PurgedFrom(Q, pcb, p)
      BY <1>2, <2>1, PurgedPcbsIs
    <3> QED BY <3>1 DEF PurgedFrom
  <2>3. Is(s, conn, [Unpended(pcb, p) EXCEPT ![p] = r])
    BY <2>2
  <2>4. /\ r \in PcbType /\ r.st = "TIME_WAIT" /\ r.arg = Q[p].arg /\ r.listener = Q[p].listener
        /\ r.recv = Q[p].recv /\ r.sent = Q[p].sent /\ r.poll = Q[p].poll /\ r.err = Q[p].err
        /\ r.pend = Q[p].pend
    <3>1. next \in TcpStates /\ Q[p] \in PcbType
      BY <1>2, <2>2 DEF TcpStates
    <3> QED BY <1>2, <3>1, MovedFields
  <2> HIDE DEF r
  <2>5. PcbOK(r)
    BY <2>1, <2>2, <2>4 DEF PcbOK, Orphan
  <2>6. LetGo(pcb[p], r) /\ pcb[p].st \notin Owned
    <3>1. r.pend \in BOOLEAN
      BY <2>4 DEF PcbType
    <3> QED BY <2>2, <2>4, <3>1 DEF LetGo, Owned
  <2> QED BY <2>3, <2>4, <2>5, <2>6, LetGoKeeps
<1> QED BY <1>1, <1>2 DEF OrphanPcbs

(* Data for a pcb without a netconn that is closed for reading.            *)
LEMMA OrphanAborted ==
  ASSUME NetconnInv, NEW p \in Pcbs, pcb[p].st = "FIN_WAIT", NEW next, NEW Q, OrphanPcbs(Q, p, next),
         NEW n \in 0 .. WND, NEW f \in {"none", "data", "fin"},
         NEW s, Is(s, conn, [Q EXCEPT ![p] = Moved(Q[p], next, n, f)]), Becomes(tcp_abandon(s, p)), UNCHANGED th
  PROVE  NetconnInv'
<1> DEFINE r == Moved(Q[p], next, n, f)
           P == [Q EXCEPT ![p] = r]
           R == tcp_abandon(s, p)
<1>1. /\ pcb \in [Pcbs -> PcbType] /\ Slot(pcb, p) /\ PcbOK(pcb[p]) /\ Base(conn, pcb, th)
  BY PcbFacts
<1>2. next \in TcpStates /\ next \notin {"CLOSED", "LISTEN"}
  BY DEF OrphanPcbs, TcpStates
<1>3. Q \in [Pcbs -> PcbType] /\ Q[p].listener = pcb[p].listener /\ Q[p].err = pcb[p].err
  <2>1. CASE Q = pcb
    BY <1>1, <2>1
  <2>2. CASE Q = PurgedPcbs(pcb, p)
    <3>1. PurgedFrom(Q, pcb, p)
      BY <1>1, <2>2, PurgedPcbsIs
    <3> QED BY <3>1 DEF PurgedFrom
  <2> QED BY <2>1, <2>2 DEF OrphanPcbs
<1>4. /\ r \in PcbType /\ r.st = next /\ r.listener = Q[p].listener /\ r.err = Q[p].err /\ r.pend = Q[p].pend
  <2>1. Q[p] \in PcbType
    BY <1>3
  <2> QED BY <1>2, <2>1, MovedFields
<1>5. Is(s, conn, P) /\ Becomes(R)
  OBVIOUS
<1> HIDE DEF r
<1>6. P \in [Pcbs -> PcbType] /\ P[p] = r /\ \A q \in Pcbs : q # p => P[q] = Q[q]
  BY <1>3, <1>4
<1> HIDE DEF P, R
<1>7. Purgeable(P, p) /\ [Unpended(P, p) EXCEPT ![p] = NoPcb] = [Unpended(pcb, p) EXCEPT ![p] = NoPcb]
  <2>1. CASE next \in {"FIN_WAIT", "CLOSING"} /\ Q = pcb
    <3>1. P[p].listener = pcb[p].listener /\ P[p].pend = pcb[p].pend /\ \A q \in Pcbs : q # p => P[q] = pcb[q]
      BY <1>4, <1>6, <2>1
    <3>2. [Unpended(P, p) EXCEPT ![p] = NoPcb] = [Unpended(pcb, p) EXCEPT ![p] = NoPcb]
      <4>1. ASSUME NEW z PROVE [Unpended(P, p) EXCEPT ![p] = z] = [Unpended(pcb, p) EXCEPT ![p] = z]
        BY <3>1, UnpendedSame
      <4> QED BY <4>1, Zenon
    <3>3. Slot(P, p)
      BY <1>1, <3>1 DEF Slot
    <3> QED BY <1>4, <1>6, <2>1, <3>2, <3>3 DEF Purgeable
  <2>2. CASE next = "TIME_WAIT" /\ Q = PurgedPcbs(pcb, p)
    <3>1. PurgedFrom(Q, pcb, p)
      BY <1>1, <2>2, PurgedPcbsIs
    <3>2. ~(P[p].listener # NULL /\ P[p].pend)
      BY <1>4, <1>6, <3>1 DEF PurgedFrom
    <3>3. Purgeable(P, p)
      BY <1>4, <1>6, <2>2, <3>2 DEF Purgeable, Slot
    <3>4. \A q \in Pcbs : q # p => Unpended(P, p)[q] = Unpended(pcb, p)[q]
      <4>1. \A q \in Pcbs : q # p => Q[q] = Unpended(pcb, p)[q]
        BY <2>2 DEF PurgedPcbs, Unpended
      <4>2. \A q \in Pcbs : q # p => Unpended(P, p)[q] = P[q]
        <5>1. \A q \in Pcbs : ~(q = P[p].listener /\ P[p].pend)
          BY <3>2, NetconnAssumption
        <5> QED BY <5>1 DEF Unpended
      <4> QED BY <1>6, <4>1, <4>2
    <3>5. [Unpended(P, p) EXCEPT ![p] = NoPcb] = [Unpended(pcb, p) EXCEPT ![p] = NoPcb]
      <4> DEFINE A == Unpended(P, p)
                 B == Unpended(pcb, p)
      <4>1. A = [q \in Pcbs |-> A[q]] /\ B = [q \in Pcbs |-> B[q]]
        BY DEF Unpended
      <4> HIDE DEF A, B
      <4>2. [A EXCEPT ![p] = NoPcb] = [B EXCEPT ![p] = NoPcb]
        BY <3>4, <4>1 DEF A, B
      <4> QED BY <4>2 DEF A, B
    <3> QED BY <3>3, <3>5
  <2> QED BY <2>1, <2>2 DEF OrphanPcbs
<1>8. ~P[p].err
  BY <1>1, <1>3, <1>4, <1>6 DEF PcbOK, Orphan
<1>9. Is(R, conn, [Unpended(P, p) EXCEPT ![p] = NoPcb])
  BY <1>5, <1>6, <1>7, <1>8, AbandonOrphanIs DEF R
<1>10. NoPcb \in PcbType /\ PcbOK(NoPcb) /\ LetGo(pcb[p], NoPcb)
  BY NoPcbIsOK
<1>11. pcb[p].st \notin Owned
  BY DEF Owned
<1> HIDE DEF NoPcb
<1>12. Is(R, conn, [Unpended(pcb, p) EXCEPT ![p] = NoPcb])
  BY <1>7, <1>9
<1> QED BY <1>5, <1>10, <1>11, <1>12, LetGoKeeps

(* The cases of a segment.                                                 *)
LEMMA SegmentCases ==
  ASSUME NEW p, NEW data \in BOOLEAN, NEW fin \in BOOLEAN, NEW next, Segment(p, data, fin, next),
         NEW y, y = (IF next = "TIME_WAIT" THEN tcp_pcb_purge(Core, p) ELSE Core)
  PROVE  SegmentGoes([y EXCEPT !.pcb[p].st = next, !.pcb[p].unread = IF data THEN @ + 1 ELSE @], p, data, fin)
<1> DEFINE y0 == IF next = "TIME_WAIT" THEN tcp_pcb_purge(Core, p) ELSE Core
           s0 == [y0 EXCEPT !.pcb[p].st = next, !.pcb[p].unread = IF data THEN @ + 1 ELSE @]
           t0 == IF data THEN EventRecv(s0, p, fin) ELSE s0
<1>1. /\ data \/ fin
      /\ Becomes(IF data /\ pcb[p].rxclosed THEN tcp_abandon(s0, p)
                 ELSE IF fin /\ t0.pcb[p].refused = "none" THEN EventClosed(t0, p)
                 ELSE t0)
  BY Zenon DEF Segment
<1> HIDE DEF s0
<1>2. SegmentGoes(s0, p, data, fin)
  <2>1. CASE data /\ pcb[p].rxclosed
    BY <1>1, <2>1, Zenon DEF SegmentGoes
  <2>2. CASE data /\ ~pcb[p].rxclosed
    BY <1>1, <2>2, Zenon DEF SegmentGoes, Offered
  <2>3. CASE ~data
    BY <1>1, <2>3, Zenon DEF SegmentGoes
  <2> QED BY <2>1, <2>2, <2>3
<1> QED BY <1>2, Zenon DEF s0

(* A segment for a pcb without a netconn.                                  *)
LEMMA OrphanSegment ==
  ASSUME NetconnInv, NEW p \in Pcbs, pcb[p].st = "FIN_WAIT", pcb[p].refused = "none", NEW next, NEW Q, OrphanPcbs(Q, p, next),
         NEW n \in 0 .. WND, NEW data \in BOOLEAN, NEW fin \in BOOLEAN,
         NEW s, Is(s, conn, [Q EXCEPT ![p] = Moved(Q[p], next, n, Q[p].refused)]),
         SegmentGoes(s, p, data, fin), UNCHANGED th
  PROVE  NetconnInv'
<1> DEFINE r == Moved(Q[p], next, n, Q[p].refused)
           P == [Q EXCEPT ![p] = r]
<1>1. /\ pcb \in [Pcbs -> PcbType] /\ Slot(pcb, p) /\ PcbOK(pcb[p]) /\ conn \in [Conns -> ConnType]
  BY PcbFacts
<1>2. next \in TcpStates
  BY DEF OrphanPcbs, TcpStates
<1>3. Q \in [Pcbs -> PcbType] /\ Q[p].recv = pcb[p].recv /\ Q[p].refused = "none"
  <2>1. CASE Q = pcb
    BY <1>1, <2>1
  <2>2. CASE Q = PurgedPcbs(pcb, p)
    <3>1. PurgedFrom(Q, pcb, p)
      BY <1>1, <2>2, PurgedPcbsIs
    <3> QED BY <3>1 DEF PurgedFrom
  <2> QED BY <2>1, <2>2 DEF OrphanPcbs
<1>4. Q[p] \in PcbType /\ Q[p].refused \in {"none", "data", "fin"}
  BY <1>3
<1>5. /\ r \in PcbType /\ r.st = next /\ r.recv = Q[p].recv /\ r.refused = "none" /\ r.unread = n
  BY <1>2, <1>3, <1>4, MovedFields
<1>6. Is(s, conn, P)
  OBVIOUS
<1>7. \A m, g : Moved(r, next, m, g) = Moved(Q[p], next, m, g)
  BY <1>4 DEF Moved, PcbType
<1> HIDE DEF r
<1>8. P \in [Pcbs -> PcbType] /\ P[p] = r /\ \A z : [P EXCEPT ![p] = z] = [Q EXCEPT ![p] = z]
  BY <1>3, <1>5
<1> HIDE DEF P
<1>9. ~P[p].recv
  BY <1>1, <1>3, <1>5, <1>8 DEF PcbOK, Orphan
<1>10. CASE Becomes(tcp_abandon(s, p))
  BY <1>4, <1>10, OrphanAborted
<1>11. CASE Becomes(Offered(s, p, fin))
  <2> DEFINE m == Less(n)
  <2>1. Is(Offered(s, p, fin), conn, [P EXCEPT ![p] = Moved(P[p], P[p].st, Less(P[p].unread), "none")])
    BY <1>1, <1>6, <1>8, <1>9, OfferedDrops
  <2>2. m \in 0 .. WND
    BY NetconnAssumption DEF Less
  <2>3. Is(Offered(s, p, fin), conn, [Q EXCEPT ![p] = Moved(Q[p], next, m, "none")])
    <3>1. P[p].st = next /\ Less(P[p].unread) = m /\ P[p] = r
      BY <1>5, <1>8
    <3> HIDE DEF m
    <3>2. Moved(r, next, m, "none") = Moved(Q[p], next, m, "none")
      BY <1>7, Zenon
    <3>3. Is(Offered(s, p, fin), conn, [P EXCEPT ![p] = Moved(Q[p], next, m, "none")])
      BY <2>1, <3>1, <3>2, Zenon
    <3>4. [P EXCEPT ![p] = Moved(Q[p], next, m, "none")] = [Q EXCEPT ![p] = Moved(Q[p], next, m, "none")]
      BY <1>8, Zenon
    <3> QED BY <3>3, <3>4, Zenon
  <2> HIDE DEF m
  <2>4. ASSUME NEW f \in {"none", "data", "fin"},
               Is(Offered(s, p, fin), conn, [Q EXCEPT ![p] = Moved(Q[p], next, m, f)])
        PROVE  NetconnInv'
    BY <1>11, <2>2, <2>4, OrphanEnds
  <2> QED BY <2>3, <2>4, Zenon
<1>12. CASE Becomes(IF s.pcb[p].refused = "none" THEN EventClosed(s, p) ELSE s)
  <2>1. Is(EventClosed(s, p), conn, P)
    BY <1>1, <1>6, <1>8, <1>9, EventClosedDrops
  <2>2. s.pcb[p].refused = "none"
    BY <1>5, <1>6, <1>8 DEF Is
  <2>3. Becomes(EventClosed(s, p))
    BY <1>12, <2>2, Zenon
  <2>4. Is(EventClosed(s, p), conn, [Q EXCEPT ![p] = Moved(Q[p], next, n, Q[p].refused)])
    BY <2>1 DEF P, r
  <2> QED BY <1>4, <2>3, <2>4, OrphanEnds
<1> QED BY <1>10, <1>11, <1>12 DEF SegmentGoes

(* Data for a netconn's pcb that is closed for reading.                    *)
LEMMA OwnedAborted ==
  ASSUME NetconnInv, NEW p \in Pcbs, NEW c \in Conns, conn[c].pcb = p,
         NEW o \in PcbType, SameEnd(pcb[p], o),
         NEW s, Is(s, conn, [pcb EXCEPT ![p] = o]), Becomes(tcp_abandon(s, p)), UNCHANGED th
  PROVE  NetconnInv'
<1> DEFINE P == [pcb EXCEPT ![p] = o]
           R == tcp_abandon(s, p)
           C2 == [conn EXCEPT ![c] = Errd(conn[c])]
           P2 == [Unpended(pcb, p) EXCEPT ![p] = NoPcb]
<1>1. /\ pcb \in [Pcbs -> PcbType] /\ Slot(pcb, p) /\ Base(conn, pcb, th) /\ Reach(conn, th)
  BY PcbFacts
<1>2. GivenUp(conn, pcb, th, c, p)
  <2>1. pcb[p].st # "LISTEN"
    BY DEF SameEnd
  <2> QED BY <1>1, <2>1, AbandonGivesUp
<1>3. /\ P \in [Pcbs -> PcbType] /\ P[p] = o /\ \A q \in Pcbs : q # p => P[q] = pcb[q]
  BY <1>1
<1>4. Is(s, conn, P) /\ Becomes(R)
  OBVIOUS
<1> HIDE DEF P, R
<1>5. P[p].listener = pcb[p].listener /\ P[p].pend = pcb[p].pend /\ P[p].st \in {"ESTABLISHED", "CLOSE_WAIT"}
  BY <1>3 DEF SameEnd
<1>6. P[p].err /\ P[p].arg = c /\ ErrReady(conn[c])
  BY <1>2, <1>3 DEF SameEnd, GivenUp
<1>7. Purgeable(P, p)
  <2>1. Slot(P, p)
    BY <1>1, <1>3, <1>5 DEF Slot
  <2> QED BY <1>5, <2>1 DEF Purgeable
<1>8. [Unpended(P, p) EXCEPT ![p] = NoPcb] = P2
  <2>1. P[p].listener = pcb[p].listener /\ P[p].pend = pcb[p].pend /\ \A q \in Pcbs : q # p => P[q] = pcb[q]
    BY <1>3, <1>5
  <2>2. ASSUME NEW z PROVE [Unpended(P, p) EXCEPT ![p] = z] = [Unpended(pcb, p) EXCEPT ![p] = z]
    BY <2>1, UnpendedSame
  <2> QED BY <2>2, Zenon
<1>9. Is(R, C2, [Unpended(P, p) EXCEPT ![p] = NoPcb])
  <2>1. P[p].st # "TIME_WAIT"
    BY <1>5
  <2> QED BY <1>3, <1>4, <1>6, <1>7, <2>1, AbandonIs DEF R
<1>10. Base(C2, P2, th) /\ Reach(C2, th)
  BY <1>2 DEF GivenUp
<1> HIDE DEF C2, P2
<1>11. conn' = C2 /\ pcb' = P2 /\ failed' = FALSE
  <2>1. Is(R, C2, P2)
    BY <1>8, <1>9
  <2> QED BY <1>4, <2>1, BecomesIs
<1> QED BY <1>10, <1>11 DEF NetconnInv

(* A FIN without data for a netconn's pcb.                                 *)
LEMMA FinKeeps ==
  ASSUME NetconnInv, NEW p \in Pcbs, NEW c \in Conns, conn[c].pcb = p, pcb[p].st = "ESTABLISHED",
         NEW o \in PcbType, SameEnd(pcb[p], o), o.st = "CLOSE_WAIT", o.unread = pcb[p].unread,
         o.refused = "none", pcb[p].refused = "none",
         NEW s, Is(s, conn, [pcb EXCEPT ![p] = o]), Becomes(EventClosed(s, p)), UNCHANGED th
  PROVE  NetconnInv'
<1> DEFINE P == [pcb EXCEPT ![p] = o]
           R == EventClosed(s, p)
<1>1. /\ conn[c] \in ConnType /\ th[c] \in ThreadType /\ ConnOK(conn[c], th[c])
      /\ conn \in [Conns -> ConnType] /\ th \in [Conns -> ThreadType] /\ pcb \in [Pcbs -> PcbType]
      /\ Pair(c, conn[c], pcb[p], th[c])
  <2>1. conn[c].pcb # NULL
    BY NetconnAssumption
  <2> QED BY <2>1, InvFacts
<1>2. P[p] = o /\ P \in [Pcbs -> PcbType]
  BY <1>1
<1>3. Is(s, conn, P) /\ Becomes(R)
  OBVIOUS
<1>4. conn[c].used
  BY <1>1, NetconnAssumption DEF ConnOK, Control, NoConn, Unaccepted
<1>5. o.arg = c /\ (conn[c].recvmbox.valid => o.recv)
  BY <1>1 DEF Pair, SameEnd
<1>6. o.st = "ESTABLISHED" => o.refused # "fin"
  OBVIOUS
<1> HIDE DEF R
<1>7. CASE ~conn[c].recvmbox.valid
  <2>1. Is(R, conn, P)
    <3>1. \/ ~P[p].recv
          \/ /\ P[p].recv /\ c \in Conns /\ P[p].arg = c /\ conn[c].used /\ conn[c].pcb = p
             /\ ~conn[c].recvmbox.valid
      BY <1>2, <1>4, <1>5, <1>7
    <3> HIDE DEF P
    <3> QED BY <1>1, <1>2, <1>3, <3>1, EventClosedDrops DEF R
  <2>2. Is(R, [conn EXCEPT ![c] = conn[c]], [pcb EXCEPT ![p] = o])
    <3>1. [conn EXCEPT ![c] = conn[c]] = conn
      BY <1>1
    <3> QED BY <2>1, <3>1
  <2> QED BY <1>3, <1>6, <1>7, <2>2, SameEndKeeps
<1>8. CASE conn[c].recvmbox.valid
  <2> DEFINE q == conn[c].recvmbox
             b == Posted(q, "nul", RECVMBOX_SIZE)
             k == Got(conn[c], b)
             full == Full(q, RECVMBOX_SIZE)
  <2>1. Is(R, [conn EXCEPT ![c] = k], [pcb EXCEPT ![p] = o])
    <3>1. Is(R, [conn EXCEPT ![c] = k], P)
      <4> HIDE DEF P
      <4> QED BY <1>1, <1>2, <1>3, <1>4, <1>5, <1>8, EventClosedPosts DEF R
    <3> QED BY <3>1
  <2>2. /\ pcb[p].unread = Taken(th[c]) + 0 + DataIn(q.q) /\ ~NulIn(q.q)
        /\ ~(th[c].pc = "do_recv" /\ th[c].item = "nul") /\ q \in Mbox({"data", "nul"}) /\ q.valid
    BY <1>1, <1>8 DEF Pair, Window, ConnType
  <2>3. DataIn(q.q) \in Nat
    <3>1. q.q \in Seq({"data", "nul"})
      BY <2>2 DEF Mbox
    <3> QED BY <3>1, DataInType
  <2> HIDE DEF q
  <2>4. /\ Mail(b, DataIn(q.q), TRUE) /\ b.q # <<>> /\ b \in Mbox({"data", "nul"}) /\ b.valid
    <3>1. \A m \in {"data", "nul"} :
            LET z == Posted(q, m, RECVMBOX_SIZE)
            IN  /\ Mail(z, DataIn(q.q) + (IF m = "data" /\ ~full THEN 1 ELSE 0), m = "nul")
                /\ z.q # <<>> /\ z \in Mbox({"data", "nul"}) /\ z.valid
      BY <2>2, PostedMail
    <3>2. /\ Mail(b, DataIn(q.q) + (IF "nul" = "data" /\ ~full THEN 1 ELSE 0), "nul" = "nul")
          /\ b.q # <<>> /\ b \in Mbox({"data", "nul"}) /\ b.valid
      BY <3>1, Zenon
    <3> HIDE DEF b, full
    <3> QED BY <2>3, <3>2 DEF Mail
  <2> HIDE DEF b
  <2>5. k.recvmbox = b
    BY <1>1 DEF Got, ConnType
  <2>6. Window(k, o, th[c])
    <3>1. Taken(th[c]) \in Nat
      BY DEF Taken
    <3> HIDE DEF k
    <3> QED BY <2>2, <2>3, <2>4, <2>5, <3>1 DEF Window, Mail
  <2>7. \E bb : /\ k = Got(conn[c], bb) /\ bb \in Mbox({"data", "nul"}) /\ bb.valid
                /\ conn[c].recvmbox.q # <<>> => bb.q # <<>>
                /\ Window(k, o, th[c])
    BY <2>4, <2>6
  <2> HIDE DEF k
  <2> QED BY <1>3, <1>6, <1>8, <2>1, <2>2, <2>7, SameEndKeeps
<1> QED BY <1>7, <1>8

(* A segment for a netconn's pcb.                                          *)
LEMMA OwnedSegment ==
  ASSUME NetconnInv, NEW p \in Pcbs, pcb[p].st = "ESTABLISHED", pcb[p].refused = "none",
         NEW next \in {"ESTABLISHED", "CLOSE_WAIT"}, NEW data \in BOOLEAN, NEW fin \in BOOLEAN,
         fin => next = "CLOSE_WAIT", NEW n \in 0 .. WND, n = (IF data THEN pcb[p].unread + 1 ELSE pcb[p].unread),
         NEW s, Is(s, conn, [pcb EXCEPT ![p] = Moved(pcb[p], next, n, pcb[p].refused)]),
         SegmentGoes(s, p, data, fin), UNCHANGED th
  PROVE  NetconnInv'
<1> DEFINE o == Moved(pcb[p], next, n, pcb[p].refused)
           P == [pcb EXCEPT ![p] = o]
           c == pcb[p].arg
<1>1. /\ pcb \in [Pcbs -> PcbType] /\ pcb[p] \in PcbType /\ c \in Conns /\ conn[c].pcb = p
  BY PcbFacts DEF Owned
<1>2. /\ o \in PcbType /\ o.st = next /\ o.arg = pcb[p].arg /\ o.listener = pcb[p].listener
      /\ o.recv = pcb[p].recv /\ o.sent = pcb[p].sent /\ o.poll = pcb[p].poll /\ o.err = pcb[p].err
      /\ o.accepts_pending = pcb[p].accepts_pending /\ o.refused = pcb[p].refused /\ o.pend = pcb[p].pend
      /\ o.unread = n
  <2>1. next \in TcpStates /\ pcb[p].refused \in {"none", "data", "fin"}
    BY <1>1 DEF TcpStates
  <2> QED BY <1>1, <2>1, MovedFields
<1>3. Is(s, conn, P)
  OBVIOUS
<1> HIDE DEF o
<1>4. P[p] = o
  BY <1>1
<1>5. SameEnd(pcb[p], o)
  BY <1>2 DEF SameEnd
<1> HIDE DEF c
<1>6. CASE Becomes(tcp_abandon(s, p))
  BY <1>1, <1>2, <1>3, <1>5, <1>6, OwnedAborted
<1>7. CASE data /\ Becomes(Offered(s, p, fin))
  <2>1. conn[c].recvmbox.valid =>
          /\ o.unread = Taken(th[c]) + 1 + DataIn(conn[c].recvmbox.q) /\ ~NulIn(conn[c].recvmbox.q)
          /\ ~(th[c].pc = "do_recv" /\ th[c].item = "nul")
    <3> SUFFICES ASSUME conn[c].recvmbox.valid
                 PROVE  /\ o.unread = Taken(th[c]) + 1 + DataIn(conn[c].recvmbox.q) /\ ~NulIn(conn[c].recvmbox.q)
                        /\ ~(th[c].pc = "do_recv" /\ th[c].item = "nul")
      OBVIOUS
    <3>1. conn[c] \in ConnType /\ Pair(c, conn[c], pcb[p], th[c])
      <4>1. conn[c].pcb # NULL
        BY <1>1, NetconnAssumption
      <4> QED BY <1>1, <4>1, InvFacts
    <3>2. DataIn(conn[c].recvmbox.q) \in Nat
      <4>1. conn[c].recvmbox.q \in Seq({"data", "nul"})
        BY <3>1 DEF ConnType, Mbox
      <4> QED BY <4>1, DataInType
    <3>3. Window(conn[c], pcb[p], th[c]) /\ ~(th[c].pc = "do_recv" /\ th[c].item = "nul")
      BY <3>1 DEF Pair
    <3>4. Taken(th[c]) \in Nat
      BY DEF Taken
    <3>5. pcb[p].unread = Taken(th[c]) + 0 + DataIn(conn[c].recvmbox.q) /\ ~NulIn(conn[c].recvmbox.q)
      BY <3>3 DEF Window
    <3> QED BY <1>2, <1>7, <3>2, <3>3, <3>4, <3>5
  <2> QED BY <1>1, <1>2, <1>3, <1>5, <1>7, <2>1, OfferKeeps
<1>8. CASE ~data /\ fin /\ Becomes(IF s.pcb[p].refused = "none" THEN EventClosed(s, p) ELSE s)
  <2>1. s.pcb[p].refused = "none"
    <3>1. s.pcb = P
      BY <1>3 DEF Is
    <3> QED BY <1>2, <1>4, <3>1
  <2>2. Becomes(EventClosed(s, p))
    BY <1>8, <2>1, Zenon
  <2>3. o.st = "CLOSE_WAIT" /\ o.unread = pcb[p].unread /\ o.refused = "none"
    BY <1>2, <1>8
  <2> QED BY <1>1, <1>2, <1>3, <1>5, <2>2, <2>3, FinKeeps
<1> QED BY <1>6, <1>7, <1>8 DEF SegmentGoes

(* Segment: data, a FIN or both arrive in order.                           *)
LEMMA SegmentKeeps ==
  ASSUME NetconnInv, NEW p \in Pcbs, NEW data \in BOOLEAN, NEW fin \in BOOLEAN, NEW next, Segment(p, data, fin, next)
  PROVE  NetconnInv'
<1> DEFINE y == IF next = "TIME_WAIT" THEN tcp_pcb_purge(Core, p) ELSE Core
           s == [y EXCEPT !.pcb[p].st = next, !.pcb[p].unread = IF data THEN @ + 1 ELSE @]
           Q == IF next = "TIME_WAIT" THEN PurgedPcbs(pcb, p) ELSE pcb
           n == IF data THEN Q[p].unread + 1 ELSE Q[p].unread
<1>1. /\ pcb[p].st \in {"ESTABLISHED", "FIN_WAIT"} /\ pcb[p].refused = "none"
      /\ data => pcb[p].unread < WND
      /\ IF fin THEN next \in AfterFin(pcb[p].st) ELSE next = pcb[p].st
      /\ UNCHANGED th
  BY Zenon DEF Segment
<1>2. SegmentGoes(s, p, data, fin)
  BY SegmentCases, Zenon
<1>3. /\ pcb \in [Pcbs -> PcbType] /\ pcb[p] \in PcbType /\ Is(Core, conn, pcb) /\ Slot(pcb, p)
      /\ pcb[p].st # "LISTEN" => Purgeable(pcb, p)
  BY PcbFacts
<1>4. Is(y, conn, Q) /\ Q \in [Pcbs -> PcbType] /\ Q[p].unread = pcb[p].unread
  <2>1. CASE next = "TIME_WAIT"
    <3>1. Is(tcp_pcb_purge(Core, p), conn, PurgedPcbs(pcb, p))
      BY <1>1, <1>3, PurgeIs DEF PurgedPcbs
    <3>2. PurgedFrom(PurgedPcbs(pcb, p), pcb, p)
      BY <1>3, PurgedPcbsIs
    <3> HIDE DEF Core
    <3> QED BY <2>1, <3>1, <3>2 DEF PurgedFrom
  <2>2. CASE next # "TIME_WAIT"
    <3> HIDE DEF Core
    <3> QED BY <1>3, <2>2
  <2> QED BY <2>1, <2>2
<1> HIDE DEF y, Q
<1>5. Is(s, conn, [Q EXCEPT ![p] = Moved(Q[p], next, n, Q[p].refused)])
  BY <1>4, MoveIs, Zenon
<1>6. n \in 0 .. WND /\ n = (IF data THEN pcb[p].unread + 1 ELSE pcb[p].unread)
  BY <1>1, <1>3, <1>4, NetconnAssumption DEF PcbType
<1> HIDE DEF s, n
<1>7. CASE pcb[p].st = "ESTABLISHED"
  <2>1. next \in {"ESTABLISHED", "CLOSE_WAIT"} /\ (fin => next = "CLOSE_WAIT")
    BY <1>1, <1>7 DEF AfterFin
  <2>2. Q = pcb
    BY <2>1 DEF Q
  <2>3. Is(s, conn, [pcb EXCEPT ![p] = Moved(pcb[p], next, n, pcb[p].refused)])
    BY <1>5, <2>2
  <2> QED BY <1>1, <1>2, <1>6, <1>7, <2>1, <2>3, OwnedSegment
<1>8. CASE pcb[p].st = "FIN_WAIT"
  <2>1. OrphanPcbs(Q, p, next)
    BY <1>1, <1>8 DEF Q, OrphanPcbs, AfterFin
  <2> QED BY <1>1, <1>2, <1>5, <1>6, <1>8, <2>1, OrphanSegment
<1> QED BY <1>1, <1>7, <1>8

(* What Offering does to the fields of a netconn.                          *)
LEMMA OfferingFields ==
  ASSUME NEW o \in ConnType, o.acceptmbox.valid, NEW m \in Conns \cup {"aborted"}
  PROVE  LET k == Offering(o, m)
         IN  /\ k \in ConnType /\ k.used = o.used /\ k.state = o.state /\ k.innb = o.innb
             /\ k.pcb = o.pcb /\ k.msg = o.msg /\ k.recvmbox = o.recvmbox
             /\ k.fatal = o.fatal /\ k.write_offset = o.write_offset /\ k.sem = o.sem /\ k.api = o.api
             /\ k.acceptmbox.valid
             /\ k.acceptmbox.q = (IF Full(o.acceptmbox, ACCEPTMBOX_SIZE) THEN o.acceptmbox.q
                                  ELSE Append(o.acceptmbox.q, m))
<1> DEFINE S == Conns \cup {"aborted", "nul"}
           b == Posted(o.acceptmbox, m, ACCEPTMBOX_SIZE)
<1>1. o.acceptmbox \in [valid : BOOLEAN, q : Seq(S)]
  BY DEF ConnType, Mbox
<1>2. /\ b \in [valid : BOOLEAN, q : Seq(S)] /\ b.valid = o.acceptmbox.valid
      /\ Len(o.acceptmbox.q) < ACCEPTMBOX_SIZE => b.q = Append(o.acceptmbox.q, m)
      /\ ~(Len(o.acceptmbox.q) < ACCEPTMBOX_SIZE) => b.q = o.acceptmbox.q
  <2>1. m \in S /\ ACCEPTMBOX_SIZE \in Nat \ {0}
    BY NetconnAssumption
  <2>2. /\ b \in [valid : BOOLEAN, q : Seq(S)] /\ b.valid = o.acceptmbox.valid
        /\ o.acceptmbox.valid /\ Len(o.acceptmbox.q) < ACCEPTMBOX_SIZE => b.q = Append(o.acceptmbox.q, m)
        /\ o.acceptmbox.valid /\ ~(Len(o.acceptmbox.q) < ACCEPTMBOX_SIZE) => b.q = o.acceptmbox.q
    <3> HIDE DEF S
    <3>1. /\ b \in [valid : BOOLEAN, q : Seq(S)] /\ b.valid = o.acceptmbox.valid
      BY <1>1, <2>1, PostedIs
    <3>2. o.acceptmbox.valid /\ Len(o.acceptmbox.q) < ACCEPTMBOX_SIZE => b.q = Append(o.acceptmbox.q, m)
      BY <1>1, <2>1 DEF Posted, Full
    <3>3. o.acceptmbox.valid /\ ~(Len(o.acceptmbox.q) < ACCEPTMBOX_SIZE) => b.q = o.acceptmbox.q
      BY <1>1, <2>1, PostedIs
    <3> QED BY <3>1, <3>2, <3>3
  <2> HIDE DEF S, b
  <2> QED BY <2>2
<1>3. Len(o.acceptmbox.q) \in Nat /\ ACCEPTMBOX_SIZE \in Nat
  BY <1>1, NetconnAssumption
<1>4. b.q = (IF Full(o.acceptmbox, ACCEPTMBOX_SIZE) THEN o.acceptmbox.q ELSE Append(o.acceptmbox.q, m))
  <2> HIDE DEF b
  <2> QED BY <1>2, <1>3 DEF Full
<1> HIDE DEF b
<1>5. Offering(o, m) = [o EXCEPT !.acceptmbox = b]
  BY DEF b, Offering
<1> QED BY <1>2, <1>4, <1>5 DEF ConnType, Mbox

(* A post to an acceptmbox keeps the base invariant.                       *)
LEMMA OfferingStep ==
  ASSUME NEW C, NEW P, NEW h, Base(C, P, h), NEW c \in Conns, C[c].acceptmbox.valid,
         NEW m \in Conns \cup {"aborted"}
  PROVE  Base([C EXCEPT ![c] = Offering(C[c], m)], P, h)
<1> DEFINE k == Offering(C[c], m)
           q == C[c].acceptmbox.q
<1>1. /\ C[c] \in ConnType /\ h[c] \in ThreadType /\ ConnOK(C[c], h[c]) /\ [h EXCEPT ![c] = h[c]] = h
      /\ C[c].pcb # NULL => Pair(c, C[c], P[C[c].pcb], h[c])
  BY PairFacts
<1>2. /\ k \in ConnType /\ k.used = C[c].used /\ k.state = C[c].state /\ k.innb = C[c].innb
      /\ k.pcb = C[c].pcb /\ k.msg = C[c].msg /\ k.recvmbox = C[c].recvmbox
      /\ k.fatal = C[c].fatal /\ k.write_offset = C[c].write_offset /\ k.sem = C[c].sem /\ k.api = C[c].api
      /\ k.acceptmbox.valid
      /\ k.acceptmbox.q = (IF Full(C[c].acceptmbox, ACCEPTMBOX_SIZE) THEN q ELSE Append(q, m))
  BY <1>1, OfferingFields
<1> HIDE DEF k
<1>3. ~NulIn(k.acceptmbox.q)
  <2>1. q \in Seq(Conns \cup {"aborted", "nul"}) /\ m # "nul"
    BY <1>1, NetconnAssumption DEF ConnType, Mbox, Messages
  <2>2. ~NulIn(q)
    BY <1>1 DEF ConnOK, Boxes
  <2> HIDE DEF q
  <2>3. ~NulIn(Append(q, m))
    BY <2>1, <2>2 DEF NulIn
  <2> QED BY <1>2, <2>2, <2>3
<1>4. ConnOK(k, h[c])
  <2>1. C[c].state = "LISTEN" /\ h[c].pc # "none"
    BY <1>1, NewMboxIs DEF ConnOK, Control, Boxes, Unaccepted, NoConn
  <2>2. Control(k, h[c])
    BY <1>1, <1>2, <2>1 DEF ConnOK, Control
  <2>3. Boxes(k, h[c])
    BY <1>1, <1>2, <1>3, <2>1 DEF ConnOK, Boxes
  <2>4. Count(k, h[c])
    BY <1>1, <1>2 DEF ConnOK, Count
  <2> QED BY <2>2, <2>3, <2>4 DEF ConnOK
<1>5. k.pcb # NULL => Pair(c, k, P[k.pcb], h[c])
  BY <1>1, <1>2 DEF Pair, Window
<1>6. Base([C EXCEPT ![c] = k], P, [h EXCEPT ![c] = h[c]])
  BY <1>1, <1>2, <1>4, <1>5, ConnStep
<1> QED BY <1>1, <1>6 DEF k

(* A message that is no netconn does not change who is reachable.          *)
LEMMA AbortedReach ==
  ASSUME NEW C \in [Conns -> ConnType], NEW h, Reach(C, h), NEW c \in Conns, C[c].acceptmbox.valid
  PROVE  Reach([C EXCEPT ![c] = Offering(C[c], "aborted")], h)
<1> DEFINE k == Offering(C[c], "aborted")
           C2 == [C EXCEPT ![c] = k]
           q == C[c].acceptmbox.q
<1>1. k.used = C[c].used /\ (k.acceptmbox.q = q \/ k.acceptmbox.q = Append(q, "aborted"))
  <2>1. ASSUME NEW m \in Conns \cup {"aborted"}
        PROVE  /\ Offering(C[c], m).used = C[c].used
               /\ (Offering(C[c], m).acceptmbox.q = q \/ Offering(C[c], m).acceptmbox.q = Append(q, m))
    BY OfferingFields
  <2>2. "aborted" \in Conns \cup {"aborted"}
    OBVIOUS
  <2> QED BY <2>1, <2>2, Zenon
<1> HIDE DEF k
<1>2. C2[c] = k /\ \A d \in Conns : d # c => C2[d] = C[d]
  OBVIOUS
<1>3. q \in Seq(Conns \cup {"aborted", "nul"})
  BY DEF ConnType, Mbox
<1> HIDE DEF C2, q
<1>4. \A n \in Conns : n # "aborted"
  BY NetconnAssumption DEF Messages
<1>5. \A n \in Conns : \A i \in Nat : InQueue(C2, c, i, n) <=> InQueue(C, c, i, n)
  BY <1>1, <1>2, <1>3, <1>4 DEF InQueue, q
<1>6. \A d, n \in Conns : \A i \in Nat : InQueue(C2, d, i, n) <=> InQueue(C, d, i, n)
  BY <1>2, <1>5 DEF InQueue
<1>7. \A d \in Conns : C2[d].used <=> C[d].used
  BY <1>1, <1>2
<1>8. Reach(C2, h)
  BY <1>6, <1>7, ReachSame
<1> QED BY <1>8 DEF C2, k

(* What PostTo does.                                                       *)
LEMMA PostToIs ==
  ASSUME NEW C \in [Conns -> ConnType], NEW P, NEW y, Is(y, C, P), NEW c \in Conns, NEW m
  PROVE  Is(PostTo(y, c, m), [C EXCEPT ![c] = Offering(C[c], m)], P)
<1> DEFINE t == PostTo(y, c, m)
<1>1. t.pcb = P /\ t.failed = FALSE
  BY DEF Is, PostTo
<1>2. t.conn = [C EXCEPT ![c] = Offering(C[c], m)]
  BY DEF Is, PostTo, Offering
<1>3. t \in [conn : {t.conn}, pcb : {t.pcb}, failed : {t.failed}]
  BY DEF Is, PostTo
<1> HIDE DEF t
<1>4. Is(t, [C EXCEPT ![c] = Offering(C[c], m)], P)
  BY <1>1, <1>2, <1>3 DEF Is
<1> QED BY <1>4 DEF t

(* The cases of accept_function.                                           *)
LEMMA AcceptCases ==
  ASSUME NEW y, NEW c, NEW p, NEW n, NEW A, A = accept_function(y, c, p, n)
  PROVE  \/ ~y.conn[c].acceptmbox.valid /\ A.s = y /\ ~A.ok
         \/ /\ y.conn[c].acceptmbox.valid /\ (p = NULL \/ n = NULL)
            /\ A.s = PostTo(y, c, "aborted") /\ ~A.ok
         \/ /\ y.conn[c].acceptmbox.valid /\ ~(p = NULL \/ n = NULL)
            /\ Full(y.conn[c].acceptmbox, ACCEPTMBOX_SIZE)
            /\ A.s = Undone(Ready(y, p, n), p, n) /\ ~A.ok
         \/ /\ y.conn[c].acceptmbox.valid /\ ~(p = NULL \/ n = NULL)
            /\ ~Full(y.conn[c].acceptmbox, ACCEPTMBOX_SIZE)
            /\ A.s = PostTo(Ready(y, p, n), c, n) /\ A.ok
<1> DEFINE a == PostTo(y, c, "aborted")
           u == Undone(Ready(y, p, n), p, n)
           o == PostTo(Ready(y, p, n), c, n)
           valid == y.conn[c].acceptmbox.valid
           full == Full(y.conn[c].acceptmbox, ACCEPTMBOX_SIZE)
<1>1. A = IF ~valid THEN [s |-> y, ok |-> FALSE]
          ELSE IF p = NULL \/ n = NULL THEN [s |-> a, ok |-> FALSE]
          ELSE IF full THEN [s |-> u, ok |-> FALSE]
          ELSE [s |-> o, ok |-> TRUE]
  BY Zenon DEF accept_function, PostTo, Undone, Ready, Allocated
<1> HIDE DEF a, u, o, full
<1>2. \/ ~valid /\ A.s = y /\ ~A.ok
      \/ valid /\ (p = NULL \/ n = NULL) /\ A.s = a /\ ~A.ok
      \/ valid /\ ~(p = NULL \/ n = NULL) /\ full /\ A.s = u /\ ~A.ok
      \/ valid /\ ~(p = NULL \/ n = NULL) /\ ~full /\ A.s = o /\ A.ok
  <2>1. CASE ~valid
    BY <1>1, <2>1
  <2>2. CASE valid /\ (p = NULL \/ n = NULL)
    BY <1>1, <2>2
  <2>3. CASE valid /\ ~(p = NULL \/ n = NULL) /\ full
    BY <1>1, <2>3
  <2>4. CASE valid /\ ~(p = NULL \/ n = NULL) /\ ~full
    BY <1>1, <2>4
  <2> QED BY <2>1, <2>2, <2>3, <2>4
<1> QED BY <1>2, Zenon DEF a, u, o, full

(* A SYN takes a free pcb.                                                 *)
LEMMA SynIs ==
  ASSUME NEW C, NEW P \in [Pcbs -> PcbType], NEW y, Is(y, C, P), NEW l \in Pcbs, NEW p \in Pcbs, NEW r
  PROVE  Is([y EXCEPT !.pcb[l].accepts_pending = @ + 1, !.pcb[p] = r], C,
            [P EXCEPT ![l] = [P[l] EXCEPT !.accepts_pending = P[l].accepts_pending + 1], ![p] = r])
<1> DEFINE t == [y EXCEPT !.pcb[l].accepts_pending = @ + 1, !.pcb[p] = r]
<1>1. /\ t.conn = C /\ t.failed = FALSE
      /\ t.pcb = [P EXCEPT ![l] = [P[l] EXCEPT !.accepts_pending = P[l].accepts_pending + 1], ![p] = r]
  BY DEF Is
<1>2. t \in [conn : {t.conn}, pcb : {t.pcb}, failed : {t.failed}]
  BY DEF Is
<1> HIDE DEF t
<1>3. Is(t, C, [P EXCEPT ![l] = [P[l] EXCEPT !.accepts_pending = P[l].accepts_pending + 1], ![p] = r])
  BY <1>1, <1>2 DEF Is
<1> QED BY <1>3, Zenon DEF t

(* Its fields.                                                             *)
LEMMA SynPcbFields ==
  ASSUME NEW c \in Conns, NEW l \in Pcbs
  PROVE  LET r == SynPcb(c, l)
         IN  r \in PcbType /\ PcbOK(r) /\ r.st = "SYN_RCVD" /\ r.arg = c /\ r.listener = l /\ r.pend
<1> DEFINE r == SynPcb(c, l)
<1>1. NoPcb \in PcbType
  BY NoPcbIsOK
<1>2. NoPcb.unread = 0 /\ NoPcb.refused = "none" /\ NoPcb.out = 0
      /\ ~NoPcb.recv /\ ~NoPcb.sent /\ ~NoPcb.poll /\ ~NoPcb.err
  BY DEF NoPcb
<1> HIDE DEF NoPcb
<1>3. /\ r \in PcbType /\ r.st = "SYN_RCVD" /\ r.arg = c /\ r.listener = l /\ r.pend
      /\ r.unread = 0 /\ r.refused = "none" /\ r.out = 0 /\ ~r.recv /\ ~r.sent /\ ~r.poll /\ ~r.err
  BY <1>1, <1>2 DEF SynPcb, PcbType, TcpStates
<1> HIDE DEF r
<1>4. PcbOK(r)
  BY <1>3 DEF PcbOK, Orphan
<1> QED BY <1>3, <1>4 DEF r

(* tcp_listen_input: a SYN arrives.                                        *)
LEMMA ListenInputKeeps ==
  ASSUME NetconnInv, NEW l \in Pcbs, tcp_listen_input(l)
  PROVE  NetconnInv'
<1> DEFINE c == pcb[l].arg
           A == accept_function(Core, c, NULL, NULL)
           p == CHOOSE p \in FreePcbs : TRUE
           s == [Core EXCEPT !.pcb[l].accepts_pending = @ + 1, !.pcb[p] = SynPcb(c, l)]
<1>1. /\ pcb[l].st = "LISTEN" /\ UNCHANGED th /\ Becomes(IF FreePcbs = {} THEN A.s ELSE s)
  BY Zenon DEF tcp_listen_input, SynPcb
<1>2. /\ pcb \in [Pcbs -> PcbType] /\ pcb[l] \in PcbType /\ c \in Conns /\ conn \in [Conns -> ConnType]
      /\ Is(Core, conn, pcb) /\ Base(conn, pcb, th) /\ Reach(conn, th)
  BY <1>1, PcbFacts DEF Owned
<1> HIDE DEF c, A, Core
<1>3. CASE FreePcbs = {}
  <2>1. Becomes(A.s)
    BY <1>1, <1>3, Zenon
  <2>2. CASE A.s = Core
    BY <1>1, <1>2, <2>1, <2>2, BecomesIs DEF NetconnInv
  <2>3. CASE conn[c].acceptmbox.valid /\ A.s = PostTo(Core, c, "aborted")
    <3> DEFINE C2 == [conn EXCEPT ![c] = Offering(conn[c], "aborted")]
    <3>1. Is(A.s, C2, pcb)
      BY <1>2, <2>3, PostToIs
    <3>2. Base(C2, pcb, th)
      <4>1. ASSUME NEW m \in Conns \cup {"aborted"} PROVE Base([conn EXCEPT ![c] = Offering(conn[c], m)], pcb, th)
        BY <1>2, <2>3, OfferingStep
      <4>2. "aborted" \in Conns \cup {"aborted"}
        OBVIOUS
      <4> QED BY <4>1, <4>2, Zenon
    <3>3. Reach(C2, th)
      BY <1>2, <2>3, AbortedReach
    <3> HIDE DEF C2
    <3>4. conn' = C2 /\ pcb' = pcb /\ failed' = FALSE
      BY <2>1, <3>1, BecomesIs
    <3> QED BY <1>1, <3>2, <3>3, <3>4 DEF NetconnInv
  <2>4. Core.conn = conn
    BY DEF Core
  <2>5. A = accept_function(Core, c, NULL, NULL)
    BY DEF A
  <2> QED BY <2>2, <2>3, <2>4, <2>5, AcceptCases
<1>4. CASE FreePcbs # {}
  <2> DEFINE r == SynPcb(c, l)
             o == [pcb[l] EXCEPT !.accepts_pending = pcb[l].accepts_pending + 1]
             P2 == [pcb EXCEPT ![l] = o, ![p] = r]
  <2>1. p \in Pcbs /\ pcb[p].st = "free"
    BY <1>4 DEF FreePcbs
  <2> HIDE DEF p
  <2>2. Is(s, conn, P2)
    BY <1>2, <2>1, SynIs, Zenon
  <2>3. Becomes(s)
    BY <1>1, <1>4, Zenon DEF p
  <2>4. r \in PcbType /\ PcbOK(r) /\ r.st = "SYN_RCVD" /\ r.arg = c /\ r.listener = l /\ r.pend
    BY <1>2, SynPcbFields
  <2>5. o \in PcbType
    BY <1>2 DEF PcbType
  <2>6. r.arg = pcb[l].arg
    BY <2>4 DEF c
  <2> HIDE DEF r, s
  <2>7. Base(conn, P2, th)
    BY <1>1, <1>2, <2>1, <2>4, <2>5, <2>6, SynStep
  <2> HIDE DEF P2
  <2>8. conn' = conn /\ pcb' = P2 /\ failed' = FALSE
    BY <2>2, <2>3, BecomesIs
  <2> QED BY <1>1, <1>2, <2>7, <2>8 DEF NetconnInv
<1> QED BY <1>3, <1>4

(* The pcb has another state, but its backlog slot is the same.            *)
LEMMA ForgetMoved ==
  ASSUME pcb \in [Pcbs -> PcbType], NEW p \in Pcbs, Slot(pcb, p), NEW o \in PcbType,
         o.st = "ESTABLISHED", o.listener = pcb[p].listener, o.pend = pcb[p].pend, ~o.err,
         NEW V, V = [pcb EXCEPT ![p] = o]
  PROVE  Forgettable(V, p)
<1>1. V \in [Pcbs -> PcbType] /\ V[p] = o /\ \A q \in Pcbs : q # p => V[q] = pcb[q]
  OBVIOUS
<1>2. V[p].listener = pcb[p].listener /\ V[p].pend = pcb[p].pend /\ V[p].st = "ESTABLISHED" /\ ~V[p].err
  BY <1>1
<1>3. Slot(V, p)
  BY <1>1, <1>2 DEF Slot
<1>4. [Unpended(V, p) EXCEPT ![p] = NoPcb] = [Unpended(pcb, p) EXCEPT ![p] = NoPcb]
  <2>1. V[p].listener = pcb[p].listener /\ V[p].pend = pcb[p].pend /\ \A q \in Pcbs : q # p => V[q] = pcb[q]
    BY <1>1, <1>2
  <2>2. ASSUME NEW z PROVE [Unpended(V, p) EXCEPT ![p] = z] = [Unpended(pcb, p) EXCEPT ![p] = z]
    <3>1. \A q \in Pcbs : q # p => Unpended(V, p)[q] = Unpended(pcb, p)[q]
      BY <2>1 DEF Unpended
    <3>2. Unpended(V, p) = [q \in Pcbs |-> Unpended(V, p)[q]] /\ Unpended(pcb, p) = [q \in Pcbs |-> Unpended(pcb, p)[q]]
      BY DEF Unpended
    <3> QED BY <3>1, <3>2
  <2> QED BY <2>2, Zenon
<1> QED BY <1>1, <1>2, <1>3, <1>4 DEF Forgettable, Purgeable

(* Its slot has been given back already.                                   *)
LEMMA ForgetUnpended ==
  ASSUME pcb \in [Pcbs -> PcbType], NEW p \in Pcbs, NEW W \in [Pcbs -> PcbType], Forgettable(W, p),
         W[p].st = "ESTABLISHED", Unpended(W, p) \in [Pcbs -> PcbType]
  PROVE  Forgettable(Unpended(W, p), p)
<1> DEFINE V == Unpended(W, p)
<1>1. /\ V[p].st = W[p].st /\ V[p].err = W[p].err /\ ~(V[p].listener # NULL /\ V[p].pend)
  BY UnpendedSelf
<1>2. V \in [Pcbs -> PcbType] /\ V = [q \in Pcbs |-> V[q]]
  BY DEF Unpended
<1> HIDE DEF V
<1>3. Purgeable(V, p) /\ ~V[p].err
  BY <1>1 DEF Purgeable, Slot, Forgettable
<1>4. Unpended(V, p) = [q \in Pcbs |-> Unpended(V, p)[q]] /\ \A q \in Pcbs : q # p => Unpended(V, p)[q] = V[q]
  <2>1. \A q \in Pcbs : ~(q = V[p].listener /\ V[p].pend)
    BY <1>1, NetconnAssumption
  <2> QED BY <2>1 DEF Unpended
<1>5. [Unpended(V, p) EXCEPT ![p] = NoPcb] = [V EXCEPT ![p] = NoPcb]
  <2> HIDE DEF NoPcb
  <2> QED BY <1>2, <1>4
<1> QED BY <1>2, <1>3, <1>5 DEF Forgettable, V

(* A connection whose handshake failed is dropped.                         *)
LEMMA ForgetKeeps ==
  ASSUME NEW C, Base(C, pcb, th), Reach(C, th), NEW p \in Pcbs, pcb[p].st = "SYN_RCVD",
         NEW V, Forgettable(V, p), NEW s, Is(s, C, V), Becomes(tcp_abandon(s, p)), UNCHANGED th
  PROVE  NetconnInv'
<1> DEFINE P2 == [Unpended(pcb, p) EXCEPT ![p] = NoPcb]
           R == tcp_abandon(s, p)
<1>1. Is(R, C, P2)
  <2>1. Is(R, C, [Unpended(V, p) EXCEPT ![p] = NoPcb])
    BY AbandonOrphanIs DEF Forgettable
  <2> QED BY <2>1 DEF Forgettable
<1>2. NoPcb \in PcbType /\ PcbOK(NoPcb) /\ LetGo(pcb[p], NoPcb) /\ pcb[p].st \notin Owned
  BY NoPcbIsOK DEF Owned
<1> HIDE DEF NoPcb, R
<1>3. Base(C, P2, th)
  BY <1>2, FreedStep
<1> HIDE DEF P2
<1>4. conn' = C /\ pcb' = P2 /\ failed' = FALSE
  BY <1>1, BecomesIs DEF R
<1> QED BY <1>3, <1>4 DEF NetconnInv

(* Unpended keeps the type.                                                *)
LEMMA UnpendedType ==
  ASSUME NEW P \in [Pcbs -> PcbType], NEW p \in Pcbs, Slot(P, p)
  PROVE  Unpended(P, p) \in [Pcbs -> PcbType]
<1>1. ASSUME NEW q \in Pcbs PROVE Unpended(P, p)[q] \in PcbType
  <2>1. P[q] \in PcbType /\ P[p] \in PcbType
    OBVIOUS
  <2>2. CASE q = p
    BY <2>1, <2>2, UnpendedSelf
  <2>3. CASE q # p /\ q = P[p].listener /\ P[p].pend
    <3>1. Unpended(P, p)[q] = [P[q] EXCEPT !.accepts_pending = P[q].accepts_pending - 1]
      BY <2>3 DEF Unpended
    <3>2. P[q].accepts_pending - 1 \in Nat
      BY <2>3, NetconnAssumption DEF Slot
    <3> QED BY <2>1, <3>1, <3>2 DEF PcbType
  <2>4. CASE q # p /\ ~(q = P[p].listener /\ P[p].pend)
    BY <2>1, <2>4 DEF Unpended
  <2> QED BY <2>2, <2>3, <2>4
<1> QED BY <1>1 DEF Unpended

(* What it does to the state.                                              *)
LEMMA DelayedIs ==
  ASSUME NEW C, NEW P \in [Pcbs -> PcbType], NEW y, Is(y, C, P), NEW p \in Pcbs, NEW l \in Pcbs, l # p,
         P[p].listener = l, ~P[p].pend
  PROVE  Is(tcp_backlog_delayed(y, p), C, Repend(P, p, l))
<1> DEFINE t == [y EXCEPT !.pcb[l].accepts_pending = @ + 1, !.pcb[p].pend = TRUE]
<1>1. tcp_backlog_delayed(y, p) = t
  <2>1. y.pcb[p].listener = l /\ ~y.pcb[p].pend /\ l # NULL
    BY NetconnAssumption DEF Is
  <2> QED BY <2>1, Zenon DEF tcp_backlog_delayed
<1>2. t.conn = C /\ t.failed = FALSE /\ t.pcb = Repend(P, p, l)
  BY DEF Is, Repend
<1>3. t \in [conn : {t.conn}, pcb : {t.pcb}, failed : {t.failed}]
  BY DEF Is
<1> HIDE DEF t
<1> QED BY <1>1, <1>2, <1>3 DEF Is

(* What accept_function made of the pcb and the new netconn.               *)
LEMMA ReadyIs ==
  ASSUME NEW C \in [Conns -> ConnType], NEW P \in [Pcbs -> PcbType], NEW p \in Pcbs, NEW n \in Conns, Slot(P, p),
         P[p].listener # NULL, P[p].pend, NEW u, Is(u, C, Unpended(P, p))
  PROVE  Is(Ready(u, p, n), [C EXCEPT ![n] = NewConn(p)], [P EXCEPT ![p] = SetUp(P[p], n)])
<1> DEFINE l == P[p].listener
           U == Unpended(P, p)
           C1 == [C EXCEPT ![n] = NewConn(p)]
           W == [U EXCEPT ![p] = SetUp(U[p], n)]
           y == setup_tcp(Allocated(u, p, n), n)
<1>1. l \in Pcbs /\ l # p /\ P[l].accepts_pending \in Nat \ {0}
  BY DEF Slot
<1>2. U \in [Pcbs -> PcbType]
  BY UnpendedType
<1>3. /\ U[p] = [P[p] EXCEPT !.pend = FALSE]
      /\ U[l] = [P[l] EXCEPT !.accepts_pending = P[l].accepts_pending - 1]
      /\ \A q \in Pcbs : q # p /\ q # l => U[q] = P[q]
  BY <1>1 DEF Unpended
<1>4. Is(u, C, U)
  OBVIOUS
<1> HIDE DEF U, l
<1>5. Is(Allocated(u, p, n), C1, U)
  <2> DEFINE t == Allocated(u, p, n)
  <2>1. t.conn = C1 /\ t.pcb = U /\ t.failed = FALSE
    BY <1>4 DEF Is, Allocated, NewConn
  <2>2. t \in [conn : {t.conn}, pcb : {t.pcb}, failed : {t.failed}]
    BY <1>4 DEF Is, Allocated
  <2> HIDE DEF t, C1
  <2> QED BY <2>1, <2>2 DEF Is, t
<1>6. C1[n].pcb = p
  BY NewConnFields
<1> HIDE DEF C1
<1>7. Is(y, C1, W)
  BY <1>5, <1>6, SetUpIs
<1>8. /\ SetUp(U[p], n) \in PcbType /\ SetUp(U[p], n).listener = l /\ ~SetUp(U[p], n).pend
  <2>1. U[p] \in PcbType /\ U[p].listener = l /\ ~U[p].pend
    <3>1. P[p] \in PcbType
      OBVIOUS
    <3>2. U[p] \in PcbType
      BY <1>2
    <3>3. ~[P[p] EXCEPT !.pend = FALSE].pend /\ [P[p] EXCEPT !.pend = FALSE].listener = P[p].listener
      BY <3>1 DEF PcbType
    <3> QED BY <1>3, <3>2, <3>3 DEF l
  <2> QED BY <2>1, SetUpFields
<1>9. W \in [Pcbs -> PcbType] /\ W[p] = SetUp(U[p], n) /\ \A q \in Pcbs : q # p => W[q] = U[q]
  BY <1>2, <1>8
<1> HIDE DEF W, y
<1>10. Is(tcp_backlog_delayed(y, p), C1, Repend(W, p, l))
  BY <1>1, <1>7, <1>8, <1>9, DelayedIs
<1>11. Repend(W, p, l) = [P EXCEPT ![p] = SetUp(P[p], n)]
  <2>1. [W[p] EXCEPT !.pend = TRUE] = SetUp(P[p], n)
    <3>1. P[p] \in PcbType /\ P[p].pend = TRUE
      OBVIOUS
    <3> DEFINE o == P[p]
    <3>2. o = [o EXCEPT !.pend = TRUE]
      <4> HIDE DEF o
      <4>1. o \in PcbType /\ o.pend = TRUE
        BY <3>1 DEF o
      <4> QED BY <4>1 DEF PcbType
    <3>3. [SetUp([o EXCEPT !.pend = FALSE], n) EXCEPT !.pend = TRUE] = SetUp([o EXCEPT !.pend = TRUE], n)
      <4>1. o \in PcbType
        BY <3>1
      <4> HIDE DEF o
      <4> QED BY <4>1 DEF SetUp, PcbType
    <3> HIDE DEF o
    <3>4. W[p] = SetUp([o EXCEPT !.pend = FALSE], n)
      BY <1>3, <1>9 DEF o
    <3>5. [W[p] EXCEPT !.pend = TRUE] = SetUp(o, n)
      BY <3>2, <3>3, <3>4, Zenon
    <3> QED BY <3>5, Zenon DEF o
  <2>2. [W[l] EXCEPT !.accepts_pending = W[l].accepts_pending + 1] = P[l]
    <3>1. P[l] \in PcbType
      BY <1>1
    <3>2. W[l] = [P[l] EXCEPT !.accepts_pending = P[l].accepts_pending - 1]
      BY <1>1, <1>3, <1>9
    <3>3. W[l].accepts_pending + 1 = P[l].accepts_pending
      BY <1>1, <3>1, <3>2 DEF PcbType
    <3> QED BY <3>1, <3>2, <3>3 DEF PcbType
  <2>3. \A q \in Pcbs : q # p /\ q # l => W[q] = P[q]
    BY <1>3, <1>9
  <2> QED BY <1>1, <1>9, <2>1, <2>2, <2>3 DEF Repend
<1>12. Ready(u, p, n) = tcp_backlog_delayed(y, p)
  BY DEF Ready, y
<1> QED BY <1>10, <1>11, <1>12 DEF C1

(* The new netconn and the callbacks are taken back.                       *)
LEMMA UndoneIs ==
  ASSUME NEW C \in [Conns -> ConnType], NEW P \in [Pcbs -> PcbType], NEW y, Is(y, C, P), NEW p \in Pcbs, NEW n \in Conns
  PROVE  Is(Undone(y, p, n), [C EXCEPT ![n] = NoConn], [P EXCEPT ![p] = Detached(P[p])])
<1> DEFINE t == Undone(y, p, n)
<1>1. /\ t.conn = [C EXCEPT ![n] = NoConn] /\ t.failed = FALSE
  BY DEF Is, Undone
<1>2. t.pcb = [P EXCEPT ![p] = Detached(P[p])]
  BY DEF Is, Undone, Detached
<1>3. t \in [conn : {t.conn}, pcb : {t.pcb}, failed : {t.failed}]
  BY DEF Is, Undone
<1> HIDE DEF t, NoConn
<1>4. Is(t, [C EXCEPT ![n] = NoConn], [P EXCEPT ![p] = Detached(P[p])])
  BY <1>1, <1>2, <1>3 DEF Is
<1> QED BY <1>4 DEF t

(* A new netconn n in the acceptmbox of c is reachable there and only      *)
(* there.                                                                  *)
LEMMA ReachNew ==
  ASSUME NEW C \in [Conns -> ConnType], NEW h, Reach(C, h), NEW c \in Conns, NEW n \in Conns, n # c,
         ~C[n].used, h[n].pc = "none", C[n].acceptmbox.q = <<>>,
         NEW k1, k1.used, k1.acceptmbox.q = <<>>,
         NEW k2, k2.used = C[c].used, k2.acceptmbox.q = Append(C[c].acceptmbox.q, n),
         NEW C2, C2 = [C EXCEPT ![n] = k1, ![c] = k2]
  PROVE  Reach(C2, h)
<1> DEFINE q == C[c].acceptmbox.q
           e == Len(q) + 1
<1>1. C2[n] = k1 /\ C2[c] = k2 /\ \A d \in Conns : d # n /\ d # c => C2[d] = C[d]
  OBVIOUS
<1>2. q \in Seq(Conns \cup {"aborted", "nul"}) /\ Append(q, n) \in Seq(Conns \cup {"aborted", "nul"})
  BY DEF ConnType, Mbox
<1>3. /\ e \in Nat
      /\ \A i : i \in DOMAIN Append(q, n) <=> i \in DOMAIN q \/ i = e
      /\ e \notin DOMAIN q /\ Append(q, n)[e] = n /\ \A i \in DOMAIN q : Append(q, n)[i] = q[i]
  <2>1. \A i : i \in DOMAIN q <=> i \in Nat /\ 1 <= i /\ i <= Len(q)
    BY <1>2
  <2>2. \A i : i \in DOMAIN Append(q, n) <=> i \in Nat /\ 1 <= i /\ i <= e
    BY <1>2
  <2>3. Append(q, n)[e] = n /\ \A i \in DOMAIN q : Append(q, n)[i] = q[i]
    BY <1>2, <2>1
  <2>4. Len(q) \in Nat
    BY <1>2
  <2> HIDE DEF q
  <2> QED BY <2>1, <2>2, <2>3, <2>4
<1> HIDE DEF e
<1>4. \A i, m : InQueue(C2, c, i, m) <=> InQueue(C, c, i, m) \/ (i = e /\ m = n)
  <2> DEFINE z == Append(q, n)
  <2>1. \A i, m : InQueue(C2, c, i, m) <=> i \in DOMAIN z /\ z[i] = m
    BY <1>1 DEF InQueue
  <2>2. \A i, m : InQueue(C, c, i, m) <=> i \in DOMAIN q /\ q[i] = m
    BY DEF InQueue
  <2>3. /\ \A i : i \in DOMAIN z <=> i \in DOMAIN q \/ i = e
        /\ e \notin DOMAIN q /\ z[e] = n /\ \A i \in DOMAIN q : z[i] = q[i]
    BY <1>3
  <2> HIDE DEF q, z, InQueue
  <2> SUFFICES ASSUME NEW i, NEW m PROVE InQueue(C2, c, i, m) <=> InQueue(C, c, i, m) \/ (i = e /\ m = n)
    OBVIOUS
  <2>4. CASE i = e
    BY <2>1, <2>2, <2>3, <2>4
  <2>5. CASE i # e
    <3>1. (i \in DOMAIN z <=> i \in DOMAIN q) /\ (i \in DOMAIN q => z[i] = q[i])
      BY <2>3, <2>5
    <3>2. (InQueue(C2, c, i, m) <=> i \in DOMAIN z /\ z[i] = m) /\ (InQueue(C, c, i, m) <=> i \in DOMAIN q /\ q[i] = m)
      BY <2>1, <2>2
    <3> QED BY <2>5, <3>1, <3>2
  <2> QED BY <2>4, <2>5
<1>5. \A d \in Conns : d # c => \A i, m : InQueue(C2, d, i, m) <=> InQueue(C, d, i, m)
  BY <1>1 DEF InQueue
<1>6. \A d \in Conns : \A i \in Nat : ~InQueue(C, d, i, n) /\ h[d].item # n
  BY DEF Reach
<1>7. \A d \in Conns : C2[d].used <=> C[d].used \/ d = n
  BY <1>1
<1> HIDE DEF InQueue, q
<1>0. \A d \in Conns : \A i, m : InQueue(C2, d, i, m) <=> InQueue(C, d, i, m) \/ (d = c /\ i = e /\ m = n)
  BY <1>4, <1>5
<1>8. \A d, m \in Conns : h[d].item = m \/ (\E i \in Nat : InQueue(C2, d, i, m)) => C2[m].used /\ h[m].pc = "none"
  <2>1. \A d, m \in Conns : h[d].item = m => C2[m].used /\ h[m].pc = "none"
    BY <1>7 DEF Reach
  <2>2. \A d, m \in Conns : \A i \in Nat : InQueue(C2, d, i, m) => C2[m].used /\ h[m].pc = "none"
    <3> SUFFICES ASSUME NEW d \in Conns, NEW m \in Conns, NEW i \in Nat, InQueue(C2, d, i, m)
                 PROVE  C2[m].used /\ h[m].pc = "none"
      OBVIOUS
    <3>1. CASE InQueue(C, d, i, m)
      BY <1>7, <3>1 DEF Reach
    <3>2. CASE m = n
      BY <1>7, <3>2
    <3> QED BY <1>0, <3>1, <3>2
  <2> QED BY <2>1, <2>2
<1>9. \A d, f, m \in Conns : h[d].item = m /\ h[f].item = m => d = f
  BY DEF Reach
<1>10. \A d, f, m \in Conns : \A i \in Nat : ~(InQueue(C2, d, i, m) /\ h[f].item = m)
  <2> SUFFICES ASSUME NEW d \in Conns, NEW f \in Conns, NEW m \in Conns, NEW i \in Nat,
                      InQueue(C2, d, i, m), h[f].item = m
               PROVE  FALSE
    OBVIOUS
  <2>1. CASE InQueue(C, d, i, m)
    BY <2>1 DEF Reach
  <2>2. CASE m = n
    BY <1>6, <2>2
  <2> QED BY <1>0, <2>1, <2>2
<1>11. \A d, f, m \in Conns : \A i, j \in Nat : InQueue(C2, d, i, m) /\ InQueue(C2, f, j, m) => d = f /\ i = j
  <2> SUFFICES ASSUME NEW d \in Conns, NEW f \in Conns, NEW m \in Conns, NEW i \in Nat, NEW j \in Nat,
                      InQueue(C2, d, i, m), InQueue(C2, f, j, m)
               PROVE  d = f /\ i = j
    OBVIOUS
  <2>1. CASE m = n
    <3>1. d = c /\ i = e /\ f = c /\ j = e
      BY <1>0, <1>6, <2>1
    <3> QED BY <3>1
  <2>2. CASE m # n
    <3>1. InQueue(C, d, i, m) /\ InQueue(C, f, j, m)
      BY <1>4, <1>5, <2>2
    <3> QED BY <3>1 DEF Reach
  <2> QED BY <2>1, <2>2
<1>12. \A m \in Conns : C2[m].used /\ h[m].pc = "none" =>
         \E d \in Conns : h[d].item = m \/ \E i \in Nat : InQueue(C2, d, i, m)
  <2> SUFFICES ASSUME NEW m \in Conns, C2[m].used, h[m].pc = "none"
               PROVE  \E d \in Conns : h[d].item = m \/ \E i \in Nat : InQueue(C2, d, i, m)
    OBVIOUS
  <2>1. CASE m = n
    BY <1>3, <1>4, <2>1
  <2>2. CASE m # n
    <3>1. PICK d \in Conns : h[d].item = m \/ \E i \in Nat : InQueue(C, d, i, m)
      BY <1>7, <2>2 DEF Reach
    <3> QED BY <1>4, <1>5, <3>1
  <2> QED BY <2>1, <2>2
<1> QED BY <1>8, <1>9, <1>10, <1>11, <1>12 DEF Reach

(* The new netconn n is in the acceptmbox of c.                            *)
LEMMA AcceptedStep ==
  ASSUME NEW C, NEW P, NEW h, Base(C, P, h), Reach(C, h), NEW p \in Pcbs, P[p].st = "SYN_RCVD",
         NEW c \in Conns, C[c].acceptmbox.valid, ~Full(C[c].acceptmbox, ACCEPTMBOX_SIZE),
         NEW n \in Conns, ~C[n].used,
         NEW r, r = SetUp(InState(P[p], "ESTABLISHED"), n),
         NEW C1, C1 = [C EXCEPT ![n] = NewConn(p)], NEW C2, C2 = [C1 EXCEPT ![c] = Offering(C1[c], n)]
  PROVE  Base(C2, [P EXCEPT ![p] = r], h) /\ Reach(C2, h)
<1>1. /\ C[n] \in ConnType /\ h[n] \in ThreadType /\ ConnOK(C[n], h[n]) /\ [h EXCEPT ![n] = h[n]] = h
      /\ C \in [Conns -> ConnType] /\ P \in [Pcbs -> PcbType]
  BY PairFacts
<1>2. C[c] \in ConnType /\ ConnOK(C[c], h[c])
  BY PairFacts
<1>3. P[p] \in PcbType /\ PcbOK(P[p])
  BY <1>1 DEF Base
<1>4. C[n] = NoConn /\ h[n].pc = "none" /\ h[n].item = NULL
  <2>1. h[n].pc = "none"
    BY <1>1 DEF ConnOK, Control
  <2>2. C[n] = NoConn
    BY <1>1, <2>1 DEF ConnOK, Control, Unaccepted
  <2> QED BY <1>1, <2>1, <2>2 DEF ConnOK, Boxes
<1>5. C[c].used /\ c # n
  <2>1. ~NoConn.acceptmbox.valid
    BY NewMboxIs DEF NoConn
  <2>2. C[c] # NoConn
    BY <2>1
  <2> QED BY <1>2, <1>4, <2>2 DEF ConnOK, Control, Unaccepted
<1>6. /\ r \in PcbType /\ r.st = "ESTABLISHED" /\ r.arg = n /\ r.listener = P[p].listener
      /\ r.recv /\ r.sent /\ r.poll /\ r.err /\ r.accepts_pending = P[p].accepts_pending
      /\ r.refused = P[p].refused /\ r.out = P[p].out /\ r.pend = P[p].pend /\ r.unread = P[p].unread
  <2> DEFINE i == InState(P[p], "ESTABLISHED")
  <2>1. /\ i \in PcbType /\ i.st = "ESTABLISHED" /\ i.listener = P[p].listener
        /\ i.accepts_pending = P[p].accepts_pending
        /\ i.refused = P[p].refused /\ i.out = P[p].out /\ i.pend = P[p].pend /\ i.unread = P[p].unread
    <3>1. ASSUME NEW st \in TcpStates
          PROVE  LET z == InState(P[p], st)
                 IN  /\ z \in PcbType /\ z.st = st /\ z.listener = P[p].listener
                     /\ z.accepts_pending = P[p].accepts_pending
                     /\ z.refused = P[p].refused /\ z.out = P[p].out /\ z.pend = P[p].pend /\ z.unread = P[p].unread
      BY <1>3, InStateFields
    <3>2. "ESTABLISHED" \in TcpStates
      BY DEF TcpStates
    <3> QED BY <3>1, <3>2, Zenon
  <2>2. r = SetUp(i, n)
    OBVIOUS
  <2> HIDE DEF i
  <2> QED BY <2>1, <2>2, SetUpFields
<1>7. PcbOK(r) /\ BacklogKept(P[p], r) /\ r.unread = 0 /\ r.refused = "none"
  <2>1. r.unread = 0 /\ r.refused = "none" /\ r.out = 0
    BY <1>3, <1>6 DEF PcbOK
  <2> QED BY <1>6, <2>1 DEF PcbOK, BacklogKept, Orphan
<1> DEFINE k == NewConn(p)
<1>8. /\ k \in ConnType /\ k.used /\ k.state = "NONE" /\ ~k.innb /\ k.pcb = p /\ ~k.msg
      /\ k.recvmbox = NewMbox /\ k.acceptmbox = NoMbox /\ k.write_offset = 0 /\ k.sem = 0
      /\ k.api = NoMsg
  BY NewConnFields
<1> HIDE DEF k
<1>9. ConnOK(k, h[n])
  <2>1. Control(k, h[n])
    BY <1>4, <1>8, NetconnAssumption DEF Control, Unaccepted, Waits, Quiet
  <2>2. Boxes(k, h[n])
    BY <1>4, <1>8, NewMboxIs, NetconnAssumption DEF Boxes
  <2>3. Count(k, h[n])
    BY <1>4, <1>8 DEF Count
  <2> QED BY <2>1, <2>2, <2>3 DEF ConnOK
<1>10. Pair(n, k, r, h[n])
  <2>1. Window(k, r, h[n])
    <3>1. Taken(h[n]) = 0
      BY <1>4 DEF Taken
    <3> QED BY <1>7, <1>8, <3>1, NewMboxIs DEF Window
  <2> QED BY <1>4, <1>6, <1>8, <2>1 DEF Pair, Owned
<1>11. Base(C1, [P EXCEPT ![p] = r], h)
  <2>1. C[n].pcb = NULL /\ P[p].st \notin Owned /\ k.pcb # NULL
    BY <1>4, <1>8, NetconnAssumption DEF NoConn, Owned
  <2>2. Base([C EXCEPT ![n] = k], [P EXCEPT ![p] = r], [h EXCEPT ![n] = h[n]])
    BY <1>1, <1>6, <1>7, <1>8, <1>9, <1>10, <2>1, PairStep
  <2> QED BY <1>1, <2>2 DEF k
<1>12. C1[c] = C[c] /\ C1[n] = k
  BY <1>1, <1>5 DEF k
<1>13. Base(C2, [P EXCEPT ![p] = r], h)
  BY <1>11, <1>12, OfferingStep
<1>14. Reach(C2, h)
  <2> DEFINE k2 == Offering(C[c], n)
  <2>1. k2.used = C[c].used /\ k2.acceptmbox.q = Append(C[c].acceptmbox.q, n)
    BY <1>2, OfferingFields
  <2> HIDE DEF k2
  <2>2. C2 = [C EXCEPT ![n] = k, ![c] = k2]
    BY <1>12 DEF k, k2
  <2>3. C[n].acceptmbox.q = <<>> /\ k.acceptmbox.q = <<>>
    BY <1>4, <1>8, NewMboxIs DEF NoConn
  <2>4. /\ n # c /\ ~C[n].used /\ h[n].pc = "none" /\ C[n].acceptmbox.q = <<>> /\ k.used /\ k.acceptmbox.q = <<>>
        /\ k2.used = C[c].used /\ k2.acceptmbox.q = Append(C[c].acceptmbox.q, n) /\ C \in [Conns -> ConnType]
    BY <1>1, <1>4, <1>5, <1>8, <2>1, <2>3
  <2>5. ASSUME NEW D, D = [C EXCEPT ![n] = k, ![c] = k2] PROVE Reach(D, h)
    BY <2>4, <2>5, ReachNew
  <2> QED BY <2>2, <2>5
<1> QED BY <1>13, <1>14

(* The state when the ACK of a SYN|ACK arrives: s has the pcb established. *)
LEMMA SynRcvd ==
  ASSUME NetconnInv, NEW p \in Pcbs, pcb[p].st = "SYN_RCVD",
         NEW s, s = [Core EXCEPT !.pcb[p].st = "ESTABLISHED"],
         NEW i, i = InState(pcb[p], "ESTABLISHED"), NEW V, V = [pcb EXCEPT ![p] = i]
  PROVE  /\ i \in PcbType /\ i.st = "ESTABLISHED" /\ i.listener = pcb[p].listener /\ i.pend = pcb[p].pend
         /\ Is(s, conn, V) /\ V[p] = i /\ Slot(V, p) /\ Forgettable(V, p)
         /\ pcb[p].pend
<1>1. /\ pcb \in [Pcbs -> PcbType] /\ pcb[p] \in PcbType /\ PcbOK(pcb[p]) /\ Slot(pcb, p) /\ Is(Core, conn, pcb)
  BY PcbFacts
<1>2. /\ i \in PcbType /\ i.st = "ESTABLISHED" /\ i.listener = pcb[p].listener /\ i.err = pcb[p].err
      /\ i.pend = pcb[p].pend
  <2>1. ASSUME NEW st \in TcpStates
        PROVE  LET z == InState(pcb[p], st)
               IN  /\ z \in PcbType /\ z.st = st /\ z.listener = pcb[p].listener /\ z.err = pcb[p].err
                   /\ z.pend = pcb[p].pend
    BY <1>1, InStateFields
  <2>2. "ESTABLISHED" \in TcpStates
    BY DEF TcpStates
  <2> QED BY <2>1, <2>2, Zenon
<1>3. ~pcb[p].err /\ pcb[p].pend
  BY <1>1 DEF PcbOK
<1>4. Is(s, conn, V)
  <2> HIDE DEF Core
  <2> QED BY <1>1, InStateIs, Zenon
<1>5. Forgettable(V, p)
  <2>1. ~i.err
    BY <1>2, <1>3
  <2> QED BY <1>1, <1>2, <2>1, ForgetMoved
<1>6. V[p] = i
  BY <1>1
<1>7. Slot(V, p)
  BY <1>5 DEF Forgettable, Purgeable
<1> QED BY <1>2, <1>3, <1>4, <1>5, <1>6, <1>7

(* accept_function refuses the connection.                                 *)
LEMMA RefusedConn ==
  ASSUME NetconnInv, NEW p \in Pcbs, pcb[p].st = "SYN_RCVD", NEW V, Forgettable(V, p), NEW u, Is(u, conn, V),
         NEW c \in Conns, NEW y, y = u \/ (conn[c].acceptmbox.valid /\ y = PostTo(u, c, "aborted")),
         Becomes(tcp_abandon(y, p)), UNCHANGED th
  PROVE  NetconnInv'
<1>1. conn \in [Conns -> ConnType] /\ Base(conn, pcb, th) /\ Reach(conn, th)
  BY PcbFacts
<1>2. CASE y = u
  BY <1>1, <1>2, ForgetKeeps
<1>3. CASE conn[c].acceptmbox.valid /\ y = PostTo(u, c, "aborted")
  <2> DEFINE C2 == [conn EXCEPT ![c] = Offering(conn[c], "aborted")]
  <2>1. Is(y, C2, V)
    BY <1>1, <1>3, PostToIs
  <2>2. Base(C2, pcb, th)
    <3>1. ASSUME NEW m \in Conns \cup {"aborted"} PROVE Base([conn EXCEPT ![c] = Offering(conn[c], m)], pcb, th)
      BY <1>1, <1>3, OfferingStep
    <3>2. "aborted" \in Conns \cup {"aborted"}
      OBVIOUS
    <3> QED BY <3>1, <3>2, Zenon
  <2>3. Reach(C2, th)
    BY <1>1, <1>3, AbortedReach
  <2> HIDE DEF C2
  <2> QED BY <2>1, <2>2, <2>3, ForgetKeeps
<1> QED BY <1>2, <1>3

(* The acceptmbox is full: the new netconn is freed again.                 *)
LEMMA UndoneConn ==
  ASSUME NetconnInv, NEW p \in Pcbs, pcb[p].st = "SYN_RCVD", NEW n \in Conns, ~conn[n].used,
         NEW r \in PcbType, r.st = "ESTABLISHED", r.listener = pcb[p].listener, r.pend = pcb[p].pend,
         NEW y, Is(y, [conn EXCEPT ![n] = NewConn(p)], [pcb EXCEPT ![p] = r]),
         Becomes(tcp_abandon(Undone(y, p, n), p)), UNCHANGED th
  PROVE  NetconnInv'
<1> DEFINE C1 == [conn EXCEPT ![n] = NewConn(p)]
           V == [pcb EXCEPT ![p] = r]
           o == Detached(r)
           R == Undone(y, p, n)
<1>1. /\ conn \in [Conns -> ConnType] /\ Base(conn, pcb, th) /\ Reach(conn, th) /\ pcb \in [Pcbs -> PcbType]
      /\ Slot(pcb, p)
  BY PcbFacts
<1>2. C1 \in [Conns -> ConnType] /\ V \in [Pcbs -> PcbType] /\ V[p] = r
  BY <1>1, NewConnFields
<1>3. Is(R, [C1 EXCEPT ![n] = NoConn], [V EXCEPT ![p] = Detached(V[p])])
  <2> HIDE DEF C1, V
  <2>1. Is(y, C1, V)
    BY DEF C1, V
  <2> QED BY <1>2, <2>1, UndoneIs
<1>4. conn[n] = NoConn
  <2>1. ConnOK(conn[n], th[n])
    BY InvFacts
  <2> QED BY <2>1 DEF ConnOK, Control, Unaccepted
<1>5. [C1 EXCEPT ![n] = NoConn] = conn
  BY <1>1, <1>4
<1>6. [V EXCEPT ![p] = Detached(V[p])] = [pcb EXCEPT ![p] = o]
  <2>1. ASSUME NEW z PROVE [V EXCEPT ![p] = z] = [pcb EXCEPT ![p] = z]
    BY <1>1
  <2>2. Detached(V[p]) = o
    BY <1>2
  <2> HIDE DEF V, o
  <2> QED BY <2>1, <2>2
<1>7. o \in PcbType /\ o.st = "ESTABLISHED" /\ o.listener = pcb[p].listener /\ o.pend = pcb[p].pend /\ ~o.err
  BY DetachedFields
<1> HIDE DEF o, R, V, C1
<1>8. Forgettable([pcb EXCEPT ![p] = o], p)
  BY <1>1, <1>7, ForgetMoved
<1>9. Is(R, conn, [pcb EXCEPT ![p] = o])
  BY <1>3, <1>5, <1>6
<1>10. Becomes(tcp_abandon(R, p))
  BY DEF R
<1> QED BY <1>1, <1>8, <1>9, <1>10, ForgetKeeps

(* Handshake: the ACK of a SYN|ACK.                                        *)
LEMMA HandshakeKeeps ==
  ASSUME NetconnInv, NEW p \in Pcbs, NEW n, Handshake(p, n)
  PROVE  NetconnInv'
<1> DEFINE s == [Core EXCEPT !.pcb[p].st = "ESTABLISHED"]
           i == InState(pcb[p], "ESTABLISHED")
           V == [pcb EXCEPT ![p] = i]
           c == pcb[p].arg
           l == pcb[p].listener
           u == tcp_backlog_accepted(s, p)
           A == accept_function(u, c, p, n)
           r == SetUp(i, n)
<1>1. /\ pcb[p].st = "SYN_RCVD" /\ UNCHANGED th
      /\ IF \E d \in Conns : ~conn[d].used THEN n \in Conns /\ ~conn[n].used ELSE n = NULL
      /\ Becomes(IF l = NULL THEN tcp_abandon(s, p) ELSE IF A.ok THEN A.s ELSE tcp_abandon(A.s, p))
  BY Zenon DEF Handshake
<1>2. /\ i \in PcbType /\ i.st = "ESTABLISHED" /\ i.listener = pcb[p].listener /\ i.pend = pcb[p].pend
      /\ Is(s, conn, V) /\ V[p] = i /\ Slot(V, p) /\ Forgettable(V, p) /\ pcb[p].pend
  BY <1>1, SynRcvd, Zenon
<1>3. /\ pcb \in [Pcbs -> PcbType] /\ conn \in [Conns -> ConnType] /\ Base(conn, pcb, th) /\ Reach(conn, th)
  BY PcbFacts
<1>4. V \in [Pcbs -> PcbType] /\ \A z : [V EXCEPT ![p] = z] = [pcb EXCEPT ![p] = z]
  BY <1>2, <1>3
<1> HIDE DEF s, i, V, A, u
<1>5. CASE l = NULL
  <2>1. Becomes(tcp_abandon(s, p))
    BY <1>1, <1>5, Zenon
  <2> QED BY <1>1, <1>2, <1>3, <2>1, ForgetKeeps
<1>6. CASE l # NULL
  <2>1. c \in Conns
    <3>1. Listens(pcb, p)
      BY <1>3 DEF Base, Backlog
    <3>2. l \in Pcbs /\ pcb[l].st = "LISTEN" /\ c = pcb[l].arg
      BY <1>1, <1>3, <1>6, <3>1 DEF Listens, PcbType
    <3>3. pcb[l].arg \in Conns
      <4>1. pcb[l].st \in Owned
        BY <3>2 DEF Owned
      <4> HIDE DEF l
      <4> QED BY <3>2, <4>1, PcbFacts
    <3> QED BY <3>2, <3>3
  <2>2. Is(u, conn, Unpended(V, p))
    BY <1>2, <1>4, BacklogAcceptedIs DEF u
  <2>3. Forgettable(Unpended(V, p), p)
    <3>1. Unpended(V, p) \in [Pcbs -> PcbType]
      BY <1>2, <1>4, UnpendedType
    <3>2. V[p].st = "ESTABLISHED"
      BY <1>2
    <3> QED BY <1>2, <1>3, <1>4, <3>1, <3>2, ForgetUnpended
  <2>4. u.conn = conn
    BY <2>2 DEF Is
  <2> HIDE DEF c
  <2>5. CASE ~A.ok /\ (A.s = u \/ (conn[c].acceptmbox.valid /\ A.s = PostTo(u, c, "aborted")))
    <3>1. Becomes(tcp_abandon(A.s, p))
      BY <1>1, <1>6, <2>5, Zenon
    <3> QED BY <1>1, <2>1, <2>2, <2>3, <2>5, <3>1, RefusedConn
  <2>6. ASSUME n # NULL PROVE n \in Conns /\ ~conn[n].used
    BY <1>1, <2>6
  <2>7. ASSUME n # NULL
        PROVE  Is(Ready(u, p, n), [conn EXCEPT ![n] = NewConn(p)], [pcb EXCEPT ![p] = r])
    <3>1. V[p].listener # NULL /\ V[p].pend
      BY <1>2, <1>6
    <3>2. Is(Ready(u, p, n), [conn EXCEPT ![n] = NewConn(p)], [V EXCEPT ![p] = SetUp(V[p], n)])
      BY <1>2, <1>3, <1>4, <2>2, <2>6, <2>7, <3>1, ReadyIs
    <3> QED BY <1>2, <1>4, <3>2
  <2>8. CASE ~A.ok /\ n # NULL /\ A.s = Undone(Ready(u, p, n), p, n)
    <3>1. Becomes(tcp_abandon(Undone(Ready(u, p, n), p, n), p))
      BY <1>1, <1>6, <2>8, Zenon
    <3>2. r \in PcbType /\ r.st = "ESTABLISHED" /\ r.listener = pcb[p].listener /\ r.pend = pcb[p].pend
      BY <1>2, <2>6, <2>8, SetUpFields
    <3> HIDE DEF r
    <3> QED BY <1>1, <2>6, <2>7, <2>8, <3>1, <3>2, UndoneConn
  <2>9. CASE A.ok /\ n # NULL /\ conn[c].acceptmbox.valid /\ ~Full(conn[c].acceptmbox, ACCEPTMBOX_SIZE)
             /\ A.s = PostTo(Ready(u, p, n), c, n)
    <3> DEFINE C1 == [conn EXCEPT ![n] = NewConn(p)]
               C2 == [C1 EXCEPT ![c] = Offering(C1[c], n)]
               P2 == [pcb EXCEPT ![p] = r]
    <3>1. Becomes(A.s)
      BY <1>1, <1>6, <2>9, Zenon
    <3>2. C1 \in [Conns -> ConnType]
      BY <1>3, <2>6, <2>9, NewConnFields
    <3>3. Is(A.s, C2, P2)
      <4>1. Is(Ready(u, p, n), C1, P2)
        BY <2>7, <2>9
      <4> HIDE DEF C1, P2
      <4> QED BY <2>1, <2>9, <3>2, <4>1, PostToIs
    <3>4. Base(C2, P2, th) /\ Reach(C2, th)
      <4>1. r = SetUp(InState(pcb[p], "ESTABLISHED"), n)
        BY DEF i
      <4> HIDE DEF r
      <4> QED BY <1>1, <1>3, <2>1, <2>6, <2>9, <4>1, AcceptedStep
    <3> HIDE DEF C2, P2
    <3>5. conn' = C2 /\ pcb' = P2 /\ failed' = FALSE
      BY <3>1, <3>3, BecomesIs
    <3> QED BY <1>1, <3>4, <3>5 DEF NetconnInv
  <2>10. A = accept_function(u, c, p, n) /\ p # NULL
    BY NetconnAssumption DEF A, c
  <2> QED BY <2>4, <2>5, <2>8, <2>9, <2>10, AcceptCases
<1> QED BY <1>5, <1>6

-----------------------------------------------------------------------------
(* The invariant holds.                                                    *)

(* The initial state satisfies the invariant.                              *)
LEMMA InitInv == Init => NetconnInv
<1> SUFFICES ASSUME Init PROVE NetconnInv
  OBVIOUS
<1>1. /\ \A c \in Conns : conn[c] = NoConn /\ th[c] = NoThread
      /\ \A p \in Pcbs : pcb[p] = NoPcb
      /\ failed = FALSE
  BY Zenon DEF Init
<1>2. NoConn \in ConnType /\ NoPcb \in PcbType /\ PcbOK(NoPcb)
  BY NoConnIsOK, NoPcbIsOK
<1>3. NoThread \in ThreadType /\ NoThread.pc = "none" /\ NoThread.item = NULL
  BY DEF NoThread, ThreadType, Pcs
<1>4. NoConn.pcb = NULL /\ ~NoConn.used /\ NoConn.acceptmbox.q = <<>>
  BY NewMboxIs DEF NoConn
<1>5. NoPcb.st = "free" /\ NoPcb.listener = NULL
  BY DEF NoPcb
<1>6. Types(conn, pcb, th)
  <2>1. /\ conn = [c \in Conns |-> NoConn] /\ pcb = [p \in Pcbs |-> NoPcb] /\ th = [c \in Conns |-> NoThread]
    BY DEF Init
  <2> HIDE DEF NoConn, NoPcb, NoThread
  <2> QED BY <1>2, <1>3, <2>1 DEF Types
<1> HIDE DEF NoConn, NoPcb, NoThread
<1>7. \A c \in Conns : ConnOK(conn[c], th[c])
  BY <1>1, <1>3, NoConnIsOK
<1>8. \A p \in Pcbs : PcbOK(pcb[p])
  BY <1>1, <1>2
<1>9. Links(conn, pcb, th)
  BY <1>1, <1>4, <1>5 DEF Links, Owned
<1>10. Backlog(pcb)
  BY <1>1, <1>5 DEF Backlog, Listens
<1>11. Reach(conn, th)
  <2>1. \A c \in Conns : th[c].item = NULL /\ conn[c].acceptmbox.q = <<>> /\ ~conn[c].used
    BY <1>1, <1>3, <1>4
  <2>2. \A c, n, i : c \in Conns => ~InQueue(conn, c, i, n)
    BY <2>1 DEF InQueue
  <2>3. \A c, n \in Conns : th[c].item # n
    BY <2>1, NetconnAssumption
  <2> HIDE DEF InQueue
  <2> QED BY <2>1, <2>2, <2>3 DEF Reach
<1> QED BY <1>1, <1>6, <1>7, <1>8, <1>9, <1>10, <1>11 DEF NetconnInv, Base

(* What an application's thread does.                                      *)
LEMMA ThreadKeeps ==
  ASSUME NetconnInv, "WR" \notin Hows, NEW c \in Conns, Thread(c)
  PROVE  NetconnInv'
<1>1. CASE netconn_new(c)
  BY <1>1, NewKeeps
<1>2. CASE netconn_free(c)
  BY <1>2, FreeKeeps
<1>3. CASE Wake(c)
  BY <1>3, WakeKeeps
<1>4. CASE WriteReturns(c)
  BY <1>4, WriteReturnsKeeps
<1>5. ASSUME NEW nb \in BOOLEAN, NEW syn \in BOOLEAN, netconn_connect(c, nb, syn) PROVE NetconnInv'
  BY <1>5, ConnectKeeps
<1>6. ASSUME NEW mbox \in BOOLEAN, netconn_listen(c, mbox) PROVE NetconnInv'
  BY <1>6, ListenKeeps
<1>7. ASSUME NEW nb \in BOOLEAN, NEW timeo \in BOOLEAN, NEW late \in BOOLEAN, NEW mem \in BOOLEAN,
             NEW rte \in BOOLEAN, netconn_write(c, nb, timeo, late, mem, rte)
      PROVE  NetconnInv'
  BY <1>7, WriteKeeps
<1>8. ASSUME NEW shut \in Hows, NEW late \in BOOLEAN, NEW mem \in BOOLEAN, netconn_shutdown(c, shut, late, mem)
      PROVE  NetconnInv'
  BY <1>8, ShutdownKeeps
<1>9. ASSUME NEW late \in BOOLEAN, NEW mem \in BOOLEAN, netconn_delete(c, late, mem) PROVE NetconnInv'
  BY <1>9, DeleteKeeps
<1>10. CASE netconn_recv(c) \/ netconn_accept(c) \/ FetchTimeout(c)
  BY <1>10, WaitingKeeps
<1>11. CASE RecvFetch(c)
  BY <1>11, RecvFetchKeeps
<1>12. CASE lwip_netconn_do_recv(c)
  BY <1>12, DoRecvKeeps
<1>13. CASE RecvEof(c)
  BY <1>13, EofKeeps
<1>14. CASE AcceptFetch(c)
  BY <1>14, AcceptFetchKeeps
<1>15. CASE lwip_netconn_do_accepted(c)
  BY <1>15, DoAcceptedKeeps
<1> QED BY <1>1, <1>2, <1>3, <1>4, <1>5, <1>6, <1>7, <1>8, <1>9, <1>10, <1>11, <1>12, <1>13, <1>14, <1>15, Zenon
           DEF Thread

(* What TCP does.                                                          *)
LEMMA StackKeeps ==
  ASSUME NetconnInv, NEW p \in Pcbs, Stack(p)
  PROVE  NetconnInv'
<1>1. CASE SynAck(p)
  BY <1>1, SynAckKeeps
<1>2. CASE tcp_process_refused_data(p)
  BY <1>2, RefusedKeeps
<1>3. CASE FinAcked(p)
  BY <1>3, FinAckedKeeps
<1>4. CASE PcbDies(p)
  BY <1>4, PcbDiesKeeps
<1>5. CASE TimeWaitOver(p)
  BY <1>5, TimeWaitOverKeeps
<1>6. ASSUME NEW data \in BOOLEAN, NEW fin \in BOOLEAN, NEW next \in TcpStates, Segment(p, data, fin, next)
      PROVE  NetconnInv'
  BY <1>6, SegmentKeeps
<1>7. ASSUME NEW mem \in BOOLEAN, NEW rte \in BOOLEAN, Acked(p, mem, rte) PROVE NetconnInv'
  BY <1>7, AckedKeeps
<1>8. ASSUME NEW mem \in BOOLEAN, NEW rte \in BOOLEAN, Poll(p, mem, rte) PROVE NetconnInv'
  BY <1>8, PollKeeps
<1>9. CASE tcp_listen_input(p)
  BY <1>9, ListenInputKeeps
<1>10. ASSUME NEW n \in Conns \cup {NULL}, Handshake(p, n) PROVE NetconnInv'
  BY <1>10, HandshakeKeeps
<1> QED BY <1>1, <1>2, <1>3, <1>4, <1>5, <1>6, <1>7, <1>8, <1>9, <1>10, Zenon DEF Stack

(* Every step keeps the invariant.                                         *)
LEMMA NextInv ==
  ASSUME NetconnInv, "WR" \notin Hows, [Next]_vars
  PROVE  NetconnInv'
<1>1. ASSUME NEW c \in Conns, Thread(c) PROVE NetconnInv'
  BY <1>1, ThreadKeeps
<1>2. ASSUME NEW c \in Conns, Late(c) PROVE NetconnInv'
  BY <1>2, LateKeeps
<1>3. ASSUME NEW p \in Pcbs, Stack(p) PROVE NetconnInv'
  BY <1>3, StackKeeps
<1>4. CASE UNCHANGED vars
  <2>1. conn' = conn /\ pcb' = pcb /\ th' = th /\ failed' = failed
    BY <1>4 DEF vars
  <2> QED BY <2>1 DEF NetconnInv
<1> QED BY <1>1, <1>2, <1>3, <1>4, Zenon DEF Next

(* NetconnInv is an invariant unless the application shuts down only the   *)
(* sending half of a connection.                                           *)
THEOREM NetconnInvariant ==
  ASSUME "WR" \notin Hows
  PROVE  Spec => []NetconnInv
<1>1. NetconnInv /\ [Next]_vars => NetconnInv'
  BY NextInv
<1> QED BY <1>1, InitInv, PTL DEF Spec

(* TypeOK: every structure of api_msg.c and every pcb stays well-formed.   *)
THEOREM TypeCorrect ==
  ASSUME "WR" \notin Hows
  PROVE  Spec => []TypeOK
<1>1. NetconnInv => TypeOK
  BY Zenon DEF NetconnInv, Base, Types, TypeOK
<1> QED BY <1>1, NetconnInvariant, PTL

(* NoAssertFails: no LWIP_ASSERT of api_msg.c fails, and no callback of    *)
(* TCP runs with a netconn that has been freed.                            *)
THEOREM AssertsHold ==
  ASSUME "WR" \notin Hows
  PROVE  Spec => []NoAssertFails
<1>1. NetconnInv => NoAssertFails
  BY DEF NetconnInv, NoAssertFails
<1> QED BY <1>1, NetconnInvariant, PTL

(* A thread that waits for op_completed is served.                         *)
LEMMA WaitersServed ==
  ASSUME NetconnInv, NEW c \in Conns
  PROVE  IF th[c].pc \in Waits
         THEN \/ conn[c].sem = 1 /\ ~conn[c].msg
              \/ conn[c].sem = 0 /\ conn[c].msg /\ Serves(conn[c].pcb, c)
         ELSE conn[c].sem = 0 /\ ~conn[c].msg
<1>1. /\ conn[c] \in ConnType /\ th[c] \in ThreadType /\ ConnOK(conn[c], th[c])
      /\ conn[c].pcb # NULL => Pair(c, conn[c], pcb[conn[c].pcb], th[c])
  BY InvFacts
<1>2. Control(conn[c], th[c]) /\ conn[c].sem \in {0, 1}
  BY <1>1 DEF ConnOK, ConnType
<1>3. CASE th[c].pc \in Waits /\ conn[c].sem = 1
  BY <1>2, <1>3 DEF Control
<1>4. CASE th[c].pc \in Waits /\ conn[c].sem = 0
  <2>1. conn[c].msg /\ conn[c].state \in {"CONNECT", "WRITE", "CLOSE"} /\ conn[c].pcb # NULL
    BY <1>2, <1>4 DEF Control
  <2>2. Serves(conn[c].pcb, c)
    BY <1>1, <2>1 DEF Serves, Pair, Active, TcpStates
  <2> QED BY <1>4, <2>1, <2>2
<1>5. CASE th[c].pc \notin Waits
  <2>1. th[c].pc \in Quiet \cup {"free", "none"}
    BY <1>1, <1>5 DEF ThreadType, Pcs, Quiet
  <2>2. CASE th[c].pc = "none"
    <3>1. conn[c] = NoConn \/ Unaccepted(conn[c])
      BY <1>2, <2>2 DEF Control
    <3>2. NoConn.sem = 0 /\ ~NoConn.msg
      BY DEF NoConn
    <3> HIDE DEF NoConn
    <3> QED BY <1>5, <3>1, <3>2 DEF Unaccepted
  <2> QED BY <1>2, <1>5, <2>1, <2>2 DEF Control
<1> QED BY <1>2, <1>3, <1>4, <1>5

(* A thread that waits for data is served.                                 *)
LEMMA ReadersServed ==
  ASSUME NetconnInv
  PROVE  ReaderIsServed
<1> SUFFICES ASSUME NEW c \in Conns, th[c].pc = "recv", conn[c].recvmbox.q = <<>>
             PROVE  /\ conn[c].pcb # NULL
                    /\ pcb[conn[c].pcb].recv /\ pcb[conn[c].pcb].err /\ pcb[conn[c].pcb].arg = c
  BY DEF ReaderIsServed, At
<1>1. /\ conn[c] \in ConnType /\ th[c] \in ThreadType /\ ConnOK(conn[c], th[c])
      /\ conn[c].pcb # NULL => Pair(c, conn[c], pcb[conn[c].pcb], th[c])
  BY InvFacts
<1>2. conn[c].pcb # NULL /\ conn[c].recvmbox.valid /\ conn[c].state # "LISTEN"
  BY <1>1 DEF ConnOK, Boxes
<1> QED BY <1>1, <1>2 DEF Pair

(* WaiterIsServed: the thread that waits for op_completed or for data has  *)
(* been signalled or has a pcb whose callbacks lead back to it: no wakeup  *)
(* of api_msg.c is lost or made twice.                                     *)
THEOREM WaitersAreServed ==
  ASSUME "WR" \notin Hows
  PROVE  Spec => []WaiterIsServed
<1>1. NetconnInv => WaiterIsServed
  BY WaitersServed, ReadersServed DEF WaiterIsServed
<1> QED BY <1>1, NetconnInvariant, PTL

(* NoDanglingPcb: conn->pcb is never a freed pcb, and the pcb's            *)
(* callback_arg is the netconn.                                            *)
THEOREM PcbsDoNotDangle ==
  ASSUME "WR" \notin Hows
  PROVE  Spec => []NoDanglingPcb
<1>1. NetconnInv => NoDanglingPcb
  <2>1. ASSUME NetconnInv, NEW c \in Conns, conn[c].pcb # NULL
        PROVE  pcb[conn[c].pcb].st # "free" /\ pcb[conn[c].pcb].arg = c
    <3>1. Pair(c, conn[c], pcb[conn[c].pcb], th[c])
      BY <2>1, InvFacts
    <3> QED BY <3>1 DEF Pair, Owned
  <2> QED BY <2>1 DEF NoDanglingPcb
<1> QED BY <1>1, NetconnInvariant, PTL

(* WindowIsReturned: the receive window that TCP has closed is data in the *)
(* recvmbox, in the reader's hands or refused.                             *)
THEOREM WindowReturned ==
  ASSUME "WR" \notin Hows
  PROVE  Spec => []WindowIsReturned
<1>1. NetconnInv => WindowIsReturned
  <2>1. ASSUME NetconnInv, NEW c \in Conns, conn[c].recvmbox.valid, conn[c].pcb # NULL
        PROVE  pcb[conn[c].pcb].unread = Fetched(c) + (IF pcb[conn[c].pcb].refused = "none" THEN 0 ELSE 1)
                 + DataIn(conn[c].recvmbox.q)
    <3>1. Pair(c, conn[c], pcb[conn[c].pcb], th[c])
      BY <2>1, InvFacts
    <3>2. Fetched(c) = Taken(th[c])
      BY DEF Fetched, Taken, At
    <3> QED BY <2>1, <3>1, <3>2 DEF Pair, Window
  <2> QED BY <2>1 DEF WindowIsReturned
<1> QED BY <1>1, NetconnInvariant, PTL

(* WriteIsCounted: netconn_write_partly reports what it handed to TCP.     *)
THEOREM WritesAreCounted ==
  ASSUME "WR" \notin Hows
  PROVE  Spec => []WriteIsCounted
<1>1. NetconnInv => WriteIsCounted
  <2>1. ASSUME NetconnInv, NEW c \in Conns, th[c].pc = "written", conn[c].api.err = "OK"
        PROVE  conn[c].api.given = (IF conn[c].api.nb \/ conn[c].api.timeo THEN conn[c].api.len ELSE SIZE)
    <3>1. ConnOK(conn[c], th[c])
      BY <2>1, InvFacts
    <3> QED BY <2>1, <3>1 DEF ConnOK, Count
  <2> QED BY <2>1 DEF WriteIsCounted, At
<1> QED BY <1>1, NetconnInvariant, PTL

(* BacklogIsExact: accepts_pending counts the connections of a listening   *)
(* pcb that nobody has accepted, so the backlog neither leaks nor grows.   *)
THEOREM BacklogExact ==
  ASSUME "WR" \notin Hows
  PROVE  Spec => []BacklogIsExact
<1>1. NetconnInv => BacklogIsExact
  BY Zenon DEF NetconnInv, Base, Backlog, Pending, BacklogIsExact
<1> QED BY <1>1, NetconnInvariant, PTL

(* A netconn that nobody uses is held by exactly one.                      *)
LEMMA OneHolder ==
  ASSUME NetconnInv, NEW n \in Conns, NEW H, H = Queued(n) \cup {c \in Conns : th[c].item = n}
  PROVE  IF conn[n].used /\ th[n].pc = "none" THEN Cardinality(H) = 1 ELSE H = {}
<1>1. conn \in [Conns -> ConnType] /\ Reach(conn, th)
  BY InvFacts
<1>2. ASSUME NEW c \in Conns
      PROVE  c \in H <=> th[c].item = n \/ \E i \in Nat : InQueue(conn, c, i, n)
  <2>1. conn[c].acceptmbox.q \in Seq(Conns \cup {"aborted", "nul"})
    BY <1>1 DEF ConnType, Mbox
  <2>2. \A i \in DOMAIN conn[c].acceptmbox.q : i \in Nat
    BY <2>1
  <2>3. (\E i \in DOMAIN conn[c].acceptmbox.q : conn[c].acceptmbox.q[i] = n) <=>
          \E i \in Nat : InQueue(conn, c, i, n)
    BY <2>2, Zenon DEF InQueue
  <2>4. c \in Queued(n) <=> \E i \in Nat : InQueue(conn, c, i, n)
    BY <2>3, Zenon DEF Queued
  <2> HIDE DEF InQueue
  <2> QED BY <2>4
<1>3. H \subseteq Conns
  BY DEF Queued
<1> HIDE DEF InQueue
<1>4. CASE conn[n].used /\ th[n].pc = "none"
  <2>1. PICK c \in Conns : th[c].item = n \/ \E i \in Nat : InQueue(conn, c, i, n)
    BY <1>1, <1>4 DEF Reach
  <2>2. \A d \in H : d = c
    <3> SUFFICES ASSUME NEW d \in H PROVE d = c
      OBVIOUS
    <3>1. d \in Conns /\ (th[d].item = n \/ \E i \in Nat : InQueue(conn, d, i, n))
      BY <1>2, <1>3
    <3>2. \A e, f \in Conns : th[e].item = n /\ th[f].item = n => e = f
      BY <1>1 DEF Reach
    <3>3. \A e, f \in Conns : \A i \in Nat : ~(InQueue(conn, e, i, n) /\ th[f].item = n)
      BY <1>1 DEF Reach
    <3>4. \A e, f \in Conns : \A i, j \in Nat : InQueue(conn, e, i, n) /\ InQueue(conn, f, j, n) => e = f
      BY <1>1 DEF Reach
    <3> QED BY <2>1, <3>1, <3>2, <3>3, <3>4, Zenon
  <2>3. H = {c}
    BY <1>2, <2>1, <2>2
  <2> QED BY <1>4, <2>3, FS_Singleton
<1>5. CASE ~(conn[n].used /\ th[n].pc = "none")
  <2>1. \A c \in Conns : ~(th[c].item = n \/ \E i \in Nat : InQueue(conn, c, i, n))
    BY <1>1, <1>5 DEF Reach
  <2> QED BY <1>2, <1>3, <1>5, <2>1
<1> QED BY <1>4, <1>5

(* ConnIsReachable: a netconn that accept_function allocated is in one     *)
(* acceptmbox or on its way to the application until it is freed or used:  *)
(* it is neither leaked nor delivered twice.                               *)
THEOREM ConnsAreReachable ==
  ASSUME "WR" \notin Hows
  PROVE  Spec => []ConnIsReachable
<1>1. NetconnInv => ConnIsReachable
  BY OneHolder, Zenon DEF ConnIsReachable
<1> QED BY <1>1, NetconnInvariant, PTL
==============================================================================
