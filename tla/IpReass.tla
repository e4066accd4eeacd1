------------------------------- MODULE IpReass -------------------------------
(***************************************************************************)
(* IPv4 fragmentation and reassembly (ip4_frag.c): ip4_frag cuts each      *)
(* datagram once, the network reorders, duplicates and loses the           *)
(* fragments, and ip4_reass puts them together within its two limits: the  *)
(* pool of ip_reassdata structures and the number of queued pbufs.         *)
(*                                                                         *)
(* A datagram stands for a source, a destination and an IP identification  *)
(* that is not used again while its fragments live.  Its contents are      *)
(* positions 0..Length[d]-1.  The header that ip4_reass copies, checksums  *)
(* and the ICMP time-exceeded message are left out.                        *)
(***************************************************************************)
EXTENDS Integers, SequencesExt

CONSTANTS
    Datagrams,
    Length,             \* Length[d]: bytes after the IP header
    Capacity,           \* mtu - IP_HLEN of the sender's netif
    Unit,               \* bytes per unit of the offset field (8)
    BufSize,            \* bytes of a received fragment that fit one pbuf
    IP_REASS_MAX_PBUFS, MEMP_NUM_REASSDATA, IP_REASS_MAXAGE,
    MaxCopies           \* fragments the network may deliver a second time

VARIABLES
    net,                \* fragments on their way
    reassdatagrams,     \* the list, newest first
    ip_reass_pbufcount,
    passed,             \* what ip4_reass has returned: pairs of datagram and fragments
    copies              \* MaxCopies so far

vars == <<net, reassdatagrams, ip_reass_pbufcount, passed, copies>>

ASSUME IpReassAssumption ==
    /\ Length \in [Datagrams -> Nat \ {0}] /\ Unit \in Nat \ {0} /\ BufSize \in Nat \ {0}
    /\ Capacity \in Nat /\ Capacity >= Unit
    /\ {IP_REASS_MAX_PBUFS, MEMP_NUM_REASSDATA, IP_REASS_MAXAGE, MaxCopies} \subseteq Nat

-------------------------------------------------------------------------------
(***************************************************************************)
(* ip4_frag: fragment n of a datagram of len bytes, n from 0.              *)
(***************************************************************************)
nfb == Capacity \div Unit

Smaller(m, n) == IF m <= n THEN m ELSE n

Fragment(d, n) ==
    LET start == n * nfb * Unit
        left == Length[d] - start
        fragsize == Smaller(left, nfb * Unit)
    IN  [id |-> d, start |-> start, end |-> start + fragsize, mf |-> left > Capacity]

ip4_frag(d) == {Fragment(d, n) : n \in {m \in 0..Length[d] : m * nfb * Unit < Length[d]}}

Init ==
    /\ net = UNION {ip4_frag(d) : d \in Datagrams}
    /\ reassdatagrams = <<>> /\ ip_reass_pbufcount = 0
    /\ passed = {} /\ copies = 0

-------------------------------------------------------------------------------
(***************************************************************************)
(* Freeing queued datagrams.                                               *)
(***************************************************************************)
pbuf_clen(f) == 1 + (f.end - f.start - 1) \div BufSize

\* Mutant: a fragment counts as one pbuf.
PbufsOf_PerFragment(p) == Len(p)

PbufsOf(p) == FoldSeq(LAMBDA f, n : n + pbuf_clen(f), 0, p)

\* ip_reass_free_complete_datagram for the entries at positions gone.
ip_reass_free_complete_datagram(list, gone) ==
    LET kept == SetToSortSeq((1..Len(list)) \ gone, <)
    IN  [list |-> [i \in 1..Len(kept) |-> list[kept[i]]],
         freed |-> FoldSet(LAMBDA i, n : n + PbufsOf(list[i].p), 0, gone)]

\* Mutant: the timer never gives up.
ip_reass_tmr_Keep ==
    /\ reassdatagrams' = [i \in 1..Len(reassdatagrams) |->
           [reassdatagrams[i] EXCEPT !.timer = IF @ > 0 THEN @ - 1 ELSE 0]]
    /\ UNCHANGED <<net, ip_reass_pbufcount, passed, copies>>

ip_reass_tmr ==
    /\ \E r \in {ip_reass_free_complete_datagram(reassdatagrams,
                   {i \in 1..Len(reassdatagrams) : reassdatagrams[i].timer = 0})} :
           /\ reassdatagrams' = [i \in 1..Len(r.list) |-> [r.list[i] EXCEPT !.timer = @ - 1]]
           /\ ip_reass_pbufcount' = ip_reass_pbufcount - r.freed
    /\ UNCHANGED <<net, passed, copies>>

\* Of two entries the one with the lower timer is older, then the later in the list.
Older(list, i, j) ==
    \/ list[i].timer < list[j].timer
    \/ list[i].timer = list[j].timer /\ i > j

\* ip_reass_remove_oldest_datagram: frees the oldest entries other than that of
\* datagram d, one at least if there is one, until pbufs_needed pbufs are free.
ip_reass_remove_oldest_datagram(list, d, pbufs_needed) ==
    LET others == {i \in 1..Len(list) : list[i].id # d}
        Oldest(n) == {i \in others : Cardinality({j \in others : Older(list, j, i)}) < n}
        Frees(n) == ip_reass_free_complete_datagram(list, Oldest(n))
        enough == {n \in 1..Cardinality(others) :
                     n = Cardinality(others) \/ Frees(n).freed >= pbufs_needed}
    IN  IF others = {} THEN [list |-> list, freed |-> 0] ELSE Frees(Min(enough))

-------------------------------------------------------------------------------
(***************************************************************************)
(* ip_reass_chain_frag_into_datagram_and_validate: p is the sorted chain   *)
(* of fragments, k of them start before the new fragment f.                *)
(***************************************************************************)
Before(p, f) == Cardinality({i \in 1..Len(p) : p[i].start < f.start})

\* The new fragment is thrown away.  Put in front of all others it may overlap.
Overlaps(p, f) ==
    LET k == Before(p, f)
    IN  \/ \E i \in 1..Len(p) : p[i].start = f.start
        \/ \E i \in 1..k : f.start < p[i].end
        \/ k \in 1..(Len(p) - 1) /\ f.end > p[k + 1].start

\* Mutant: only a fragment at the end of the chain completes it.
NoHoles_AtEnd(p, k, q) == k = Len(p) /\ \A i \in 1..(Len(q) - 1) : q[i].end = q[i + 1].start

\* The chain q is p with the new fragment after the first k.  Where f goes
\* between two fragments the one before it is not compared with it.
NoHoles(p, k, q) ==
    /\ \A i \in 1..(k - 1) : p[i].end = p[i + 1].start
    /\ k = Len(p) /\ k > 0 => q[k].end = q[k + 1].start
    /\ \A i \in (k + 1)..(Len(q) - 1) : q[i].end = q[i + 1].start

\* Mutant: the chain need not start with the first fragment.
Valid_NoStart(e, k, q) == e.lastfrag /\ NoHoles(e.p, k, q)

Valid(e, k, q) == e.lastfrag /\ NoHoles(e.p, k, q) /\ q[1].start = 0

-------------------------------------------------------------------------------
(***************************************************************************)
(* ip4_reass.                                                              *)
(***************************************************************************)
NewEntry(d) ==
    [id |-> d, p |-> <<>>, lastfrag |-> FALSE, datagram_len |-> 0, timer |-> IP_REASS_MAXAGE]

Drop(list, count) ==
    reassdatagrams' = list /\ ip_reass_pbufcount' = count /\ UNCHANGED passed

\* The entry at position i takes the fragment.
Chain(list, count, i, f) ==
    LET e == IF f.mf THEN list[i]
             ELSE [list[i] EXCEPT !.lastfrag = TRUE, !.datagram_len = f.end]
        k == Before(e.p, f)
        q == InsertAt(e.p, k + 1, f)
    IN  IF Overlaps(e.p, f)
        THEN Drop([list EXCEPT ![i] = e], count)
        ELSE IF Valid(e, k, q)
        THEN /\ reassdatagrams' = RemoveAt(list, i)
             /\ ip_reass_pbufcount' = count + pbuf_clen(f) - PbufsOf(q)
             /\ passed' = passed \cup {<<e.id, q>>}
        ELSE /\ reassdatagrams' = [list EXCEPT ![i].p = q, ![i].lastfrag = e.lastfrag,
                                               ![i].datagram_len = e.datagram_len]
             /\ ip_reass_pbufcount' = count + pbuf_clen(f)
             /\ UNCHANGED passed

\* ip_reass_enqueue_new_datagram: an eviction that frees fewer pbufs than the
\* fragment has does not help.
EnqueueNew(list, count, f) ==
    \E r \in {IF Len(list) < MEMP_NUM_REASSDATA THEN [list |-> list, freed |-> 0]
              ELSE ip_reass_remove_oldest_datagram(list, f.id, pbuf_clen(f))} :
        IF Len(list) < MEMP_NUM_REASSDATA \/ r.freed >= pbuf_clen(f)
        THEN Chain(<<NewEntry(f.id)>> \o r.list, count - r.freed, 1, f)
        ELSE Drop(r.list, count - r.freed)

Enqueue(list, count, f) ==
    \/ \E i \in 1..Len(list) : list[i].id = f.id /\ Chain(list, count, i, f)
    \/ (\A i \in 1..Len(list) : list[i].id # f.id) /\ EnqueueNew(list, count, f)

Full(count, f) == count + pbuf_clen(f) > IP_REASS_MAX_PBUFS

ip4_reass(f) ==
    \/ /\ ~Full(ip_reass_pbufcount, f)
       /\ Enqueue(reassdatagrams, ip_reass_pbufcount, f)
    \/ /\ Full(ip_reass_pbufcount, f)
       /\ \E r \in {ip_reass_remove_oldest_datagram(reassdatagrams, f.id, pbuf_clen(f))} :
              LET count == ip_reass_pbufcount - r.freed
              IN  IF r.freed = 0 \/ Full(count, f) THEN Drop(r.list, count)
                  ELSE Enqueue(r.list, count, f)

-------------------------------------------------------------------------------
Arrive(f) == net' = net \ {f} /\ ip4_reass(f) /\ UNCHANGED copies

ArriveCopy(f) ==
    /\ copies < MaxCopies /\ copies' = copies + 1
    /\ ip4_reass(f) /\ UNCHANGED net

Lose(f) ==
    /\ net' = net \ {f}
    /\ UNCHANGED <<reassdatagrams, ip_reass_pbufcount, passed, copies>>

Next ==
    \/ \E f \in net : Arrive(f) \/ ArriveCopy(f) \/ Lose(f)
    \/ ip_reass_tmr

Spec == Init /\ [][Next]_vars

\* tcpip_thread calls ip_reass_tmr every second.
FairSpec == Spec /\ WF_vars(ip_reass_tmr) /\ WF_vars(\E f \in net : Arrive(f))

-------------------------------------------------------------------------------
(***************************************************************************)
(* Properties.                                                             *)
(***************************************************************************)
Pbufs(list) == FoldSeq(LAMBDA e, n :
                   n + FoldSeq(LAMBDA f, m : m + pbuf_clen(f), 0, e.p), 0, list)

\* ip_reass_pbufcount is the number of pbufs queued on all entries, whichever
\* way fragments came and went, and within IP_REASS_MAX_PBUFS; the pool of
\* entries is not exceeded and no entry is empty (ip_reass_free_complete_datagram
\* dereferences its first pbuf).
PbufsAreCounted ==
    /\ ip_reass_pbufcount = Pbufs(reassdatagrams)
    /\ ip_reass_pbufcount <= IP_REASS_MAX_PBUFS
    /\ Len(reassdatagrams) <= MEMP_NUM_REASSDATA
    /\ \A i \in 1..Len(reassdatagrams) : reassdatagrams[i].p # <<>>

Whole(d, p) ==
    /\ p # <<>> /\ p[1].start = 0 /\ p[Len(p)].end = Length[d]
    /\ \A i \in 1..(Len(p) - 1) : p[i].end = p[i + 1].start

\* What ip4_reass returns is the datagram that was sent: no byte is missing,
\* none is there twice, whatever order its fragments came in.
DatagramIsWhole == \A r \in passed : Whole(r[1], r[2])

\* A datagram whose fragments are all queued is passed up, it does not wait for
\* the timer: no order of arrival hides that the last gap was closed.
CompleteIsPassedUp ==
    \A i \in 1..Len(reassdatagrams) : ~Whole(reassdatagrams[i].id, reassdatagrams[i].p)

\* DatagramsAreExact: a datagram is passed up when it is whole, neither before
\* nor after.
DatagramsAreExact == DatagramIsWhole /\ CompleteIsPassedUp

\* Incomplete datagrams do not stay: the timer frees all of them in the end, and
\* their pbufs.
EntriesExpire == <>[](reassdatagrams = <<>> /\ ip_reass_pbufcount = 0)
===============================================================================
