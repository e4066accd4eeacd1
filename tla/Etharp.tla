-------------------------------- MODULE Etharp --------------------------------
(***************************************************************************)
(* The ARP cache of one Ethernet netif (etharp.c, with ARP_QUEUEING, as in *)
(* the win32 build): outgoing packets wait on pending entries, entries age *)
(* with etharp_tmr and are recycled when the table is full, and a host may *)
(* come with another hardware address.                                     *)
(*                                                                         *)
(* ARP requests and replies that the stack sends change none of its state: *)
(* hosts may speak at any time, so a message is an answer or not.          *)
(* Broadcast and multicast packets, which do not use the table, are left   *)
(* out.                                                                    *)
(***************************************************************************)
EXTENDS Integers, SequencesExt

CONSTANTS
    Addrs,              \* IP addresses of hosts on the link
    MacsOf,             \* MacsOf[a]: the hardware addresses host a comes with, in any order
    Dests, NextHop,     \* NextHop[d]: d itself, the gateway, or NoRoute
    NoRoute,
    NoMac,
    ARP_TABLE_SIZE, ARP_QUEUE_LEN, MEMP_NUM_ARP_QUEUE,
    ARP_MAXAGE, ARP_AGE_REREQUEST, ARP_MAXPENDING,
    MaxPackets

VARIABLES
    arp_table, etharp_cached_entry,
    heard,              \* the hardware address a host gave last, and the ticks
                        \* since: Unheard once they are ARP_MAXAGE
    wire,               \* the frames of the last step
    packets             \* packets of the IP layer so far: their numbers, too

vars == <<arp_table, etharp_cached_entry, heard, wire, packets>>

ASSUME EtharpAssumption ==
    /\ NextHop \in [Dests -> Addrs \cup {NoRoute}] /\ NoRoute \notin Addrs
    /\ DOMAIN MacsOf = Addrs /\ \A a \in Addrs : NoMac \notin MacsOf[a]
    /\ {ARP_TABLE_SIZE, ARP_QUEUE_LEN, ARP_MAXAGE, ARP_MAXPENDING} \subseteq Nat \ {0}
    /\ {MEMP_NUM_ARP_QUEUE, ARP_AGE_REREQUEST, MaxPackets} \subseteq Nat

Index == 0..(ARP_TABLE_SIZE - 1)

Stable == {"STABLE", "REREQUESTING_1", "REREQUESTING_2"}

Unheard == [mac |-> NoMac, age |-> 0]

EmptyEntry == [state |-> "EMPTY", ipaddr |-> NoRoute, ethaddr |-> NoMac, ctime |-> 0, q |-> <<>>]

Init ==
    /\ arp_table = [i \in Index |-> EmptyEntry] /\ etharp_cached_entry = 0
    /\ heard = [a \in Addrs |-> Unheard]
    /\ wire = <<>> /\ packets = 0

-------------------------------------------------------------------------------
(***************************************************************************)
(* etharp_find_entry.                                                      *)
(***************************************************************************)
\* Only the debug build clears all fields; nothing reads those of an empty entry.
etharp_free_entry(tab, i) == [tab EXCEPT ![i] = EmptyEntry]

Matching(tab, a) == {i \in Index : tab[i].state # "EMPTY" /\ tab[i].ipaddr = a}

\* Of equally old entries the last.
Oldest(tab, S) ==
    CHOOSE i \in S : \A j \in S :
        tab[j].ctime < tab[i].ctime \/ (tab[j].ctime = tab[i].ctime /\ j <= i)

\* The least destructive entry to recycle.
Recycled(tab) ==
    LET empty == {i \in Index : tab[i].state = "EMPTY"}
        old_stable == {i \in Index : tab[i].state \in Stable}
        old_pending == {i \in Index : tab[i].state = "PENDING" /\ tab[i].q = <<>>}
    IN  CASE empty # {} -> Min(empty)
          [] empty = {} /\ old_stable # {} -> Oldest(tab, old_stable)
          [] empty \cup old_stable = {} /\ old_pending # {} -> Oldest(tab, old_pending)
          [] OTHER -> Oldest(tab, Index)

\* With ETHARP_FLAG_TRY_HARD: the table and the index of the entry for a.
etharp_find_entry(tab, a) ==
    IF Matching(tab, a) # {} THEN [tab |-> tab, i |-> Min(Matching(tab, a))]
    ELSE LET i == Recycled(tab)
         IN  [tab |-> [etharp_free_entry(tab, i) EXCEPT ![i].ipaddr = a, ![i].ctime = 0], i |-> i]

-------------------------------------------------------------------------------
(***************************************************************************)
(* etharp_input.                                                           *)
(***************************************************************************)
\* Mutant: the queued packets stay.
Resolved_KeepQueue(tab, i, m) ==
    [tab EXCEPT ![i].state = "STABLE", ![i].ethaddr = m, ![i].ctime = 0]

Resolved(tab, i, m) ==
    [tab EXCEPT ![i].state = "STABLE", ![i].ethaddr = m, ![i].ctime = 0, ![i].q = <<>>]

\* ethernet_output of the packets ps.
Frames(a, m, ps) == [k \in DOMAIN ps |-> [to |-> a, mac |-> m, p |-> ps[k]]]

\* etharp_update_arp_entry: the entry becomes stable and its packets are sent.
etharp_update_arp_entry(a, m, for_us) ==
    IF ~for_us /\ Matching(arp_table, a) = {}
    THEN wire' = <<>> /\ UNCHANGED arp_table
    ELSE \E r \in {etharp_find_entry(arp_table, a)} :
           /\ arp_table' = Resolved(r.tab, r.i, m)
           /\ wire' = Frames(a, m, r.tab[r.i].q)

\* An ARP request or reply of host a, directed to this netif or not.
etharp_input(a, m, for_us) ==
    /\ heard' = [heard EXCEPT ![a] = [mac |-> m, age |-> 0]]
    /\ etharp_update_arp_entry(a, m, for_us)
    /\ UNCHANGED <<etharp_cached_entry, packets>>

-------------------------------------------------------------------------------
(***************************************************************************)
(* etharp_output and etharp_query.                                         *)
(***************************************************************************)
\* etharp_output_to_arp_index for next hop a; asked: the request to refresh the entry was sent.
OutputTo(i, a, p, asked) ==
    /\ arp_table' = IF /\ arp_table[i].state = "STABLE" /\ asked
                       /\ arp_table[i].ctime >= ARP_AGE_REREQUEST
                    THEN [arp_table EXCEPT ![i].state = "REREQUESTING_1"] ELSE arp_table
    /\ wire' = Frames(a, arp_table[i].ethaddr, <<p>>)

\* The elements of the pool in use: a place in a queue each.
Places(tab) == UNION {{i} \X (1..Len(tab[i].q)) : i \in Index}
Queued(tab) == Cardinality(Places(tab))

\* With the queue at its limit the oldest packet goes; with the pool empty the new one.
Enqueue(tab, i, p) ==
    IF Queued(tab) >= MEMP_NUM_ARP_QUEUE THEN tab
    ELSE [tab EXCEPT ![i].q = IF Len(@) >= ARP_QUEUE_LEN THEN Append(Tail(@), p) ELSE Append(@, p)]

\* Mutant: a query for a pending entry makes it young again.
Pend_Again(r) == [r.tab EXCEPT ![r.i].state = IF @ = "EMPTY" THEN "PENDING" ELSE @, ![r.i].ctime = 0]

\* A fresh entry is pending.
Pend(r) == [r.tab EXCEPT ![r.i].state = IF @ = "EMPTY" THEN "PENDING" ELSE @]

\* etharp_query for packet p: etharp_output has found no stable entry.  mem: the
\* packet could be copied.
QueryFor(a, p, mem) ==
    \E r \in {etharp_find_entry(arp_table, a)} : \E tab \in {Pend(r)} :
        /\ arp_table' = IF mem THEN Enqueue(tab, r.i, p) ELSE tab
        /\ wire' = <<>> /\ UNCHANGED etharp_cached_entry

\* Mutant: the cached entry is used without a look at its address.
CacheHit_AnyAddr(a) == arp_table[etharp_cached_entry].state \in Stable

CacheHit(a) ==
    /\ arp_table[etharp_cached_entry].state \in Stable
    /\ arp_table[etharp_cached_entry].ipaddr = a

etharp_output(d, asked, mem) ==
    LET a == NextHop[d]
        stable == {i \in Matching(arp_table, a) : arp_table[i].state \in Stable}
    IN  /\ packets < MaxPackets /\ packets' = packets + 1
        /\ a # NoRoute
        /\ \/ CacheHit(a) /\ OutputTo(etharp_cached_entry, a, packets', asked)
              /\ UNCHANGED etharp_cached_entry
           \/ ~CacheHit(a) /\ stable # {} /\ OutputTo(Min(stable), a, packets', asked)
              /\ etharp_cached_entry' = Min(stable)
           \/ ~CacheHit(a) /\ stable = {} /\ QueryFor(a, packets', mem)
        /\ UNCHANGED heard

\* etharp_query without a packet (dhcp_check).
Query(a) ==
    /\ \E r \in {etharp_find_entry(arp_table, a)} : arp_table' = Pend(r)
    /\ wire' = <<>>
    /\ UNCHANGED <<etharp_cached_entry, heard, packets>>

-------------------------------------------------------------------------------
(***************************************************************************)
(* etharp_tmr and etharp_cleanup_netif.                                    *)
(***************************************************************************)
Aged(e) ==
    LET ctime == e.ctime + 1
    IN  IF e.state = "EMPTY" THEN e
        ELSE IF ctime >= ARP_MAXAGE \/ (e.state = "PENDING" /\ ctime >= ARP_MAXPENDING)
        THEN EmptyEntry
        ELSE [e EXCEPT !.ctime = ctime,
                       !.state = CASE @ = "REREQUESTING_1" -> "REREQUESTING_2"
                                   [] @ = "REREQUESTING_2" -> "STABLE"
                                   [] OTHER -> @]

etharp_tmr ==
    /\ arp_table' = [i \in Index |-> Aged(arp_table[i])]
    /\ heard' = [a \in Addrs |-> IF heard[a].mac = NoMac \/ heard[a].age + 1 = ARP_MAXAGE THEN Unheard
                                ELSE [heard[a] EXCEPT !.age = @ + 1]]
    /\ wire' = <<>>
    /\ UNCHANGED <<etharp_cached_entry, packets>>

\* The netif goes down.
etharp_cleanup_netif ==
    /\ arp_table' = [i \in Index |-> EmptyEntry]
    /\ wire' = <<>>
    /\ UNCHANGED <<etharp_cached_entry, heard, packets>>

Next ==
    \/ \E a \in Addrs, for_us \in BOOLEAN : \E m \in MacsOf[a] : etharp_input(a, m, for_us)
    \/ \E d \in Dests, asked, mem \in BOOLEAN : etharp_output(d, asked, mem)
    \/ \E a \in Addrs : Query(a)
    \/ etharp_tmr
    \/ etharp_cleanup_netif

Spec == Init /\ [][Next]_vars

\* tcpip_thread calls etharp_tmr every second.
FairSpec == Spec /\ WF_vars(etharp_tmr)

-------------------------------------------------------------------------------
(***************************************************************************)
(* Properties.                                                             *)
(***************************************************************************)
\* The types of the variables.  No entry is as old as ARP_MAXAGE.
Mac == {NoMac} \cup UNION {MacsOf[a] : a \in Addrs}

Entry == [state : {"EMPTY", "PENDING"} \cup Stable, ipaddr : Addrs \cup {NoRoute},
          ethaddr : Mac, ctime : 0..(ARP_MAXAGE - 1), q : Seq(Nat)]

TypeOK ==
    /\ arp_table \in [Index -> Entry] /\ etharp_cached_entry \in Index
    /\ heard \in [Addrs -> [mac : Mac, age : 0..(ARP_MAXAGE - 1)]]
    /\ wire \in Seq([to : Addrs, mac : Mac, p : Nat]) /\ packets \in Nat

\* A frame goes to the hardware address that its next hop gave last, and gave
\* less than ARP_MAXAGE ticks ago: neither the cached index, which outlives the
\* entry it was taken from, nor recycling nor use of an entry can change that.
FramesFindTheirHost == \A k \in DOMAIN wire : heard[wire[k].to].mac = wire[k].mac

Waiting(tab, a) == UNION {Range(tab[i].q) : i \in Matching(tab, a)}

\* Packets for a host are sent once and in the order of etharp_output: when one
\* is sent no older one waits.
SentInOrder ==
    \A k \in DOMAIN wire :
        /\ \A j \in 1..(k - 1) : wire[j].p < wire[k].p
        /\ \A p \in Waiting(arp_table, wire[k].to) : wire[k].p < p

\* An address has one entry at most, no packet is left on a stable entry
\* (the assertion of etharp_find_entry; nothing would send it), and the queues
\* stay within their limit and their pool.
QueuesAreSound ==
    /\ \A a \in Addrs : Cardinality(Matching(arp_table, a)) <= 1
    /\ \A i \in Index : arp_table[i].state # "PENDING" => arp_table[i].q = <<>>
    /\ \A i \in Index : Len(arp_table[i].q) <= ARP_QUEUE_LEN
    /\ Queued(arp_table) <= MEMP_NUM_ARP_QUEUE

\* What becomes of the packets that wait for an address: SentInOrder and
\* QueuesAreSound.
QueuedPackets == SentInOrder /\ QueuesAreSound

Pending(a) == \E i \in Matching(arp_table, a) : arp_table[i].state = "PENDING"

\* An address does not stay pending, whatever is sent to it: it is resolved, or
\* its packets are freed.
PendingEnds == \A a \in Addrs : Pending(a) ~> ~Pending(a)
===============================================================================
