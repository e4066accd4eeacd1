----------------------------- MODULE EtharpProofs -----------------------------
(***************************************************************************)
(* Proofs about the ARP cache, for every set of hosts with any hardware    *)
(* addresses, every table, queue and pool size and every timeout.          *)
(*                                                                         *)
(* The argument: a stable entry holds the hardware address its host gave   *)
(* last (Knows).  It may be older than the host's last word, never         *)
(* younger, so it is removed by etharp_tmr before that word is too old.    *)
(* That needs one entry per address (OneEntry): etharp_find_entry, when it *)
(* recycles an entry, has found none for the address.                      *)
(***************************************************************************)
EXTENDS Etharp, BasicLemmas, FiniteSetTheorems

Table == [Index -> Entry]

(* Packets wait on a pending entry only, in the order of their numbers, at *)
(* most n.                                                                 *)
EntryOK(e, n) ==
    /\ e.state # "EMPTY" => e.ipaddr \in Addrs
    /\ e.state # "PENDING" => e.q = <<>>
    /\ \A j, k \in 1..Len(e.q) : j < k => e.q[j] < e.q[k]
    /\ \A k \in 1..Len(e.q) : e.q[k] <= n
    /\ Len(e.q) <= ARP_QUEUE_LEN

Same(e, f) == e.state # "EMPTY" /\ f.state # "EMPTY" /\ e.ipaddr = f.ipaddr

OneEntry(tab) == \A i, j \in Index : Same(tab[i], tab[j]) => i = j

TableOK(tab, n) ==
    /\ \A i \in Index : EntryOK(tab[i], n)
    /\ OneEntry(tab)
    /\ Queued(tab) <= MEMP_NUM_ARP_QUEUE

(* An entry that is stable knows the last address its host h gave.         *)
EntryKnows(e, h) ==
    e.state \in Stable =>
        /\ h[e.ipaddr].mac = e.ethaddr /\ e.ethaddr # NoMac
        /\ h[e.ipaddr].age <= e.ctime

Knows(tab, h) == \A i \in Index : EntryKnows(tab[i], h)

IInv ==
    /\ TypeOK
    /\ TableOK(arp_table, packets)
    /\ Knows(arp_table, heard)
    /\ FramesFindTheirHost
    /\ SentInOrder

-------------------------------------------------------------------------------
(* The constants, as the proofs use them.                                  *)
LEMMA Constants ==
    /\ ARP_TABLE_SIZE \in Nat /\ ARP_TABLE_SIZE > 0 /\ ARP_QUEUE_LEN \in Nat /\ ARP_QUEUE_LEN > 0
    /\ ARP_MAXAGE \in Nat /\ ARP_MAXAGE > 0 /\ MEMP_NUM_ARP_QUEUE \in Nat /\ MaxPackets \in Nat
    /\ NoRoute \notin Addrs /\ NoMac \in Mac
    /\ \A a \in Addrs : MacsOf[a] \subseteq Mac /\ NoMac \notin MacsOf[a]
<1>1. ARP_TABLE_SIZE \in Nat \ {0} /\ ARP_QUEUE_LEN \in Nat \ {0} /\ ARP_MAXAGE \in Nat \ {0}
      /\ MEMP_NUM_ARP_QUEUE \in Nat /\ MaxPackets \in Nat
  BY EtharpAssumption
<1>2. NoRoute \notin Addrs /\ \A a \in Addrs : NoMac \notin MacsOf[a]
  BY EtharpAssumption, Zenon
<1>3. NoMac \in Mac /\ \A a \in Addrs : MacsOf[a] \subseteq Mac
  <2> DEFINE U == UNION {MacsOf[b] : b \in Addrs}
  <2>1. Mac = {NoMac} \cup U
    BY DEF Mac
  <2>2. \A a \in Addrs : MacsOf[a] \subseteq U
    OBVIOUS
  <2> HIDE DEF U
  <2> QED
    BY <2>1, <2>2
<1> QED
  BY <1>1, <1>2, <1>3

(* The table has a first entry and an end.                                 *)
LEMMA IndexIsFinite == Index \subseteq Nat /\ 0 \in Index /\ IsFiniteSet(Index)
<1>1. Index \subseteq Nat /\ 0 \in Index
  BY Constants DEF Index
<1>2. IsFiniteSet(Index)
  BY Constants, FS_Interval DEF Index
<1> QED
  BY <1>1, <1>2

(* An empty entry.                                                         *)
LEMMA EmptyOK ==
    /\ EmptyEntry \in Entry
    /\ EmptyEntry.state = "EMPTY" /\ EmptyEntry.q = <<>> /\ EmptyEntry.ctime = 0
    /\ EmptyEntry.ipaddr = NoRoute /\ EmptyEntry.ethaddr = NoMac
    /\ \A n \in Nat : EntryOK(EmptyEntry, n)
<1>1. /\ EmptyEntry.state = "EMPTY" /\ EmptyEntry.q = <<>> /\ EmptyEntry.ctime = 0
      /\ EmptyEntry.ipaddr = NoRoute /\ EmptyEntry.ethaddr = NoMac
  BY DEF EmptyEntry
<1>2. EmptyEntry \in Entry
  <2>1. <<>> \in Seq(Nat) /\ 0 \in 0..(ARP_MAXAGE - 1) /\ NoMac \in Mac
    BY Constants
  <2> QED
    BY <2>1 DEF EmptyEntry, Entry
<1>3. \A n \in Nat : EntryOK(EmptyEntry, n)
  BY <1>1, Constants DEF EntryOK
<1> QED
  BY <1>1, <1>2, <1>3

(* The entry that etharp_find_entry recycles exists: the oldest of a set   *)
(* of entries, the last of equally old ones.                               *)
LEMMA OldestExists ==
    ASSUME NEW tab \in Table, NEW S, S \subseteq Index, S # {}
    PROVE  Oldest(tab, S) \in S
<1> DEFINE C == {tab[i].ctime : i \in S}
           c == Max(C)
           T == {i \in S : tab[i].ctime = c}
           m == Max(T)
           b == ARP_MAXAGE - 1
           l == ARP_TABLE_SIZE - 1
<1>1. \A i \in S : tab[i].ctime \in 0..b
  BY DEF Table, Entry
<1>2. C \subseteq 0..b /\ C # {} /\ b \in Nat
  BY <1>1, Constants
<1>3. c \in C /\ \A y \in C : c >= y
  <2> HIDE DEF C, b
  <2> QED
    BY <1>2, MaxIsGreatest
<1>4. c \in Nat /\ \A i \in S : tab[i].ctime <= c /\ tab[i].ctime \in Nat
  BY <1>1, <1>3
<1>5. T \subseteq 0..l /\ T # {} /\ l \in Nat
  <2>1. T \subseteq 0..l /\ l \in Nat
    BY Constants DEF Index
  <2>2. PICK i \in S : tab[i].ctime = c
    BY <1>3
  <2>3. i \in T
    BY <2>2
  <2> QED
    BY <2>1, <2>3
<1> HIDE DEF c, C
<1>6. m \in T /\ \A y \in T : m >= y
  <2> HIDE DEF T, l
  <2> QED
    BY <1>5, MaxIsGreatest
<1>7. m \in S /\ tab[m].ctime = c
  BY <1>6
<1>8. \A j \in S : tab[j].ctime < tab[m].ctime \/ (tab[j].ctime = tab[m].ctime /\ j <= m)
  <2> TAKE j \in S
  <2>1. CASE tab[j].ctime = c
    <3>1. j \in T /\ m \in Nat /\ j \in Nat
      BY <1>5, <1>6, <2>1
    <3> QED
      BY <1>6, <1>7, <2>1, <3>1
  <2>2. CASE tab[j].ctime # c
    BY <1>4, <1>7, <2>2
  <2> QED
    BY <2>1, <2>2
<1> HIDE DEF m
<1> QED
  BY <1>7, <1>8 DEF Oldest

(* etharp_find_entry recycles an entry of the table.                       *)
LEMMA RecycledInTable ==
    ASSUME NEW tab \in Table
    PROVE  Recycled(tab) \in Index
<1> DEFINE empty == {i \in Index : tab[i].state = "EMPTY"}
           stable == {i \in Index : tab[i].state \in Stable}
           pending == {i \in Index : tab[i].state = "PENDING" /\ tab[i].q = <<>>}
<1>1. ASSUME empty # {} PROVE Min(empty) \in Index
  BY <1>1, MinIsLeast, IndexIsFinite
<1>2. ASSUME stable # {} PROVE Oldest(tab, stable) \in Index
  BY <1>2, OldestExists
<1>3. ASSUME pending # {} PROVE Oldest(tab, pending) \in Index
  BY <1>3, OldestExists
<1>4. Oldest(tab, Index) \in Index
  BY OldestExists, IndexIsFinite
<1>5. Recycled(tab) = CASE empty # {} -> Min(empty)
                        [] empty = {} /\ stable # {} -> Oldest(tab, stable)
                        [] empty \cup stable = {} /\ pending # {} -> Oldest(tab, pending)
                        [] OTHER -> Oldest(tab, Index)
  BY DEF Recycled
<1> HIDE DEF empty, stable, pending
<1> QED
  BY <1>1, <1>2, <1>3, <1>4, <1>5

(* What etharp_find_entry returns for a: the entry at i is the one for a,  *)
(* found or fresh, and there is no other.                                  *)
Found(tab, r, a) ==
    /\ r.i \in Index
    /\ \/ r.tab = tab /\ tab[r.i].state # "EMPTY" /\ tab[r.i].ipaddr = a
       \/ /\ \A i \in Index : tab[i].state = "EMPTY" \/ tab[i].ipaddr # a
          /\ r.tab = [tab EXCEPT ![r.i] = [EmptyEntry EXCEPT !.ipaddr = a]]

(* etharp_find_entry gives the entry of the address, or a recycled one if  *)
(* no entry has it.                                                        *)
LEMMA FindOK ==
    ASSUME NEW tab \in Table, NEW a \in Addrs
    PROVE  Found(tab, etharp_find_entry(tab, a), a)
<1> DEFINE r == etharp_find_entry(tab, a)
<1>1. CASE Matching(tab, a) # {}
  <2>1. r = [tab |-> tab, i |-> Min(Matching(tab, a))]
    BY <1>1 DEF etharp_find_entry
  <2>2. Matching(tab, a) \subseteq Nat
    BY IndexIsFinite DEF Matching
  <2>3. Min(Matching(tab, a)) \in Matching(tab, a)
    BY <1>1, <2>2, MinIsLeast
  <2> QED
    BY <2>1, <2>3 DEF Found, Matching
<1>2. CASE Matching(tab, a) = {}
  <2> DEFINE i == Recycled(tab)
             t == [etharp_free_entry(tab, i) EXCEPT ![i].ipaddr = a, ![i].ctime = 0]
  <2>1. r = [tab |-> t, i |-> i]
    BY <1>2 DEF etharp_find_entry
  <2>2. i \in Index
    BY RecycledInTable
  <2> HIDE DEF i
  <2>3. t = [tab EXCEPT ![i] = [EmptyEntry EXCEPT !.ipaddr = a]]
    <3>1. [[EmptyEntry EXCEPT !.ipaddr = a] EXCEPT !.ctime = 0] = [EmptyEntry EXCEPT !.ipaddr = a]
      <4>1. [EmptyEntry EXCEPT !.ipaddr = a] =
              [state |-> "EMPTY", ipaddr |-> a, ethaddr |-> NoMac, ctime |-> 0, q |-> <<>>]
        BY DEF EmptyEntry
      <4> QED
        BY <4>1
    <3>2. etharp_free_entry(tab, i) = [tab EXCEPT ![i] = EmptyEntry]
      BY DEF etharp_free_entry
    <3> QED
      BY <2>2, <3>1, <3>2 DEF Table
  <2>4. \A j \in Index : tab[j].state = "EMPTY" \/ tab[j].ipaddr # a
    BY <1>2 DEF Matching
  <2> HIDE DEF t
  <2> QED
    BY <2>1, <2>2, <2>3, <2>4 DEF Found
<1> QED
  BY <1>1, <1>2

-------------------------------------------------------------------------------
(* The pool.                                                               *)
LEMMA PlacesOf ==
    ASSUME NEW tab
    PROVE  /\ \A x \in Places(tab) : \E i \in Index : \E k \in 1..Len(tab[i].q) : x = <<i, k>>
           /\ \A i \in Index : \A k \in 1..Len(tab[i].q) : <<i, k>> \in Places(tab)
<1>1. \A x \in Places(tab) : \E i \in Index : \E k \in 1..Len(tab[i].q) : x = <<i, k>>
  <2> TAKE x \in Places(tab)
  <2>1. PICK i \in Index : x \in {i} \X (1..Len(tab[i].q))
    BY DEF Places
  <2>2. PICK j \in {i}, k \in 1..Len(tab[i].q) : x = <<j, k>>
    BY <2>1
  <2> QED
    BY <2>2
<1>2. \A i \in Index : \A k \in 1..Len(tab[i].q) : <<i, k>> \in Places(tab)
  <2> TAKE i \in Index
  <2> TAKE k \in 1..Len(tab[i].q)
  <2>1. <<i, k>> \in {i} \X (1..Len(tab[i].q))
    OBVIOUS
  <2> QED
    BY <2>1, Zenon DEF Places
<1> QED
  BY <1>1, <1>2

(* The queued packets can be counted.                                      *)
LEMMA PlacesFinite ==
    ASSUME NEW tab \in Table, \A i \in Index : Len(tab[i].q) <= ARP_QUEUE_LEN
    PROVE  IsFiniteSet(Places(tab)) /\ Queued(tab) \in Nat
<1> DEFINE P == Index \X (1..ARP_QUEUE_LEN)
<1>1. IsFiniteSet(P)
  <2>1. IsFiniteSet(1..ARP_QUEUE_LEN)
    BY FS_Interval, Constants
  <2> QED
    BY <2>1, IndexIsFinite, FS_Product
<1>2. Places(tab) \subseteq P
  <2> SUFFICES ASSUME NEW x \in Places(tab) PROVE x \in P
    OBVIOUS
  <2>1. PICK i \in Index : \E k \in 1..Len(tab[i].q) : x = <<i, k>>
    BY PlacesOf
  <2>2. PICK k \in 1..Len(tab[i].q) : x = <<i, k>>
    BY <2>1
  <2>3. Len(tab[i].q) \in Nat /\ k \in 1..ARP_QUEUE_LEN
    BY Constants DEF Table, Entry
  <2> QED
    BY <2>2, <2>3
<1> HIDE DEF P
<1>3. IsFiniteSet(Places(tab))
  BY <1>1, <1>2, FS_Subset
<1> QED
  BY <1>3, FS_CardinalityType DEF Queued

(* A table whose queues are shorter needs no more of the pool.             *)
LEMMA ShorterQueues ==
    ASSUME NEW tab \in Table, NEW tab2 \in Table,
           \A i \in Index : Len(tab[i].q) <= ARP_QUEUE_LEN,
           \A i \in Index : Len(tab2[i].q) <= Len(tab[i].q)
    PROVE  Queued(tab2) <= Queued(tab)
<1>1. IsFiniteSet(Places(tab))
  BY PlacesFinite
<1>2. Places(tab2) \subseteq Places(tab)
  <2> SUFFICES ASSUME NEW x \in Places(tab2) PROVE x \in Places(tab)
    OBVIOUS
  <2>1. PICK i \in Index : \E k \in 1..Len(tab2[i].q) : x = <<i, k>>
    BY PlacesOf
  <2>2. PICK k \in 1..Len(tab2[i].q) : x = <<i, k>>
    BY <2>1
  <2>3. Len(tab[i].q) \in Nat /\ Len(tab2[i].q) \in Nat
    BY DEF Table, Entry
  <2>4. k \in 1..Len(tab[i].q)
    BY <2>3
  <2> QED
    BY <2>2, <2>4, PlacesOf
<1> QED
  BY <1>1, <1>2, FS_Subset DEF Queued

(* One more packet in one queue needs one more.                            *)
LEMMA OneMorePacket ==
    ASSUME NEW tab \in Table, NEW tab2 \in Table, NEW i \in Index,
           \A j \in Index : Len(tab[j].q) <= ARP_QUEUE_LEN,
           \A j \in Index : j # i => Len(tab2[j].q) = Len(tab[j].q),
           Len(tab2[i].q) = Len(tab[i].q) + 1
    PROVE  Queued(tab2) <= Queued(tab) + 1
<1> DEFINE y == <<i, Len(tab2[i].q)>>
           S == Places(tab)
           T == S \cup {y}
<1>1. IsFiniteSet(S) /\ Cardinality(S) \in Nat
  BY PlacesFinite DEF Queued
<1>2. IsFiniteSet(T) /\ (Cardinality(T) = Cardinality(S) \/ Cardinality(T) = Cardinality(S) + 1)
  BY <1>1, FS_AddElement
<1>3. Places(tab2) \subseteq T
  <2> SUFFICES ASSUME NEW x \in Places(tab2) PROVE x \in T
    OBVIOUS
  <2>1. PICK j \in Index : \E k \in 1..Len(tab2[j].q) : x = <<j, k>>
    BY PlacesOf
  <2>2. PICK k \in 1..Len(tab2[j].q) : x = <<j, k>>
    BY <2>1
  <2>3. Len(tab[j].q) \in Nat /\ Len(tab2[j].q) \in Nat
    BY DEF Table, Entry
  <2>4. CASE k \in 1..Len(tab[j].q)
    BY <2>2, <2>4, PlacesOf
  <2>5. CASE k \notin 1..Len(tab[j].q)
    <3>1. j = i /\ k = Len(tab2[i].q)
      BY <2>3, <2>5
    <3> QED
      BY <2>2, <3>1
  <2> QED
    BY <2>4, <2>5
<1> HIDE DEF T, S
<1>4. Cardinality(Places(tab2)) <= Cardinality(T)
  BY <1>2, <1>3, FS_Subset
<1>5. Cardinality(Places(tab2)) \in Nat
  BY <1>2, <1>3, FS_Subset, FS_CardinalityType
<1> QED
  BY <1>1, <1>2, <1>4, <1>5 DEF Queued, S

-------------------------------------------------------------------------------
(* Changes of the table.                                                   *)
Put(tab, i, e) == [tab EXCEPT ![i] = e]

(* An entry that is sound and the only one of its address may be put into  *)
(* the table.                                                              *)
LEMMA PutOK ==
    ASSUME NEW tab \in Table, NEW n \in Nat, NEW n2 \in Nat, n <= n2, TableOK(tab, n),
           NEW i \in Index, NEW e \in Entry, EntryOK(e, n2),
           \A j \in Index : j # i => ~Same(tab[j], e),
           Queued(Put(tab, i, e)) <= MEMP_NUM_ARP_QUEUE
    PROVE  Put(tab, i, e) \in Table /\ TableOK(Put(tab, i, e), n2)
<1> DEFINE t == Put(tab, i, e)
<1>1. t \in Table /\ t[i] = e /\ \A j \in Index : j # i => t[j] = tab[j]
  BY DEF Put, Table
<1>2. Queued(t) <= MEMP_NUM_ARP_QUEUE
  OBVIOUS
<1> HIDE DEF t
<1>3. \A j \in Index : EntryOK(t[j], n2)
  <2> TAKE j \in Index
  <2>1. CASE j = i
    BY <1>1, <2>1
  <2>2. CASE j # i
    <3>1. EntryOK(tab[j], n) /\ t[j] = tab[j] /\ tab[j].q \in Seq(Nat)
      BY <1>1, <2>2 DEF TableOK, Table, Entry
    <3>2. \A k \in 1..Len(tab[j].q) : tab[j].q[k] <= n2
      <4> TAKE k \in 1..Len(tab[j].q)
      <4>1. tab[j].q[k] \in Nat /\ tab[j].q[k] <= n
        BY <3>1 DEF EntryOK
      <4> QED
        BY <4>1
    <3> QED
      BY <3>1, <3>2 DEF EntryOK
  <2> QED
    BY <2>1, <2>2
<1>4. OneEntry(t)
  <2>1. OneEntry(tab)
    BY DEF TableOK
  <2> SUFFICES ASSUME NEW j \in Index, NEW k \in Index, Same(t[j], t[k]), j # k
               PROVE  FALSE
    BY DEF OneEntry
  <2>2. CASE j # i /\ k # i
    BY <1>1, <2>1, <2>2 DEF OneEntry
  <2>3. CASE j = i
    BY <1>1, <2>3 DEF Same
  <2>4. CASE k = i
    BY <1>1, <2>4 DEF Same
  <2> QED
    BY <2>2, <2>3, <2>4
<1> QED
  BY <1>1, <1>2, <1>3, <1>4 DEF TableOK, t

(* When the new entry's queue is not longer the pool suffices.             *)
LEMMA PutShorter ==
    ASSUME NEW tab \in Table, NEW n \in Nat, TableOK(tab, n),
           NEW i \in Index, NEW e \in Entry, Len(e.q) <= Len(tab[i].q)
    PROVE  Queued(Put(tab, i, e)) <= MEMP_NUM_ARP_QUEUE
<1> DEFINE t == Put(tab, i, e)
<1>1. t \in Table /\ t[i] = e /\ \A j \in Index : j # i => t[j] = tab[j]
  BY DEF Put, Table
<1>2. \A j \in Index : Len(tab[j].q) <= ARP_QUEUE_LEN
  BY DEF TableOK, EntryOK
<1>3. \A j \in Index : Len(tab[j].q) \in Nat /\ Len(t[j].q) \in Nat
  BY <1>1 DEF Table, Entry
<1>4. \A j \in Index : Len(t[j].q) <= Len(tab[j].q)
  BY <1>1, <1>3
<1> HIDE DEF t
<1>5. Queued(t) <= Queued(tab) /\ Queued(tab) <= MEMP_NUM_ARP_QUEUE
  BY <1>1, <1>2, <1>4, ShorterQueues DEF TableOK
<1>6. Queued(t) \in Nat /\ Queued(tab) \in Nat
  <2>1. \A j \in Index : Len(t[j].q) <= ARP_QUEUE_LEN
    BY <1>2, <1>3, <1>4, Constants
  <2> QED
    BY <1>1, <1>2, <2>1, PlacesFinite
<1> QED
  BY <1>5, <1>6, Constants DEF t

(* The table and the knowledge of the stable entries, at once.             *)
Good(tab, n, h) == tab \in Table /\ TableOK(tab, n) /\ Knows(tab, h)

(* The entry at i is the only one for a.                                   *)
OnlyOne(tab, i, a) ==
    /\ i \in Index /\ tab[i].ipaddr = a
    /\ \A j \in Index : j # i => tab[j].state = "EMPTY" \/ tab[j].ipaddr # a

(* No host but a has spoken.                                               *)
OthersSilent(h, h2, a) == \A b \in Addrs : b # a => h2[b] = h[b]

(* The same with what the table knows of the hosts: only the host of the   *)
(* new entry may have spoken.                                              *)
LEMMA PutGood ==
    ASSUME NEW tab, NEW n \in Nat, NEW n2 \in Nat, n <= n2, NEW h, NEW h2, NEW a,
           Good(tab, n, h), NEW i \in Index, OnlyOne(tab, i, a),
           NEW e \in Entry, EntryOK(e, n2), e.ipaddr = a, EntryKnows(e, h2),
           OthersSilent(h, h2, a),
           Queued(Put(tab, i, e)) <= MEMP_NUM_ARP_QUEUE
    PROVE  Good(Put(tab, i, e), n2, h2) /\ OnlyOne(Put(tab, i, e), i, a)
<1> DEFINE t == Put(tab, i, e)
<1>1. tab \in Table /\ TableOK(tab, n) /\ Knows(tab, h)
  BY DEF Good
<1>2. t \in Table /\ t[i] = e /\ \A j \in Index : j # i => t[j] = tab[j]
  BY <1>1 DEF Put, Table
<1>3. \A j \in Index : j # i => ~Same(tab[j], e)
  BY DEF OnlyOne, Same
<1>4. TableOK(t, n2)
  BY <1>1, <1>3, PutOK
<1>5. Knows(t, h2)
  <2> SUFFICES ASSUME NEW j \in Index, t[j].state \in Stable
               PROVE  EntryKnows(t[j], h2)
    BY DEF Knows, EntryKnows
  <2>1. CASE j = i
    BY <1>2, <2>1
  <2>2. CASE j # i
    <3>1. t[j] = tab[j] /\ tab[j].state # "EMPTY"
      BY <1>2, <2>2 DEF Stable
    <3>2. tab[j].ipaddr # a /\ EntryKnows(tab[j], h) /\ tab[j].ipaddr \in Addrs
      BY <1>1, <2>2, <3>1 DEF OnlyOne, Knows, TableOK, EntryOK
    <3>3. h2[tab[j].ipaddr] = h[tab[j].ipaddr]
      BY <3>2 DEF OthersSilent
    <3> QED
      BY <3>1, <3>2, <3>3 DEF EntryKnows
  <2> QED
    BY <2>1, <2>2
<1>6. OnlyOne(t, i, a)
  BY <1>2 DEF OnlyOne
<1> QED
  BY <1>2, <1>4, <1>5, <1>6 DEF Good

(* A host that says nothing has changed nothing.                           *)
LEMMA Silent == ASSUME NEW h, NEW a PROVE OthersSilent(h, h, a)
  BY DEF OthersSilent

(* After etharp_find_entry the entry is the only one of its address.       *)
LEMMA FoundGood ==
    ASSUME NEW tab, NEW n \in Nat, NEW h, Good(tab, n, h), NEW a \in Addrs
    PROVE  LET r == etharp_find_entry(tab, a)
           IN  Good(r.tab, n, h) /\ OnlyOne(r.tab, r.i, a)
<1> DEFINE r == etharp_find_entry(tab, a)
           e == [EmptyEntry EXCEPT !.ipaddr = a]
<1>1. tab \in Table /\ TableOK(tab, n) /\ Knows(tab, h)
  BY DEF Good
<1>2. Found(tab, r, a)
  BY <1>1, FindOK
<1> HIDE DEF r
<1>3. CASE r.tab = tab /\ tab[r.i].state # "EMPTY" /\ tab[r.i].ipaddr = a
  <2>1. r.i \in Index
    BY <1>2 DEF Found
  <2>2. \A j \in Index : j # r.i => tab[j].state = "EMPTY" \/ tab[j].ipaddr # a
    BY <1>1, <1>3, <2>1 DEF TableOK, OneEntry, Same
  <2> QED
    BY <1>3, <2>1, <2>2 DEF OnlyOne, r
<1>4. CASE /\ \A i \in Index : tab[i].state = "EMPTY" \/ tab[i].ipaddr # a
           /\ r.tab = [tab EXCEPT ![r.i] = e]
  <2>1. r.i \in Index
    BY <1>2 DEF Found
  <2>2. /\ e \in Entry /\ e.state = "EMPTY" /\ e.ipaddr = a /\ e.q = <<>>
    BY EmptyOK DEF Entry
  <2> HIDE DEF e
  <2>3. EntryOK(e, n) /\ Len(e.q) = 0
    BY <2>2, Constants DEF EntryOK
  <2>4. r.tab = Put(tab, r.i, e)
    BY <1>4 DEF Put
  <2>5. Len(tab[r.i].q) \in Nat
    BY <1>1, <2>1 DEF Table, Entry
  <2>6. Queued(r.tab) <= MEMP_NUM_ARP_QUEUE
    BY <1>1, <2>1, <2>2, <2>3, <2>4, <2>5, PutShorter
  <2>7. \A j \in Index : ~Same(tab[j], e)
    BY <2>2 DEF Same
  <2>8. r.tab \in Table /\ TableOK(r.tab, n)
    BY <1>1, <2>1, <2>2, <2>3, <2>4, <2>6, <2>7, PutOK
  <2>9. r.tab[r.i] = e /\ \A j \in Index : j # r.i => r.tab[j] = tab[j]
    BY <1>1, <2>1, <2>4 DEF Put, Table
  <2>10. Knows(r.tab, h)
    <3>1. EntryKnows(e, h)
      BY <2>2 DEF EntryKnows, Stable
    <3>2. \A j \in Index : EntryKnows(r.tab[j], h)
      BY <1>1, <2>9, <3>1 DEF Knows
    <3> QED
      BY <3>2 DEF Knows
  <2>11. OnlyOne(r.tab, r.i, a)
    BY <1>4, <2>1, <2>2, <2>9 DEF OnlyOne
  <2> QED
    BY <2>8, <2>10, <2>11 DEF Good, r
<1> QED
  BY <1>2, <1>3, <1>4 DEF Found

(* A query makes a fresh entry pending.                                    *)
LEMMA PendGood ==
    ASSUME NEW r, NEW n \in Nat, NEW h, NEW a \in Addrs,
           Good(r.tab, n, h), OnlyOne(r.tab, r.i, a)
    PROVE  /\ Good(Pend(r), n, h) /\ OnlyOne(Pend(r), r.i, a)
           /\ Pend(r)[r.i].state # "EMPTY"
           /\ r.tab[r.i].state \notin Stable => Pend(r)[r.i].state = "PENDING"
<1> DEFINE e == r.tab[r.i]
           st == IF e.state = "EMPTY" THEN "PENDING" ELSE e.state
           f == [e EXCEPT !.state = st]
<1>1. r.tab \in Table /\ TableOK(r.tab, n) /\ r.i \in Index /\ e.ipaddr = a
  BY DEF Good, OnlyOne
<1>2. e \in Entry /\ EntryOK(e, n) /\ EntryKnows(e, h)
  BY <1>1 DEF Good, Table, TableOK, Knows
<1>3. Pend(r) = Put(r.tab, r.i, f)
  BY DEF Pend, Put
<1>4. /\ st \in {"EMPTY", "PENDING"} \cup Stable /\ st # "EMPTY"
      /\ (st = e.state \/ (e.state = "EMPTY" /\ st = "PENDING"))
      /\ (e.state \notin Stable => st = "PENDING")
  <2>1. e.state \in {"EMPTY", "PENDING"} \cup Stable
    BY <1>2 DEF Entry
  <2> HIDE DEF e
  <2>2. "PENDING" \notin Stable /\ "EMPTY" \notin Stable
    BY DEF Stable
  <2>3. CASE e.state = "EMPTY"
    BY <2>3
  <2>4. CASE e.state # "EMPTY"
    BY <2>1, <2>4
  <2> QED
    BY <2>3, <2>4
<1> HIDE DEF st
<1>5. /\ f \in Entry /\ f.state = st /\ f.ipaddr = a /\ f.q = e.q
      /\ f.ethaddr = e.ethaddr /\ f.ctime = e.ctime
  BY <1>1, <1>2, <1>4 DEF Entry
<1> HIDE DEF f
<1>6. EntryOK(f, n)
  BY <1>2, <1>4, <1>5 DEF EntryOK
<1>7. EntryKnows(f, h)
  <2>1. "PENDING" \notin Stable
    BY DEF Stable
  <2> QED
    BY <1>1, <1>2, <1>4, <1>5, <2>1 DEF EntryKnows
<1>8. Len(e.q) \in Nat
  BY <1>2 DEF Entry
<1>9. Queued(Put(r.tab, r.i, f)) <= MEMP_NUM_ARP_QUEUE
  BY <1>1, <1>5, <1>8, PutShorter
<1>10. Good(Pend(r), n, h) /\ OnlyOne(Pend(r), r.i, a)
  <2> DEFINE t == r.tab
             i == r.i
  <2>1. /\ Good(t, n, h) /\ OnlyOne(t, i, a) /\ i \in Index /\ n <= n
        /\ Queued(Put(t, i, f)) <= MEMP_NUM_ARP_QUEUE
    BY <1>1, <1>9
  <2> HIDE DEF t, i
  <2>2. Good(Put(t, i, f), n, h) /\ OnlyOne(Put(t, i, f), i, a)
    BY Silent, <1>5, <1>6, <1>7, <2>1, PutGood
  <2> QED
    BY <1>3, <2>2 DEF t, i
<1>11. Pend(r)[r.i] = f
  BY <1>1, <1>3 DEF Put, Table
<1> QED
  BY <1>4, <1>5, <1>10, <1>11

(* The queue after one packet more, with number n + 1.                     *)
LEMMA LongerQueue ==
    ASSUME NEW q \in Seq(Nat), NEW n \in Nat, Len(q) <= ARP_QUEUE_LEN,
           \A j, k \in 1..Len(q) : j < k => q[j] < q[k],
           \A k \in 1..Len(q) : q[k] <= n
    PROVE  LET w == IF Len(q) >= ARP_QUEUE_LEN THEN Append(Tail(q), n + 1) ELSE Append(q, n + 1)
           IN  /\ w \in Seq(Nat) /\ Len(w) <= ARP_QUEUE_LEN
               /\ Len(w) = IF Len(q) >= ARP_QUEUE_LEN THEN Len(q) ELSE Len(q) + 1
               /\ \A j, k \in 1..Len(w) : j < k => w[j] < w[k]
               /\ \A k \in 1..Len(w) : w[k] <= n + 1
<1>1. ASSUME NEW u \in Seq(Nat), NEW d \in Nat, Len(u) + d = Len(q),
             \A k \in 1..Len(u) : u[k] = q[k + d]
      PROVE  LET w == Append(u, n + 1)
             IN  /\ w \in Seq(Nat) /\ Len(w) = Len(u) + 1
                 /\ \A j, k \in 1..Len(w) : j < k => w[j] < w[k]
                 /\ \A k \in 1..Len(w) : w[k] <= n + 1
  <2> DEFINE w == Append(u, n + 1)
             m == Len(u)
  <2>1. /\ w \in Seq(Nat) /\ Len(w) = m + 1 /\ w[m + 1] = n + 1 /\ m \in Nat
        /\ \A k \in 1..m : w[k] = u[k] /\ u[k] \in Nat
    OBVIOUS
  <2> HIDE DEF w
  <2>2. \A k \in 1..m : k + d \in 1..Len(q)
    BY <1>1, <2>1
  <2>3. \A k \in 1..m : w[k] = q[k + d] /\ w[k] <= n /\ w[k] \in Nat
    BY <1>1, <2>1, <2>2
  <2> HIDE DEF m
  <2>4. \A k \in 1..(m + 1) : w[k] <= n + 1
    <3> TAKE k \in 1..(m + 1)
    <3>1. CASE k = m + 1
      BY <2>1, <3>1
    <3>2. CASE k \in 1..m
      BY <2>3, <3>2
    <3> QED
      BY <2>1, <3>1, <3>2
  <2>5. \A j, k \in 1..(m + 1) : j < k => w[j] < w[k]
    <3> TAKE j, k \in 1..(m + 1)
    <3> HAVE j < k
    <3>1. j \in 1..m
      BY <2>1
    <3>2. CASE k = m + 1
      BY <2>1, <2>3, <3>1, <3>2
    <3>3. CASE k \in 1..m
      <4>1. j + d \in 1..Len(q) /\ k + d \in 1..Len(q) /\ j + d < k + d
        BY <2>2, <3>1, <3>3
      <4>2. q[j + d] < q[k + d]
        BY <4>1
      <4> QED
        BY <2>3, <3>1, <3>3, <4>2
    <3> QED
      BY <2>1, <3>2, <3>3
  <2> QED
    BY <2>1, <2>4, <2>5 DEF w, m
<1>2. CASE Len(q) >= ARP_QUEUE_LEN
  <2> DEFINE u == Tail(q)
  <2>1. Len(q) = ARP_QUEUE_LEN /\ q # <<>>
    BY <1>2, Constants
  <2>2. u \in Seq(Nat) /\ Len(u) + 1 = Len(q) /\ \A k \in 1..Len(u) : u[k] = q[k + 1]
    BY <2>1, Constants
  <2> HIDE DEF u
  <2>3. LET w == Append(u, n + 1)
        IN  /\ w \in Seq(Nat) /\ Len(w) = Len(u) + 1
            /\ \A j, k \in 1..Len(w) : j < k => w[j] < w[k]
            /\ \A k \in 1..Len(w) : w[k] <= n + 1
    BY <1>1, <2>2
  <2>4. Len(u) + 1 = ARP_QUEUE_LEN
    BY <2>1, <2>2
  <2> QED
    BY <1>2, <2>1, <2>3, <2>4, Constants DEF u
<1>3. CASE ~(Len(q) >= ARP_QUEUE_LEN)
  <2>1. q \in Seq(Nat) /\ Len(q) + 0 = Len(q) /\ \A k \in 1..Len(q) : q[k] = q[k + 0]
    OBVIOUS
  <2>2. LET w == Append(q, n + 1)
        IN  /\ w \in Seq(Nat) /\ Len(w) = Len(q) + 1
            /\ \A j, k \in 1..Len(w) : j < k => w[j] < w[k]
            /\ \A k \in 1..Len(w) : w[k] <= n + 1
    BY <1>1, <2>1
  <2>3. Len(q) + 1 <= ARP_QUEUE_LEN
    BY <1>3, Constants
  <2> QED
    BY <1>3, <2>2, <2>3
<1> QED
  BY <1>2, <1>3

(* A packet enters the queue of a pending entry.                           *)
LEMMA EnqueueGood ==
    ASSUME NEW tab, NEW n \in Nat, NEW h, NEW a \in Addrs, NEW i \in Index,
           Good(tab, n, h), OnlyOne(tab, i, a), tab[i].state = "PENDING"
    PROVE  Good(Enqueue(tab, i, n + 1), n + 1, h)
<1>1. tab \in Table /\ TableOK(tab, n) /\ Knows(tab, h) /\ tab[i].ipaddr = a
  BY DEF Good, OnlyOne
<1> DEFINE e == tab[i]
<1>2. e \in Entry /\ EntryOK(e, n) /\ e.ipaddr = a /\ e.state = "PENDING"
  BY <1>1 DEF Table, TableOK
<1>3. /\ e.q \in Seq(Nat) /\ Len(e.q) <= ARP_QUEUE_LEN /\ Len(e.q) \in Nat
      /\ \A j, k \in 1..Len(e.q) : j < k => e.q[j] < e.q[k]
      /\ \A k \in 1..Len(e.q) : e.q[k] <= n
  BY <1>2 DEF Entry, EntryOK
<1>4. \A j \in Index : Len(tab[j].q) <= ARP_QUEUE_LEN
  BY <1>1 DEF TableOK, EntryOK
<1>5. Queued(tab) \in Nat /\ Queued(tab) <= MEMP_NUM_ARP_QUEUE
  BY <1>1, <1>4, PlacesFinite DEF TableOK
<1> DEFINE q == e.q
           w == IF Len(q) >= ARP_QUEUE_LEN THEN Append(Tail(q), n + 1) ELSE Append(q, n + 1)
           f == [e EXCEPT !.q = w]
           t == Put(tab, i, f)
<1>6. /\ w \in Seq(Nat) /\ Len(w) <= ARP_QUEUE_LEN
      /\ Len(w) = IF Len(q) >= ARP_QUEUE_LEN THEN Len(q) ELSE Len(q) + 1
      /\ \A j, k \in 1..Len(w) : j < k => w[j] < w[k]
      /\ \A k \in 1..Len(w) : w[k] <= n + 1
  <2>1. /\ q \in Seq(Nat) /\ Len(q) <= ARP_QUEUE_LEN
        /\ \A j, k \in 1..Len(q) : j < k => q[j] < q[k]
        /\ \A k \in 1..Len(q) : q[k] <= n
    BY <1>3
  <2> HIDE DEF q
  <2> QED
    BY <2>1, LongerQueue
<1>7. Enqueue(tab, i, n + 1) = IF Queued(tab) >= MEMP_NUM_ARP_QUEUE THEN tab ELSE t
  BY DEF Enqueue, Put
<1>8. n + 1 \in Nat /\ n <= n + 1
  OBVIOUS
<1> HIDE DEF w
<1>9. /\ f \in Entry /\ f.q = w /\ f.ipaddr = a /\ f.state = "PENDING"
  BY <1>2, <1>6 DEF Entry
<1> HIDE DEF f
<1>10. EntryOK(f, n + 1) /\ EntryKnows(f, h)
  BY <1>6, <1>9 DEF EntryOK, EntryKnows, Stable
<1>11. CASE Queued(tab) >= MEMP_NUM_ARP_QUEUE
  <2>1. Put(tab, i, e) = tab
    BY <1>1 DEF Put, Table
  <2>2. EntryOK(e, n + 1) /\ EntryKnows(e, h)
    <3>1. \A k \in 1..Len(e.q) : e.q[k] <= n + 1
      BY <1>3
    <3> QED
      BY <1>1, <1>2, <3>1 DEF EntryOK, Knows
  <2>3. Queued(Put(tab, i, e)) <= MEMP_NUM_ARP_QUEUE
    BY <1>5, <2>1
  <2> HIDE DEF e
  <2>4. Good(Put(tab, i, e), n + 1, h)
    BY Silent, <1>2, <1>8, <2>2, <2>3, PutGood
  <2> QED
    BY <1>7, <1>11, <2>1, <2>4
<1>12. CASE ~(Queued(tab) >= MEMP_NUM_ARP_QUEUE)
  <2>1. t \in Table /\ t[i] = f /\ \A j \in Index : j # i => t[j] = tab[j]
    BY <1>1, <1>9 DEF Put, Table
  <2>2. Queued(t) <= MEMP_NUM_ARP_QUEUE
    <3>1. CASE Len(q) >= ARP_QUEUE_LEN
      <4>1. Len(f.q) <= Len(tab[i].q)
        BY <1>3, <1>6, <1>9, <3>1
      <4> QED
        BY <1>1, <1>9, <4>1, PutShorter
    <3>2. CASE ~(Len(q) >= ARP_QUEUE_LEN)
      <4>1. Len(t[i].q) = Len(tab[i].q) + 1
        BY <1>6, <1>9, <2>1, <3>2
      <4>2. \A j \in Index : j # i => Len(t[j].q) = Len(tab[j].q)
        BY <2>1
      <4> HIDE DEF t
      <4>3. Queued(t) <= Queued(tab) + 1
        BY <1>1, <1>4, <2>1, <4>1, <4>2, OneMorePacket
      <4>4. Queued(t) \in Nat
        <5>1. \A j \in Index : Len(t[j].q) <= ARP_QUEUE_LEN
          BY <1>4, <1>6, <1>9, <2>1
        <5> QED
          BY <2>1, <5>1, PlacesFinite
      <4> QED
        BY <1>5, <1>12, <4>3, <4>4, Constants
    <3> QED
      BY <3>1, <3>2
  <2>3. Good(t, n + 1, h)
    BY Silent, <1>8, <1>9, <1>10, <2>2, PutGood
  <2> QED
    BY <1>7, <1>12, <2>3
<1> QED
  BY <1>11, <1>12

(* An answer makes the entry stable.                                       *)
LEMMA ResolvedGood ==
    ASSUME NEW tab, NEW n \in Nat, NEW h, NEW h2, NEW a \in Addrs, NEW i \in Index,
           NEW m \in MacsOf[a], Good(tab, n, h), OnlyOne(tab, i, a),
           h2[a].mac = m, h2[a].age = 0, OthersSilent(h, h2, a)
    PROVE  LET t == Resolved(tab, i, m)
           IN  Good(t, n, h2) /\ OnlyOne(t, i, a) /\ t[i].q = <<>>
<1> DEFINE e == tab[i]
           f == [e EXCEPT !.state = "STABLE", !.ethaddr = m, !.ctime = 0, !.q = <<>>]
<1>1. tab \in Table /\ TableOK(tab, n) /\ e.ipaddr = a
  BY DEF Good, OnlyOne
<1>2. e \in Entry /\ Len(e.q) \in Nat
  BY <1>1 DEF Table, Entry
<1>3. Resolved(tab, i, m) = Put(tab, i, f)
  BY <1>1 DEF Resolved, Put, Table
<1>4. m \in Mac /\ m # NoMac /\ 0 \in 0..(ARP_MAXAGE - 1) /\ <<>> \in Seq(Nat) /\ Len(<<>>) = 0
  BY Constants
<1>5. /\ f \in Entry /\ f.state = "STABLE" /\ f.ethaddr = m /\ f.ctime = 0 /\ f.q = <<>>
      /\ f.ipaddr = a
  BY <1>1, <1>2, <1>4 DEF Entry, Stable
<1> HIDE DEF f
<1>6. EntryOK(f, n) /\ Len(f.q) <= Len(tab[i].q)
  BY <1>2, <1>4, <1>5, Constants DEF EntryOK
<1>7. n <= n
  OBVIOUS
<1>8. EntryKnows(f, h2)
  BY <1>4, <1>5 DEF EntryKnows
<1>9. Queued(Put(tab, i, f)) <= MEMP_NUM_ARP_QUEUE
  BY <1>1, <1>5, <1>6, PutShorter
<1>10. Good(Put(tab, i, f), n, h2) /\ OnlyOne(Put(tab, i, f), i, a)
  BY <1>5, <1>6, <1>7, <1>8, <1>9, PutGood
<1>11. Put(tab, i, f)[i] = f
  BY <1>1 DEF Put, Table
<1> QED
  BY <1>3, <1>5, <1>10, <1>11

-------------------------------------------------------------------------------
(* The frames of a step.                                                   *)
Frame == [to : Addrs, mac : Mac, p : Nat]

WireOK == wire \in Seq(Frame) /\ FramesFindTheirHost /\ SentInOrder

(* A step that sends nothing sends nothing wrong.                          *)
LEMMA NoFrames == ASSUME wire' = <<>> PROVE WireOK'
<1>1. wire' \in Seq(Frame) /\ DOMAIN wire' = {}
  OBVIOUS
<1> QED
  BY <1>1 DEF WireOK, FramesFindTheirHost, SentInOrder

(* Frames for a go to the right address, in order, and nothing waits.      *)
LEMMA FramesOK ==
    ASSUME NEW a \in Addrs, NEW m \in Mac, NEW ps \in Seq(Nat),
           \A j, k \in 1..Len(ps) : j < k => ps[j] < ps[k],
           wire' = Frames(a, m, ps), heard'[a].mac = m,
           NEW i \in Index, OnlyOne(arp_table', i, a), arp_table'[i].q = <<>>
    PROVE  WireOK'
<1>1. /\ wire' = [k \in 1..Len(ps) |-> [to |-> a, mac |-> m, p |-> ps[k]]]
      /\ Len(ps) \in Nat /\ \A k \in 1..Len(ps) : ps[k] \in Nat
  BY DEF Frames
<1>2. /\ DOMAIN wire' = 1..Len(ps)
      /\ \A k \in 1..Len(ps) : wire'[k].to = a /\ wire'[k].mac = m /\ wire'[k].p = ps[k]
      /\ \A k \in 1..Len(ps) : wire'[k] \in Frame
  BY <1>1 DEF Frame
<1>3. wire' \in Seq(Frame)
  BY <1>1, <1>2, IsASeq
<1>4. Waiting(arp_table', a) = {}
  <2> SUFFICES ASSUME NEW p \in Waiting(arp_table', a) PROVE FALSE
    OBVIOUS
  <2>1. PICK j \in Matching(arp_table', a) : p \in Range(arp_table'[j].q)
    BY DEF Waiting
  <2>2. j = i
    BY <2>1 DEF Matching, OnlyOne
  <2>3. Range(<<>>) = {}
    BY DEF Range
  <2> QED
    BY <2>1, <2>2, <2>3
<1>5. FramesFindTheirHost'
  BY <1>2 DEF FramesFindTheirHost
<1>6. SentInOrder'
  <2> SUFFICES ASSUME NEW k \in 1..Len(ps)
               PROVE  /\ \A j \in 1..(k - 1) : wire'[j].p < wire'[k].p
                      /\ \A p \in Waiting(arp_table', wire'[k].to) : wire'[k].p < p
    BY <1>2 DEF SentInOrder
  <2>1. \A j \in 1..(k - 1) : j \in 1..Len(ps) /\ j < k
    BY <1>1
  <2>2. \A j \in 1..(k - 1) : wire'[j].p < wire'[k].p
    BY <1>2, <2>1
  <2>3. Waiting(arp_table', wire'[k].to) = {}
    BY <1>2, <1>4
  <2> QED
    BY <2>2, <2>3
<1> QED
  BY <1>3, <1>5, <1>6 DEF WireOK

(* A packet number more.                                                   *)
LEMMA GoodLater ==
    ASSUME NEW tab, NEW n \in Nat, NEW h, Good(tab, n, h)
    PROVE  Good(tab, n + 1, h)
<1>1. tab \in Table /\ TableOK(tab, n)
  BY DEF Good
<1>2. ASSUME NEW i \in Index PROVE EntryOK(tab[i], n + 1)
  <2>1. tab[i].q \in Seq(Nat) /\ EntryOK(tab[i], n)
    BY <1>1 DEF Table, Entry, TableOK
  <2>2. \A k \in 1..Len(tab[i].q) : tab[i].q[k] <= n + 1
    BY <2>1 DEF EntryOK
  <2> QED
    BY <2>1, <2>2 DEF EntryOK
<1> QED
  BY <1>1, <1>2 DEF Good, TableOK

(* What the state is before a step, and after it.                          *)
Heard == [Addrs -> [mac : Mac, age : 0..(ARP_MAXAGE - 1)]]

(* The invariant before a step, in the terms of the lemmas.                *)
LEMMA Unfolded ==
    ASSUME IInv
    PROVE  /\ Good(arp_table, packets, heard) /\ packets \in Nat
           /\ heard \in Heard /\ etharp_cached_entry \in Index
           /\ arp_table \in Table
  BY DEF IInv, TypeOK, Good, Table, Heard

(* And the invariant after it.                                             *)
LEMMA Folded ==
    ASSUME Good(arp_table', packets', heard'), packets' \in Nat, heard' \in Heard,
           etharp_cached_entry' \in Index, WireOK'
    PROVE  IInv'
<1>1. TypeOK'
  BY DEF TypeOK, Good, Table, Heard, WireOK, Frame
<1> QED
  BY <1>1 DEF IInv, Good, WireOK

-------------------------------------------------------------------------------
(* The actions.                                                            *)
LEMMA InputOK ==
    ASSUME IInv, NEW a \in Addrs, NEW m \in MacsOf[a], NEW for_us \in BOOLEAN,
           etharp_input(a, m, for_us)
    PROVE  IInv'
<1>1. /\ Good(arp_table, packets, heard) /\ packets \in Nat
      /\ heard \in Heard /\ etharp_cached_entry \in Index
  BY Unfolded
<1>2. /\ heard' = [heard EXCEPT ![a] = [mac |-> m, age |-> 0]]
      /\ etharp_update_arp_entry(a, m, for_us)
      /\ etharp_cached_entry' = etharp_cached_entry /\ packets' = packets
  BY DEF etharp_input
<1>3. m \in Mac /\ 0 \in 0..(ARP_MAXAGE - 1)
  BY Constants
<1>4. heard' \in Heard /\ heard'[a].mac = m /\ heard'[a].age = 0
  BY <1>1, <1>2, <1>3 DEF Heard
<1>5. OthersSilent(heard, heard', a)
  BY <1>1, <1>2 DEF OthersSilent, Heard
<1> DEFINE known == for_us \/ Matching(arp_table, a) # {}
<1>6. CASE ~known
  <2>1. wire' = <<>> /\ arp_table' = arp_table
    BY <1>2, <1>6 DEF etharp_update_arp_entry
  <2>2. \A i \in Index : arp_table[i].state = "EMPTY" \/ arp_table[i].ipaddr # a
    BY <1>6 DEF Matching
  <2>3. Knows(arp_table, heard')
    <3> SUFFICES ASSUME NEW i \in Index, arp_table[i].state \in Stable
                 PROVE  EntryKnows(arp_table[i], heard')
      BY DEF Knows, EntryKnows
    <3>1. arp_table[i].state # "EMPTY"
      BY DEF Stable
    <3>2. arp_table[i].ipaddr # a /\ arp_table[i].ipaddr \in Addrs /\ EntryKnows(arp_table[i], heard)
      BY <1>1, <2>2, <3>1 DEF Good, TableOK, EntryOK, Knows
    <3>3. heard'[arp_table[i].ipaddr] = heard[arp_table[i].ipaddr]
      BY <1>5, <3>2 DEF OthersSilent
    <3> QED
      BY <3>2, <3>3 DEF EntryKnows
  <2>4. Good(arp_table', packets', heard')
    BY <1>1, <1>2, <2>1, <2>3 DEF Good
  <2> QED
    BY <1>1, <1>2, <1>4, <2>1, <2>4, NoFrames, Folded
<1>7. CASE known
  <2> DEFINE r == etharp_find_entry(arp_table, a)
             i == r.i
             q == r.tab[i].q
  <2>1. arp_table' = Resolved(r.tab, i, m) /\ wire' = Frames(a, m, q)
    BY <1>2, <1>7 DEF etharp_update_arp_entry
  <2>2. Good(r.tab, packets, heard) /\ OnlyOne(r.tab, i, a)
    BY <1>1, FoundGood
  <2>3. i \in Index
    BY <2>2 DEF OnlyOne
  <2>4. q \in Seq(Nat) /\ \A j, k \in 1..Len(q) : j < k => q[j] < q[k]
    BY <2>2, <2>3 DEF Good, Table, Entry, TableOK, EntryOK
  <2> DEFINE tab == r.tab
  <2>5. Good(tab, packets, heard) /\ OnlyOne(tab, i, a)
    BY <2>2
  <2>6. arp_table' = Resolved(tab, i, m)
    BY <2>1
  <2> HIDE DEF tab, r, i, q
  <2>7. /\ Good(Resolved(tab, i, m), packets, heard') /\ OnlyOne(Resolved(tab, i, m), i, a)
        /\ Resolved(tab, i, m)[i].q = <<>>
    BY <1>1, <1>4, <1>5, <2>3, <2>5, ResolvedGood
  <2>8. WireOK'
    BY <1>3, <1>4, <2>1, <2>3, <2>4, <2>6, <2>7, FramesOK
  <2> QED
    BY <1>1, <1>2, <1>4, <2>6, <2>7, <2>8, Folded
<1> QED
  BY <1>6, <1>7

(* etharp_output to a stable entry keeps the invariant.                    *)
LEMMA OutputToOK ==
    ASSUME IInv, NEW a \in Addrs, NEW asked \in BOOLEAN, NEW i \in Index,
           arp_table[i].state \in Stable, arp_table[i].ipaddr = a,
           packets' = packets + 1, heard' = heard, OutputTo(i, a, packets', asked)
    PROVE  Good(arp_table', packets', heard') /\ WireOK'
<1>1. /\ Good(arp_table, packets, heard) /\ packets \in Nat /\ arp_table \in Table
      /\ heard \in Heard
  BY Unfolded
<1> DEFINE e == arp_table[i]
           n == packets + 1
<1>2. /\ e \in Entry /\ EntryOK(e, packets) /\ EntryKnows(e, heard) /\ e.state \in Stable
      /\ e.ipaddr = a /\ e.state # "EMPTY" /\ e.state # "PENDING"
  BY <1>1 DEF Good, Table, TableOK, Knows, Stable
<1>3. e.q = <<>> /\ heard[a].mac = e.ethaddr /\ e.ethaddr \in Mac
  BY <1>2 DEF EntryOK, EntryKnows, Entry
<1>4. OnlyOne(arp_table, i, a)
  BY <1>1, <1>2 DEF Good, TableOK, OneEntry, Same, OnlyOne
<1>5. n \in Nat /\ Good(arp_table, n, heard) /\ n <= n
  BY <1>1, GoodLater
<1> DEFINE f == [e EXCEPT !.state = "REREQUESTING_1"]
<1>6. arp_table' = arp_table \/ arp_table' = Put(arp_table, i, f)
  BY DEF OutputTo, Put
<1>7. /\ f \in Entry /\ f.state = "REREQUESTING_1" /\ f.ipaddr = a /\ f.q = <<>>
      /\ f.ethaddr = e.ethaddr /\ f.ctime = e.ctime
  BY <1>2, <1>3 DEF Entry, Stable
<1> HIDE DEF f, n
<1>8. EntryOK(f, n) /\ Len(f.q) <= Len(arp_table[i].q)
  BY <1>3, <1>7, Constants DEF EntryOK
<1>9. EntryKnows(f, heard)
  BY <1>2, <1>7 DEF EntryKnows
<1>10. Queued(Put(arp_table, i, f)) <= MEMP_NUM_ARP_QUEUE
  BY <1>1, <1>7, <1>8, PutShorter DEF Good
<1>11. Good(Put(arp_table, i, f), n, heard) /\ OnlyOne(Put(arp_table, i, f), i, a)
  BY <1>4, <1>5, <1>7, <1>8, <1>9, <1>10, PutGood, Silent
<1>12. Put(arp_table, i, f)[i] = f
  BY <1>1 DEF Put, Table
<1>13. Good(arp_table', n, heard) /\ OnlyOne(arp_table', i, a) /\ arp_table'[i].q = <<>>
  BY <1>3, <1>4, <1>5, <1>6, <1>7, <1>11, <1>12
<1> DEFINE ps == <<n>>
<1>14. /\ wire' = Frames(a, e.ethaddr, ps) /\ ps \in Seq(Nat)
       /\ \A j, k \in 1..Len(ps) : j < k => ps[j] < ps[k]
  BY <1>5 DEF OutputTo, n
<1> HIDE DEF ps
<1>15. WireOK'
  BY <1>3, <1>13, <1>14, FramesOK
<1> QED
  BY <1>13, <1>15 DEF n

(* etharp_output keeps the invariant, with and without a stable entry.     *)
LEMMA OutputOK ==
    ASSUME IInv, NEW d \in Dests, NEW asked \in BOOLEAN, NEW mem \in BOOLEAN,
           etharp_output(d, asked, mem)
    PROVE  IInv'
<1> DEFINE a == NextHop[d]
           stable == {i \in Matching(arp_table, a) : arp_table[i].state \in Stable}
<1>1. /\ Good(arp_table, packets, heard) /\ packets \in Nat
      /\ heard \in Heard /\ etharp_cached_entry \in Index
  BY Unfolded
<1>2. packets' = packets + 1 /\ heard' = heard /\ a # NoRoute /\ packets' \in Nat
  BY <1>1 DEF etharp_output
<1>3. a \in Addrs
  BY <1>2, EtharpAssumption
<1>4. stable \subseteq Index /\ \A i \in stable : arp_table[i].ipaddr = a
  BY DEF Matching
<1>5. CASE /\ CacheHit(a) /\ OutputTo(etharp_cached_entry, a, packets', asked)
           /\ etharp_cached_entry' = etharp_cached_entry
  <2>1. Good(arp_table', packets', heard') /\ WireOK'
    BY <1>1, <1>2, <1>3, <1>5, OutputToOK DEF CacheHit
  <2> QED
    BY <1>1, <1>2, <1>5, <2>1, Folded
<1>6. CASE /\ stable # {} /\ OutputTo(Min(stable), a, packets', asked)
           /\ etharp_cached_entry' = Min(stable)
  <2>1. Min(stable) \in stable
    BY <1>4, <1>6, MinIsLeast, IndexIsFinite
  <2>2. Min(stable) \in Index /\ arp_table[Min(stable)].state \in Stable
        /\ arp_table[Min(stable)].ipaddr = a
    BY <1>4, <2>1
  <2>3. Good(arp_table', packets', heard') /\ WireOK'
    BY <1>2, <1>3, <1>6, <2>2, OutputToOK
  <2> QED
    BY <1>1, <1>2, <1>6, <2>2, <2>3, Folded
<1>7. CASE stable = {} /\ QueryFor(a, packets', mem)
  <2> DEFINE r == etharp_find_entry(arp_table, a)
             t == Pend(r)
  <2>1. /\ arp_table' = (IF mem THEN Enqueue(t, r.i, packets') ELSE t)
        /\ wire' = <<>> /\ etharp_cached_entry' = etharp_cached_entry
    BY <1>7 DEF QueryFor
  <2>2. Good(r.tab, packets, heard) /\ OnlyOne(r.tab, r.i, a) /\ r.i \in Index
    BY <1>1, <1>3, FoundGood, ZenonT(30) DEF OnlyOne
  <2>3. r.tab[r.i].state \notin Stable
    <3>1. Found(arp_table, r, a)
      BY <1>1, <1>3, FindOK DEF Good
    <3> HIDE DEF r
    <3>2. CASE r.tab = arp_table
      BY <1>7, <2>2, <3>2 DEF Matching, OnlyOne, Stable
    <3>3. CASE r.tab = [arp_table EXCEPT ![r.i] = [EmptyEntry EXCEPT !.ipaddr = a]]
      <4>1. r.tab[r.i] = [EmptyEntry EXCEPT !.ipaddr = a]
        BY <1>1, <2>2, <3>3 DEF Good, Table
      <4>2. r.tab[r.i].state = "EMPTY"
        BY <4>1 DEF EmptyEntry
      <4> QED
        BY <4>2 DEF Stable
    <3> QED
      BY <3>1, <3>2, <3>3 DEF Found
  <2>4. Good(t, packets, heard) /\ OnlyOne(t, r.i, a) /\ t[r.i].state = "PENDING"
    BY <1>1, <1>3, <2>2, <2>3, PendGood
  <2> DEFINE i == r.i
  <2>5. /\ Good(t, packets, heard) /\ OnlyOne(t, i, a) /\ t[i].state = "PENDING" /\ i \in Index
        /\ arp_table' = (IF mem THEN Enqueue(t, i, packets + 1) ELSE t)
    BY <1>2, <2>1, <2>2, <2>4
  <2> HIDE DEF r, t, i
  <2>6. Good(Enqueue(t, i, packets + 1), packets + 1, heard)
    BY <1>1, <1>3, <2>5, EnqueueGood
  <2>7. Good(t, packets + 1, heard)
    BY <1>1, <2>5, GoodLater
  <2>8. Good(arp_table', packets', heard')
    BY <1>2, <2>5, <2>6, <2>7
  <2> QED
    BY <1>1, <1>2, <2>1, <2>8, NoFrames, Folded
<1> QED
  BY <1>5, <1>6, <1>7 DEF etharp_output

(* A request for an address keeps the invariant.                           *)
LEMMA QueryOK ==
    ASSUME IInv, NEW a \in Addrs, Query(a)
    PROVE  IInv'
<1> DEFINE r == etharp_find_entry(arp_table, a)
<1>1. /\ Good(arp_table, packets, heard) /\ packets \in Nat
      /\ heard \in Heard /\ etharp_cached_entry \in Index
  BY Unfolded
<1>2. /\ arp_table' = Pend(r) /\ wire' = <<>> /\ heard' = heard /\ packets' = packets
      /\ etharp_cached_entry' = etharp_cached_entry
  BY DEF Query
<1>3. Good(r.tab, packets, heard) /\ OnlyOne(r.tab, r.i, a)
  BY <1>1, FoundGood
<1>4. Good(Pend(r), packets, heard)
  BY <1>1, <1>3, PendGood
<1> QED
  BY <1>1, <1>2, <1>4, NoFrames, Folded

(* etharp_tmr: a stable entry is older than its host's last word and goes  *)
(* not later than that.                                                    *)
LEMMA AgedOK ==
    ASSUME NEW e \in Entry, NEW n \in Nat, EntryOK(e, n)
    PROVE  LET f == Aged(e)
           IN  /\ f \in Entry /\ EntryOK(f, n) /\ Len(f.q) <= Len(e.q)
               /\ \/ f.state = "EMPTY"
                  \/ /\ e.state # "EMPTY" /\ f.ipaddr = e.ipaddr
                     /\ f.state \in Stable => e.state \in Stable
                     /\ f.ethaddr = e.ethaddr /\ f.ctime = e.ctime + 1
<1> DEFINE c == e.ctime + 1
           st == CASE e.state = "REREQUESTING_1" -> "REREQUESTING_2"
                   [] e.state = "REREQUESTING_2" -> "STABLE"
                   [] OTHER -> e.state
           f == [e EXCEPT !.ctime = c, !.state = st]
<1>1. Len(e.q) \in Nat /\ e.ctime \in Nat /\ e.state \in {"EMPTY", "PENDING"} \cup Stable
  BY DEF Entry
<1>2. CASE e.state = "EMPTY"
  BY <1>1, <1>2 DEF Aged
<1>3. CASE e.state # "EMPTY" /\ Aged(e) = EmptyEntry
  <2>1. Len(EmptyEntry.q) = 0
    BY EmptyOK
  <2> QED
    BY <1>1, <1>3, <2>1, EmptyOK
<1>4. CASE e.state # "EMPTY" /\ ~(c >= ARP_MAXAGE) /\ Aged(e) = f
  <2>1. /\ st \in {"EMPTY", "PENDING"} \cup Stable /\ st # "EMPTY"
        /\ st \in Stable => e.state \in Stable
        /\ st = "PENDING" <=> e.state = "PENDING"
    BY <1>1, <1>4 DEF Stable
  <2>2. c \in 0..(ARP_MAXAGE - 1)
    BY <1>1, <1>4, Constants
  <2> HIDE DEF st, c
  <2>3. /\ f \in Entry /\ f.state = st /\ f.ctime = c /\ f.q = e.q
        /\ f.ipaddr = e.ipaddr /\ f.ethaddr = e.ethaddr
    BY <2>1, <2>2 DEF Entry
  <2> HIDE DEF f
  <2>4. EntryOK(f, n)
    BY <1>4, <2>1, <2>3 DEF EntryOK
  <2> QED
    BY <1>1, <1>4, <2>1, <2>3, <2>4 DEF c
<1> QED
  BY <1>2, <1>3, <1>4 DEF Aged

(* etharp_tmr keeps the invariant: it ages the entries and the hosts       *)
(* alike.                                                                  *)
LEMMA TmrOK ==
    ASSUME IInv, etharp_tmr
    PROVE  IInv'
<1>1. /\ Good(arp_table, packets, heard) /\ packets \in Nat /\ arp_table \in Table
      /\ heard \in Heard /\ etharp_cached_entry \in Index
  BY Unfolded
<1> DEFINE t == [i \in Index |-> Aged(arp_table[i])]
           h == [a \in Addrs |-> IF heard[a].mac = NoMac \/ heard[a].age + 1 = ARP_MAXAGE THEN Unheard
                                ELSE [heard[a] EXCEPT !.age = heard[a].age + 1]]
<1>2. /\ arp_table' = t /\ heard' = h /\ wire' = <<>> /\ packets' = packets
      /\ etharp_cached_entry' = etharp_cached_entry
  BY DEF etharp_tmr
<1>3. ASSUME NEW i \in Index
      PROVE  /\ t[i] = Aged(arp_table[i]) /\ arp_table[i] \in Entry
             /\ EntryOK(arp_table[i], packets) /\ EntryKnows(arp_table[i], heard)
             /\ t[i] \in Entry /\ EntryOK(t[i], packets)
             /\ Len(t[i].q) <= Len(arp_table[i].q)
  <2>1. /\ t[i] = Aged(arp_table[i]) /\ arp_table[i] \in Entry
        /\ EntryOK(arp_table[i], packets) /\ EntryKnows(arp_table[i], heard)
    BY <1>1 DEF Good, TableOK, Table, Knows
  <2> QED
    BY <1>1, <2>1, AgedOK
<1>4. ASSUME NEW i \in Index, t[i].state # "EMPTY"
      PROVE  LET e == arp_table[i]
             IN  /\ e.state # "EMPTY" /\ t[i].ipaddr = e.ipaddr
                 /\ t[i].state \in Stable => e.state \in Stable
                 /\ t[i].ethaddr = e.ethaddr /\ t[i].ctime = e.ctime + 1
  BY <1>1, <1>3, <1>4, AgedOK
<1>5. t \in Table
  BY <1>3 DEF Table
<1>6. ASSUME NEW a \in Addrs
      PROVE  /\ h[a] \in [mac : Mac, age : 0..(ARP_MAXAGE - 1)]
             /\ heard[a].mac # NoMac /\ heard[a].age + 1 < ARP_MAXAGE =>
                  h[a].mac = heard[a].mac /\ h[a].age = heard[a].age + 1
  <2> DEFINE g == heard[a]
             k == [g EXCEPT !.age = g.age + 1]
  <2>1. h[a] = IF g.mac = NoMac \/ g.age + 1 = ARP_MAXAGE THEN Unheard ELSE k
    BY <1>6
  <2>2. g \in [mac : Mac, age : 0..(ARP_MAXAGE - 1)]
    BY <1>1 DEF Heard
  <2>3. Unheard \in [mac : Mac, age : 0..(ARP_MAXAGE - 1)]
    BY Constants DEF Unheard
  <2>4. g.age \in Nat /\ g.age < ARP_MAXAGE
    BY <2>2, Constants
  <2>5. CASE g.mac = NoMac \/ g.age + 1 = ARP_MAXAGE
    BY <2>1, <2>3, <2>4, <2>5, Constants
  <2>6. CASE ~(g.mac = NoMac \/ g.age + 1 = ARP_MAXAGE)
    <3>1. g.age + 1 \in 0..(ARP_MAXAGE - 1)
      BY <2>4, <2>6, Constants
    <3>2. /\ k \in [mac : Mac, age : 0..(ARP_MAXAGE - 1)]
          /\ k.mac = g.mac /\ k.age = g.age + 1
      BY <2>2, <3>1
    <3> QED
      BY <2>1, <2>6, <3>2
  <2> QED
    BY <2>5, <2>6
<1>7. h \in Heard
  BY <1>6 DEF Heard
<1> HIDE DEF t, h
<1>8. OneEntry(t)
  <2> SUFFICES ASSUME NEW i \in Index, NEW j \in Index, Same(t[i], t[j]) PROVE i = j
    BY DEF OneEntry
  <2>1. Same(arp_table[i], arp_table[j])
    BY <1>4 DEF Same
  <2> QED
    BY <1>1, <2>1 DEF Good, TableOK, OneEntry
<1>9. Queued(t) <= MEMP_NUM_ARP_QUEUE
  <2>1. \A i \in Index : Len(arp_table[i].q) <= ARP_QUEUE_LEN /\ Len(t[i].q) <= ARP_QUEUE_LEN
    BY <1>3 DEF EntryOK
  <2>2. Queued(t) <= Queued(arp_table) /\ Queued(t) \in Nat /\ Queued(arp_table) \in Nat
    BY <1>1, <1>3, <1>5, <2>1, ShorterQueues, PlacesFinite
  <2> QED
    BY <1>1, <2>2, Constants DEF Good, TableOK
<1>10. Knows(t, h)
  <2> SUFFICES ASSUME NEW i \in Index, t[i].state \in Stable
               PROVE  EntryKnows(t[i], h)
    BY DEF Knows, EntryKnows
  <2> DEFINE e == arp_table[i]
             a == e.ipaddr
  <2>1. t[i].state # "EMPTY"
    BY DEF Stable
  <2>2. /\ t[i].ipaddr = a /\ e.state \in Stable /\ e.state # "EMPTY"
        /\ t[i].ethaddr = e.ethaddr /\ t[i].ctime = e.ctime + 1
    BY <1>4, <2>1
  <2>3. a \in Addrs /\ heard[a].mac = e.ethaddr /\ e.ethaddr # NoMac /\ heard[a].age <= e.ctime
    BY <1>3, <2>2 DEF EntryOK, EntryKnows
  <2>4. t[i].ctime \in 0..(ARP_MAXAGE - 1) /\ e.ctime \in Nat /\ heard[a].age \in Nat
    BY <1>1, <1>3, <2>3 DEF Entry, Heard
  <2>5. heard[a].age + 1 < ARP_MAXAGE
    BY <2>2, <2>3, <2>4, Constants
  <2>6. h[a].mac = heard[a].mac /\ h[a].age = heard[a].age + 1
    BY <1>6, <2>3, <2>5
  <2> QED
    BY <2>2, <2>3, <2>4, <2>6 DEF EntryKnows
<1>11. Good(t, packets, h)
  BY <1>3, <1>5, <1>8, <1>9, <1>10 DEF Good, TableOK
<1> QED
  BY <1>1, <1>2, <1>7, <1>11, NoFrames, Folded

(* A table of empty entries.                                               *)
LEMMA EmptyTable ==
    ASSUME NEW h, NEW n \in Nat
    PROVE  Good([i \in Index |-> EmptyEntry], n, h)
<1> DEFINE t == [i \in Index |-> EmptyEntry]
<1>1. t \in Table /\ \A i \in Index : t[i] = EmptyEntry
  BY EmptyOK DEF Table
<1> HIDE DEF t
<1>2. \A i \in Index : EntryOK(t[i], n) /\ t[i].state = "EMPTY" /\ t[i].q = <<>>
  BY <1>1, EmptyOK
<1>3. Places(t) = {}
  <2> SUFFICES ASSUME NEW x \in Places(t) PROVE FALSE
    OBVIOUS
  <2>1. PICK i \in Index : \E k \in 1..Len(t[i].q) : x = <<i, k>>
    BY PlacesOf
  <2>2. Len(t[i].q) = 0
    BY <1>2
  <2> QED
    BY <2>1, <2>2
<1>4. Queued(t) <= MEMP_NUM_ARP_QUEUE
  BY <1>3, FS_EmptySet, Constants DEF Queued
<1>5. OneEntry(t) /\ Knows(t, h)
  BY <1>2 DEF OneEntry, Same, Knows, EntryKnows, Stable
<1> QED
  BY <1>1, <1>2, <1>4, <1>5 DEF Good, TableOK, t

(* etharp_cleanup_netif keeps the invariant.                               *)
LEMMA CleanupOK ==
    ASSUME IInv, etharp_cleanup_netif
    PROVE  IInv'
<1>1. packets \in Nat /\ heard \in Heard /\ etharp_cached_entry \in Index
  BY Unfolded
<1>2. /\ arp_table' = [i \in Index |-> EmptyEntry] /\ wire' = <<>> /\ heard' = heard
      /\ packets' = packets /\ etharp_cached_entry' = etharp_cached_entry
  BY DEF etharp_cleanup_netif
<1> QED
  BY <1>1, <1>2, EmptyTable, NoFrames, Folded

(* The invariant holds at first.                                           *)
LEMMA InitOK == Init => IInv
<1> SUFFICES ASSUME Init PROVE IInv
  OBVIOUS
<1>1. Good(arp_table, packets, heard)
  BY EmptyTable DEF Init
<1>2. heard \in Heard
  BY Constants DEF Init, Unheard, Heard
<1>3. wire = <<>> /\ DOMAIN wire = {} /\ wire \in Seq(Frame)
  BY DEF Init
<1>4. TypeOK
  BY <1>1, <1>2, <1>3, IndexIsFinite DEF Init, TypeOK, Good, Table, Heard, Frame
<1>5. FramesFindTheirHost /\ SentInOrder
  BY <1>3 DEF FramesFindTheirHost, SentInOrder
<1> QED
  BY <1>1, <1>4, <1>5 DEF IInv, Good

(* Every step keeps the invariant.                                         *)
LEMMA StepOK == IInv /\ [Next]_vars => IInv'
<1> SUFFICES ASSUME IInv, [Next]_vars PROVE IInv'
  OBVIOUS
<1>1. ASSUME NEW a \in Addrs, NEW for_us \in BOOLEAN, NEW m \in MacsOf[a],
             etharp_input(a, m, for_us)
      PROVE  IInv'
  BY <1>1, InputOK
<1>2. ASSUME NEW d \in Dests, NEW asked \in BOOLEAN, NEW mem \in BOOLEAN,
             etharp_output(d, asked, mem)
      PROVE  IInv'
  BY <1>2, OutputOK
<1>3. ASSUME NEW a \in Addrs, Query(a) PROVE IInv'
  BY <1>3, QueryOK
<1>4. CASE etharp_tmr
  BY <1>4, TmrOK
<1>5. CASE etharp_cleanup_netif
  BY <1>5, CleanupOK
<1>6. CASE UNCHANGED vars
  BY <1>6 DEF vars, IInv, TypeOK, FramesFindTheirHost, SentInOrder
<1> QED
  BY <1>1, <1>2, <1>3, <1>4, <1>5, <1>6 DEF Next

(* The ARP cache keeps the inductive invariant: the table is sound and     *)
(* knows the last address every host has announced.                        *)
THEOREM InductiveInvariant == Spec => []IInv
  BY InitOK, StepOK, PTL DEF Spec

(* The variables keep their types; no entry reaches ARP_MAXAGE.            *)
THEOREM TypeCorrect == Spec => []TypeOK
<1>1. IInv => TypeOK
  BY DEF IInv
<1> QED
  BY <1>1, InductiveInvariant, PTL

(* Every frame of etharp_output and etharp_update_arp_entry goes to the    *)
(* hardware address its next hop gave last, less than ARP_MAXAGE ago.      *)
THEOREM FramesAreRight == Spec => []FramesFindTheirHost
<1>1. IInv => FramesFindTheirHost
  BY DEF IInv
<1> QED
  BY <1>1, InductiveInvariant, PTL

(* Packets are sent in order, an address has one entry, no packet is left  *)
(* on a stable entry, and the queues stay within their limit and pool.     *)
THEOREM QueuesAreRight == Spec => []QueuedPackets
<1>1. IInv => QueuedPackets
  <2> SUFFICES ASSUME IInv PROVE QueuesAreSound
    BY DEF IInv, QueuedPackets
  <2>1. TableOK(arp_table, packets)
    BY DEF IInv
  <2>2. ASSUME NEW a \in Addrs
        PROVE  Cardinality(Matching(arp_table, a)) <= 1
    <3>1. CASE Matching(arp_table, a) = {}
      BY <3>1, FS_EmptySet
    <3>2. CASE Matching(arp_table, a) # {}
      <4>1. PICK i \in Matching(arp_table, a) : TRUE
        BY <3>2
      <4>2. Matching(arp_table, a) = {i}
        BY <2>1, <4>1 DEF Matching, TableOK, OneEntry, Same
      <4> QED
        BY <4>2, FS_Singleton
    <3> QED
      BY <3>1, <3>2
  <2> QED
    BY <2>1, <2>2 DEF QueuesAreSound, TableOK, EntryOK
<1> QED
  BY <1>1, InductiveInvariant, PTL
===============================================================================
