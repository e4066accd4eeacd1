---------------------------- MODULE SysMboxProofs ----------------------------
(***************************************************************************)
(* Proofs about the win32 mailbox, for every number of slots, of posters,  *)
(* of fetchers and of messages.                                            *)
(***************************************************************************)
EXTENDS SysMbox, FiniteSetTheorems, SequenceTheorems, TLAPS

(* What the slots between tail and head hold: messages that were posted.   *)
RingHoldsMessages == \A i \in 0 .. Count - 1 : q_mem[SlotOf(i)] \in Messages

(* A mailbox that is not valid is empty, and no thread is in it.           *)
FreedIsEmpty ==
  ~valid => head = tail /\ sem = 0 /\ \A f \in Fetchers : pc[f] = "idle"

(* The inductive invariant.                                                *)
IInv == TypeOK /\ PermitsMatchMessages /\ RingHoldsMessages /\ FreedIsEmpty

-----------------------------------------------------------------------------
(* Storing a message and moving the head keep the types.                   *)
LEMMA StoreTypes ==
  ASSUME TypeOK, NEW p \in Posters, NEW m \in Messages, Store(p, m)
  PROVE  TypeOK'
  <1> USE QueueAssumption DEF TypeOK, Slots, Store
  <1>1. q_mem' \in [Slots -> Messages \cup {NULL}]
    OBVIOUS
  <1>2. head' \in Slots /\ tail' \in Slots /\ sem' \in Nat
    BY DEF Wrap
  <1>3. result' \in [Posters -> {"none", "ERR_OK", "ERR_MEM"}]
    OBVIOUS
  <1>4. valid' \in BOOLEAN /\ aborted' \in BOOLEAN
    OBVIOUS
  <1>5. pc' \in [Fetchers -> {"idle", "wait", "permit"}]
        /\ got' \in [Fetchers -> Messages \cup {NULL}]
    OBVIOUS
  <1> QED
    BY <1>1, <1>2, <1>3, <1>4, <1>5

(* Every step keeps the types: head and tail wrap inside the ring.         *)
LEMMA TypeStep == TypeOK /\ [Next]_vars => TypeOK'
  <1> SUFFICES ASSUME TypeOK, [Next]_vars PROVE TypeOK'
    OBVIOUS
  <1> USE QueueAssumption DEF TypeOK, Slots
  <1>1. CASE sys_mbox_new
    BY <1>1 DEF sys_mbox_new
  <1>2. CASE sys_mbox_free
    BY <1>2 DEF sys_mbox_free
  <1>3. ASSUME NEW p \in Posters, NEW m \in Messages, sys_mbox_post(p, m)
        PROVE  TypeOK'
    BY <1>3, StoreTypes DEF sys_mbox_post
  <1>4. ASSUME NEW p \in Posters, NEW m \in Messages, sys_mbox_trypost(p, m)
        PROVE  TypeOK'
    BY <1>4, StoreTypes DEF sys_mbox_trypost
  <1>5. ASSUME NEW f \in Fetchers, FetchCall(f) PROVE TypeOK'
    BY <1>5 DEF FetchCall
  <1>6. ASSUME NEW f \in Fetchers, FetchPermit(f) PROVE TypeOK'
    BY <1>6 DEF FetchPermit
  <1>7. ASSUME NEW f \in Fetchers, FetchTimeout(f) PROVE TypeOK'
    BY <1>7 DEF FetchTimeout
  <1>8. ASSUME NEW f \in Fetchers, FetchTake(f) PROVE TypeOK'
    BY <1>8 DEF FetchTake, Wrap
  <1>9. ASSUME NEW f \in Fetchers, sys_arch_mbox_tryfetch(f) PROVE TypeOK'
    BY <1>9 DEF sys_arch_mbox_tryfetch
  <1>10. CASE UNCHANGED vars
    BY <1>10 DEF vars
  <1> QED
    BY <1>1, <1>2, <1>3, <1>4, <1>5, <1>6, <1>7, <1>8, <1>9, <1>10 DEF Next

(* Every reachable state of the mailbox is well typed.                     *)
THEOREM TypeCorrect == Spec => []TypeOK
  <1>1. ASSUME Init PROVE TypeOK
    <2>1. valid \in BOOLEAN /\ aborted \in BOOLEAN
      BY <1>1 DEF Init
    <2>2. head \in Slots /\ tail \in Slots /\ sem \in Nat
      BY <1>1, QueueAssumption DEF Init, Slots
    <2>3. q_mem \in [Slots -> Messages \cup {NULL}]
      BY <1>1 DEF Init
    <2>4. /\ pc \in [Fetchers -> {"idle", "wait", "permit"}]
          /\ result \in [Posters -> {"none", "ERR_OK", "ERR_MEM"}]
          /\ got \in [Fetchers -> Messages \cup {NULL}]
      BY <1>1 DEF Init
    <2> QED
      BY <2>1, <2>2, <2>3, <2>4 DEF TypeOK
  <1> QED
    BY <1>1, TypeStep, PTL DEF Spec

-----------------------------------------------------------------------------
(* The ring holds fewer messages than it has slots, and the slots of the   *)
(* messages are slots.                                                     *)
LEMMA CountRange ==
  ASSUME TypeOK
  PROVE  /\ Count \in 0 .. MAX_QUEUE_ENTRIES - 1
         /\ \A i \in 0 .. MAX_QUEUE_ENTRIES - 1 : SlotOf(i) \in Slots
         /\ (Count = 0) <=> (head = tail)
         /\ (Count = MAX_QUEUE_ENTRIES - 1) <=> (Wrap(head) = tail)
         /\ SlotOf(0) = tail
         /\ SlotOf(Count) = head
         /\ \A i \in 0 .. Count - 1 : SlotOf(i) # head
  BY QueueAssumption DEF TypeOK, Slots, Count, SlotOf, Wrap

(* Storing at the head adds one message and moves no other.                *)
LEMMA StoreCount ==
  ASSUME TypeOK, Wrap(head) # tail, head' = Wrap(head), tail' = tail
  PROVE  /\ Count' = Count + 1
         /\ \A i \in 0 .. Count : SlotOf(i)' = SlotOf(i)
  BY QueueAssumption DEF TypeOK, Slots, Count, SlotOf, Wrap

(* Moving the tail removes the oldest message and shifts the others.       *)
LEMMA TakeCount ==
  ASSUME TypeOK, head # tail, head' = head, tail' = Wrap(tail)
  PROVE  /\ Count' = Count - 1
         /\ \A i \in 0 .. Count - 2 : SlotOf(i)' = SlotOf(i + 1)
  BY QueueAssumption DEF TypeOK, Slots, Count, SlotOf, Wrap

(* Threads that hold a permit are finitely many; one more or one less      *)
(* changes their number by one.                                            *)
LEMMA HoldersCount ==
  ASSUME TypeOK
  PROVE  IsFiniteSet(Holders) /\ Cardinality(Holders) \in Nat
  <1>1. Holders \subseteq Fetchers
    BY DEF Holders
  <1>2. IsFiniteSet(Holders)
    BY <1>1, FetchersAssumption, FS_Subset
  <1> QED
    BY <1>2, FS_CardinalityType

(* A fetcher that takes a permit adds one to the holders.                  *)
LEMMA HoldersGrow ==
  ASSUME TypeOK, NEW f \in Fetchers, pc[f] # "permit",
         pc' = [pc EXCEPT ![f] = "permit"]
  PROVE  Cardinality(Holders') = Cardinality(Holders) + 1
  <1>1. Holders' = Holders \cup {f} /\ f \notin Holders
    BY DEF Holders, TypeOK
  <1> QED
    BY <1>1, HoldersCount, FS_AddElement

(* A fetcher that takes its message leaves the holders.                    *)
LEMMA HoldersShrink ==
  ASSUME TypeOK, NEW f \in Fetchers, pc[f] = "permit",
         pc' = [pc EXCEPT ![f] = "idle"]
  PROVE  /\ Cardinality(Holders') = Cardinality(Holders) - 1
         /\ Cardinality(Holders) >= 1
  <1>1. Holders' = Holders \ {f} /\ f \in Holders
    BY DEF Holders, TypeOK
  <1>2. Cardinality(Holders') = Cardinality(Holders) - 1
    BY <1>1, HoldersCount, FS_RemoveElement
  <1>3. Cardinality(Holders) # 0
    BY <1>1, HoldersCount, FS_EmptySet
  <1> QED
    BY <1>2, <1>3, HoldersCount

(* A step that gives and takes no permit leaves the holders alone.         *)
LEMMA HoldersSame ==
  ASSUME TypeOK, NEW f \in Fetchers, NEW v \in {"idle", "wait"},
         pc[f] # "permit", pc' = [pc EXCEPT ![f] = v]
  PROVE  Holders' = Holders
  BY DEF Holders, TypeOK

-----------------------------------------------------------------------------
(* The permits keep in step with the messages through every step: the      *)
(* induction needs that a mailbox that is not valid is empty (a new one    *)
(* starts its semaphore at 0) and that the ring holds messages only.       *)
LEMMA InvStep == IInv /\ [Next]_vars => IInv'
  <1> SUFFICES ASSUME IInv, [Next]_vars PROVE IInv'
    OBVIOUS
  <1>t. TypeOK /\ TypeOK'
    BY TypeStep DEF IInv
  <1>c. Count \in Nat /\ Cardinality(Holders) \in Nat /\ sem \in Nat
    BY <1>t, CountRange, HoldersCount DEF TypeOK
  <1>e. head # tail <=> Count >= 1
    BY <1>t, <1>c, CountRange
  <1>1. CASE sys_mbox_new
    <2>1. Holders' = Holders /\ Count' = 0 /\ Count = 0 /\ sem = 0
      BY <1>1, <1>t, <1>e, <1>c DEF sys_mbox_new, Holders, Count, IInv, FreedIsEmpty
    <2>2. PermitsMatchMessages'
      BY <1>1, <2>1 DEF sys_mbox_new, PermitsMatchMessages, IInv
    <2>3. RingHoldsMessages'
      BY <2>1 DEF RingHoldsMessages
    <2>4. FreedIsEmpty'
      BY <1>1 DEF sys_mbox_new, FreedIsEmpty
    <2> QED
      BY <1>t, <2>2, <2>3, <2>4 DEF IInv
  <1>2. CASE sys_mbox_free
    <2>1. Holders' = Holders /\ Count' = Count /\ Count = 0
      BY <1>2, <1>t, CountRange DEF sys_mbox_free, Holders, Count
    <2>2. sem = 0
      BY <2>1, <1>c DEF IInv, PermitsMatchMessages
    <2>3. PermitsMatchMessages'
      BY <1>2, <2>1, <2>2 DEF sys_mbox_free, PermitsMatchMessages, IInv
    <2>4. RingHoldsMessages'
      BY <2>1 DEF RingHoldsMessages
    <2>5. FreedIsEmpty'
      BY <1>2 DEF sys_mbox_free, FreedIsEmpty
    <2> QED
      BY <1>t, <2>3, <2>4, <2>5 DEF IInv
  <1>3. ASSUME NEW p \in Posters, NEW m \in Messages, Store(p, m),
               valid, Wrap(head) # tail
        PROVE  IInv'
    <2>1. /\ Count' = Count + 1
          /\ \A i \in 0 .. Count : SlotOf(i)' = SlotOf(i)
      BY <1>3, <1>t, StoreCount DEF Store
    <2>2. PermitsMatchMessages'
      BY <1>3, <1>c, <2>1 DEF Store, PermitsMatchMessages, IInv, Holders
    <2>3. ASSUME NEW i \in 0 .. Count PROVE (q_mem[SlotOf(i)])' \in Messages
      <3>1. CASE i = Count
        BY <3>1, <1>3, <1>t, <2>1, CountRange DEF Store, TypeOK
      <3>2. CASE i # Count
        <4>1. i \in 0 .. Count - 1 /\ i \in 0 .. MAX_QUEUE_ENTRIES - 1
          BY <3>2, <1>c, <1>t, CountRange, QueueAssumption
        <4>2. q_mem[SlotOf(i)] \in Messages /\ SlotOf(i) \in Slots /\ SlotOf(i) # head
          BY <4>1, <1>t, CountRange DEF IInv, RingHoldsMessages
        <4> QED
          BY <4>2, <2>1, <1>3, <1>t DEF Store, TypeOK
      <3> QED
        BY <3>1, <3>2
    <2>4. RingHoldsMessages'
      BY <2>1, <2>3, <1>c DEF RingHoldsMessages
    <2>5. FreedIsEmpty'
      BY <1>3 DEF Store, FreedIsEmpty
    <2> QED
      BY <1>t, <2>2, <2>4, <2>5 DEF IInv
  <1>4. ASSUME NEW p \in Posters, NEW m \in Messages, sys_mbox_post(p, m)
        PROVE  IInv'
    <2>1. CASE Wrap(head) = tail
      BY <2>1, <1>4, <1>t
         DEF sys_mbox_post, Store, IInv, PermitsMatchMessages, RingHoldsMessages,
             FreedIsEmpty, Count, SlotOf, Holders
    <2>2. CASE Wrap(head) # tail
      BY <2>2, <1>3, <1>4 DEF sys_mbox_post
    <2> QED
      BY <2>1, <2>2
  <1>5. ASSUME NEW p \in Posters, NEW m \in Messages, sys_mbox_trypost(p, m)
        PROVE  IInv'
    <2>1. CASE Wrap(head) = tail
      BY <2>1, <1>5, <1>t
         DEF sys_mbox_trypost, Store, IInv, PermitsMatchMessages, RingHoldsMessages,
             FreedIsEmpty, Count, SlotOf, Holders
    <2>2. CASE Wrap(head) # tail
      BY <2>2, <1>3, <1>5 DEF sys_mbox_trypost
    <2> QED
      BY <2>1, <2>2
  <1>6. ASSUME NEW f \in Fetchers, FetchCall(f) PROVE IInv'
    <2>1. Holders' = Holders
      BY <1>6, <1>t, HoldersSame DEF FetchCall
    <2> QED
      BY <1>6, <1>t, <2>1
         DEF FetchCall, IInv, PermitsMatchMessages, RingHoldsMessages,
             FreedIsEmpty, Count, SlotOf
  <1>7. ASSUME NEW f \in Fetchers, pc[f] # "permit", valid, sem > 0, sem' = sem - 1,
               pc' = [pc EXCEPT ![f] = "permit"],
               UNCHANGED <<valid, q_mem, head, tail, result, aborted>>
        PROVE  IInv'
    <2>1. Cardinality(Holders') = Cardinality(Holders) + 1
      BY <1>7, <1>t, HoldersGrow
    <2>2. Count' = Count
      BY <1>7 DEF Count
    <2>3. PermitsMatchMessages'
      BY <1>7, <1>c, <2>1, <2>2 DEF IInv, PermitsMatchMessages
    <2>4. RingHoldsMessages' /\ FreedIsEmpty'
      BY <1>7, <2>2 DEF IInv, RingHoldsMessages, SlotOf, FreedIsEmpty
    <2> QED
      BY <1>t, <2>3, <2>4 DEF IInv
  <1>8. ASSUME NEW f \in Fetchers, FetchPermit(f) PROVE IInv'
    <2>1. valid
      BY <1>8 DEF FetchPermit, IInv, FreedIsEmpty
    <2> QED
      BY <1>7, <1>8, <2>1 DEF FetchPermit
  <1>9. ASSUME NEW f \in Fetchers, FetchTimeout(f) PROVE IInv'
    <2>1. Holders' = Holders
      BY <1>9, <1>t, HoldersSame DEF FetchTimeout
    <2>2. valid
      BY <1>9 DEF FetchTimeout, IInv, FreedIsEmpty
    <2> QED
      BY <1>9, <1>t, <2>1, <2>2
         DEF FetchTimeout, IInv, PermitsMatchMessages, RingHoldsMessages,
             FreedIsEmpty, Count, SlotOf
  <1>10. ASSUME NEW f \in Fetchers, FetchTake(f) PROVE IInv'
    <2>1. /\ Cardinality(Holders') = Cardinality(Holders) - 1
          /\ Cardinality(Holders) >= 1
      BY <1>10, <1>t, HoldersShrink DEF FetchTake
    <2>2. head # tail /\ Count >= 1
      BY <2>1, <1>c, <1>e DEF IInv, PermitsMatchMessages
    <2>3. /\ Count' = Count - 1
          /\ \A i \in 0 .. Count - 2 : SlotOf(i)' = SlotOf(i + 1)
      BY <2>2, <1>10, <1>t, TakeCount DEF FetchTake
    <2>4. PermitsMatchMessages'
      BY <1>10, <1>c, <2>1, <2>3 DEF FetchTake, IInv, PermitsMatchMessages
    <2>5. ASSUME NEW i \in 0 .. Count - 2 PROVE (q_mem[SlotOf(i)])' \in Messages
      <3>1. i + 1 \in 0 .. Count - 1
        BY <1>c
      <3> QED
        BY <3>1, <2>3, <1>10 DEF FetchTake, IInv, RingHoldsMessages
    <2>6. RingHoldsMessages'
      BY <2>3, <2>5, <1>c DEF RingHoldsMessages
    <2>7. valid
      BY <1>10 DEF FetchTake, IInv, FreedIsEmpty
    <2>8. FreedIsEmpty'
      BY <1>10, <2>7 DEF FetchTake, FreedIsEmpty
    <2> QED
      BY <1>t, <2>4, <2>6, <2>8 DEF IInv
  <1>11. ASSUME NEW f \in Fetchers, sys_arch_mbox_tryfetch(f) PROVE IInv'
    <2>1. CASE sem > 0
      BY <2>1, <1>7, <1>11, <1>c DEF sys_arch_mbox_tryfetch
    <2>2. CASE sem = 0
      BY <2>2, <1>11, <1>t, <1>c
         DEF sys_arch_mbox_tryfetch, IInv, PermitsMatchMessages, RingHoldsMessages,
             FreedIsEmpty, Count, SlotOf, Holders
    <2> QED
      BY <2>1, <2>2, <1>c
  <1>12. CASE UNCHANGED vars
    BY <1>12, <1>t
       DEF vars, IInv, PermitsMatchMessages, RingHoldsMessages, FreedIsEmpty,
           Count, SlotOf, Holders
  <1> QED
    BY <1>1, <1>2, <1>4, <1>5, <1>6, <1>8, <1>9, <1>10, <1>11, <1>12 DEF Next

(* The inductive invariant holds of every reachable state.                 *)
THEOREM Invariance == Spec => []IInv
  <1>1. ASSUME Init, TypeOK PROVE IInv
    <2>1. Holders = {} /\ Count = 0
      BY <1>1 DEF Init, Holders, Count
    <2>2. Cardinality(Holders) = 0
      BY <2>1, FS_EmptySet
    <2>3. PermitsMatchMessages
      BY <1>1, <2>1, <2>2 DEF Init, PermitsMatchMessages
    <2>4. RingHoldsMessages
      BY <2>1 DEF RingHoldsMessages
    <2>5. FreedIsEmpty
      BY <1>1 DEF Init, FreedIsEmpty
    <2> QED
      BY <1>1, <2>3, <2>4, <2>5 DEF IInv
  <1> QED
    BY <1>1, InvStep, TypeCorrect, PTL DEF Spec

(* Permits given and permits left always add up to the messages in the     *)
(* ring: no fetcher waits while a message it could have lies there, and    *)
(* none goes on without one.                                               *)
THEOREM PermitsInvariant == Spec => []PermitsMatchMessages
  BY Invariance, PTL DEF IInv

(* A thread that got its permit finds a posted message at the tail.        *)
THEOREM PermitInvariant == Spec => []PermitFindsMessage
  <1>1. ASSUME IInv PROVE PermitFindsMessage
    <2> SUFFICES ASSUME Holders # {} PROVE q_mem[tail] \in Messages
      BY DEF PermitFindsMessage
    <2>1. TypeOK /\ Count \in Nat /\ SlotOf(0) = tail
      BY <1>1, CountRange DEF IInv
    <2>2. IsFiniteSet(Holders) /\ Cardinality(Holders) \in Nat
      BY <2>1, HoldersCount
    <2>3. Cardinality(Holders) # 0
      BY <2>2, FS_EmptySet
    <2>4. 0 \in 0 .. Count - 1
      BY <1>1, <2>1, <2>2, <2>3 DEF IInv, PermitsMatchMessages, TypeOK
    <2> QED
      BY <1>1, <2>1, <2>4 DEF IInv, RingHoldsMessages
  <1> QED
    BY <1>1, Invariance, PTL

-----------------------------------------------------------------------------
(* A stored message is appended to the abstract queue.                     *)
LEMMA QueueAppend ==
  ASSUME TypeOK, NEW p \in Posters, NEW m \in Messages, Store(p, m),
         Wrap(head) # tail
  PROVE  Queue' = Append(Queue, m) /\ Len(Queue) < MAX_QUEUE_ENTRIES - 1
  <1>1. /\ Count' = Count + 1
        /\ \A i \in 0 .. Count : SlotOf(i)' = SlotOf(i)
    BY StoreCount DEF Store
  <1>2. Count \in Nat /\ Count <= MAX_QUEUE_ENTRIES - 1
    BY CountRange, QueueAssumption
  <1>3. Count < MAX_QUEUE_ENTRIES - 1
    BY <1>2, CountRange, QueueAssumption
  <1>4. Len(Queue) = Count /\ DOMAIN Queue = 1 .. Count
    BY <1>2 DEF Queue
  <1>5. \A i \in 1 .. Count : (q_mem[SlotOf(i - 1)])' = q_mem[SlotOf(i - 1)]
    <2> SUFFICES ASSUME NEW i \in 1 .. Count
                 PROVE  (q_mem[SlotOf(i - 1)])' = q_mem[SlotOf(i - 1)]
      OBVIOUS
    <2>1. i - 1 \in 0 .. Count - 1 /\ i - 1 \in 0 .. Count
          /\ i - 1 \in 0 .. MAX_QUEUE_ENTRIES - 1
      BY <1>2, QueueAssumption
    <2>2. SlotOf(i - 1) # head /\ SlotOf(i - 1) \in Slots
      BY <2>1, CountRange
    <2> QED
      BY <2>1, <2>2, <1>1 DEF Store, TypeOK
  <1>6. q_mem'[head] = m /\ SlotOf(Count) = head
    BY CountRange DEF Store, TypeOK
  <1>7. Queue' = [i \in 1 .. Count + 1 |-> (q_mem[SlotOf(i - 1)])']
    BY <1>1 DEF Queue
  <1>8. \A i \in 1 .. Count + 1 :
           (q_mem[SlotOf(i - 1)])' = IF i = Count + 1 THEN m ELSE q_mem[SlotOf(i - 1)]
    <2> SUFFICES ASSUME NEW i \in 1 .. Count + 1
                 PROVE  (q_mem[SlotOf(i - 1)])' =
                           IF i = Count + 1 THEN m ELSE q_mem[SlotOf(i - 1)]
      OBVIOUS
    <2>1. CASE i = Count + 1
      <3>1. i - 1 = Count /\ i - 1 \in 0 .. Count
        BY <2>1, <1>2
      <3>2. SlotOf(i - 1)' = head
        BY <3>1, <1>1, <1>6
      <3> QED
        BY <3>2, <2>1, <1>6
    <2>2. CASE i # Count + 1
      <3>1. i \in 1 .. Count
        BY <2>2, <1>2
      <3> QED
        BY <3>1, <2>2, <1>5
    <2> QED
      BY <2>1, <2>2
  <1>9. Queue' = [i \in 1 .. Count + 1 |->
                    IF i = Count + 1 THEN m ELSE q_mem[SlotOf(i - 1)]]
    BY <1>7, <1>8
  <1>10. Append(Queue, m) = [i \in 1 .. Count + 1 |->
                    IF i = Count + 1 THEN m ELSE q_mem[SlotOf(i - 1)]]
    BY <1>2, <1>4 DEF Queue
  <1> QED
    BY <1>3, <1>4, <1>9, <1>10

(* Moving the tail removes the head of the abstract queue.                 *)
LEMMA QueueTail ==
  ASSUME TypeOK, head # tail, head' = head, tail' = Wrap(tail), q_mem' = q_mem
  PROVE  Queue' = Tail(Queue) /\ Queue # << >> /\ Head(Queue) = q_mem[tail]
  <1>1. /\ Count' = Count - 1
        /\ \A i \in 0 .. Count - 2 : SlotOf(i)' = SlotOf(i + 1)
    BY TakeCount
  <1>2. Count \in Nat /\ Count >= 1 /\ SlotOf(0) = tail
    BY CountRange
  <1>3. Len(Queue) = Count /\ Queue \in Seq(Messages \cup {NULL})
    <2>1. ASSUME NEW i \in 1 .. Count PROVE q_mem[SlotOf(i - 1)] \in Messages \cup {NULL}
      <3>1. i - 1 \in 0 .. MAX_QUEUE_ENTRIES - 1
        BY <1>2, CountRange, QueueAssumption
      <3>2. SlotOf(i - 1) \in Slots
        BY <3>1, CountRange
      <3> QED
        BY <3>2 DEF TypeOK
    <2> QED
      BY <1>2, <2>1 DEF Queue
  <1>4. Queue[1] = q_mem[tail]
    BY <1>2 DEF Queue
  <1>5. Queue' = [i \in 1 .. Count - 1 |-> (q_mem[SlotOf(i - 1)])']
    BY <1>1 DEF Queue
  <1>6. \A i \in 1 .. Count - 1 : (q_mem[SlotOf(i - 1)])' = q_mem[SlotOf(i)]
    <2> SUFFICES ASSUME NEW i \in 1 .. Count - 1
                 PROVE  (q_mem[SlotOf(i - 1)])' = q_mem[SlotOf(i)]
      OBVIOUS
    <2>1. i - 1 \in 0 .. Count - 2 /\ (i - 1) + 1 = i
      BY <1>2
    <2> QED
      BY <2>1, <1>1
  <1>7. Tail(Queue) = [i \in 1 .. Count - 1 |-> q_mem[SlotOf(i)]]
    <2>0. Queue # << >>
      BY <1>2, <1>3
    <2>1. /\ Tail(Queue) \in Seq(Messages \cup {NULL})
          /\ Len(Tail(Queue)) = Count - 1
          /\ \A i \in 1 .. Count - 1 : Tail(Queue)[i] = Queue[i + 1]
      BY <2>0, <1>3, HeadTailProperties
    <2>2. \A i \in 1 .. Count - 1 : Queue[i + 1] = q_mem[SlotOf(i)]
      BY <1>2 DEF Queue
    <2>3. Tail(Queue) = [i \in 1 .. Count - 1 |-> Tail(Queue)[i]]
      BY <2>1, LenProperties
    <2> QED
      BY <2>1, <2>2, <2>3
  <1> QED
    <2>1. Queue # << >>
      BY <1>2, <1>3
    <2>2. Head(Queue) = q_mem[tail]
      BY <1>3, <1>4, <2>1
    <2> QED
      BY <1>5, <1>6, <1>7, <2>1, <2>2

(* A step that leaves the ring alone leaves the abstract queue alone.      *)
LEMMA QueueSame ==
  ASSUME UNCHANGED <<q_mem, head, tail>>
  PROVE  Queue' = Queue
  BY DEF Queue, Count, SlotOf

(* The ring implements the abstract mailbox: a store is a Post, a refused  *)
(* trypost is a Refuse of a full mailbox, the critical section of a fetch  *)
(* is a Fetch, an expired wait is a Timeout, every other step stutters.    *)
THEOREM Refinement == Spec => RefinesMailbox
  <1> DEFINE avars == <<Queue, result, got>>
  <1>1. ASSUME Init, TypeOK PROVE Abstract!Init
    <2>1. Queue = << >>
      BY <1>1 DEF Init, Queue, Count
    <2> QED
      BY <1>1, <2>1 DEF Init, Abstract!Init
  <1>2. ASSUME IInv, [Next]_vars PROVE [Abstract!Next]_(Abstract!vars)
    <2>t. TypeOK /\ Count \in Nat /\ Len(Queue) = Count
      BY <1>2, CountRange DEF IInv, Queue
    <2>1. ASSUME NEW p \in Posters, NEW m \in Messages, Store(p, m),
                 Wrap(head) # tail
          PROVE  Abstract!Post(p, m)
      BY <2>1, <2>t, QueueAppend DEF Store, Abstract!Post
    <2>2. ASSUME NEW p \in Posters, NEW m \in Messages, sys_mbox_post(p, m)
          PROVE  Abstract!Post(p, m) \/ UNCHANGED avars
      <3>1. CASE Wrap(head) = tail
        BY <3>1, <2>2, QueueSame DEF sys_mbox_post
      <3>2. CASE Wrap(head) # tail
        BY <3>2, <2>1, <2>2 DEF sys_mbox_post
      <3> QED
        BY <3>1, <3>2
    <2>3. ASSUME NEW p \in Posters, NEW m \in Messages, sys_mbox_trypost(p, m)
          PROVE  Abstract!Post(p, m) \/ Abstract!Refuse(p)
      <3>1. CASE Wrap(head) = tail
        <4>1. Queue' = Queue
          BY <3>1, <2>3, QueueSame DEF sys_mbox_trypost
        <4>2. Len(Queue) = MAX_QUEUE_ENTRIES - 1
          BY <3>1, <2>t, CountRange
        <4> QED
          BY <3>1, <2>3, <4>1, <4>2 DEF sys_mbox_trypost, Abstract!Refuse
      <3>2. CASE Wrap(head) # tail
        BY <3>2, <2>1, <2>3 DEF sys_mbox_trypost
      <3> QED
        BY <3>1, <3>2
    <2>4. ASSUME NEW f \in Fetchers, FetchTake(f) PROVE Abstract!Fetch(f)
      <3>1. f \in Holders
        BY <2>4 DEF FetchTake, Holders
      <3>2. Cardinality(Holders) # 0 /\ Cardinality(Holders) \in Nat
        BY <3>1, <2>t, HoldersCount, FS_EmptySet
      <3>3. head # tail
        BY <3>2, <2>t, <1>2, CountRange DEF IInv, PermitsMatchMessages, TypeOK
      <3> QED
        BY <3>3, <2>4, <2>t, QueueTail DEF FetchTake, Abstract!Fetch
    <2>5. ASSUME NEW f \in Fetchers,
                 FetchCall(f) \/ FetchPermit(f) \/ FetchTimeout(f)
                   \/ sys_arch_mbox_tryfetch(f)
          PROVE  Abstract!Timeout(f) \/ UNCHANGED avars
      <3>1. Queue' = Queue
        BY <2>5, QueueSame
           DEF FetchCall, FetchPermit, FetchTimeout, sys_arch_mbox_tryfetch
      <3> QED
        BY <2>5, <3>1 DEF FetchCall, FetchPermit, FetchTimeout,
                          sys_arch_mbox_tryfetch, Abstract!Timeout
    <2>6. CASE sys_mbox_new
      <3>1. Count = 0 /\ Count' = 0
        BY <2>6, <1>2, <2>t, CountRange DEF sys_mbox_new, IInv, FreedIsEmpty, Count
      <3>2. Queue' = Queue
        BY <3>1 DEF Queue
      <3> QED
        BY <2>6, <3>2 DEF sys_mbox_new, Abstract!vars
    <2>7. CASE sys_mbox_free
      BY <2>7, QueueSame DEF sys_mbox_free, Abstract!vars
    <2>8. CASE UNCHANGED vars
      BY <2>8, QueueSame DEF vars, Abstract!vars
    <2> QED
      BY <1>2, <2>2, <2>3, <2>4, <2>5, <2>6, <2>7, <2>8
         DEF Next, Abstract!Next, Abstract!vars
  <1> QED
    BY <1>1, <1>2, TypeCorrect, Invariance, PTL
       DEF Spec, RefinesMailbox, Abstract!Spec
=============================================================================
