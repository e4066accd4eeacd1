------------------------------- MODULE SysMbox -------------------------------
(***************************************************************************)
(* The mailbox of the win32 port (contrib/ports/win32/sys_arch.c): a ring  *)
(* of MAX_QUEUE_ENTRIES slots guarded by the SYS_ARCH_PROTECT critical     *)
(* section, and a counting semaphore.  A post is one critical section.  A  *)
(* fetch is two steps: it takes a permit of the semaphore outside the      *)
(* critical section and only then reads the slot inside it, so several     *)
(* threads may hold permits before any of them has moved the tail.         *)
(***************************************************************************)
EXTENDS Naturals, Sequences, FiniteSets

CONSTANTS Posters, Fetchers, Messages, NULL, MAX_QUEUE_ENTRIES

ASSUME QueueAssumption == MAX_QUEUE_ENTRIES \in Nat /\ MAX_QUEUE_ENTRIES >= 2
ASSUME FetchersAssumption == IsFiniteSet(Fetchers)
ASSUME NullAssumption == NULL \notin Messages

VARIABLES
  valid,      \* mbox->sem # NULL: between sys_mbox_new and sys_mbox_free
  q_mem,      \* the slots
  head,       \* next slot to write
  tail,       \* next slot to read
  sem,        \* permits left in the semaphore
  pc,         \* pc[f]: where thread f is in sys_arch_mbox_fetch
  result,     \* result[p]: what the last post of p returned
  got,        \* got[f]: *msg after the last fetch of f
  aborted     \* an LWIP_ASSERT failed: LWIP_PLATFORM_ASSERT calls abort()

vars == <<valid, q_mem, head, tail, sem, pc, result, got, aborted>>

Slots == 0 .. MAX_QUEUE_ENTRIES - 1

(* The types of the variables.                                             *)
TypeOK ==
  /\ valid \in BOOLEAN
  /\ q_mem \in [Slots -> Messages \cup {NULL}]
  /\ head \in Slots
  /\ tail \in Slots
  /\ sem \in Nat
  /\ pc \in [Fetchers -> {"idle", "wait", "permit"}]
  /\ result \in [Posters -> {"none", "ERR_OK", "ERR_MEM"}]
  /\ got \in [Fetchers -> Messages \cup {NULL}]
  /\ aborted \in BOOLEAN

(* Mutant: the wrap one slot too late.                                     *)
Wrap_Late(i) == IF i + 1 > MAX_QUEUE_ENTRIES THEN 0 ELSE i + 1

(* The increment and wrap that head and tail share.                        *)
Wrap(i) == IF i + 1 >= MAX_QUEUE_ENTRIES THEN 0 ELSE i + 1

Init ==
  /\ valid = FALSE
  /\ q_mem = [i \in Slots |-> NULL]
  /\ head = 0
  /\ tail = 0
  /\ sem = 0
  /\ pc = [f \in Fetchers |-> "idle"]
  /\ result = [p \in Posters |-> "none"]
  /\ got = [f \in Fetchers |-> NULL]
  /\ aborted = FALSE

sys_mbox_new ==
  /\ ~aborted /\ ~valid
  /\ valid' = TRUE
  /\ sem' = 0
  /\ q_mem' = [i \in Slots |-> NULL]
  /\ head' = 0
  /\ tail' = 0
  /\ UNCHANGED <<pc, result, got, aborted>>

(* Callers free a mailbox they have drained (netconn_drain) and that no    *)
(* thread is fetching from.                                                *)
sys_mbox_free ==
  /\ ~aborted /\ valid
  /\ head = tail
  /\ \A f \in Fetchers : pc[f] = "idle"
  /\ valid' = FALSE
  /\ sem' = 0
  /\ UNCHANGED <<q_mem, head, tail, pc, result, got, aborted>>

(* Mutant: the post that forgets ReleaseSemaphore.                         *)
Store_NoRelease(p, m) ==
  /\ q_mem' = [q_mem EXCEPT ![head] = m]
  /\ head' = Wrap(head)
  /\ result' = [result EXCEPT ![p] = "ERR_OK"]
  /\ UNCHANGED <<valid, tail, sem, pc, got, aborted>>

(* The store, the new head and ReleaseSemaphore.                           *)
Store(p, m) ==
  /\ q_mem' = [q_mem EXCEPT ![head] = m]
  /\ head' = Wrap(head)
  /\ sem' = sem + 1
  /\ result' = [result EXCEPT ![p] = "ERR_OK"]
  /\ UNCHANGED <<valid, tail, pc, got, aborted>>

(* A post never waits for room: LWIP_ASSERT("mbox is full!") aborts the    *)
(* process when the new head meets the tail.                               *)
sys_mbox_post(p, m) ==
  /\ ~aborted /\ valid
  /\ \/ /\ Wrap(head) # tail
        /\ Store(p, m)
     \/ /\ Wrap(head) = tail
        /\ aborted' = TRUE
        /\ UNCHANGED <<valid, q_mem, head, tail, sem, pc, result, got>>

(* Mutant: the full check of trypost is dropped.                           *)
sys_mbox_trypost_Unchecked(p, m) == ~aborted /\ valid /\ Store(p, m)

sys_mbox_trypost(p, m) ==
  /\ ~aborted /\ valid
  /\ \/ /\ Wrap(head) # tail
        /\ Store(p, m)
     \/ /\ Wrap(head) = tail
        /\ result' = [result EXCEPT ![p] = "ERR_MEM"]
        /\ UNCHANGED <<valid, q_mem, head, tail, sem, pc, got, aborted>>

(* sys_arch_mbox_fetch enters WaitForSingleObject.                         *)
FetchCall(f) ==
  /\ ~aborted /\ valid
  /\ pc[f] = "idle"
  /\ pc' = [pc EXCEPT ![f] = "wait"]
  /\ UNCHANGED <<valid, q_mem, head, tail, sem, result, got, aborted>>

(* Mutant: the return value of WaitForSingleObject is not looked at.       *)
FetchPermit_AnyResult(f) ==
  /\ ~aborted
  /\ pc[f] = "wait"
  /\ sem' = IF sem > 0 THEN sem - 1 ELSE 0
  /\ pc' = [pc EXCEPT ![f] = "permit"]
  /\ UNCHANGED <<valid, q_mem, head, tail, result, got, aborted>>

(* WaitForSingleObject returns WAIT_OBJECT_0: the permit is taken, the     *)
(* critical section is not entered yet.                                    *)
FetchPermit(f) ==
  /\ ~aborted
  /\ pc[f] = "wait"
  /\ sem > 0
  /\ sem' = sem - 1
  /\ pc' = [pc EXCEPT ![f] = "permit"]
  /\ UNCHANGED <<valid, q_mem, head, tail, result, got, aborted>>

(* WaitForSingleObject returns WAIT_TIMEOUT (never for timeout = 0, which  *)
(* waits for ever: a thread that waits need not take this step).           *)
FetchTimeout(f) ==
  /\ ~aborted
  /\ pc[f] = "wait"
  /\ sem = 0
  /\ got' = [got EXCEPT ![f] = NULL]
  /\ pc' = [pc EXCEPT ![f] = "idle"]
  /\ UNCHANGED <<valid, q_mem, head, tail, sem, result, aborted>>

(* The critical section of both fetch functions.                           *)
FetchTake(f) ==
  /\ ~aborted
  /\ pc[f] = "permit"
  /\ got' = [got EXCEPT ![f] = q_mem[tail]]
  /\ tail' = Wrap(tail)
  /\ pc' = [pc EXCEPT ![f] = "idle"]
  /\ UNCHANGED <<valid, q_mem, head, sem, result, aborted>>

(* sys_arch_mbox_tryfetch up to its critical section: a wait of 0 ms.      *)
sys_arch_mbox_tryfetch(f) ==
  /\ ~aborted /\ valid
  /\ pc[f] = "idle"
  /\ \/ /\ sem > 0
        /\ sem' = sem - 1
        /\ pc' = [pc EXCEPT ![f] = "permit"]
        /\ UNCHANGED got
     \/ /\ sem = 0
        /\ got' = [got EXCEPT ![f] = NULL]
        /\ UNCHANGED <<sem, pc>>
  /\ UNCHANGED <<valid, q_mem, head, tail, result, aborted>>

Next ==
  \/ sys_mbox_new
  \/ sys_mbox_free
  \/ \E p \in Posters, m \in Messages : sys_mbox_post(p, m) \/ sys_mbox_trypost(p, m)
  \/ \E f \in Fetchers :
        FetchCall(f) \/ FetchPermit(f) \/ FetchTimeout(f) \/ FetchTake(f)
          \/ sys_arch_mbox_tryfetch(f)

Spec == Init /\ [][Next]_vars

(* A receiving thread (tcpip_thread, an application in netconn_recv) calls *)
(* fetch again and again; the kernel gives a permit to some waiter while   *)
(* there is one to give, and runs every thread that has its permit.        *)
Fairness ==
  /\ \A f \in Fetchers : WF_vars(FetchCall(f)) /\ WF_vars(FetchTake(f))
  /\ WF_vars(\E f \in Fetchers : FetchPermit(f))

FairSpec == Spec /\ Fairness

-----------------------------------------------------------------------------
(* Messages in the ring, and the slot of the i-th of them (from 0).        *)
Count == IF head >= tail THEN head - tail ELSE head + MAX_QUEUE_ENTRIES - tail
SlotOf(i) == IF tail + i < MAX_QUEUE_ENTRIES
             THEN tail + i ELSE tail + i - MAX_QUEUE_ENTRIES
Queue == [i \in 1 .. Count |-> q_mem[SlotOf(i - 1)]]

Holders == {f \in Fetchers : pc[f] = "permit"}

(* Permits in the semaphore and permits in the hands of threads together   *)
(* count the messages in the ring, so a thread that returned from          *)
(* WaitForSingleObject always finds a message at the tail, however many    *)
(* other fetchers hold permits and whatever was posted meanwhile.          *)
PermitsMatchMessages == sem + Cardinality(Holders) = Count

(* No thread reads a slot that was never posted to: what is at the tail    *)
(* when a thread holds a permit is a message, not the memset NULL.         *)
PermitFindsMessage == Holders # {} => q_mem[tail] \in Messages

(* The ring implements the abstract mailbox of sys_arch.txt: FIFO, nothing *)
(* lost, duplicated or invented, ERR_MEM only when full.                   *)
Abstract == INSTANCE Mailbox WITH
  queue <- Queue, Capacity <- MAX_QUEUE_ENTRIES - 1
RefinesMailbox == Abstract!Spec

(* The oldest message never stays behind: the tail moves on as long as the *)
(* ring holds anything, so with the FIFO order every posted message        *)
(* reaches some fetcher, unless the process aborts.  A post that leaves no *)
(* permit, or a permit taken twice, would strand a message.                *)
PostedIsFetched ==
  \A t \in Slots : (Count > 0 /\ tail = t) ~> (tail # t \/ aborted)

(* sys_arch.txt: sys_mbox_post "have to block until the "msg" is really    *)
(* posted": a post to a full mailbox waits for room.                       *)
PostBlocks == ~aborted
=============================================================================
