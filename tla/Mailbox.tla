------------------------------- MODULE Mailbox -------------------------------
(***************************************************************************)
(* What lwIP expects of a port's mailbox (doc/sys_arch.txt): a bounded     *)
(* FIFO of message pointers.  A post appends, a refused post is refused    *)
(* only because the mailbox is full, a fetch delivers the oldest message,  *)
(* and nothing else touches the messages.                                  *)
(***************************************************************************)
EXTENDS Naturals, Sequences

CONSTANTS
  Posters,    \* threads that post
  Fetchers,   \* threads that fetch
  Messages,   \* message pointers
  NULL,       \* the pointer a fetch that timed out returns
  Capacity    \* how many messages the mailbox holds

VARIABLES
  queue,      \* messages posted and not yet fetched, oldest first
  result,     \* result[p]: what the last post of p returned
  got         \* got[f]: the message the last fetch of f returned

vars == <<queue, result, got>>

Init ==
  /\ queue = << >>
  /\ result = [p \in Posters |-> "none"]
  /\ got = [f \in Fetchers |-> NULL]

Post(p, m) ==
  /\ Len(queue) < Capacity
  /\ queue' = Append(queue, m)
  /\ result' = [result EXCEPT ![p] = "ERR_OK"]
  /\ UNCHANGED got

Refuse(p) ==
  /\ Len(queue) = Capacity
  /\ result' = [result EXCEPT ![p] = "ERR_MEM"]
  /\ UNCHANGED <<queue, got>>

Fetch(f) ==
  /\ queue # << >>
  /\ got' = [got EXCEPT ![f] = Head(queue)]
  /\ queue' = Tail(queue)
  /\ UNCHANGED result

Timeout(f) ==
  /\ got' = [got EXCEPT ![f] = NULL]
  /\ UNCHANGED <<queue, result>>

Next ==
  \/ \E p \in Posters, m \in Messages : Post(p, m)
  \/ \E p \in Posters : Refuse(p)
  \/ \E f \in Fetchers : Fetch(f) \/ Timeout(f)

Spec == Init /\ [][Next]_vars
=============================================================================
