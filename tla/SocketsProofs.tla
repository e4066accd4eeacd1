---------------------------- MODULE SocketsProofs ----------------------------
(***************************************************************************)
(* Proofs about lwip_select and event_callback, for any number of threads, *)
(* connections, sockets and events and any sets of sockets to wait for.    *)
(*                                                                         *)
(* Two results, about the counters of waiting threads and the wake-ups,    *)
(* depend on NoReuse: a slot that lwip_accept gives out anew is in no set  *)
(* that a thread still selects.  The code has a @todo for that case        *)
(* (sockets.c:1493).  The count of receive events and what makes a select  *)
(* return hold whether slots are reused or not.                            *)
(***************************************************************************)
EXTENDS Sockets, BasicLemmas, FiniteSetTheorems

-----------------------------------------------------------------------------
(* The inductive invariant, in parts that speak of one thread, one event   *)
(* callback or one socket at a time.                                       *)

(* The pcs of a thread whose select_cb is on the list.                     *)
Listed == {"inc", "rescan", "wait", "dec", "remove"}

OnList(lst, t) == \E k \in 1 .. Len(lst) : lst[k] = t

(* The local variables of a thread.                                        *)
CallOK(c) ==
  /\ c.todo \subseteq Fds(c.want)
  /\ c.pc \in {"inc", "dec"} => c.todo # {}
  /\ c.pc \in {"add", "wait"} => c.todo = Fds(c.want)
  /\ c.pc \in {"add", "inc", "rescan", "wait"} => c.want # {}
  /\ c.pc \in {"scan", "add", "inc", "rescan", "wait"} => c.signalled = c.sem
  /\ c.pc \in {"alloc", "allocinit", "handover"} => c.newconn \in AllConns

(* The local variables of event_callback.                                  *)
EventOK(x) ==
  x.pc # "idle" => /\ x.conn \in AllConns /\ x.todo # <<>>
                   /\ x.pc = "apply" => Head(x.todo) # "post"

Local ==
  /\ TypeOK
  /\ \A t \in Threads : CallOK(call[t])
  /\ \A e \in Callers : EventOK(ev[e])
  /\ \A t \in Threads : call[t].pc \in Listed => OnList(select_cb_list, t)

(* No slot that is being given out is in a set some thread selects.        *)
NoReuse ==
  \A t, u \in Threads :
    call[t].pc \in {"allocinit", "handover"} => call[t].s \notin Fds(call[u].want)

(* The sockets in which a thread with the local variables c is counted.    *)
CountedIn(c) ==
  CASE c.pc = "inc" -> Fds(c.want) \ c.todo
    [] c.pc \in {"rescan", "wait"} -> Fds(c.want)
    [] c.pc = "dec" -> c.todo
    [] OTHER -> {}

(* A thread has looked at socket s in its second scan, found nothing to    *)
(* return for and is not signalled, although s (so) has what it asks for.  *)
Owed(c, so, s) ==
  /\ \/ c.pc = "rescan" /\ s \in Fds(c.want) \ c.todo /\ c.ready = {}
     \/ c.pc = "wait"
  /\ ~c.sem /\ so.conn # NULL
  /\ \E k \in EventReady(so) : <<s, k>> \in c.want

(* The event_callback x is for s and has thread t before it.               *)
Ahead(x, lst, t, s) ==
  /\ x.pc = "walk" /\ x.s = s
  /\ x.changed \/ \E k \in x.next .. Len(lst) : lst[k] = t

Woken ==
  \A t \in Threads : \A s \in Sockets :
    Owed(call[t], sock[s], s) => \E e \in Callers : Ahead(ev[e], select_cb_list, t, s)

Counts == WaitingIsExact /\ Woken /\ ~aborted

-----------------------------------------------------------------------------
(* Steps that disturb nothing: what they may do to a thread, ...           *)
CallStep(c, d) ==
  /\ d \in CallType /\ CallOK(d)
  /\ d.pc \in Listed => c.pc \in Listed
  /\ CountedIn(d) = CountedIn(c)
  /\ c.pc = "allocinit" => d.pc = "allocinit" /\ d.s = c.s
  /\ d.pc \in {"rescan", "wait"} =>
       /\ c.pc = d.pc /\ c.want = d.want /\ c.todo = d.todo /\ c.ready = d.ready
       /\ c.sem => d.sem

(* ... to a socket ...                                                     *)
SockStep(a, b) ==
  /\ b \in SocketType
  /\ b.conn # NULL => /\ a.conn = b.conn /\ a.select_waiting = b.select_waiting
                      /\ EventReady(a) = EventReady(b)

(* ... and to an event callback.                                           *)
EventStep(x, y) ==
  y \in EventType /\ EventOK(y) /\ (x.pc = "walk" => y = x)

Quiet ==
  /\ sock' \in [Sockets -> SocketType] /\ \A s \in Sockets : SockStep(sock[s], sock'[s])
  /\ call' \in [Threads -> CallType] /\ \A t \in Threads : CallStep(call[t], call'[t])
  /\ ev' \in [Callers -> EventType] /\ \A e \in Callers : EventStep(ev[e], ev'[e])
  /\ select_cb_list' = select_cb_list /\ aborted' = aborted
  /\ nc' \in [AllConns -> ConnType] /\ events' \in 0 .. MaxEvents

-----------------------------------------------------------------------------
(* Lowest of a set of sockets is one of them.                              *)
LEMMA LowestIsIn ==
  ASSUME NEW S, S \subseteq Sockets, S # {}
  PROVE  Lowest(S) \in S
<1>1. S \subseteq Nat
  BY SocketsAssumption DEF Sockets
<1> QED
  BY <1>1, LeastNat DEF Lowest

(* The sockets a thread asks for are sockets.                              *)
LEMMA FdsAreSockets ==
  ASSUME NEW w \in SUBSET (Sockets \X Kinds)
  PROVE  Fds(w) \subseteq Sockets /\ (w # {} => Fds(w) # {})
  BY DEF Fds

(* Nothing is asked for in an empty set.                                   *)
LEMMA FdsEmpty == Fds({}) = {}
  BY DEF Fds

(* A quiet step keeps the types and the local conditions.                  *)
LEMMA QuietLocal ==
  ASSUME Local, Quiet
  PROVE  Local'
<1>1. TypeOK'
  BY DEF Local, Quiet, TypeOK
<1>2. \A t \in Threads : CallOK(call'[t])
  BY DEF Quiet, CallStep
<1>3. \A e \in Callers : EventOK(ev'[e])
  BY DEF Quiet, EventStep
<1>4. \A t \in Threads : call'[t].pc \in Listed => OnList(select_cb_list', t)
  BY DEF Quiet, CallStep, Local
<1> QED
  BY <1>1, <1>2, <1>3, <1>4 DEF Local

(* WaitingIsExact in terms of CountedIn.                                   *)
LEMMA CountedIsCountedIn ==
  ASSUME NEW t \in Threads
  PROVE  Counted(t) = CountedIn(call[t])
  BY DEF Counted, CountedIn

(* A step that changes neither who is counted nor the counters keeps them  *)
(* exact.                                                                  *)
LEMMA WaitingKept ==
  ASSUME WaitingIsExact,
         \A t \in Threads : CountedIn(call'[t]) = CountedIn(call[t]),
         \A s \in Sockets : sock'[s].conn # NULL /\ ~Unknown(s)' =>
           /\ sock[s].conn # NULL /\ ~Unknown(s)
           /\ sock'[s].select_waiting = sock[s].select_waiting
  PROVE  WaitingIsExact'
<1>1. \A t \in Threads : Counted(t)' = Counted(t)
  BY DEF Counted, CountedIn
<1>2. \A s \in Sockets : {t \in Threads : s \in Counted(t)'} = {t \in Threads : s \in Counted(t)}
  BY <1>1
<1> QED
  BY <1>2 DEF WaitingIsExact

(* A quiet step keeps the counters exact and the wake-ups under way.       *)
LEMMA QuietCounts ==
  ASSUME Local, Counts, Quiet
  PROVE  Counts'
<1>1. WaitingIsExact'
  <2>1. \A s \in Sockets : Unknown(s) => Unknown(s)'
    BY DEF Quiet, CallStep, Unknown
  <2>2. \A t \in Threads : CountedIn(call'[t]) = CountedIn(call[t])
    BY DEF Quiet, CallStep
  <2>3. \A s \in Sockets : sock'[s].conn # NULL =>
          sock[s].conn # NULL /\ sock'[s].select_waiting = sock[s].select_waiting
    BY DEF Quiet, SockStep
  <2> QED
    BY <2>1, <2>2, <2>3, WaitingKept DEF Counts
<1>2. Woken'
  <2> SUFFICES ASSUME NEW t \in Threads, NEW s \in Sockets, Owed(call'[t], sock'[s], s)
               PROVE  \E e \in Callers : Ahead(ev'[e], select_cb_list', t, s)
    BY DEF Woken
  <2>1. Owed(call[t], sock[s], s)
    BY DEF Owed, Quiet, CallStep, SockStep
  <2>2. PICK e \in Callers : Ahead(ev[e], select_cb_list, t, s)
    BY <2>1 DEF Counts, Woken
  <2>3. ev'[e] = ev[e] /\ select_cb_list' = select_cb_list
    BY <2>2 DEF Ahead, Quiet, EventStep
  <2> QED
    BY <2>2, <2>3
<1> QED
  BY <1>1, <1>2 DEF Counts, Quiet

(* Quiet allows a step to leave a part alone.                              *)
LEMMA CallStays ==
  ASSUME Local, NEW t \in Threads
  PROVE  CallStep(call[t], call[t])
<1>1. call[t] \in CallType /\ CallOK(call[t])
  BY DEF Local, TypeOK
<1> QED
  BY <1>1 DEF CallStep

(* The same for a socket.                                                  *)
LEMMA SockStays ==
  ASSUME Local, NEW s \in Sockets
  PROVE  SockStep(sock[s], sock[s])
  BY DEF SockStep, Local, TypeOK

(* The same for a callback.                                                *)
LEMMA EventStays ==
  ASSUME Local, NEW e \in Callers
  PROVE  EventStep(ev[e], ev[e])
  BY DEF EventStep, Local, TypeOK

(* One thread takes a quiet step.                                          *)
LEMMA OneCall ==
  ASSUME Local, NEW t \in Threads, NEW d, CallStep(call[t], d), call' = [call EXCEPT ![t] = d]
  PROVE  call' \in [Threads -> CallType] /\ \A u \in Threads : CallStep(call[u], call'[u])
<1>1. d \in CallType /\ call \in [Threads -> CallType]
  BY DEF CallStep, Local, TypeOK
<1>2. \A u \in Threads : call'[u] = IF u = t THEN d ELSE call[u]
  BY <1>1
<1> QED
  BY <1>1, <1>2, CallStays

(* One socket changes quietly.                                             *)
LEMMA OneSocket ==
  ASSUME Local, NEW s \in Sockets, NEW b, SockStep(sock[s], b), sock' = [sock EXCEPT ![s] = b]
  PROVE  sock' \in [Sockets -> SocketType] /\ \A r \in Sockets : SockStep(sock[r], sock'[r])
<1>1. b \in SocketType /\ sock \in [Sockets -> SocketType]
  BY DEF SockStep, Local, TypeOK
<1>2. \A r \in Sockets : sock'[r] = IF r = s THEN b ELSE sock[r]
  BY <1>1
<1> QED
  BY <1>1, <1>2, SockStays

(* One event callback changes quietly.                                     *)
LEMMA OneEvent ==
  ASSUME Local, NEW e \in Callers, NEW y, EventStep(ev[e], y), ev' = [ev EXCEPT ![e] = y]
  PROVE  ev' \in [Callers -> EventType] /\ \A f \in Callers : EventStep(ev[f], ev'[f])
<1>1. y \in EventType /\ ev \in [Callers -> EventType]
  BY DEF EventStep, Local, TypeOK
<1>2. \A f \in Callers : ev'[f] = IF f = e THEN y ELSE ev[f]
  BY <1>1
<1> QED
  BY <1>1, <1>2, EventStays

(* What is not changed at all is changed quietly.                          *)
LEMMA Unchanged ==
  ASSUME Local
  PROVE  /\ call' = call => call' \in [Threads -> CallType]
                            /\ \A t \in Threads : CallStep(call[t], call'[t])
         /\ sock' = sock => sock' \in [Sockets -> SocketType]
                            /\ \A s \in Sockets : SockStep(sock[s], sock'[s])
         /\ ev' = ev => ev' \in [Callers -> EventType]
                        /\ \A e \in Callers : EventStep(ev[e], ev'[e])
         /\ nc' = nc => nc' \in [AllConns -> ConnType]
         /\ events' = events => events' \in 0 .. MaxEvents
  BY CallStays, SockStays, EventStays DEF Local, TypeOK

(* The sockets in which a thread is counted, pc by pc.                     *)
LEMMA CountedByPc ==
  ASSUME NEW c \in CallType
  PROVE  /\ c.pc = "inc" => CountedIn(c) = Fds(c.want) \ c.todo
         /\ c.pc = "rescan" => CountedIn(c) = Fds(c.want)
         /\ c.pc = "wait" => CountedIn(c) = Fds(c.want)
         /\ c.pc = "dec" => CountedIn(c) = c.todo
         /\ c.pc \notin {"inc", "rescan", "wait", "dec"} => CountedIn(c) = {}
<1>1. c.pc = "inc" => CountedIn(c) = Fds(c.want) \ c.todo
  BY Zenon DEF CountedIn
<1>2. c.pc = "rescan" => CountedIn(c) = Fds(c.want)
  BY Zenon DEF CountedIn
<1>3. c.pc = "wait" => CountedIn(c) = Fds(c.want)
  BY Zenon DEF CountedIn
<1>4. c.pc = "dec" => CountedIn(c) = c.todo
  BY Zenon DEF CountedIn
<1>5. c.pc \notin {"inc", "rescan", "wait", "dec"} => CountedIn(c) = {}
  BY Zenon DEF CountedIn
<1> QED
  BY <1>1, <1>2, <1>3, <1>4, <1>5

(* A function that is over leaves nothing behind.                          *)
LEMMA NoCallOK ==
  /\ NoCall \in CallType /\ CallOK(NoCall) /\ NoCall.pc = "idle" /\ NoCall.want = {}
  /\ NoCall.todo = {} /\ NoCall.sem = FALSE
<1>1. 0 \in Sockets
  BY SocketsAssumption DEF Sockets
<1> QED
  BY <1>1, FdsEmpty DEF NoCall, CallType, CallPcs, CallOK

(* A callback that is over leaves nothing behind.                          *)
LEMMA NoEventOK ==
  NoEvent \in EventType /\ EventOK(NoEvent) /\ NoEvent.pc = "idle"
<1>1. 0 \in Sockets /\ 1 \in Nat \ {0} /\ <<>> \in Seq(Events)
  BY SocketsAssumption DEF Sockets
<1> QED
  BY <1>1 DEF NoEvent, EventType, EventOK

(* A thread that was counted nowhere and is not in allocinit may return.   *)
LEMMA ReturnOK ==
  ASSUME Local, NEW t \in Threads, call[t].pc \notin {"inc", "rescan", "wait", "dec", "allocinit"}
  PROVE  CallStep(call[t], NoCall)
<1>1. call[t] \in CallType
  BY DEF Local, TypeOK
<1>2. CountedIn(call[t]) = {} /\ CountedIn(NoCall) = {}
  BY <1>1, NoCallOK, CountedByPc
<1> QED
  BY <1>2, NoCallOK DEF CallStep, Listed

(* An event is raised by one who runs no callback.                         *)
LEMMA RaiseOK ==
  ASSUME Local, NEW e \in Callers, ev[e].pc = "idle", NEW c \in AllConns,
         NEW todo \in Seq(Events), todo # <<>>, NEW by \in Callers, ev' = Raise(e, c, todo, by)
  PROVE  ev' \in [Callers -> EventType] /\ \A f \in Callers : EventStep(ev[f], ev'[f])
<1> DEFINE y == [NoEvent EXCEPT !.pc = "call", !.conn = c, !.todo = todo, !.by = by]
<1>1. y \in EventType /\ y.pc = "call" /\ y.conn = c /\ y.todo = todo
  BY NoEventOK DEF EventType
<1>2. ev' = [ev EXCEPT ![e] = y]
  BY DEF Raise
<1> HIDE DEF y
<1>3. EventStep(ev[e], y)
  BY <1>1 DEF EventStep, EventOK
<1> QED
  BY <1>2, <1>3, OneEvent

(* A callback that is not walking ends.                                    *)
LEMMA DoneIsGood ==
  ASSUME Local, NEW e \in Callers, ev[e].pc # "idle", EventDone(e)
  PROVE  \E y \in EventType : EventOK(y) /\ y.pc # "walk" /\ ev' = [ev EXCEPT ![e] = y]
<1> DEFINE q == ev[e].todo
           z == [NoEvent EXCEPT !.pc = "call", !.conn = ev[e].conn, !.by = ev[e].by,
                                !.todo = Tail(ev[e].todo)]
<1>1. ev[e] \in EventType /\ EventOK(ev[e]) /\ ev \in [Callers -> EventType]
  BY DEF Local, TypeOK
<1>2. ev[e].conn \in AllConns /\ ev[e].by \in Callers \cup {NULL} /\ q \in Seq(Events) /\ q # <<>>
  BY <1>1 DEF EventType, EventOK
<1>3. CASE Len(q) = 1
  <2>1. ev' = [ev EXCEPT ![e] = NoEvent]
    BY <1>1, <1>3 DEF EventDone
  <2> QED
    BY <2>1, NoEventOK
<1>4. CASE Len(q) # 1
  <2> HIDE DEF q
  <2>1. Tail(q) \in Seq(Events) /\ Tail(q) # <<>>
    <3>1. q \in Seq(Events) /\ Len(q) # 1 /\ q # <<>>
      BY <1>2, <1>4
    <3>2. Len(q) \in Nat /\ Len(q) # 0 /\ Len(Tail(q)) = Len(q) - 1 /\ Tail(q) \in Seq(Events)
      BY <3>1
    <3> QED
      BY <3>1, <3>2
  <2> USE DEF q
  <2>2. z \in EventType /\ z.pc = "call" /\ z.conn = ev[e].conn /\ z.todo = Tail(q)
    BY <1>2, <2>1, NoEventOK DEF EventType
  <2>3. ev' = [ev EXCEPT ![e] = z]
    BY <1>1, <1>4 DEF EventDone
  <2> HIDE DEF z, q
  <2>4. EventOK(z) /\ z.pc # "walk"
    BY <2>1, <2>2, <1>2 DEF EventOK
  <2> QED
    BY <2>2, <2>3, <2>4
<1> QED
  BY <1>3, <1>4

(* The end of a callback that does not walk is quiet.                      *)
LEMMA DoneOK ==
  ASSUME Local, NEW e \in Callers, ev[e].pc \in {"call", "apply"}, EventDone(e)
  PROVE  ev' \in [Callers -> EventType] /\ \A f \in Callers : EventStep(ev[f], ev'[f])
<1>1. PICK y \in EventType : EventOK(y) /\ y.pc # "walk" /\ ev' = [ev EXCEPT ![e] = y]
  BY DoneIsGood
<1>2. EventStep(ev[e], y)
  BY <1>1 DEF EventStep
<1> QED
  BY <1>1, <1>2, OneEvent

-----------------------------------------------------------------------------
(* The quiet actions.                                                      *)

(* A thread enters lwip_select.                                            *)
LEMMA SelectOK ==
  ASSUME Local, NEW t \in Threads, NEW want \in Interests[t],
         NEW timeout \in {"forever", "zero", "finite"}, lwip_select(t, want, timeout)
  PROVE  Quiet
<1> DEFINE d == [NoCall EXCEPT !.pc = "scan", !.want = want, !.timeout = timeout,
                               !.todo = Fds(want)]
<1>1. want \in SUBSET (Sockets \X Kinds)
  BY InterestsAssumption
<1>2. Fds(want) \in SUBSET Sockets
  BY <1>1, FdsAreSockets
<1>3. /\ d \in CallType /\ d.pc = "scan" /\ d.want = want /\ d.todo = Fds(want)
      /\ d.signalled = d.sem
  BY <1>1, <1>2, NoCallOK DEF CallType, CallPcs, NoCall
<1>4. call' = [call EXCEPT ![t] = d] /\ call[t].pc = "idle"
  BY DEF lwip_select
<1> HIDE DEF d
<1>5. CountedIn(d) = {} /\ CountedIn(call[t]) = {}
  BY <1>3, <1>4, CountedByPc DEF Local, TypeOK
<1>6. CallStep(call[t], d)
  BY <1>3, <1>4, <1>5 DEF CallStep, CallOK, Listed
<1> QED
  BY <1>4, <1>6, OneCall, Unchanged DEF Quiet, lwip_select

(* A thread wakes up, signalled or not: it is still counted.               *)
LEMMA WakeOK ==
  ASSUME Local, NEW t \in Threads, SelectWake(t) \/ SelectTimeout(t)
  PROVE  Quiet
<1>1. call[t] \in CallType /\ CallOK(call[t]) /\ call[t].pc = "wait" /\ call \in [Threads -> CallType]
  BY DEF Local, TypeOK, SelectWake, SelectTimeout
<1>2. /\ call[t].todo = Fds(call[t].want) /\ call[t].want # {}
      /\ call[t].want \in SUBSET (Sockets \X Kinds)
  BY <1>1 DEF CallOK, CallType
<1>3. Fds(call[t].want) # {}
  BY <1>2, FdsAreSockets
<1>4. CountedIn(call[t]) = Fds(call[t].want)
  BY <1>1, CountedByPc
<1>5. ASSUME NEW d \in CallType, d.pc = "dec", d.want = call[t].want, d.todo = call[t].todo,
             call' = [call EXCEPT ![t] = d]
      PROVE  Quiet
  <2>1. CountedIn(d) = Fds(call[t].want)
    BY <1>5, <1>2, CountedByPc
  <2>2. CallStep(call[t], d)
    BY <1>1, <1>2, <1>3, <1>4, <1>5, <2>1 DEF CallStep, CallOK, Listed
  <2> QED
    BY <1>5, <2>2, OneCall, Unchanged DEF Quiet, SelectWake, SelectTimeout
<1>6. CASE SelectWake(t)
  <2> DEFINE d == [call[t] EXCEPT !.pc = "dec", !.sem = FALSE]
  <2>1. d \in CallType /\ d.pc = "dec" /\ d.want = call[t].want /\ d.todo = call[t].todo
    BY <1>1 DEF CallType, CallPcs
  <2>2. call' = [call EXCEPT ![t] = d]
    BY <1>1, <1>6 DEF SelectWake
  <2> QED
    BY <2>1, <2>2, <1>5
<1>7. CASE SelectTimeout(t)
  <2> DEFINE d == [call[t] EXCEPT !.pc = "dec", !.timedout = TRUE]
  <2>1. d \in CallType /\ d.pc = "dec" /\ d.want = call[t].want /\ d.todo = call[t].todo
    BY <1>1 DEF CallType, CallPcs
  <2>2. call' = [call EXCEPT ![t] = d]
    BY <1>1, <1>7 DEF SelectTimeout
  <2> QED
    BY <2>1, <2>2, <1>5
<1> QED
  BY <1>6, <1>7

(* event_callback looks for the socket, or counts in conn->socket.         *)
LEMMA EventSocketOK ==
  ASSUME Local, NEW e \in Callers, EventSocket(e)
  PROVE  Quiet
<1> DEFINE c == ev[e].conn
<1>1. ev[e] \in EventType /\ EventOK(ev[e]) /\ ev[e].pc = "call" /\ nc \in [AllConns -> ConnType]
      /\ ev \in [Callers -> EventType]
  BY DEF Local, TypeOK, EventSocket
<1>2. c \in AllConns /\ ev[e].todo # <<>> /\ Head(ev[e].todo) # "post"
  BY <1>1 DEF EventOK, EventSocket
<1>3. nc[c] \in ConnType /\ nc[c].socket \in Int /\ nc[c].socket < NUM_SOCKETS
  BY <1>1, <1>2 DEF ConnType
<1>4. CASE nc[c].socket < 0
  <2>1. nc' = (IF Head(ev[e].todo) = "RCVPLUS" THEN [nc EXCEPT ![c].socket = @ - 1] ELSE nc)
        /\ EventDone(e)
    BY <1>4 DEF EventSocket
  <2>2. nc[c].socket - 1 \in {i \in Int : i < NUM_SOCKETS}
    BY <1>3, SocketsAssumption
  <2>3. [nc[c] EXCEPT !.socket = @ - 1] \in ConnType
    BY <1>3, <2>2 DEF ConnType
  <2>4. nc' \in [AllConns -> ConnType]
    BY <1>1, <2>1, <2>3
  <2> QED
    BY <1>1, <2>1, <2>4, DoneOK, Unchanged DEF Quiet, EventSocket
<1>5. CASE nc[c].socket >= 0
  <2>1. nc[c].socket \in Sockets
    BY <1>3, <1>5, SocketsAssumption DEF Sockets
  <2>2. nc' = nc /\ (EventDone(e) \/ ev' = [ev EXCEPT ![e].pc = "apply", ![e].s = nc[c].socket])
    BY <1>3, <1>5 DEF EventSocket
  <2>3. CASE EventDone(e)
    BY <1>1, <2>2, <2>3, DoneOK, Unchanged DEF Quiet, EventSocket
  <2>4. CASE ev' = [ev EXCEPT ![e].pc = "apply", ![e].s = nc[c].socket]
    <3> DEFINE y == [ev[e] EXCEPT !.pc = "apply", !.s = nc[c].socket]
    <3>1. y \in EventType /\ y.pc = "apply" /\ y.conn = c /\ y.todo = ev[e].todo
      BY <1>1, <2>1 DEF EventType
    <3>2. ev' = [ev EXCEPT ![e] = y]
      BY <2>4, <1>1
    <3> HIDE DEF y
    <3>3. EventStep(ev[e], y)
      BY <1>1, <1>2, <3>1 DEF EventStep, EventOK
    <3> QED
      BY <3>2, <3>3, <2>2, OneEvent, Unchanged DEF Quiet, EventSocket
  <2> QED
    BY <2>2, <2>3, <2>4
<1> QED
  BY <1>3, <1>4, <1>5

(* err_tcp posts to recvmbox.                                              *)
LEMMA EventPostOK ==
  ASSUME Local, NEW e \in Callers, EventPost(e)
  PROVE  Quiet
<1> DEFINE c == ev[e].conn
<1>1. ev[e] \in EventType /\ EventOK(ev[e]) /\ ev[e].pc = "call" /\ nc \in [AllConns -> ConnType]
  BY DEF Local, TypeOK, EventPost
<1>2. c \in AllConns
  BY <1>1 DEF EventOK
<1>3. nc[c] \in ConnType /\ nc[c].mbox \in Seq(AllConns \cup {NULL})
  BY <1>1, <1>2 DEF ConnType
<1>4. Append(nc[c].mbox, NULL) \in Seq(AllConns \cup {NULL})
  BY <1>3
<1>5. [nc[c] EXCEPT !.mbox = Append(@, NULL)] \in ConnType
  BY <1>3, <1>4 DEF ConnType
<1>6. nc' \in [AllConns -> ConnType]
  BY <1>1, <1>5 DEF EventPost
<1> QED
  BY <1>1, <1>6, DoneOK, Unchanged DEF Quiet, EventPost

(* A callback of the stack counts one event and raises its own.            *)
LEMMA CallbackOK ==
  ASSUME Local, Callback, NEW c \in AllConns, NEW todo \in Seq(Events), todo # <<>>,
         ev' = Raise(Core, c, todo, Core), nc' \in [AllConns -> ConnType],
         UNCHANGED <<sock, select_cb_list, call, aborted>>
  PROVE  Quiet
<1>1. events' \in 0 .. MaxEvents
  BY SocketsAssumption DEF Callback, Local, TypeOK
<1>2. Core \in Callers /\ ev[Core].pc = "idle"
  BY DEF Callers, Callback, CoreFree
<1>3. ev' \in [Callers -> EventType] /\ \A f \in Callers : EventStep(ev[f], ev'[f])
  BY <1>2, RaiseOK
<1> QED
  BY <1>1, <1>3, Unchanged DEF Quiet

(* The types of a netconn after one of its fields has changed.             *)
LEMMA ConnChanges ==
  ASSUME Local, NEW c \in AllConns
  PROVE  /\ nc \in [AllConns -> ConnType] /\ nc[c] \in ConnType
         /\ nc[c].mbox \in Seq(AllConns \cup {NULL})
         /\ \A v \in AllConns \cup {NULL} : [nc[c] EXCEPT !.mbox = Append(@, v)] \in ConnType
         /\ \A st \in {"new", "open", "err", "closed"} : [nc[c] EXCEPT !.state = st] \in ConnType
         /\ \A b \in BOOLEAN : [nc[c] EXCEPT !.checkspace = b] \in ConnType
<1>1. nc \in [AllConns -> ConnType] /\ nc[c] \in ConnType
  BY DEF Local, TypeOK
<1>2. nc[c].mbox \in Seq(AllConns \cup {NULL})
  BY <1>1 DEF ConnType
<1>3. \A v \in AllConns \cup {NULL} : Append(nc[c].mbox, v) \in Seq(AllConns \cup {NULL})
  BY <1>2
<1>4. \A v \in AllConns \cup {NULL} : [nc[c] EXCEPT !.mbox = Append(@, v)] \in ConnType
  BY <1>1, <1>3 DEF ConnType
<1> QED
  BY <1>1, <1>2, <1>4 DEF ConnType

(* accept_function is quiet.                                               *)
LEMMA AcceptFunctionOK ==
  ASSUME Local, NEW c \in Conns \cup {NULL}, accept_function(c)
  PROVE  Quiet
<1>1. Listener \in AllConns /\ (c # NULL => c \in AllConns /\ c # Listener)
  BY SocketsAssumption DEF AllConns
<1>2. [nc[Listener] EXCEPT !.mbox = Append(@, c)] \in ConnType
  BY <1>1, ConnChanges
<1>3. nc \in [AllConns -> ConnType]
  BY DEF Local, TypeOK
<1>4. nc' \in [AllConns -> ConnType]
  <2>1. CASE c = NULL
    BY <1>1, <1>2, <1>3, <2>1 DEF accept_function
  <2>2. CASE c # NULL
    <3> DEFINE st == [nc[c] EXCEPT !.state = "open"]
    <3>1. st \in ConnType
      BY <1>1, <2>2, ConnChanges
    <3> DEFINE n == [nc EXCEPT ![c] = st]
    <3>2. n \in [AllConns -> ConnType] /\ n[Listener] = nc[Listener]
      BY <1>1, <2>2, <1>3, <3>1
    <3>3. nc' = [n EXCEPT ![Listener].mbox = Append(@, c)]
      BY <2>2, <1>3 DEF accept_function
    <3> HIDE DEF n
    <3> QED
      BY <3>2, <3>3, <1>1, <1>2
  <2> QED
    BY <2>1, <2>2
<1>5. <<"RCVPLUS">> \in Seq(Events) /\ <<"RCVPLUS">> # <<>>
  BY DEF Events
<1> QED
  BY <1>1, <1>4, <1>5, CallbackOK DEF accept_function

(* The callbacks for a connection are quiet.                               *)
LEMMA ConnStackOK ==
  ASSUME Local, NEW c \in Conns,
         \/ recv_tcp(c) \/ lwip_netconn_do_writemore(c) \/ sent_tcp(c) \/ err_tcp(c)
  PROVE  Quiet
<1>1. c \in AllConns /\ nc \in [AllConns -> ConnType]
  BY DEF AllConns, Local, TypeOK
<1>2. CASE recv_tcp(c)
  <2>1. [nc[c] EXCEPT !.mbox = Append(@, NULL)] \in ConnType
    BY <1>1, ConnChanges
  <2>2. nc' \in [AllConns -> ConnType]
    BY <1>1, <1>2, <2>1 DEF recv_tcp
  <2>3. <<"RCVPLUS">> \in Seq(Events) /\ <<"RCVPLUS">> # <<>>
    BY DEF Events
  <2> QED
    BY <1>1, <1>2, <2>2, <2>3, CallbackOK DEF recv_tcp
<1>3. CASE lwip_netconn_do_writemore(c)
  <2>1. [nc[c] EXCEPT !.checkspace = TRUE] \in ConnType
    BY <1>1, ConnChanges
  <2>2. nc' \in [AllConns -> ConnType]
    BY <1>1, <1>3, <2>1 DEF lwip_netconn_do_writemore
  <2>3. <<"SENDMINUS">> \in Seq(Events) /\ <<"SENDMINUS">> # <<>>
    BY DEF Events
  <2> QED
    BY <1>1, <1>3, <2>2, <2>3, CallbackOK DEF lwip_netconn_do_writemore
<1>4. CASE sent_tcp(c)
  <2>1. [nc[c] EXCEPT !.checkspace = FALSE] \in ConnType
    BY <1>1, ConnChanges
  <2>2. nc' \in [AllConns -> ConnType]
    BY <1>1, <1>4, <2>1 DEF sent_tcp
  <2>3. <<"SENDPLUS">> \in Seq(Events) /\ <<"SENDPLUS">> # <<>>
    BY DEF Events
  <2> QED
    BY <1>1, <1>4, <2>2, <2>3, CallbackOK DEF sent_tcp
<1>5. CASE err_tcp(c)
  <2>1. [nc[c] EXCEPT !.state = "err"] \in ConnType
    BY <1>1, ConnChanges
  <2>2. nc' \in [AllConns -> ConnType]
    BY <1>1, <1>5, <2>1 DEF err_tcp
  <2>3. <<"ERROR", "RCVPLUS", "SENDPLUS", "post">> \in Seq(Events)
        /\ <<"ERROR", "RCVPLUS", "SENDPLUS", "post">> # <<>>
    BY DEF Events
  <2> QED
    BY <1>1, <1>5, <2>2, <2>3, CallbackOK DEF err_tcp
<1> QED
  BY <1>2, <1>3, <1>4, <1>5

(* What is left of the last message is no event of a select.               *)
LEMMA LastdataOK ==
  ASSUME Local, NEW s \in Sockets, NEW b \in BOOLEAN
  PROVE  SockStep(sock[s], [sock[s] EXCEPT !.lastdata = b])
<1> DEFINE d == [sock[s] EXCEPT !.lastdata = b]
<1>1. sock[s] \in SocketType
  BY DEF Local, TypeOK
<1>2. /\ d \in SocketType /\ d.conn = sock[s].conn /\ d.select_waiting = sock[s].select_waiting
      /\ d.rcvevent = sock[s].rcvevent /\ d.sendevent = sock[s].sendevent
      /\ d.errevent = sock[s].errevent
  BY <1>1 DEF SocketType
<1> HIDE DEF d
<1>3. SockStep(sock[s], d)
  BY <1>2 DEF SockStep, EventReady
<1> QED
  BY <1>3 DEF d

(* To mark a thread changes none of its variables.                         *)
LEMMA StolenOK ==
  ASSUME Local, NEW u \in Threads, NEW b \in BOOLEAN
  PROVE  CallStep(call[u], [call[u] EXCEPT !.stolen = b])
<1> DEFINE d == [call[u] EXCEPT !.stolen = b]
<1>1. call[u] \in CallType /\ CallOK(call[u])
  BY DEF Local, TypeOK
<1>2. /\ d \in CallType /\ d.pc = call[u].pc /\ d.want = call[u].want /\ d.todo = call[u].todo
      /\ d.ready = call[u].ready /\ d.sem = call[u].sem /\ d.signalled = call[u].signalled
      /\ d.newconn = call[u].newconn /\ d.s = call[u].s
  BY <1>1 DEF CallType
<1> HIDE DEF d
<1>3. CountedIn(d) = CountedIn(call[u])
  BY <1>2, Zenon DEF CountedIn
<1>4. CallStep(call[u], d)
  BY <1>1, <1>2, <1>3 DEF CallStep, CallOK
<1> QED
  BY <1>4 DEF d

(* To mark the threads that ask for an event changes nothing else.         *)
LEMMA StealOK ==
  ASSUME Local, NEW t, NEW s, NEW k
  PROVE  /\ Steal(t, s, k) \in [Threads -> CallType]
         /\ \A u \in Threads : CallStep(call[u], Steal(t, s, k)[u])
<1>1. \A u \in Threads : Steal(t, s, k)[u] \in {call[u], [call[u] EXCEPT !.stolen = TRUE]}
  BY DEF Steal
<1>2. \A u \in Threads : CallStep(call[u], Steal(t, s, k)[u])
  BY <1>1, StolenOK, CallStays
<1>3. \A u \in Threads : Steal(t, s, k)[u] \in CallType
  BY <1>2 DEF CallStep
<1>4. \E f : Steal(t, s, k) = [u \in Threads |-> f[u]]
  <2> DEFINE f == [u \in Threads |-> IF u # t /\ <<s, k>> \in call[u].want
                     THEN [call[u] EXCEPT !.stolen = TRUE] ELSE call[u]]
  <2>1. Steal(t, s, k) = [u \in Threads |-> f[u]]
    BY DEF Steal
  <2> QED
    BY <2>1
<1> QED
  BY <1>2, <1>3, <1>4

(* A netconn whose mailbox a message is fetched from.                      *)
LEMMA FetchedOK ==
  ASSUME Local, NEW c \in AllConns, nc[c].mbox # <<>>
  PROVE  /\ Head(nc[c].mbox) \in AllConns \cup {NULL}
         /\ [nc EXCEPT ![c].mbox = Tail(@)] \in [AllConns -> ConnType]
<1> DEFINE q == nc[c].mbox
<1>1. nc \in [AllConns -> ConnType] /\ nc[c] \in ConnType
  BY DEF Local, TypeOK
<1>2. q \in Seq(AllConns \cup {NULL})
  BY <1>1 DEF ConnType
<1> HIDE DEF q
<1>3. q # <<>>
  BY DEF q
<1>4. Head(q) \in AllConns \cup {NULL} /\ Tail(q) \in Seq(AllConns \cup {NULL})
  BY <1>2, <1>3
<1>5. [nc[c] EXCEPT !.mbox = Tail(q)] \in ConnType
  BY <1>1, <1>4 DEF ConnType
<1>6. [nc EXCEPT ![c] = [nc[c] EXCEPT !.mbox = Tail(q)]] \in [AllConns -> ConnType]
  BY <1>1, <1>5
<1> QED
  BY <1>4, <1>6 DEF q

(* A netconn that is deleted.                                              *)
LEMMA ClosedOK ==
  ASSUME Local, NEW c \in AllConns
  PROVE  [nc EXCEPT ![c] = [nc[c] EXCEPT !.state = "closed", !.mbox = <<>>]]
           \in [AllConns -> ConnType]
<1>1. nc \in [AllConns -> ConnType] /\ nc[c] \in ConnType
  BY DEF Local, TypeOK
<1>2. <<>> \in Seq(AllConns \cup {NULL})
  OBVIOUS
<1>3. [nc[c] EXCEPT !.state = "closed", !.mbox = <<>>] \in ConnType
  BY <1>1, <1>2 DEF ConnType
<1> QED
  BY <1>1, <1>3

(* lwip_recvfrom from lastdata is quiet.                                   *)
LEMMA RecvLastdataOK ==
  ASSUME Local, NEW t \in Threads, NEW s \in Sockets, NEW all \in BOOLEAN, RecvLastdata(t, s, all)
  PROVE  Quiet
<1>1. sock' = [sock EXCEPT ![s] = [sock[s] EXCEPT !.lastdata = ~all]]
  BY DEF RecvLastdata, Local, TypeOK
<1>2. SockStep(sock[s], [sock[s] EXCEPT !.lastdata = ~all])
  BY LastdataOK
<1>3. sock' \in [Sockets -> SocketType] /\ \A r \in Sockets : SockStep(sock[r], sock'[r])
  BY <1>1, <1>2, OneSocket
<1> DEFINE st == Steal(t, s, "read")
<1>4. st \in [Threads -> CallType] /\ \A u \in Threads : CallStep(call[u], st[u])
  BY StealOK
<1>5. CallStep(call[t], NoCall)
  BY ReturnOK DEF RecvLastdata
<1>6. call' = [st EXCEPT ![t] = NoCall]
  BY DEF RecvLastdata
<1> HIDE DEF st
<1>7. call' \in [Threads -> CallType] /\ \A u \in Threads : CallStep(call[u], call'[u])
  BY <1>4, <1>5, <1>6, NoCallOK
<1> QED
  BY <1>3, <1>7, Unchanged DEF Quiet, RecvLastdata

(* A thread enters a function that does not select.                        *)
LEMMA EnterOK ==
  ASSUME Local, NEW t \in Threads, call[t].pc = "idle", NEW d \in CallType,
         d.pc \in {"recv", "closing", "alloc"}, d.todo = {}, d.want = {},
         d.pc = "alloc" => d.newconn \in AllConns
  PROVE  CallStep(call[t], d)
<1>1. CountedIn(call[t]) = {} /\ CountedIn(d) = {}
  BY CountedByPc DEF Local, TypeOK
<1> QED
  BY <1>1 DEF CallStep, CallOK, Listed

(* lwip_recvfrom from recvmbox is quiet.                                   *)
LEMMA RecvFetchOK ==
  ASSUME Local, NEW t \in Threads, NEW s \in Sockets, RecvFetch(t, s)
  PROVE  Quiet
<1> DEFINE c == sock[s].conn
           d == [NoCall EXCEPT !.pc = "recv", !.s = s]
<1>1. c \in AllConns /\ t \in Callers /\ ev[t].pc = "idle"
  BY DEF RecvFetch, AllConns, Callers, Busy
<1>4. nc' \in [AllConns -> ConnType]
  BY <1>1, FetchedOK DEF RecvFetch
<1>5. <<"RCVMINUS">> \in Seq(Events) /\ <<"RCVMINUS">> # <<>>
  BY DEF Events
<1>6. ev' \in [Callers -> EventType] /\ \A f \in Callers : EventStep(ev[f], ev'[f])
  BY <1>1, <1>5, RaiseOK DEF RecvFetch
<1>7. d \in CallType /\ d.pc = "recv" /\ d.todo = {} /\ d.want = {}
  BY NoCallOK DEF CallType, CallPcs, NoCall
<1>8. call' = [call EXCEPT ![t] = d] /\ call[t].pc = "idle"
  BY DEF RecvFetch
<1> HIDE DEF d
<1>9. CallStep(call[t], d)
  BY <1>7, <1>8, EnterOK
<1> QED
  BY <1>4, <1>6, <1>8, <1>9, OneCall, Unchanged DEF Quiet, RecvFetch

(* The end of lwip_recvfrom is quiet.                                      *)
LEMMA RecvDoneOK ==
  ASSUME Local, NEW t \in Threads, NEW all \in BOOLEAN, RecvDone(t, all)
  PROVE  Quiet
<1> DEFINE s == call[t].s
<1>1. s \in Sockets
  BY DEF Local, TypeOK, CallType
<1>2. sock' = [sock EXCEPT ![s] = [sock[s] EXCEPT !.lastdata = ~all]]
  BY <1>1 DEF RecvDone, Local, TypeOK
<1>3. SockStep(sock[s], [sock[s] EXCEPT !.lastdata = ~all])
  BY <1>1, LastdataOK
<1>4. sock' \in [Sockets -> SocketType] /\ \A r \in Sockets : SockStep(sock[r], sock'[r])
  BY <1>1, <1>2, <1>3, OneSocket
<1>5. CallStep(call[t], NoCall)
  BY ReturnOK DEF RecvDone
<1> QED
  BY <1>4, <1>5, OneCall, Unchanged DEF Quiet, RecvDone

(* netconn_accept is quiet.                                                *)
LEMMA AcceptFetchOK ==
  ASSUME Local, NEW t \in Threads, AcceptFetch(t)
  PROVE  Quiet
<1> DEFINE h == Head(nc[Listener].mbox)
           d == [NoCall EXCEPT !.pc = "alloc", !.newconn = h]
<1>1. Listener \in AllConns /\ t \in Callers /\ ev[t].pc = "idle"
  BY DEF AcceptFetch, AllConns, Callers, Busy
<1>2. h \in AllConns \cup {NULL}
  BY <1>1, FetchedOK DEF AcceptFetch
<1>4. nc' \in [AllConns -> ConnType]
  BY <1>1, FetchedOK DEF AcceptFetch
<1>5. <<"RCVMINUS">> \in Seq(Events) /\ <<"RCVMINUS">> # <<>>
  BY DEF Events
<1>6. ev' \in [Callers -> EventType] /\ \A f \in Callers : EventStep(ev[f], ev'[f])
  BY <1>1, <1>5, RaiseOK DEF AcceptFetch
<1>7. call' = [call EXCEPT ![t] = IF h = NULL THEN NoCall ELSE d] /\ call[t].pc = "idle"
  BY DEF AcceptFetch
<1>8. h # NULL => d \in CallType /\ d.pc = "alloc" /\ d.todo = {} /\ d.want = {} /\ d.newconn = h
  BY <1>2, NoCallOK DEF CallType, CallPcs, NoCall
<1> HIDE DEF d, h
<1>9. CallStep(call[t], IF h = NULL THEN NoCall ELSE d)
  <2>1. CASE h = NULL
    BY <2>1, <1>7, ReturnOK
  <2>2. CASE h # NULL
    BY <2>2, <1>2, <1>7, <1>8, EnterOK
  <2> QED
    BY <2>1, <2>2
<1> QED
  BY <1>4, <1>6, <1>7, <1>9, OneCall, Unchanged DEF Quiet, AcceptFetch

(* lwip_close is quiet: the socket stays until free_socket.                *)
LEMMA CloseOK ==
  ASSUME Local, NEW t \in Threads, NEW s \in Sockets, lwip_close(t, s)
  PROVE  Quiet
<1> DEFINE c == sock[s].conn
           d == [NoCall EXCEPT !.pc = "closing", !.s = s]
           q == IF nc[c].state = "err" THEN <<"RCVPLUS", "SENDPLUS">>
                ELSE <<"ERROR", "RCVPLUS", "SENDPLUS">>
<1>1. c \in AllConns /\ t \in Callers /\ Core \in Callers /\ ev[Core].pc = "idle"
  BY DEF lwip_close, AllConns, Callers, CoreFree
<1>4. nc' = [nc EXCEPT ![c] = [nc[c] EXCEPT !.state = "closed", !.mbox = <<>>]]
  BY <1>1 DEF lwip_close, Local, TypeOK
<1>5. nc' \in [AllConns -> ConnType]
  BY <1>1, <1>4, ClosedOK
<1>6. q \in Seq(Events) /\ q # <<>>
  <2>1. <<"RCVPLUS", "SENDPLUS">> \in Seq(Events) /\ <<"RCVPLUS", "SENDPLUS">> # <<>>
    BY DEF Events
  <2>2. <<"ERROR", "RCVPLUS", "SENDPLUS">> \in Seq(Events)
        /\ <<"ERROR", "RCVPLUS", "SENDPLUS">> # <<>>
    BY DEF Events
  <2> QED
    BY <2>1, <2>2, Zenon
<1>7. ev' = Raise(Core, c, q, t)
  BY DEF lwip_close
<1> HIDE DEF q
<1>8. ev' \in [Callers -> EventType] /\ \A f \in Callers : EventStep(ev[f], ev'[f])
  BY <1>1, <1>6, <1>7, RaiseOK
<1>9. d \in CallType /\ d.pc = "closing" /\ d.todo = {} /\ d.want = {}
  BY NoCallOK DEF CallType, CallPcs, NoCall
<1>10. call' = [call EXCEPT ![t] = d] /\ call[t].pc = "idle"
  BY DEF lwip_close
<1> HIDE DEF d
<1>11. CallStep(call[t], d)
  BY <1>9, <1>10, EnterOK
<1> QED
  BY <1>5, <1>8, <1>10, <1>11, OneCall, Unchanged DEF Quiet, lwip_close, CoreFree

(* free_socket is quiet: nothing is promised of a closed socket.           *)
LEMMA FreeOK ==
  ASSUME Local, NEW t \in Threads, free_socket(t)
  PROVE  Quiet
<1> DEFINE s == call[t].s
           b == [sock[s] EXCEPT !.lastdata = FALSE, !.conn = NULL]
<1>1. s \in Sockets /\ sock \in [Sockets -> SocketType] /\ sock[s] \in SocketType
  BY DEF Local, TypeOK, CallType
<1>2. b \in SocketType /\ b.conn = NULL
  BY <1>1 DEF SocketType
<1>3. sock' = [sock EXCEPT ![s] = b]
  BY <1>1 DEF free_socket
<1> HIDE DEF b
<1>4. SockStep(sock[s], b)
  BY <1>2 DEF SockStep
<1>5. sock' \in [Sockets -> SocketType] /\ \A r \in Sockets : SockStep(sock[r], sock'[r])
  BY <1>1, <1>3, <1>4, OneSocket
<1>6. CallStep(call[t], NoCall)
  BY ReturnOK DEF free_socket
<1>7. ASSUME NEW u \in Threads PROVE CallStep(call[u], call'[u])
  <2>1. call[u].stolen \in BOOLEAN
    BY DEF Local, TypeOK, CallType
  <2>2. CASE u = t
    BY <2>2, <1>6 DEF free_socket
  <2>3. CASE u # t
    <3> DEFINE bb == call[u].stolen \/ s \in Fds(call[u].want)
    <3>1. bb \in BOOLEAN
      OBVIOUS
    <3>2. call'[u] = [call[u] EXCEPT !.stolen = bb]
      BY <2>3 DEF free_socket
    <3> HIDE DEF bb
    <3> QED
      BY <3>1, <3>2, StolenOK
  <2> QED
    BY <2>2, <2>3
<1>8. call' \in [Threads -> CallType]
  <2>1. \A u \in Threads : call'[u] \in CallType
    BY <1>7 DEF CallStep
  <2>2. call' = [u \in Threads |-> call'[u]]
    BY DEF free_socket
  <2> QED
    BY <2>1, <2>2
<1> QED
  BY <1>5, <1>7, <1>8, Unchanged DEF Quiet, free_socket

-----------------------------------------------------------------------------
(* The other actions: what they have in common.                            *)

(* A thread, with or without a socket, changes, and nothing on the list.   *)
LEMMA LocalKept ==
  ASSUME Local, NEW t \in Threads, NEW d \in CallType, CallOK(d),
         d.pc \in Listed => call[t].pc \in Listed,
         call' = [call EXCEPT ![t] = d], UNCHANGED <<select_cb_list, ev, events>>,
         sock' \in [Sockets -> SocketType], nc' \in [AllConns -> ConnType], aborted' \in BOOLEAN
  PROVE  Local'
<1>1. call \in [Threads -> CallType]
  BY DEF Local, TypeOK
<1>2. \A u \in Threads : call'[u] = IF u = t THEN d ELSE call[u]
  BY <1>1
<1>3. call' \in [Threads -> CallType]
  BY <1>1
<1>4. TypeOK'
  BY <1>3 DEF Local, TypeOK
<1>5. \A u \in Threads : CallOK(call'[u])
  BY <1>2 DEF Local
<1>6. \A u \in Threads : call'[u].pc \in Listed => OnList(select_cb_list', u)
  BY <1>2 DEF Local
<1>7. \A e \in Callers : EventOK(ev'[e])
  BY DEF Local
<1> QED
  BY <1>4, <1>5, <1>6, <1>7 DEF Local

(* The counters after a step that concerns one thread and one socket.      *)
LEMMA Recount ==
  ASSUME Local, WaitingIsExact, NEW t \in Threads, NEW s \in Sockets, NEW d,
         call' = [call EXCEPT ![t] = d],
         \A r \in Sockets \ {s} : /\ sock'[r] = sock[r] /\ (Unknown(r) => Unknown(r)')
                                  /\ (r \in CountedIn(d) <=> r \in CountedIn(call[t])),
         sock'[s].conn # NULL /\ ~Unknown(s)' =>
           sock'[s].select_waiting = Cardinality({u \in Threads : s \in CountedIn(call'[u])})
  PROVE  WaitingIsExact'
<1>1. \A u \in Threads : Counted(u)' = CountedIn(call'[u]) /\ Counted(u) = CountedIn(call[u])
  BY Zenon DEF Counted, CountedIn
<1>2. \A u \in Threads : call'[u] = IF u = t THEN d ELSE call[u]
  BY DEF Local, TypeOK
<1> SUFFICES ASSUME NEW r \in Sockets, sock'[r].conn # NULL, ~Unknown(r)'
             PROVE  sock'[r].select_waiting = Cardinality({u \in Threads : r \in Counted(u)'})
  BY DEF WaitingIsExact
<1>3. CASE r = s
  <2>1. {u \in Threads : s \in CountedIn(call'[u])} = {u \in Threads : s \in Counted(u)'}
    BY <1>1
  <2> QED
    BY <1>3, <2>1
<1>4. CASE r # s
  <2>1. {u \in Threads : r \in Counted(u)'} = {u \in Threads : r \in Counted(u)}
    BY <1>1, <1>2, <1>4
  <2>2. sock[r].conn # NULL /\ ~Unknown(r)
    BY <1>4
  <2>3. sock[r].select_waiting = Cardinality({u \in Threads : r \in Counted(u)})
    BY <2>2 DEF WaitingIsExact
  <2> QED
    BY <1>4, <2>1, <2>3
<1> QED
  BY <1>3, <1>4

(* The number of threads counted in s, with t ...                          *)
LEMMA CountUp ==
  ASSUME NEW A, NEW B, NEW t, B = A \cup {t}, t \notin A, A \subseteq Threads
  PROVE  Cardinality(B) = Cardinality(A) + 1
  BY SocketsAssumption, FS_Subset, FS_AddElement

(* ... and without t.                                                      *)
LEMMA CountDown ==
  ASSUME NEW A, NEW B, NEW t, B = A \ {t}, t \in A, A \subseteq Threads
  PROVE  Cardinality(B) = Cardinality(A) - 1 /\ Cardinality(A) > 0 /\ Cardinality(A) \in Nat
<1>1. IsFiniteSet(A)
  BY SocketsAssumption, FS_Subset
<1>2. Cardinality(B) = Cardinality(A) - 1
  BY <1>1, FS_RemoveElement
<1>3. Cardinality(A) \in Nat /\ (Cardinality(A) = 0 <=> A = {})
  BY <1>1, FS_CardinalityType, FS_EmptySet
<1> QED
  BY <1>2, <1>3

(* A thread that gives out no slot leaves the others known or unknown.     *)
LEMMA UnknownStays ==
  ASSUME Local, NEW t \in Threads, NEW d, call' = [call EXCEPT ![t] = d], NEW s \in Sockets,
         call[t].pc # "allocinit" \/ call[t].s # s, Unknown(s)
  PROVE  Unknown(s)'
<1>1. \A u \in Threads : u # t => call'[u] = call[u]
  BY DEF Local, TypeOK
<1> QED
  BY <1>1 DEF Unknown

(* The wake-ups under way after a step of one thread.                      *)
LEMMA WokenKept ==
  ASSUME Local, Woken, NEW t \in Threads, NEW d, call' = [call EXCEPT ![t] = d],
         UNCHANGED <<ev, select_cb_list>>,
         \A s \in Sockets : Owed(d, sock'[s], s) => Owed(call[t], sock[s], s),
         \A u \in Threads \ {t} : \A s \in Sockets :
           Owed(call[u], sock'[s], s) => Owed(call[u], sock[s], s)
  PROVE  Woken'
<1> SUFFICES ASSUME NEW u \in Threads, NEW s \in Sockets, Owed(call'[u], sock'[s], s)
             PROVE  \E e \in Callers : Ahead(ev'[e], select_cb_list', u, s)
  BY DEF Woken
<1>1. call'[u] = IF u = t THEN d ELSE call[u]
  BY DEF Local, TypeOK
<1>2. Owed(call[u], sock[s], s)
  BY <1>1
<1> QED
  BY <1>2 DEF Woken

(* A socket that a thread asks for is not being given out.                 *)
LEMMA WantedIsKnown ==
  ASSUME NoReuse, NEW t \in Threads, NEW s \in Fds(call[t].want)
  PROVE  ~Unknown(s)
  BY DEF NoReuse, Unknown

(* A thread is owed an event only of a socket it asks for.                 *)
LEMMA OwedIsWanted ==
  ASSUME NEW c, NEW so, NEW s, Owed(c, so, s)
  PROVE  s \in Fds(c.want)
<1>1. PICK k \in EventReady(so) : <<s, k>> \in c.want
  BY DEF Owed
<1>2. <<s, k>>[1] = s
  OBVIOUS
<1> QED
  BY <1>1, <1>2 DEF Fds

(* Who is owed an event depends on the conn and the events of the socket.  *)
LEMMA OwedSame ==
  ASSUME NEW c, NEW a, NEW b, NEW s, a.conn = b.conn, EventReady(a) = EventReady(b),
         Owed(c, b, s)
  PROVE  Owed(c, a, s)
  BY DEF Owed

-----------------------------------------------------------------------------
(* The other actions of lwip_select.                                       *)

(* Where a scan leads, pc by pc.                                           *)
LEMMA AfterScanByPc ==
  ASSUME NEW c, NEW ready
  PROVE  /\ c.pc = "rescan" => AfterScan(c, ready) =
              [c EXCEPT !.pc = IF ready = {} THEN "wait" ELSE "dec", !.todo = Fds(c.want)]
         /\ c.pc = "scan" => AfterScan(c, ready) \in
              {[c EXCEPT !.pc = "add", !.todo = Fds(c.want)], NoCall}
         /\ c.pc = "result" => AfterScan(c, ready) = NoCall
<1>1. c.pc = "rescan" => AfterScan(c, ready) =
              [c EXCEPT !.pc = IF ready = {} THEN "wait" ELSE "dec", !.todo = Fds(c.want)]
  BY Zenon DEF AfterScan
<1>2. c.pc = "scan" => AfterScan(c, ready) \in
              {[c EXCEPT !.pc = "add", !.todo = Fds(c.want)], NoCall}
  <2>1. CASE ready = {} /\ c.timeout # "zero"
    BY <2>1, Zenon DEF AfterScan
  <2>2. CASE ~(ready = {} /\ c.timeout # "zero")
    BY <2>2, Zenon DEF AfterScan
  <2> QED
    BY <2>1, <2>2
<1>3. c.pc = "result" => AfterScan(c, ready) = NoCall
  BY Zenon DEF AfterScan
<1> QED
  BY <1>1, <1>2, <1>3

(* The scan of one socket s takes the call c of a thread to d.             *)
ScansTo(c, s, d) ==
  \/ /\ c.todo \ {s} # {}
     /\ d = [c EXCEPT !.ready = @ \cup Scanned(s, c.want), !.todo = c.todo \ {s}]
  \/ /\ c.todo \ {s} = {}
     /\ d = AfterScan(c, c.ready \cup Scanned(s, c.want))

(* What a scan does to the thread.                                         *)
LEMMA ScanStep ==
  ASSUME Local, NEW t \in Threads, lwip_selscan(t)
  PROVE  \E s \in call[t].todo : \E d :
           call' = [call EXCEPT ![t] = d] /\ ScansTo(call[t], s, d)
<1> DEFINE s == Lowest(call[t].todo)
           ready == call[t].ready \cup Scanned(s, call[t].want)
           rest == call[t].todo \ {s}
           d == IF rest # {} THEN [call[t] EXCEPT !.ready = ready, !.todo = rest]
                ELSE AfterScan(call[t], ready)
<1>1. call[t] \in CallType /\ call \in [Threads -> CallType] /\ call[t].todo # {}
      /\ call[t].todo \subseteq Sockets
  BY DEF Local, TypeOK, CallType, lwip_selscan
<1>2. s \in call[t].todo
  BY <1>1, LowestIsIn
<1>3. call' = [call EXCEPT ![t] = d]
  BY <1>1 DEF lwip_selscan
<1> QED
  BY <1>2, <1>3 DEF ScansTo

(* Outside the second scan the thread is not counted and not on the list.  *)
LEMMA FirstScanOK ==
  ASSUME Local, NEW t \in Threads, lwip_selscan(t), call[t].pc # "rescan"
  PROVE  Quiet
<1> DEFINE c == call[t]
<1>1. c \in CallType /\ CallOK(c) /\ c.pc \in {"scan", "result"} /\ c.todo # {}
  BY DEF Local, TypeOK, lwip_selscan
<1>1a. PICK s \in c.todo : \E d : call' = [call EXCEPT ![t] = d] /\ ScansTo(c, s, d)
  BY ScanStep
<1>1b. PICK d : call' = [call EXCEPT ![t] = d] /\ ScansTo(c, s, d)
  BY <1>1a
<1>2. /\ call' = [call EXCEPT ![t] = d]
      /\ \/ /\ c.todo \ {s} # {}
            /\ d = [c EXCEPT !.ready = @ \cup Scanned(s, c.want), !.todo = c.todo \ {s}]
         \/ /\ c.todo \ {s} = {}
            /\ d = AfterScan(c, c.ready \cup Scanned(s, c.want))
  BY <1>1b DEF ScansTo
<1>3. c.want \in SUBSET (Sockets \X Kinds) /\ Fds(c.want) \in SUBSET Sockets /\ c.want # {}
  <2>1. c.want \in SUBSET (Sockets \X Kinds) /\ c.todo \subseteq Fds(c.want)
    BY <1>1 DEF CallType, CallOK
  <2>2. c.want # {}
    BY <2>1, <1>1, FdsEmpty
  <2> QED
    BY <2>1, <2>2, FdsAreSockets
<1>4. CountedIn(c) = {}
  BY <1>1, CountedByPc
<1>5. CallStep(c, d)
  <2>1. CASE d = NoCall
    BY <2>1, <1>1, ReturnOK
  <2>2. CASE d = [c EXCEPT !.ready = @ \cup Scanned(s, c.want), !.todo = c.todo \ {s}]
    <3>1. Scanned(s, c.want) \subseteq c.want
      BY DEF Scanned
    <3>2. c.ready \cup Scanned(s, c.want) \in SUBSET (Sockets \X Kinds)
          /\ c.todo \ {s} \in SUBSET Sockets
      BY <3>1, <1>1, <1>3 DEF CallType
    <3>3. /\ d \in CallType /\ d.pc = c.pc /\ d.want = c.want /\ d.todo = c.todo \ {s}
          /\ d.sem = c.sem /\ d.signalled = c.signalled /\ d.newconn = c.newconn
      BY <2>2, <3>2, <1>1 DEF CallType
    <3>4. CountedIn(d) = {}
      BY <3>3, <1>1, CountedByPc
    <3> QED
      BY <1>1, <1>4, <3>3, <3>4 DEF CallStep, CallOK, Listed
  <2>3. CASE d = [c EXCEPT !.pc = "add", !.todo = Fds(c.want)] /\ c.pc = "scan"
    <3>1. /\ d \in CallType /\ d.pc = "add" /\ d.want = c.want /\ d.todo = Fds(c.want)
          /\ d.sem = c.sem /\ d.signalled = c.signalled
      BY <2>3, <1>1, <1>3 DEF CallType, CallPcs
    <3>2. CountedIn(d) = {}
      BY <3>1, CountedByPc
    <3> QED
      BY <1>1, <1>3, <1>4, <2>3, <3>1, <3>2 DEF CallStep, CallOK, Listed
  <2>4. d = NoCall \/ d = [c EXCEPT !.ready = @ \cup Scanned(s, c.want), !.todo = c.todo \ {s}]
        \/ (d = [c EXCEPT !.pc = "add", !.todo = Fds(c.want)] /\ c.pc = "scan")
    BY <1>1, <1>2, AfterScanByPc
  <2> QED
    BY <2>1, <2>2, <2>3, <2>4
<1> QED
  BY <1>2, <1>5, OneCall, Unchanged DEF Quiet, lwip_selscan

(* The second scan: the thread stays counted, and is owed nothing for the  *)
(* socket just scanned.                                                    *)
LEMMA RescanOK ==
  ASSUME Local, NEW t \in Threads, lwip_selscan(t), call[t].pc = "rescan"
  PROVE  Local' /\ (Counts => Counts')
<1> DEFINE c == call[t]
<1>1. c \in CallType /\ CallOK(c) /\ c.pc = "rescan"
  BY DEF Local, TypeOK
<1>1a. PICK s \in c.todo : \E d : call' = [call EXCEPT ![t] = d] /\ ScansTo(c, s, d)
  BY ScanStep
<1>1b. PICK d : call' = [call EXCEPT ![t] = d] /\ ScansTo(c, s, d)
  BY <1>1a
<1>2. /\ call' = [call EXCEPT ![t] = d]
      /\ \/ /\ c.todo \ {s} # {}
            /\ d = [c EXCEPT !.ready = @ \cup Scanned(s, c.want), !.todo = c.todo \ {s}]
         \/ /\ c.todo \ {s} = {}
            /\ d = AfterScan(c, c.ready \cup Scanned(s, c.want))
  BY <1>1b DEF ScansTo
<1> DEFINE ready == c.ready \cup Scanned(s, c.want)
           found == IF ready = {} THEN "wait" ELSE "dec"
<1>3. c.want \in SUBSET (Sockets \X Kinds) /\ Fds(c.want) \in SUBSET Sockets /\ c.want # {}
      /\ Fds(c.want) # {}
  BY <1>1, FdsAreSockets DEF CallType, CallOK
<1>4. ready \in SUBSET (Sockets \X Kinds) /\ c.todo \ {s} \in SUBSET Sockets
      /\ found \in CallPcs
  <2>1. Scanned(s, c.want) \subseteq c.want
    BY DEF Scanned
  <2> QED
    BY <2>1, <1>1, <1>3 DEF CallType, CallPcs
<1>5. \/ /\ d = [c EXCEPT !.ready = ready, !.todo = c.todo \ {s}] /\ c.todo \ {s} # {}
      \/ /\ d = [c EXCEPT !.pc = found, !.todo = Fds(c.want)] /\ c.todo \ {s} = {}
  <2>1. c.todo \ {s} = {} => d = [c EXCEPT !.pc = found, !.todo = Fds(c.want)]
    BY <1>1, <1>2, AfterScanByPc
  <2>2. c.todo \ {s} # {} => d = [c EXCEPT !.ready = ready, !.todo = c.todo \ {s}]
    BY <1>2
  <2> QED
    BY <2>1, <2>2
<1> HIDE DEF found, ready
<1>6. /\ d \in CallType /\ d.want = c.want /\ d.sem = c.sem /\ d.signalled = c.signalled
      /\ \/ d.pc = "rescan" /\ d.todo = c.todo \ {s} /\ d.ready = ready
         \/ d.pc = found /\ d.todo = Fds(c.want) /\ c.todo \ {s} = {}
  <2>1. CASE d = [c EXCEPT !.ready = ready, !.todo = c.todo \ {s}]
    BY <2>1, <1>1, <1>4 DEF CallType
  <2>2. CASE d = [c EXCEPT !.pc = found, !.todo = Fds(c.want)] /\ c.todo \ {s} = {}
    BY <2>2, <1>1, <1>3, <1>4 DEF CallType
  <2> QED
    BY <1>5, <2>1, <2>2
<1>7. found \in {"wait", "dec"} /\ (found = "wait" => ready = {})
  BY DEF found
<1>8. CallOK(d) /\ d.pc \in Listed
  BY <1>1, <1>3, <1>6, <1>7 DEF CallOK, Listed
<1>9. Local'
  BY <1>1, <1>2, <1>6, <1>8, LocalKept DEF lwip_selscan, Listed, Local, TypeOK
<1>10. ASSUME Counts PROVE Counts'
  <2>1. CountedIn(d) = CountedIn(c)
    BY <1>1, <1>6, <1>7, CountedByPc
  <2>2. \A u \in Threads : CountedIn(call'[u]) = CountedIn(call[u])
    BY <1>2, <2>1 DEF Local, TypeOK
  <2>3. \A r \in Sockets : Unknown(r) => Unknown(r)'
    BY <1>1, <1>2, UnknownStays
  <2>4. WaitingIsExact'
    BY <1>10, <2>2, <2>3, WaitingKept DEF Counts, lwip_selscan
  <2>5. ASSUME NEW r \in Sockets, Owed(d, sock[r], r) PROVE Owed(c, sock[r], r)
    <3>1. PICK k \in EventReady(sock[r]) : <<r, k>> \in c.want
      BY <2>5, <1>6 DEF Owed
    <3>2. r \in Fds(c.want) /\ ready = {} /\ sock[r].conn # NULL /\ ~c.sem
      BY <2>5, <1>6, <1>7, OwedIsWanted DEF Owed
    <3>3. c.ready = {} /\ Scanned(s, c.want) = {}
      BY <3>2 DEF ready
    <3>4. r # s
      <4> SUFFICES ASSUME r = s PROVE FALSE
        OBVIOUS
      <4>1. <<s, k>> \in c.want /\ <<s, k>>[1] = s /\ <<s, k>>[2] = k
        BY <3>1
      <4>2. \/ k = "read" /\ sock[s].rcvevent > 0
            \/ k = "write" /\ sock[s].sendevent
            \/ k = "except" /\ sock[s].errevent
        BY <3>1 DEF EventReady
      <4>3. <<s, k>> \in Scanned(s, c.want)
        BY <4>1, <4>2, <3>2 DEF Scanned
      <4> QED
        BY <4>3, <3>3
    <3>5. r \notin c.todo
      BY <2>5, <1>6, <1>7, <3>4 DEF Owed
    <3> QED
      BY <1>1, <3>1, <3>2, <3>3, <3>5 DEF Owed
  <2>6. Woken'
    BY <1>2, <1>10, <2>5, WokenKept DEF Counts, lwip_selscan
  <2> QED
    BY <2>4, <2>6, <1>10 DEF Counts, lwip_selscan
<1> QED
  BY <1>9, <1>10

(* select_cb_ctr++: every walk will start again at the top.                *)
LEMMA ListChangedOK ==
  ASSUME Local, ev' = ListChanged
  PROVE  /\ ev' \in [Callers -> EventType]
         /\ \A e \in Callers : /\ EventOK(ev'[e])
                               /\ ev[e].pc = "walk" => ev'[e].pc = "walk" /\ ev'[e].changed
                               /\ ev'[e].s = ev[e].s
<1>1. ASSUME NEW e \in Callers
      PROVE  /\ ev'[e] \in EventType /\ EventOK(ev'[e])
             /\ ev[e].pc = "walk" => ev'[e].pc = "walk" /\ ev'[e].changed
             /\ ev'[e].s = ev[e].s
  <2> DEFINE b == (ev[e].pc = "walk")
             y == [ev[e] EXCEPT !.changed = b]
  <2>1. ev[e] \in EventType /\ EventOK(ev[e])
    BY DEF Local, TypeOK
  <2>2. b \in BOOLEAN
    OBVIOUS
  <2>3. ev'[e] = y
    BY DEF ListChanged
  <2> HIDE DEF b
  <2>4. /\ y \in EventType /\ y.changed = b /\ y.pc = ev[e].pc /\ y.s = ev[e].s
        /\ y.conn = ev[e].conn /\ y.todo = ev[e].todo
    BY <2>1, <2>2 DEF EventType
  <2> HIDE DEF y
  <2>5. EventOK(y)
    BY <2>1, <2>4 DEF EventOK
  <2> QED
    BY <2>3, <2>4, <2>5 DEF b
<1>2. ev' = [e \in Callers |-> ev'[e]]
  BY DEF ListChanged
<1> QED
  BY <1>1, <1>2

(* A thread that owns no event enters or leaves the list.                  *)
LEMMA ListMoved ==
  ASSUME Local, NEW t \in Threads, NEW d \in CallType, CallOK(d), call' = [call EXCEPT ![t] = d],
         call[t].pc # "allocinit",
         d.pc \in Listed => OnList(select_cb_list', t), select_cb_list' \in Seq(Threads),
         \A u \in Threads \ {t} : OnList(select_cb_list, u) => OnList(select_cb_list', u),
         CountedIn(d) = CountedIn(call[t]), d.pc \notin {"rescan", "wait"},
         ev' = ListChanged, UNCHANGED <<sock, nc, events, aborted>>
  PROVE  Local' /\ (Counts => Counts')
<1>1. \A u \in Threads : call'[u] = IF u = t THEN d ELSE call[u]
  BY DEF Local, TypeOK
<1>2. call' \in [Threads -> CallType]
  BY DEF Local, TypeOK
<1>3. Local'
  <2>1. TypeOK'
    BY <1>2, ListChangedOK DEF Local, TypeOK
  <2>2. \A u \in Threads : CallOK(call'[u])
    BY <1>1 DEF Local
  <2>3. \A u \in Threads : call'[u].pc \in Listed => OnList(select_cb_list', u)
    BY <1>1 DEF Local
  <2> QED
    BY <2>1, <2>2, <2>3, ListChangedOK DEF Local
<1>4. ASSUME Counts PROVE Counts'
  <2>1. \A u \in Threads : CountedIn(call'[u]) = CountedIn(call[u])
    BY <1>1
  <2>2. \A r \in Sockets : Unknown(r) => Unknown(r)'
    BY UnknownStays
  <2>3. WaitingIsExact'
    BY <1>4, <2>1, <2>2, WaitingKept DEF Counts
  <2>4. Woken'
    <3> SUFFICES ASSUME NEW u \in Threads, NEW s \in Sockets, Owed(call'[u], sock'[s], s)
                 PROVE  \E e \in Callers : Ahead(ev'[e], select_cb_list', u, s)
      BY DEF Woken
    <3>1. u # t
      BY <1>1 DEF Owed
    <3>2. Owed(call[u], sock[s], s)
      BY <3>1, <1>1
    <3>3. PICK e \in Callers : Ahead(ev[e], select_cb_list, u, s)
      BY <3>2, <1>4 DEF Counts, Woken
    <3>4. ev'[e].pc = "walk" /\ ev'[e].changed /\ ev'[e].s = s
      BY <3>3, ListChangedOK DEF Ahead
    <3> QED
      BY <3>4 DEF Ahead
  <2> QED
    BY <1>4, <2>3, <2>4 DEF Counts
<1> QED
  BY <1>3, <1>4

(* A thread enters the list.                                               *)
LEMMA SelectAddOK ==
  ASSUME Local, NEW t \in Threads, SelectAdd(t)
  PROVE  Local' /\ (Counts => Counts')
<1> DEFINE c == call[t]
           d == [c EXCEPT !.pc = "inc"]
<1>1. c \in CallType /\ CallOK(c) /\ c.pc = "add" /\ select_cb_list \in Seq(Threads)
      /\ call \in [Threads -> CallType]
  BY DEF Local, TypeOK, SelectAdd
<1>2. /\ d \in CallType /\ d.pc = "inc" /\ d.want = c.want /\ d.todo = c.todo
      /\ d.sem = c.sem /\ d.signalled = c.signalled
  BY <1>1 DEF CallType, CallPcs
<1>3. call' = [call EXCEPT ![t] = d]
  BY <1>1 DEF SelectAdd, Goto
<1> HIDE DEF d
<1>4. c.todo = Fds(c.want) /\ c.todo # {}
  <2>1. c.todo = Fds(c.want) /\ c.want # {} /\ c.want \in SUBSET (Sockets \X Kinds)
    BY <1>1 DEF CallOK, CallType
  <2> QED
    BY <2>1, FdsAreSockets
<1>5. CallOK(d)
  BY <1>1, <1>2, <1>4 DEF CallOK
<1>6. CountedIn(d) = CountedIn(c)
  BY <1>1, <1>2, <1>4, CountedByPc, ZenonT(30)
<1> DEFINE lst == select_cb_list
           new == <<t>> \o lst
<1>7. select_cb_list' = new
  BY DEF SelectAdd
<1> HIDE DEF lst
<1>8. lst \in Seq(Threads)
  BY <1>1 DEF lst
<1>9. new \in Seq(Threads) /\ Len(new) = Len(lst) + 1 /\ Len(lst) \in Nat /\ new[1] = t
      /\ \A k \in 1 .. Len(lst) : new[k + 1] = lst[k]
  BY <1>8
<1> HIDE DEF new
<1>10. OnList(new, t)
  BY <1>9 DEF OnList
<1>11. ASSUME NEW u \in Threads, OnList(lst, u) PROVE OnList(new, u)
  <2>1. PICK k \in 1 .. Len(lst) : lst[k] = u
    BY <1>11 DEF OnList
  <2>2. k + 1 \in 1 .. Len(new) /\ new[k + 1] = u
    BY <2>1, <1>9
  <2> QED
    BY <2>2 DEF OnList
<1>12. select_cb_list' = new /\ select_cb_list = lst
  BY <1>7 DEF lst
<1> QED
  BY <1>1, <1>2, <1>3, <1>5, <1>6, <1>9, <1>10, <1>11, <1>12, ListMoved DEF SelectAdd

(* The list without its k-th entry.                                        *)
LEMMA RemoveAtOK ==
  ASSUME NEW lst \in Seq(Threads), NEW k \in 1 .. Len(lst)
  PROVE  /\ RemoveAt(lst, k) \in Seq(Threads)
         /\ \A u : OnList(lst, u) /\ lst[k] # u => OnList(RemoveAt(lst, k), u)
<1> DEFINE a == SubSeq(lst, 1, k - 1)
           b == SubSeq(lst, k + 1, Len(lst))
           new == a \o b
<1>1. k - 1 \in 0 .. Len(lst) /\ k \in 0 .. Len(lst) /\ Len(lst) \in Nat
  OBVIOUS
<1>2. a \in Seq(Threads) /\ Len(a) = k - 1 /\ \A i \in 1 .. k - 1 : a[i] = lst[i]
  BY <1>1, Prefix
<1>3. b \in Seq(Threads) /\ Len(b) = Len(lst) - k /\ \A i \in 1 .. Len(lst) - k : b[i] = lst[k + i]
  BY <1>1, Suffix
<1>4. RemoveAt(lst, k) = new
  BY DEF RemoveAt
<1> HIDE DEF a, b
<1>5. new \in Seq(Threads) /\ Len(new) = Len(lst) - 1
      /\ \A i \in 1 .. Len(new) : new[i] = IF i <= k - 1 THEN a[i] ELSE b[i - (k - 1)]
  <2>1. /\ new \in Seq(Threads) /\ Len(new) = Len(a) + Len(b)
        /\ \A i \in 1 .. Len(a) + Len(b) : new[i] = IF i <= Len(a) THEN a[i] ELSE b[i - Len(a)]
    BY <1>2, <1>3, ConcatProperties
  <2>2. Len(a) + Len(b) = Len(lst) - 1
    BY <1>1, <1>2, <1>3
  <2> QED
    BY <2>1, <2>2, <1>2
<1> HIDE DEF new
<1>6. ASSUME NEW u, OnList(lst, u), lst[k] # u PROVE OnList(new, u)
  <2>1. PICK i \in 1 .. Len(lst) : lst[i] = u
    BY <1>6 DEF OnList
  <2>2. i # k
    BY <2>1, <1>6
  <2>3. CASE i < k
    <3>1. i \in 1 .. k - 1 /\ i \in 1 .. Len(new)
      BY <2>1, <2>3, <1>1, <1>5
    <3>2. new[i] = u
      BY <3>1, <1>2, <1>5, <2>1
    <3> QED
      BY <3>1, <3>2 DEF OnList
  <2>4. CASE i > k
    <3>1. i - 1 \in 1 .. Len(new) /\ ~(i - 1 <= k - 1) /\ i - k \in 1 .. Len(lst) - k
          /\ (i - 1) - (k - 1) = i - k /\ k + (i - k) = i
      BY <2>1, <2>4, <1>1, <1>5
    <3>2. new[i - 1] = b[i - k]
      BY <3>1, <1>5
    <3>3. b[i - k] = lst[i]
      BY <3>1, <1>3
    <3> QED
      BY <3>1, <3>2, <3>3, <2>1 DEF OnList
  <2> QED
    BY <2>2, <2>3, <2>4
<1> QED
  BY <1>4, <1>5, <1>6

(* A thread leaves the list.                                               *)
LEMMA SelectRemoveOK ==
  ASSUME Local, NEW t \in Threads, SelectRemove(t)
  PROVE  Local' /\ (Counts => Counts')
<1> DEFINE c == call[t]
           d1 == [c EXCEPT !.pc = "result", !.todo = Fds(c.want), !.ready = {}, !.sem = FALSE]
           d == IF c.bad \/ c.timedout THEN NoCall ELSE d1
<1>1. c \in CallType /\ CallOK(c) /\ c.pc = "remove" /\ select_cb_list \in Seq(Threads)
      /\ call \in [Threads -> CallType] /\ c.want \in SUBSET (Sockets \X Kinds)
  BY DEF Local, TypeOK, SelectRemove, CallType
<1>2. Fds(c.want) \in SUBSET Sockets
  BY <1>1, FdsAreSockets
<1>3. d1 \in CallType /\ d1.pc = "result" /\ d1.want = c.want /\ d1.todo = Fds(c.want)
  BY <1>1, <1>2 DEF CallType, CallPcs
<1>4. call' = [call EXCEPT ![t] = d]
  BY <1>1 DEF SelectRemove
<1> HIDE DEF d1
<1>5. d \in CallType /\ d.pc \in {"idle", "result"} /\ CallOK(d)
  <2>1. CallOK(d1)
    BY <1>3 DEF CallOK
  <2> QED
    BY <2>1, <1>3, NoCallOK
<1> HIDE DEF d
<1>6. CountedIn(d) = CountedIn(c)
  BY <1>1, <1>5, CountedByPc
<1>7. PICK k \in 1 .. Len(select_cb_list) :
        select_cb_list[k] = t /\ select_cb_list' = RemoveAt(select_cb_list, k)
  BY DEF SelectRemove
<1>8. /\ select_cb_list' \in Seq(Threads)
      /\ \A u \in Threads \ {t} : OnList(select_cb_list, u) => OnList(select_cb_list', u)
  BY <1>1, <1>7, RemoveAtOK
<1> QED
  BY <1>1, <1>4, <1>5, <1>6, <1>8, ListMoved DEF SelectRemove, Listed

(* A counter changes and with it one thread: what is owed to it is not     *)
(* more, and no socket is given out.                                       *)
LEMMA Counter ==
  ASSUME Local, Woken, NEW t \in Threads, NEW d, call' = [call EXCEPT ![t] = d],
         NEW s \in Sockets, NEW n, sock' = [sock EXCEPT ![s].select_waiting = n] \/ sock' = sock,
         UNCHANGED <<ev, select_cb_list>>,
         d.pc # "wait", d.pc = "rescan" => d.todo = Fds(d.want)
  PROVE  Woken'
<1>1. \A r \in Sockets : sock'[r].conn = sock[r].conn /\ EventReady(sock'[r]) = EventReady(sock[r])
  <2> TAKE r \in Sockets
  <2>1. /\ sock'[r].conn = sock[r].conn /\ sock'[r].rcvevent = sock[r].rcvevent
        /\ sock'[r].sendevent = sock[r].sendevent /\ sock'[r].errevent = sock[r].errevent
    BY DEF Local, TypeOK, SocketType
  <2> QED
    BY <2>1 DEF EventReady
<1>2. \A r \in Sockets : ~Owed(d, sock'[r], r)
  BY DEF Owed
<1>3. \A u \in Threads \ {t} : \A r \in Sockets :
        Owed(call[u], sock'[r], r) => Owed(call[u], sock[r], r)
  BY <1>1, OwedSame
<1> QED
  BY <1>2, <1>3, WokenKept

(* select_waiting++ counts the thread in one more socket.                  *)
LEMMA SelectIncOK ==
  ASSUME Local, NEW t \in Threads, SelectInc(t)
  PROVE  Local' /\ (Counts /\ NoReuse => Counts')
<1> DEFINE c == call[t]
           s == Lowest(c.todo)
           rest == c.todo \ {s}
           done == Fds(c.want) \ c.todo
<1>1. c \in CallType /\ CallOK(c) /\ c.pc = "inc" /\ call \in [Threads -> CallType]
      /\ sock \in [Sockets -> SocketType]
  BY DEF Local, TypeOK, SelectInc
<1>2. /\ c.todo # {} /\ c.todo \subseteq Fds(c.want) /\ c.want # {} /\ c.signalled = c.sem
      /\ c.want \in SUBSET (Sockets \X Kinds)
  BY <1>1 DEF CallOK, CallType
<1>3. Fds(c.want) \subseteq Sockets /\ Fds(c.want) # {}
  BY <1>2, FdsAreSockets
<1>4. s \in c.todo /\ s \in Sockets /\ sock[s] \in SocketType
  BY <1>1, <1>2, <1>3, LowestIsIn
<1>5. CountedIn(c) = Fds(c.want) \ c.todo
  BY <1>1, CountedByPc
<1>6. CASE sock[s].conn = NULL
  <2> DEFINE p == IF done = {} THEN "remove" ELSE "dec"
             d == [c EXCEPT !.bad = TRUE, !.todo = done, !.pc = p]
  <2>1. sock' = sock /\ call' = [call EXCEPT ![t] = d]
    BY <1>1, <1>6 DEF SelectInc
  <2>2. p \in CallPcs /\ p \in {"remove", "dec"} /\ (p = "remove" <=> done = {})
    BY DEF CallPcs
  <2>3. done \in SUBSET Sockets
    BY <1>3
  <2> HIDE DEF p
  <2>4. d \in CallType /\ d.pc = p /\ d.todo = done /\ d.want = c.want
    BY <1>1, <2>2, <2>3 DEF CallType
  <2> HIDE DEF d
  <2>5. CountedIn(d) = done
    BY <2>2, <2>4, CountedByPc
  <2>6. CallStep(c, d)
    BY <1>1, <1>5, <2>2, <2>4, <2>5 DEF CallStep, CallOK, Listed
  <2>7. Quiet
    BY <2>1, <2>6, OneCall, Unchanged DEF Quiet, SelectInc
  <2> QED
    BY <2>7, QuietLocal, QuietCounts
<1>7. CASE sock[s].conn # NULL
  <2> DEFINE d == IF rest # {} THEN [c EXCEPT !.todo = rest]
                  ELSE [c EXCEPT !.pc = "rescan", !.todo = Fds(c.want)]
             b == [sock[s] EXCEPT !.select_waiting = @ + 1]
  <2>1. call' = [call EXCEPT ![t] = d] /\ sock' = [sock EXCEPT ![s] = b]
    BY <1>1, <1>4, <1>7 DEF SelectInc
  <2>2. /\ d \in CallType /\ d.want = c.want /\ d.signalled = c.signalled /\ d.sem = c.sem
        /\ \/ rest # {} /\ d.pc = "inc" /\ d.todo = rest
           \/ rest = {} /\ d.pc = "rescan" /\ d.todo = Fds(c.want)
    <3>1. CASE rest # {}
      BY <3>1, <1>1, <1>2, <1>3 DEF CallType
    <3>2. CASE rest = {}
      BY <3>2, <1>1, <1>3 DEF CallType, CallPcs
    <3> QED
      BY <3>1, <3>2
  <2>3. /\ b \in SocketType /\ b.conn = sock[s].conn
        /\ b.select_waiting = sock[s].select_waiting + 1
    BY <1>4 DEF SocketType
  <2> HIDE DEF d, b
  <2>4. CountedIn(d) = CountedIn(c) \cup {s} /\ s \notin CountedIn(c)
    BY <1>1, <1>2, <1>4, <1>5, <2>2, CountedByPc
  <2>5. CallOK(d)
    BY <1>2, <2>2 DEF CallOK
  <2>6. Local'
    <3>1. sock' \in [Sockets -> SocketType]
      BY <1>1, <1>4, <2>1, <2>3
    <3> QED
      BY <1>1, <2>1, <2>2, <2>5, <3>1, LocalKept DEF Listed, SelectInc, Local, TypeOK
  <2>7. ASSUME Counts, NoReuse PROVE Counts'
    <3>1. ~Unknown(s)
      BY <1>2, <1>4, <2>7, WantedIsKnown
    <3> DEFINE A == {u \in Threads : s \in CountedIn(call[u])}
               B == {u \in Threads : s \in CountedIn(call'[u])}
    <3>2. \A u \in Threads : call'[u] = IF u = t THEN d ELSE call[u]
      BY <1>1, <2>1
    <3>3. B = A \cup {t} /\ t \notin A /\ A \subseteq Threads
      BY <2>4, <3>2
    <3>4. sock[s].select_waiting = Cardinality(A)
      <4>1. A = {u \in Threads : s \in Counted(u)}
        BY CountedIsCountedIn
      <4> QED
        BY <4>1, <2>7, <3>1, <1>4, <1>7 DEF Counts, WaitingIsExact
    <3> HIDE DEF A
    <3>5. Cardinality(B) = Cardinality(A) + 1
      BY <3>3, CountUp
    <3>6. sock'[s].select_waiting = Cardinality(B)
      BY <1>1, <1>4, <2>1, <2>3, <3>4, <3>5
    <3>7. \A r \in Sockets \ {s} : /\ sock'[r] = sock[r] /\ (Unknown(r) => Unknown(r)')
                                   /\ (r \in CountedIn(d) <=> r \in CountedIn(call[t]))
      BY <1>1, <2>1, <2>4, UnknownStays
    <3>8. WaitingIsExact'
      BY <1>4, <2>1, <2>7, <3>6, <3>7, Recount DEF Counts
    <3>9. Woken'
      <4>1. sock' = [sock EXCEPT ![s].select_waiting = sock[s].select_waiting + 1]
        BY <2>1 DEF b
      <4>2. d.pc # "wait" /\ (d.pc = "rescan" => d.todo = Fds(d.want))
        BY <2>2
      <4> QED
        BY <4>1, <4>2, <1>4, <2>1, <2>7, Counter DEF Counts, SelectInc
    <3> QED
      BY <2>7, <3>8, <3>9 DEF Counts, SelectInc
  <2> QED
    BY <2>6, <2>7
<1> QED
  BY <1>6, <1>7

(* select_waiting-- does not fail its assertion.                           *)
LEMMA SelectDecOK ==
  ASSUME Local, NEW t \in Threads, SelectDec(t)
  PROVE  Local' /\ (Counts /\ NoReuse => Counts')
<1> DEFINE c == call[t]
           s == Lowest(c.todo)
           rest == c.todo \ {s}
           p == IF rest = {} THEN "remove" ELSE "dec"
           bad == c.bad \/ sock[s].conn = NULL
           d == [c EXCEPT !.bad = bad, !.todo = rest, !.pc = p]
           b == [sock[s] EXCEPT !.select_waiting = @ - 1]
<1>1. c \in CallType /\ CallOK(c) /\ c.pc = "dec" /\ call \in [Threads -> CallType]
      /\ sock \in [Sockets -> SocketType]
  BY DEF Local, TypeOK, SelectDec
<1>2. /\ c.todo # {} /\ c.todo \subseteq Fds(c.want)
      /\ c.want \in SUBSET (Sockets \X Kinds) /\ c.bad \in BOOLEAN
  BY <1>1 DEF CallOK, CallType
<1>3. Fds(c.want) \subseteq Sockets
  BY <1>2, FdsAreSockets
<1>4. s \in c.todo /\ s \in Sockets /\ sock[s] \in SocketType /\ sock[s].select_waiting \in Nat
  <2>1. s \in c.todo
    BY <1>2, <1>3, LowestIsIn
  <2> QED
    BY <1>1, <1>2, <1>3, <2>1 DEF SocketType
<1>5. /\ call' = [call EXCEPT ![t] = d]
      /\ sock' = (IF sock[s].conn # NULL /\ sock[s].select_waiting > 0
                  THEN [sock EXCEPT ![s] = b] ELSE sock)
      /\ aborted' = (sock[s].conn # NULL /\ sock[s].select_waiting = 0)
  BY <1>1, <1>4 DEF SelectDec
<1>6. p \in CallPcs /\ p \in {"remove", "dec"} /\ (p = "remove" <=> rest = {}) /\ bad \in BOOLEAN
      /\ rest \in SUBSET Sockets
  BY <1>2, <1>3 DEF CallPcs
<1> HIDE DEF p, bad
<1>7. d \in CallType /\ d.pc = p /\ d.todo = rest /\ d.want = c.want
  BY <1>1, <1>6 DEF CallType
<1> HIDE DEF d
<1>8. sock[s].select_waiting > 0 =>
        /\ b \in SocketType /\ b.conn = sock[s].conn
        /\ b.select_waiting = sock[s].select_waiting - 1
  BY <1>4 DEF SocketType
<1>9. CountedIn(d) = CountedIn(c) \ {s} /\ s \in CountedIn(c)
  BY <1>1, <1>4, <1>6, <1>7, CountedByPc
<1>10. Local'
  <2>1. sock' \in [Sockets -> SocketType] /\ aborted' \in BOOLEAN
    BY <1>1, <1>4, <1>5, <1>8
  <2>2. CallOK(d)
    BY <1>2, <1>6, <1>7 DEF CallOK
  <2> QED
    BY <1>1, <1>5, <1>7, <2>1, <2>2, LocalKept DEF Listed, SelectDec, Local, TypeOK
<1>11. ASSUME Counts, NoReuse PROVE Counts'
  <2>1. ~Unknown(s)
    BY <1>2, <1>4, <1>11, WantedIsKnown
  <2> DEFINE A == {u \in Threads : s \in CountedIn(call[u])}
             B == {u \in Threads : s \in CountedIn(call'[u])}
  <2>2. \A u \in Threads : call'[u] = IF u = t THEN d ELSE call[u]
    BY <1>1, <1>5
  <2>3. B = A \ {t} /\ t \in A /\ A \subseteq Threads
    BY <1>9, <2>2
  <2>4. sock[s].conn # NULL => sock[s].select_waiting = Cardinality(A)
    <3>1. A = {u \in Threads : s \in Counted(u)}
      BY CountedIsCountedIn
    <3> QED
      BY <3>1, <2>1, <1>4, <1>11 DEF Counts, WaitingIsExact
  <2> HIDE DEF A
  <2>5. Cardinality(B) = Cardinality(A) - 1 /\ Cardinality(A) > 0 /\ Cardinality(A) \in Nat
    BY <2>3, CountDown
  <2>6. sock[s].conn # NULL => sock[s].select_waiting > 0
    BY <2>4, <2>5
  <2>7. sock'[s].conn # NULL => sock'[s].select_waiting = Cardinality(B)
    <3>1. CASE sock[s].conn = NULL
      BY <3>1, <1>5
    <3>2. CASE sock[s].conn # NULL
      <4>1. sock'[s] = b
        BY <3>2, <1>1, <1>4, <1>5, <2>6
      <4> QED
        BY <4>1, <3>2, <1>8, <2>4, <2>5, <2>6
    <3> QED
      BY <3>1, <3>2
  <2>8. \A r \in Sockets \ {s} : /\ sock'[r] = sock[r] /\ (Unknown(r) => Unknown(r)')
                                 /\ (r \in CountedIn(d) <=> r \in CountedIn(call[t]))
    BY <1>1, <1>5, <1>9, UnknownStays
  <2>9. WaitingIsExact'
    BY <1>4, <1>5, <1>11, <2>7, <2>8, Recount DEF Counts
  <2>10. Woken'
    <3>1. sock' = [sock EXCEPT ![s].select_waiting = sock[s].select_waiting - 1] \/ sock' = sock
      BY <1>5
    <3>2. d.pc # "wait" /\ d.pc # "rescan"
      BY <1>6, <1>7
    <3> QED
      BY <3>1, <3>2, <1>4, <1>5, <1>11, Counter DEF Counts, SelectDec
  <2>11. ~aborted'
    <3>1. ~(sock[s].conn # NULL /\ sock[s].select_waiting = 0)
      BY <1>4, <2>6
    <3> QED
      BY <1>5, <3>1, Zenon
  <2> QED
    BY <2>9, <2>10, <2>11 DEF Counts
<1> QED
  BY <1>10, <1>11

-----------------------------------------------------------------------------
(* lwip_accept: a slot is given out, reset and handed over.  NoReuse says  *)
(* that no thread asks for it meanwhile.                                   *)

(* One socket changes of which no thread is owed anything.                 *)
LEMMA SlotOK ==
  ASSUME Local, Woken, NEW t \in Threads, NEW d, call' = [call EXCEPT ![t] = d],
         NEW s \in Sockets, NEW b, sock' = [sock EXCEPT ![s] = b],
         UNCHANGED <<ev, select_cb_list>>, d.pc \notin {"rescan", "wait"},
         \A u \in Threads \ {t} : s \notin Fds(call[u].want)
  PROVE  Woken'
<1>1. \A r \in Sockets \ {s} : sock'[r] = sock[r]
  BY DEF Local, TypeOK
<1>2. \A r \in Sockets : ~Owed(d, sock'[r], r)
  BY DEF Owed
<1>3. \A u \in Threads \ {t} : \A r \in Sockets :
        Owed(call[u], sock'[r], r) => Owed(call[u], sock[r], r)
  BY <1>1, OwedIsWanted
<1> QED
  BY <1>2, <1>3, WokenKept

(* alloc_socket marks the first free slot as used.                         *)
LEMMA AllocSocketOK ==
  ASSUME Local, NEW t \in Threads, AllocSocket(t)
  PROVE  Local' /\ (Counts /\ NoReuse' => Counts')
<1> DEFINE c == call[t]
<1>1. c \in CallType /\ CallOK(c) /\ c.pc = "alloc" /\ call \in [Threads -> CallType]
      /\ sock \in [Sockets -> SocketType] /\ nc \in [AllConns -> ConnType]
  BY DEF Local, TypeOK, AllocSocket
<1>2. c.newconn \in AllConns
  BY <1>1 DEF CallOK
<1>3. CASE FreeSockets = {}
  <2> DEFINE n == c.newconn
             z == [nc[n] EXCEPT !.state = "closed", !.mbox = <<>>, !.socket = @ - 1]
  <2>1. nc' = [nc EXCEPT ![n] = z] /\ call' = [call EXCEPT ![t] = NoCall] /\ sock' = sock
    <3>2. nc' = [nc EXCEPT ![n] = z]
      BY <1>1, <1>2, <1>3 DEF AllocSocket
    <3>3. call' = [call EXCEPT ![t] = NoCall] /\ sock' = sock
      BY <1>3 DEF AllocSocket
    <3> QED
      BY <3>2, <3>3
  <2>2. nc[n] \in ConnType
    BY <1>1, <1>2
  <2>3. <<>> \in Seq(AllConns \cup {NULL})
    OBVIOUS
  <2>4. nc[n].socket - 1 \in {i \in Int : i < NUM_SOCKETS}
    <3>1. nc[n].socket \in Int /\ nc[n].socket < NUM_SOCKETS
      BY <2>2 DEF ConnType
    <3> QED
      BY <3>1, SocketsAssumption
  <2>5. z \in ConnType
    BY <2>2, <2>3, <2>4 DEF ConnType
  <2> HIDE DEF z
  <2>6. nc' \in [AllConns -> ConnType]
    BY <1>1, <1>2, <2>1, <2>5
  <2>7. CallStep(c, NoCall)
    BY <1>1, ReturnOK
  <2>8. Quiet
    BY <2>1, <2>6, <2>7, OneCall, Unchanged DEF Quiet, AllocSocket
  <2> QED
    BY <2>8, QuietLocal, QuietCounts
<1>4. CASE FreeSockets # {}
  <2>0. PICK s \in FreeSockets : s = Lowest(FreeSockets)
    BY <1>4, LowestIsIn DEF FreeSockets
  <2> DEFINE d == [c EXCEPT !.pc = "allocinit", !.s = s]
             b == [sock[s] EXCEPT !.conn = c.newconn]
  <2>1. s \in Sockets /\ sock[s].conn = NULL /\ sock[s] \in SocketType
    BY <1>1 DEF FreeSockets
  <2>2. call' = [call EXCEPT ![t] = d] /\ sock' = [sock EXCEPT ![s] = b] /\ nc' = nc
    BY <1>1, <1>4, <2>0, <2>1 DEF AllocSocket
  <2>3. /\ d \in CallType /\ d.pc = "allocinit" /\ d.s = s /\ d.want = c.want /\ d.todo = c.todo
        /\ d.newconn = c.newconn
    BY <1>1, <2>1 DEF CallType, CallPcs
  <2>4. b \in SocketType
    BY <1>2, <2>1 DEF SocketType
  <2> HIDE DEF d, b
  <2>5. CountedIn(d) = {} /\ CountedIn(c) = {}
    BY <1>1, <2>3, CountedByPc
  <2>6. Local'
    <3>1. CallOK(d) /\ d.pc \notin Listed
      BY <1>1, <2>3 DEF CallOK, Listed
    <3>2. sock' \in [Sockets -> SocketType]
      BY <1>1, <2>1, <2>2, <2>4
    <3> QED
      BY <1>1, <2>2, <2>3, <3>1, <3>2, LocalKept DEF AllocSocket, Local, TypeOK
  <2>7. ASSUME Counts, NoReuse' PROVE Counts'
    <3>1. \A u \in Threads : call'[u] = IF u = t THEN d ELSE call[u]
      BY <1>1, <2>2
    <3>2. Unknown(s)'
      BY <2>3, <3>1 DEF Unknown
    <3>3. \A r \in Sockets \ {s} : /\ sock'[r] = sock[r] /\ (Unknown(r) => Unknown(r)')
                                   /\ (r \in CountedIn(d) <=> r \in CountedIn(call[t]))
      BY <1>1, <2>2, <2>5, UnknownStays
    <3>4. WaitingIsExact'
      BY <2>1, <2>2, <2>7, <3>2, <3>3, Recount DEF Counts
    <3>5. \A u \in Threads \ {t} : s \notin Fds(call[u].want)
      BY <2>3, <2>7, <3>1 DEF NoReuse
    <3>6. Woken'
      BY <2>1, <2>2, <2>3, <2>7, <3>5, SlotOK DEF Counts, AllocSocket
    <3> QED
      BY <2>7, <3>4, <3>6 DEF Counts, AllocSocket
  <2> QED
    BY <2>6, <2>7
<1> QED
  BY <1>3, <1>4

(* alloc_socket resets the slot: nobody is counted in it.                  *)
LEMMA AllocInitOK ==
  ASSUME Local, NEW t \in Threads, AllocInit(t)
  PROVE  Local' /\ (Counts /\ NoReuse => Counts')
<1> DEFINE c == call[t]
           s == c.s
           d == [c EXCEPT !.pc = "handover"]
           b == [NoSocket EXCEPT !.conn = c.newconn, !.sendevent = TRUE]
<1>1. c \in CallType /\ CallOK(c) /\ c.pc = "allocinit" /\ call \in [Threads -> CallType]
      /\ sock \in [Sockets -> SocketType] /\ s \in Sockets
  BY DEF Local, TypeOK, AllocInit, CallType
<1>2. c.newconn \in AllConns
  BY <1>1 DEF CallOK
<1>3. call' = [call EXCEPT ![t] = d] /\ sock' = [sock EXCEPT ![s] = b]
  BY <1>1 DEF AllocInit, Goto
<1>4. /\ d \in CallType /\ d.pc = "handover" /\ d.s = s /\ d.want = c.want /\ d.todo = c.todo
      /\ d.newconn = c.newconn
  BY <1>1 DEF CallType, CallPcs
<1>5. b \in SocketType /\ b.select_waiting = 0
  <2>1. NoSocket \in SocketType /\ NoSocket.select_waiting = 0
    BY DEF SocketType, NoSocket
  <2> QED
    BY <1>2, <2>1 DEF SocketType
<1> HIDE DEF d, b
<1>6. CountedIn(d) = {} /\ CountedIn(c) = {}
  BY <1>1, <1>4, CountedByPc
<1>7. Local'
  <2>1. CallOK(d) /\ d.pc \notin Listed
    BY <1>1, <1>4 DEF CallOK, Listed
  <2>2. sock' \in [Sockets -> SocketType]
    BY <1>1, <1>3, <1>5
  <2> QED
    BY <1>1, <1>3, <1>4, <2>1, <2>2, LocalKept DEF AllocInit, Local, TypeOK
<1>8. ASSUME Counts, NoReuse PROVE Counts'
  <2>1. \A u \in Threads : call'[u] = IF u = t THEN d ELSE call[u]
    BY <1>1, <1>3
  <2>2. \A u \in Threads : s \notin Fds(call[u].want)
    BY <1>1, <1>8 DEF NoReuse
  <2>3. {u \in Threads : s \in CountedIn(call'[u])} = {}
    <3> SUFFICES ASSUME NEW u \in Threads PROVE s \notin CountedIn(call'[u])
      OBVIOUS
    <3>1. CASE u = t
      BY <3>1, <1>6, <2>1
    <3>2. CASE u # t
      <4>1. call[u] \in CallType /\ CallOK(call[u])
        BY DEF Local, TypeOK
      <4>2. CountedIn(call[u]) \subseteq Fds(call[u].want)
        <5>1. call[u].todo \subseteq Fds(call[u].want)
          BY <4>1 DEF CallOK
        <5> QED
          BY <4>1, <5>1, CountedByPc
      <4> QED
        BY <3>2, <4>2, <2>1, <2>2
    <3> QED
      BY <3>1, <3>2
  <2>4. Cardinality({u \in Threads : s \in CountedIn(call'[u])}) = 0
    BY <2>3, FS_EmptySet
  <2>5. sock'[s].select_waiting = 0
    BY <1>1, <1>3, <1>5
  <2>6. \A r \in Sockets \ {s} : /\ sock'[r] = sock[r] /\ (Unknown(r) => Unknown(r)')
                                 /\ (r \in CountedIn(d) <=> r \in CountedIn(call[t]))
    BY <1>1, <1>3, <1>6, UnknownStays
  <2>7. WaitingIsExact'
    BY <1>1, <1>3, <1>8, <2>4, <2>5, <2>6, Recount DEF Counts
  <2>8. Woken'
    BY <1>1, <1>3, <1>4, <1>8, <2>2, SlotOK, ZenonT(30) DEF Counts, AllocInit
  <2> QED
    BY <1>8, <2>7, <2>8 DEF Counts, AllocInit
<1> QED
  BY <1>7, <1>8

(* lwip_accept hands over the events counted so far.                       *)
LEMMA HandoverOK ==
  ASSUME Local, NEW t \in Threads, AcceptHandover(t)
  PROVE  Local' /\ (Counts /\ NoReuse => Counts')
<1> DEFINE c == call[t]
           s == c.s
           n == c.newconn
           b == [sock[s] EXCEPT !.rcvevent = @ - 1 - nc[n].socket]
           z == [nc[n] EXCEPT !.socket = s]
<1>1. c \in CallType /\ CallOK(c) /\ c.pc = "handover" /\ call \in [Threads -> CallType]
      /\ sock \in [Sockets -> SocketType] /\ s \in Sockets /\ nc \in [AllConns -> ConnType]
  BY DEF Local, TypeOK, AcceptHandover, CallType
<1>2. n \in AllConns
  BY <1>1 DEF CallOK
<1>3. nc[n] \in ConnType /\ nc[n].socket \in Int /\ sock[s] \in SocketType /\ sock[s].rcvevent \in Int
  BY <1>1, <1>2 DEF ConnType, SocketType
<1>4. /\ call' = [call EXCEPT ![t] = NoCall] /\ sock' = [sock EXCEPT ![s] = b]
      /\ nc' = [nc EXCEPT ![n] = z]
  BY <1>1, <1>2 DEF AcceptHandover
<1>5. s \in {i \in Int : i < NUM_SOCKETS}
  BY <1>1, SocketsAssumption DEF Sockets
<1>6. z \in ConnType
  BY <1>3, <1>5 DEF ConnType
<1>7. b \in SocketType /\ b.conn = sock[s].conn /\ b.select_waiting = sock[s].select_waiting
  BY <1>3 DEF SocketType
<1> HIDE DEF b, z
<1>8. Local'
  <2>1. sock' \in [Sockets -> SocketType] /\ nc' \in [AllConns -> ConnType]
    BY <1>1, <1>2, <1>4, <1>6, <1>7
  <2>2. NoCall.pc \notin Listed
    BY NoCallOK DEF Listed
  <2> QED
    BY <1>4, <2>1, <2>2, NoCallOK, LocalKept DEF AcceptHandover, Local, TypeOK
<1>9. ASSUME Counts, NoReuse PROVE Counts'
  <2>1. CountedIn(c) = {} /\ CountedIn(NoCall) = {}
    BY <1>1, NoCallOK, CountedByPc
  <2>2. \A u \in Threads : CountedIn(call'[u]) = CountedIn(call[u])
    BY <1>1, <1>4, <2>1
  <2>3. \A r \in Sockets : Unknown(r) => Unknown(r)'
    BY <1>1, <1>4, UnknownStays
  <2>4. \A r \in Sockets : sock'[r].conn = sock[r].conn
                           /\ sock'[r].select_waiting = sock[r].select_waiting
    BY <1>1, <1>4, <1>7
  <2>5. WaitingIsExact'
    BY <1>9, <2>2, <2>3, <2>4, WaitingKept DEF Counts
  <2>6. \A u \in Threads : s \notin Fds(call[u].want)
    BY <1>1, <1>9 DEF NoReuse
  <2>7. Woken'
    <3>1. Woken /\ UNCHANGED <<ev, select_cb_list>> /\ NoCall.pc \notin {"rescan", "wait"}
      BY <1>9, NoCallOK DEF Counts, AcceptHandover
    <3> QED
      BY <1>1, <1>4, <2>6, <3>1, SlotOK
  <2> QED
    BY <1>9, <2>5, <2>7 DEF Counts, AcceptHandover
<1> QED
  BY <1>8, <1>9

-----------------------------------------------------------------------------
(* event_callback.                                                         *)

(* A thread that is signalled.                                             *)
LEMMA SignalOK ==
  ASSUME NEW c, NEW d, CallStep(c, d)
  PROVE  LET x == [d EXCEPT !.signalled = TRUE, !.sem = TRUE]
         IN  CallStep(c, x) /\ x.sem
<1> DEFINE x == [d EXCEPT !.signalled = TRUE, !.sem = TRUE]
<1>1. d \in CallType /\ CallOK(d)
  BY DEF CallStep
<1>2. /\ x \in CallType /\ x.pc = d.pc /\ x.want = d.want /\ x.todo = d.todo /\ x.ready = d.ready
      /\ x.s = d.s /\ x.newconn = d.newconn /\ x.sem = TRUE /\ x.signalled = TRUE
  BY <1>1 DEF CallType
<1> HIDE DEF x
<1>3. CountedIn(x) = CountedIn(d)
  BY <1>2, Zenon DEF CountedIn
<1>4. CallOK(x)
  BY <1>1, <1>2 DEF CallOK
<1>5. CallStep(c, x) /\ x.sem
  BY <1>2, <1>3, <1>4 DEF CallStep
<1> QED
  BY <1>5 DEF x

(* One turn of the loop over select_cb_list: whoever is owed the event and *)
(* is not before the entry looked at is signalled or still to come.        *)
LEMMA WalkOK ==
  ASSUME Local, NEW e \in Callers, ev[e].pc \in {"apply", "walk"}, NEW so, NEW s \in Sockets,
         NEW k \in Nat \ {0}, NEW cl \in [Threads -> CallType],
         \A u \in Threads : CallStep(call[u], cl[u]), Walk(e, so, s, k, cl)
  PROVE  /\ call' \in [Threads -> CallType] /\ \A u \in Threads : CallStep(call[u], call'[u])
         /\ ev' \in [Callers -> EventType] /\ \A f \in Callers : EventOK(ev'[f])
         /\ \A f \in Callers \ {e} : ev'[f] = ev[f]
         /\ \A u \in Threads : \A i \in k .. Len(select_cb_list) :
              select_cb_list[i] = u /\ Owed(call'[u], so, s) =>
                Ahead(ev'[e], select_cb_list, u, s)
<1>1. ev[e] \in EventType /\ EventOK(ev[e]) /\ ev \in [Callers -> EventType]
      /\ select_cb_list \in Seq(Threads) /\ Len(select_cb_list) \in Nat
  BY DEF Local, TypeOK
<1>2. \A f \in Callers : EventOK(ev[f])
  BY DEF Local
<1>3. CASE k > Len(select_cb_list)
  <2>1. EventDone(e) /\ call' = cl
    BY <1>3 DEF Walk
  <2>2. PICK y \in EventType : EventOK(y) /\ y.pc # "walk" /\ ev' = [ev EXCEPT ![e] = y]
    BY <2>1, DoneIsGood
  <2>3. \A f \in Callers : ev'[f] = IF f = e THEN y ELSE ev[f]
    BY <2>2, <1>1
  <2>4. ev' \in [Callers -> EventType] /\ (\A f \in Callers : EventOK(ev'[f]))
        /\ \A f \in Callers \ {e} : ev'[f] = ev[f]
    BY <2>2, <2>3, <1>1, <1>2
  <2>5. \A i \in k .. Len(select_cb_list) : FALSE
    BY <1>1, <1>3
  <2> QED
    BY <2>1, <2>4, <2>5
<1>4. CASE ~(k > Len(select_cb_list))
  <2> DEFINE t == select_cb_list[k]
             y == [ev[e] EXCEPT !.pc = "walk", !.s = s, !.next = k + 1, !.changed = FALSE]
             hit == ~cl[t].signalled /\ \E r \in EventReady(so) : <<s, r>> \in cl[t].want
             x == [cl[t] EXCEPT !.signalled = TRUE, !.sem = TRUE]
  <2>1. t \in Threads /\ k \in 1 .. Len(select_cb_list)
    BY <1>1, <1>4
  <2>2. /\ call' = IF hit THEN [cl EXCEPT ![t] = x] ELSE cl
        /\ ev' = [ev EXCEPT ![e] = y]
    <3>1. /\ call' = IF hit THEN [cl EXCEPT ![t].signalled = TRUE, ![t].sem = TRUE] ELSE cl
          /\ ev' = [ev EXCEPT ![e].pc = "walk", ![e].s = s, ![e].next = k + 1, ![e].changed = FALSE]
      BY <1>4 DEF Walk
    <3>2. [cl EXCEPT ![t].signalled = TRUE, ![t].sem = TRUE] = [cl EXCEPT ![t] = x]
      BY <2>1
    <3>3. ev' = [ev EXCEPT ![e] = y]
      BY <1>1, <3>1
    <3> QED
      BY <3>1, <3>2, <3>3
  <2>3. k + 1 \in Nat \ {0}
    OBVIOUS
  <2>4. /\ y \in EventType /\ y.pc = "walk" /\ y.s = s /\ y.next = k + 1 /\ y.conn = ev[e].conn
        /\ y.todo = ev[e].todo
    BY <1>1, <2>3 DEF EventType
  <2> HIDE DEF y
  <2>5. EventOK(y)
    BY <1>1, <2>4 DEF EventOK
  <2>6. \A f \in Callers : ev'[f] = IF f = e THEN y ELSE ev[f]
    BY <1>1, <2>2
  <2>7. ev' \in [Callers -> EventType] /\ (\A f \in Callers : EventOK(ev'[f]))
        /\ \A f \in Callers \ {e} : ev'[f] = ev[f]
    BY <1>1, <1>2, <2>2, <2>4, <2>5, <2>6
  <2>8. CallStep(call[t], x) /\ x.sem
    BY <2>1, SignalOK
  <2> HIDE DEF x, hit, t
  <2>9. \A u \in Threads : call'[u] = IF hit /\ u = t THEN x ELSE cl[u]
    BY <2>1, <2>2
  <2>10. \A u \in Threads : CallStep(call[u], call'[u])
    BY <2>8, <2>9
  <2>11. call' \in [Threads -> CallType]
    <3>1. x \in CallType
      BY <2>8 DEF CallStep
    <3> QED
      BY <2>1, <2>2, <3>1
  <2>12. ASSUME NEW u \in Threads, NEW i \in k .. Len(select_cb_list), select_cb_list[i] = u,
                Owed(call'[u], so, s)
         PROVE  Ahead(ev'[e], select_cb_list, u, s)
    <3>1. CASE i = k
      <4>1. u = t
        BY <3>1, <2>12 DEF t
      <4>2. ~hit
        BY <4>1, <2>8, <2>9, <2>12 DEF Owed
      <4>3. call'[t] = cl[t]
        BY <2>1, <2>9, <4>2
      <4>4. CallOK(cl[t])
        BY <2>1 DEF CallStep
      <4>5. ~cl[t].sem /\ cl[t].pc \in {"rescan", "wait"}
            /\ \E r \in EventReady(so) : <<s, r>> \in cl[t].want
        BY <4>1, <4>3, <2>12 DEF Owed
      <4>6. cl[t].signalled = cl[t].sem
        BY <4>4, <4>5 DEF CallOK
      <4> QED
        BY <4>2, <4>5, <4>6 DEF hit
    <3>2. CASE i # k
      <4>1. i \in k + 1 .. Len(select_cb_list)
        BY <3>2, <1>1
      <4>2. ev'[e] = y
        BY <2>6
      <4> QED
        BY <4>1, <4>2, <2>4, <2>12 DEF Ahead
    <3> QED
      BY <3>1, <3>2
  <2> QED
    BY <2>7, <2>10, <2>11, <2>12
<1> QED
  BY <1>3, <1>4

(* What a walk leaves as it is.                                            *)
LEMMA WalkedLocal ==
  ASSUME Local, call' \in [Threads -> CallType], \A u \in Threads : CallStep(call[u], call'[u]),
         ev' \in [Callers -> EventType], \A f \in Callers : EventOK(ev'[f]),
         sock' \in [Sockets -> SocketType], UNCHANGED <<nc, select_cb_list, events, aborted>>
  PROVE  Local'
<1>1. TypeOK'
  BY DEF Local, TypeOK
<1>2. \A t \in Threads : CallOK(call'[t])
  BY DEF CallStep
<1>3. \A t \in Threads : call'[t].pc \in Listed => OnList(select_cb_list', t)
  BY DEF CallStep, Local
<1> QED
  BY <1>1, <1>2, <1>3 DEF Local

(* A walk keeps the counters exact.                                        *)
LEMMA WalkedCounts ==
  ASSUME Local, WaitingIsExact, \A u \in Threads : CallStep(call[u], call'[u]),
         \A s \in Sockets : sock'[s].conn = sock[s].conn
                            /\ sock'[s].select_waiting = sock[s].select_waiting
  PROVE  WaitingIsExact'
<1>1. \A s \in Sockets : Unknown(s) => Unknown(s)'
  BY DEF CallStep, Unknown
<1>2. \A t \in Threads : CountedIn(call'[t]) = CountedIn(call[t])
  BY DEF CallStep
<1> QED
  BY <1>1, <1>2, WaitingKept

(* A quiet step of a thread owes it nothing new.                           *)
LEMMA OwedBefore ==
  ASSUME NEW c, NEW d, NEW so, NEW s, CallStep(c, d), Owed(d, so, s)
  PROVE  Owed(c, so, s) /\ c.pc \in {"rescan", "wait"}
  BY DEF CallStep, Owed

(* event_callback goes on to the next entry, or starts again at the top.   *)
LEMMA EventWalkOK ==
  ASSUME Local, NEW e \in Callers, EventWalk(e)
  PROVE  Local' /\ (Counts => Counts')
<1> DEFINE s == ev[e].s
           k == IF ev[e].changed THEN 1 ELSE ev[e].next
<1>1. s \in Sockets /\ k \in Nat \ {0} /\ call \in [Threads -> CallType] /\ ev[e].pc = "walk"
  BY DEF Local, TypeOK, EventType, EventWalk
<1>2. \A u \in Threads : CallStep(call[u], call[u])
  BY CallStays
<1>3. Walk(e, sock[s], s, k, call)
  BY DEF EventWalk
<1> HIDE DEF k
<1>4. /\ call' \in [Threads -> CallType] /\ \A u \in Threads : CallStep(call[u], call'[u])
      /\ ev' \in [Callers -> EventType] /\ \A f \in Callers : EventOK(ev'[f])
      /\ \A f \in Callers \ {e} : ev'[f] = ev[f]
      /\ \A u \in Threads : \A i \in k .. Len(select_cb_list) :
           select_cb_list[i] = u /\ Owed(call'[u], sock[s], s) =>
             Ahead(ev'[e], select_cb_list, u, s)
  BY <1>1, <1>2, <1>3, WalkOK
<1>5. Local'
  BY <1>4, WalkedLocal DEF EventWalk, Local, TypeOK
<1>6. ASSUME Counts PROVE Counts'
  <2>1. WaitingIsExact'
    BY <1>4, <1>6, WalkedCounts DEF Counts, EventWalk
  <2>2. Woken'
    <3> SUFFICES ASSUME NEW u \in Threads, NEW r \in Sockets, Owed(call'[u], sock'[r], r)
                 PROVE  \E f \in Callers : Ahead(ev'[f], select_cb_list', u, r)
      BY DEF Woken
    <3>1. sock' = sock /\ select_cb_list' = select_cb_list
      BY DEF EventWalk
    <3>2. Owed(call[u], sock[r], r) /\ call[u].pc \in {"rescan", "wait"}
      BY <1>4, <3>1, OwedBefore
    <3>3. PICK f \in Callers : Ahead(ev[f], select_cb_list, u, r)
      BY <3>2, <1>6 DEF Counts, Woken
    <3>4. CASE f # e
      BY <3>4, <3>1, <3>3, <1>4
    <3>5. CASE f = e
      <4>1. r = s
        BY <3>3, <3>5 DEF Ahead
      <4>2. \E i \in k .. Len(select_cb_list) : select_cb_list[i] = u
        <5>1. CASE ev[e].changed
          <6>1. OnList(select_cb_list, u)
            BY <3>2 DEF Local, Listed
          <6> QED
            BY <5>1, <6>1 DEF OnList, k
        <5>2. CASE ~ev[e].changed
          BY <5>2, <3>3, <3>5 DEF Ahead, k
        <5> QED
          BY <5>1, <5>2
      <4> QED
        BY <1>4, <3>1, <4>1, <4>2
    <3> QED
      BY <3>4, <3>5
  <2> QED
    BY <1>6, <2>1, <2>2 DEF Counts, EventWalk
<1> QED
  BY <1>5, <1>6

(* The socket after an event.                                              *)
LEMMA AppliedOK ==
  ASSUME NEW so \in SocketType, NEW evt \in Events, evt # "post"
  PROVE  /\ Applied(so, evt) \in SocketType /\ Applied(so, evt).conn = so.conn
         /\ Applied(so, evt).select_waiting = so.select_waiting
<1>1. evt \in {"RCVPLUS", "RCVMINUS", "SENDPLUS", "SENDMINUS", "ERROR"}
  BY DEF Events
<1>2. CASE evt = "RCVPLUS"
  <2>1. Applied(so, evt) = [so EXCEPT !.rcvevent = @ + 1]
    BY <1>2, Zenon DEF Applied
  <2> QED
    BY <2>1 DEF SocketType
<1>3. CASE evt = "RCVMINUS"
  <2>1. Applied(so, evt) = [so EXCEPT !.rcvevent = @ - 1]
    BY <1>3, Zenon DEF Applied
  <2> QED
    BY <2>1 DEF SocketType
<1>4. CASE evt = "SENDPLUS"
  <2>1. Applied(so, evt) = [so EXCEPT !.sendevent = TRUE]
    BY <1>4, Zenon DEF Applied
  <2> QED
    BY <2>1 DEF SocketType
<1>5. CASE evt = "SENDMINUS"
  <2>1. Applied(so, evt) = [so EXCEPT !.sendevent = FALSE]
    BY <1>5, Zenon DEF Applied
  <2> QED
    BY <2>1 DEF SocketType
<1>6. CASE evt = "ERROR"
  <2>1. Applied(so, evt) = [so EXCEPT !.errevent = TRUE]
    BY <1>6, Zenon DEF Applied
  <2> QED
    BY <2>1 DEF SocketType
<1> QED
  BY <1>1, <1>2, <1>3, <1>4, <1>5, <1>6

(* What an event takes away marks threads only.                            *)
LEMMA StolenIsSteal ==
  ASSUME Local, NEW e, NEW s, NEW evt
  PROVE  /\ Stolen(e, s, evt) \in [Threads -> CallType]
         /\ \A u \in Threads : CallStep(call[u], Stolen(e, s, evt)[u])
<1>1. Stolen(e, s, evt) \in {Steal(e, s, "read"), Steal(e, s, "write"), call}
  <2>1. CASE evt = "RCVMINUS"
    BY <2>1, Zenon DEF Stolen
  <2>2. CASE evt = "SENDMINUS"
    BY <2>2, Zenon DEF Stolen
  <2>3. CASE evt # "RCVMINUS" /\ evt # "SENDMINUS"
    BY <2>3, Zenon DEF Stolen
  <2> QED
    BY <2>1, <2>2, <2>3
<1>2. call \in [Threads -> CallType]
  BY DEF Local, TypeOK
<1> HIDE DEF Stolen
<1>3. CASE Stolen(e, s, evt) = call
  BY <1>2, <1>3, CallStays
<1>4. CASE Stolen(e, s, evt) = Steal(e, s, "read")
  BY <1>4, StealOK
<1>5. CASE Stolen(e, s, evt) = Steal(e, s, "write")
  BY <1>5, StealOK
<1> QED
  BY <1>1, <1>3, <1>4, <1>5

(* event_callback sets an event: a zero select_waiting means that nobody   *)
(* is owed it.                                                             *)
LEMMA EventApplyOK ==
  ASSUME Local, NEW e \in Callers, EventApply(e)
  PROVE  Local' /\ (Counts /\ NoReuse => Counts')
<1> DEFINE s == ev[e].s
           evt == Head(ev[e].todo)
           so == Applied(sock[s], evt)
           cl == Stolen(e, s, evt)
<1>1. ev[e] \in EventType /\ EventOK(ev[e]) /\ ev[e].pc = "apply"
      /\ sock \in [Sockets -> SocketType]
  BY DEF Local, TypeOK, EventApply
<1>2. s \in Sockets /\ ev[e].todo \in Seq(Events) /\ ev[e].todo # <<>> /\ evt # "post"
  BY <1>1 DEF EventType, EventOK
<1>3. evt \in Events /\ sock[s] \in SocketType
  BY <1>1, <1>2
<1>4. sock' = [sock EXCEPT ![s] = so]
      /\ IF so.select_waiting = 0 THEN EventDone(e) /\ call' = cl ELSE Walk(e, so, s, 1, cl)
  BY DEF EventApply
<1> HIDE DEF evt
<1>5. so \in SocketType /\ so.conn = sock[s].conn /\ so.select_waiting = sock[s].select_waiting
  BY <1>2, <1>3, AppliedOK
<1>6. cl \in [Threads -> CallType] /\ \A u \in Threads : CallStep(call[u], cl[u])
  BY StolenIsSteal
<1> HIDE DEF so, cl
<1>7. sock' \in [Sockets -> SocketType] /\ sock'[s] = so /\ \A r \in Sockets \ {s} : sock'[r] = sock[r]
  BY <1>1, <1>2, <1>4, <1>5
<1>8. /\ call' \in [Threads -> CallType] /\ \A u \in Threads : CallStep(call[u], call'[u])
      /\ ev' \in [Callers -> EventType] /\ \A f \in Callers : EventOK(ev'[f])
      /\ \A f \in Callers \ {e} : ev'[f] = ev[f]
  <2>1. CASE so.select_waiting = 0
    <3>1. PICK y \in EventType : EventOK(y) /\ y.pc # "walk" /\ ev' = [ev EXCEPT ![e] = y]
      BY <1>1, <1>4, <2>1, DoneIsGood
    <3>2. \A f \in Callers : ev'[f] = IF f = e THEN y ELSE ev[f]
      BY <3>1 DEF Local, TypeOK
    <3>3. ev' \in [Callers -> EventType] /\ (\A f \in Callers : EventOK(ev'[f]))
          /\ \A f \in Callers \ {e} : ev'[f] = ev[f]
      BY <3>1, <3>2 DEF Local, TypeOK
    <3> QED
      BY <1>4, <1>6, <2>1, <3>3
  <2>2. CASE so.select_waiting # 0
    <3>1. Walk(e, so, s, 1, cl) /\ 1 \in Nat \ {0} /\ ev[e].pc \in {"apply", "walk"}
      BY <1>1, <1>4, <2>2
    <3> QED
      BY <1>2, <1>6, <3>1, WalkOK
  <2> QED
    BY <2>1, <2>2
<1>9. Local'
  BY <1>7, <1>8, WalkedLocal DEF EventApply, Local, TypeOK
<1>10. ASSUME Counts, NoReuse PROVE Counts'
  <2>1. WaitingIsExact'
    <3>1. \A r \in Sockets : sock'[r].conn = sock[r].conn
                             /\ sock'[r].select_waiting = sock[r].select_waiting
      BY <1>5, <1>7
    <3> QED
      BY <1>8, <1>10, <3>1, WalkedCounts DEF Counts
  <2>2. Woken'
    <3> SUFFICES ASSUME NEW u \in Threads, NEW r \in Sockets, Owed(call'[u], sock'[r], r)
                 PROVE  \E f \in Callers : Ahead(ev'[f], select_cb_list', u, r)
      BY DEF Woken
    <3>1. select_cb_list' = select_cb_list
      BY DEF EventApply
    <3>2. Owed(call[u], sock'[r], r) /\ call[u].pc \in {"rescan", "wait"}
      BY <1>8, OwedBefore
    <3>3. CASE r # s
      <4>1. Owed(call[u], sock[r], r)
        BY <3>2, <3>3, <1>7
      <4>2. PICK f \in Callers : Ahead(ev[f], select_cb_list, u, r)
        BY <4>1, <1>10 DEF Counts, Woken
      <4>3. f # e
        BY <4>2, <1>1 DEF Ahead
      <4> QED
        BY <4>2, <4>3, <1>8, <3>1
    <3>4. CASE r = s
      <4>1. s \in Fds(call[u].want) /\ so.conn # NULL
        BY <3>2, <3>4, <1>7, OwedIsWanted DEF Owed
      <4>2. ~Unknown(s)
        BY <4>1, <1>10, WantedIsKnown
      <4> DEFINE A == {v \in Threads : s \in Counted(v)}
      <4>3. sock[s].select_waiting = Cardinality(A)
        BY <1>2, <1>5, <1>10, <4>1, <4>2 DEF Counts, WaitingIsExact
      <4>4. u \in A /\ A \subseteq Threads
        <5>1. CountedIn(call[u]) = Fds(call[u].want)
          BY <3>2, CountedByPc DEF Local, TypeOK
        <5> QED
          BY <5>1, <4>1, CountedIsCountedIn
      <4> HIDE DEF A
      <4>5. Cardinality(A) # 0
        BY <4>4, SocketsAssumption, FS_Subset, FS_EmptySet
      <4>6. so.select_waiting # 0
        BY <4>3, <4>5, <1>5
      <4>7. Walk(e, so, s, 1, cl) /\ 1 \in Nat \ {0} /\ ev[e].pc \in {"apply", "walk"}
        BY <1>1, <1>4, <4>6
      <4>8. OnList(select_cb_list, u)
        BY <3>2 DEF Local, Listed
      <4>9. PICK i \in 1 .. Len(select_cb_list) : select_cb_list[i] = u
        BY <4>8 DEF OnList
      <4>10. Ahead(ev'[e], select_cb_list, u, s)
        <5>1. Owed(call'[u], so, s)
          BY <3>4, <1>7
        <5> QED
          BY <1>2, <1>6, <4>7, <4>9, <5>1, WalkOK
      <4> QED
        BY <4>10, <3>1, <3>4
    <3> QED
      BY <3>3, <3>4
  <2> QED
    BY <1>10, <2>1, <2>2 DEF Counts, EventApply
<1> QED
  BY <1>9, <1>10

-----------------------------------------------------------------------------
(* The theorems.                                                           *)

(* The invariant holds at first.                                           *)
LEMMA InitOK ==
  ASSUME Init
  PROVE  Local /\ Counts
<1>1. 0 \in Sockets /\ <<>> \in Seq(Threads) /\ Listener \in AllConns /\ 0 \in 0 .. MaxEvents
      /\ 0 \in {i \in Int : i < NUM_SOCKETS} /\ -1 \in {i \in Int : i < NUM_SOCKETS}
      /\ <<>> \in Seq(AllConns \cup {NULL})
  BY SocketsAssumption DEF Sockets, AllConns
<1>2. NoSocket \in SocketType /\ [NoSocket EXCEPT !.conn = Listener] \in SocketType
  <2>1. NoSocket \in SocketType
    BY DEF NoSocket, SocketType
  <2> QED
    BY <2>1, <1>1 DEF SocketType
<1>3. NoConn \in ConnType /\ [NoConn EXCEPT !.state = "open", !.socket = 0] \in ConnType
  <2>1. NoConn \in ConnType
    BY <1>1 DEF NoConn, ConnType
  <2> QED
    BY <2>1, <1>1 DEF ConnType
<1>4. TypeOK
  <2>1. sock \in [Sockets -> SocketType]
    BY <1>2 DEF Init
  <2>2. nc \in [AllConns -> ConnType]
    BY <1>3 DEF Init
  <2>3. call \in [Threads -> CallType] /\ ev \in [Callers -> EventType]
    BY NoCallOK, NoEventOK DEF Init
  <2> QED
    BY <1>1, <2>1, <2>2, <2>3 DEF Init, TypeOK
<1>5. \A t \in Threads : call[t] = NoCall
  BY DEF Init
<1>6. Local
  BY <1>4, <1>5, NoCallOK, NoEventOK DEF Local, Init, Listed
<1>7. WaitingIsExact
  <2>1. \A t \in Threads : Counted(t) = {}
    <3>1. CountedIn(NoCall) = {}
      BY NoCallOK, CountedByPc
    <3> QED
      BY <3>1, <1>5, CountedIsCountedIn
  <2>2. \A s \in Sockets : {t \in Threads : s \in Counted(t)} = {}
    BY <2>1
  <2>3. \A s \in Sockets : sock[s].select_waiting = 0
    BY DEF Init, NoSocket
  <2>4. Cardinality({}) = 0
    BY FS_EmptySet
  <2> QED
    BY <2>2, <2>3, <2>4 DEF WaitingIsExact
<1>8. Woken
  BY <1>5, NoCallOK DEF Woken, Owed
<1> QED
  BY <1>6, <1>7, <1>8 DEF Counts, Init

(* A step that changes nothing is quiet.                                   *)
LEMMA StutterOK ==
  ASSUME Local, UNCHANGED vars
  PROVE  Quiet
  BY Unchanged DEF Quiet, vars

(* What a step keeps: the local conditions, and the counters and wake-ups  *)
(* unless a slot is reused that some thread selects.                       *)
Kept == Local' /\ (Counts /\ NoReuse /\ NoReuse' => Counts')

(* Every step keeps the invariant, action by action.                       *)
LEMMA StepOK ==
  ASSUME Local, [Next]_vars
  PROVE  Kept
<1>1. Quiet => Kept
  BY QuietLocal, QuietCounts DEF Kept
<1>2. ASSUME NEW t \in Threads, Select(t) PROVE Kept
  <2>1. CASE \E want \in Interests[t], timeout \in {"forever", "zero", "finite"} :
               lwip_select(t, want, timeout)
    BY <2>1, <1>1, SelectOK
  <2>2. CASE lwip_selscan(t)
    BY <2>2, <1>1, FirstScanOK, RescanOK DEF Kept
  <2>3. CASE SelectAdd(t)
    BY <2>3, SelectAddOK DEF Kept
  <2>4. CASE SelectInc(t)
    BY <2>4, SelectIncOK DEF Kept
  <2>5. CASE SelectWake(t) \/ SelectTimeout(t)
    BY <2>5, <1>1, WakeOK
  <2>6. CASE SelectDec(t)
    BY <2>6, SelectDecOK DEF Kept
  <2>7. CASE SelectRemove(t)
    BY <2>7, SelectRemoveOK DEF Kept
  <2> QED
    BY <1>2, <2>1, <2>2, <2>3, <2>4, <2>5, <2>6, <2>7 DEF Select
<1>3. ASSUME NEW t \in Threads, Use(t) PROVE Kept
  <2>1. CASE \E s \in Sockets, all \in BOOLEAN : RecvLastdata(t, s, all)
    BY <2>1, <1>1, RecvLastdataOK
  <2>2. CASE \E s \in Sockets : RecvFetch(t, s)
    BY <2>2, <1>1, RecvFetchOK
  <2>3. CASE \E all \in BOOLEAN : RecvDone(t, all)
    BY <2>3, <1>1, RecvDoneOK
  <2>4. CASE AcceptFetch(t)
    BY <2>4, <1>1, AcceptFetchOK
  <2>5. CASE AllocSocket(t)
    BY <2>5, AllocSocketOK DEF Kept
  <2>6. CASE AllocInit(t)
    BY <2>6, AllocInitOK DEF Kept
  <2>7. CASE AcceptHandover(t)
    BY <2>7, HandoverOK DEF Kept
  <2>8. CASE \E s \in Sockets : lwip_close(t, s)
    BY <2>8, <1>1, CloseOK
  <2>9. CASE free_socket(t)
    BY <2>9, <1>1, FreeOK
  <2> QED
    BY <1>3, <2>1, <2>2, <2>3, <2>4, <2>5, <2>6, <2>7, <2>8, <2>9 DEF Use
<1>4. ASSUME NEW e \in Callers, Event(e) PROVE Kept
  <2>1. CASE EventSocket(e)
    BY <2>1, <1>1, EventSocketOK
  <2>2. CASE EventApply(e)
    BY <2>2, EventApplyOK DEF Kept
  <2>3. CASE EventWalk(e)
    BY <2>3, EventWalkOK DEF Kept
  <2>4. CASE EventPost(e)
    BY <2>4, <1>1, EventPostOK
  <2> QED
    BY <1>4, <2>1, <2>2, <2>3, <2>4 DEF Event
<1>5. CASE Stack
  <2>1. CASE \E c \in Conns \cup {NULL} : accept_function(c)
    BY <2>1, <1>1, AcceptFunctionOK
  <2>2. CASE \E c \in Conns : \/ recv_tcp(c) \/ lwip_netconn_do_writemore(c)
                              \/ sent_tcp(c) \/ err_tcp(c)
    BY <2>2, <1>1, ConnStackOK
  <2> QED
    BY <1>5, <2>1, <2>2 DEF Stack
<1>6. CASE UNCHANGED vars
  BY <1>1, <1>6, StutterOK
<1>7. CASE Next
  <2>1. CASE \E t \in Threads : Select(t) \/ Use(t)
    BY <2>1, <1>2, <1>3
  <2>2. CASE \E e \in Callers : Event(e)
    BY <2>2, <1>4
  <2> QED
    BY <1>5, <1>7, <2>1, <2>2 DEF Next
<1>8. Kept
  BY <1>6, <1>7
<1> QED
  BY <1>8

(* The local conditions of every thread and every callback are invariant.  *)
THEOREM LocalInvariant == Spec => []Local
<1>1. Init => Local
  BY InitOK
<1>2. Local /\ [Next]_vars => Local'
  BY StepOK DEF Kept
<1> QED
  BY <1>1, <1>2, PTL DEF Spec

(* Every variable keeps its type: sockets[] is indexed in its bounds, also *)
(* by event_callback with a conn->socket that lwip_accept changes, and a   *)
(* counter is never decremented below zero (sockets.c:1496).               *)
THEOREM TypeCorrect == Spec => []TypeOK
<1>1. Local => TypeOK
  BY DEF Local
<1> QED
  BY <1>1, LocalInvariant, PTL

(* The counters and the wake-ups, as long as no slot is reused that some   *)
(* thread selects.                                                         *)
THEOREM CountsInvariant == Spec /\ []NoReuse => [](Local /\ Counts)
<1>1. Init => Local /\ Counts
  BY InitOK
<1>2. Local /\ Counts /\ NoReuse /\ NoReuse' /\ [Next]_vars => (Local /\ Counts)'
  BY StepOK DEF Kept
<1> QED
  BY <1>1, <1>2, PTL DEF Spec

(* select_waiting of an open socket is the number of the selects that have *)
(* counted themselves in it, whoever is between two of its increments or   *)
(* decrements, and the assertion before the decrement never fails          *)
(* (sockets.c:1455, 1496), unless a slot is reused that some thread        *)
(* selects.                                                                *)
THEOREM WaitingCorrect == Spec /\ []NoReuse => [](WaitingIsExact /\ ~aborted)
<1>1. Counts => WaitingIsExact /\ ~aborted
  BY DEF Counts
<1> QED
  BY <1>1, CountsInvariant, PTL

(* No thread sleeps in lwip_select on a socket that has what it asks for   *)
(* unless an event_callback has it still before it in its walk, although   *)
(* event_callback drops the protection at every entry and threads enter    *)
(* and leave the list meanwhile (sockets.c:1640-1690), unless a slot is    *)
(* reused that some thread selects.                                        *)
THEOREM WakeupsArrive == Spec /\ []NoReuse => []NoLostWakeup
<1>1. Counts => NoLostWakeup
  BY ZenonT(30) DEF Counts, Woken, NoLostWakeup, Owed, Ahead
<1> QED
  BY <1>1, CountsInvariant, PTL

-----------------------------------------------------------------------------
(* Who holds what: netconns, slots, threads and events.                    *)

NewConnPcs == {"alloc", "allocinit", "handover"}
SelectPcs == {"scan", "add", "inc", "rescan", "wait", "dec", "remove", "result"}

(* An open netconn with a socket is the one in its slot; one that the      *)
(* stack has not made yet has nothing.                                     *)
ConnSlots(N, S) ==
  /\ N[Listener].state = "open" /\ N[Listener].socket = 0
  /\ \A c \in AllConns : N[c].socket >= 0 /\ N[c].state # "closed" => S[N[c].socket].conn = c
  /\ \A c \in AllConns : N[c].state = "new" => N[c].socket = -1 /\ N[c].mbox = <<>>

(* A netconn that no socket has yet.                                       *)
Fresh(c, N) == c \in Conns /\ N[c].socket < 0 /\ N[c].state \in {"open", "err"}

(* A thread in lwip_accept holds such a netconn, and then a slot for it.   *)
NewConnOK(c, N, S) ==
  c.pc \in NewConnPcs => /\ Fresh(c.newconn, N)
                         /\ c.pc # "alloc" => S[c.s].conn = c.newconn
                         /\ c.pc = "handover" => S[c.s].rcvevent = 0

(* A thread in lwip_recvfrom or lwip_close uses a socket that is open, in  *)
(* lwip_close one whose netconn is closed.                                 *)
HoldsOK(c, N, S) ==
  c.pc \in {"recv", "closing"} =>
    /\ S[c.s].conn \in Conns /\ N[S[c.s].conn].socket = c.s
    /\ c.pc = "closing" <=> N[S[c.s].conn].state = "closed"
    /\ c.pc = "recv" => ~S[c.s].lastdata

Apart(c, d) ==
  /\ c.pc \in NewConnPcs /\ d.pc \in NewConnPcs => c.newconn # d.newconn
  /\ c.pc \in {"recv", "closing"} /\ d.pc \in {"recv", "closing"} => c.s # d.s

(* The acceptmbox holds netconns without a socket, each once.              *)
QueueOK(q, N, C) ==
  /\ \A i, j \in 1 .. Len(q) : i # j /\ q[i] # NULL => q[i] # q[j]
  /\ \A i \in 1 .. Len(q) : q[i] # NULL =>
       /\ Fresh(q[i], N)
       /\ \A t \in Threads : C[t].pc \in NewConnPcs => C[t].newconn # q[i]

FromCore(v, e) == v # "post" /\ (e = Core => v # "RCVMINUS")

(* An event is for a netconn that lives, and in the slot that it has; a    *)
(* thread raises it for the listening socket or for the one it receives    *)
(* from, and if the netconn is closed then the thread that closes it has   *)
(* raised it.                                                              *)
EventOwn(x, e, N, S, C) ==
  x.pc # "idle" =>
    /\ N[x.conn].state # "new"
    /\ x.pc \in {"apply", "walk"} => S[x.s].conn = x.conn /\ N[x.conn].socket = x.s
    /\ N[x.conn].state = "open" => Len(x.todo) = 1 /\ FromCore(Head(x.todo), e)
    /\ e # Core => /\ C[e].pc \in {"idle", "alloc", "recv"}
                   /\ \/ x.conn = Listener
                      \/ C[e].pc = "recv" /\ S[C[e].s].conn = x.conn
    /\ e = Core /\ N[x.conn].state = "closed" =>
         /\ x.by \in Threads /\ C[x.by].pc = "closing"
         /\ S[C[x.by].s].conn = x.conn

Owned ==
  /\ ConnSlots(nc, sock)
  /\ QueueOK(nc[Listener].mbox, nc, call)
  /\ \A t \in Threads : NewConnOK(call[t], nc, sock)
  /\ \A t \in Threads : HoldsOK(call[t], nc, sock)
  /\ \A t, u \in Threads : t # u => Apart(call[t], call[u])
  /\ \A e \in Callers : EventOwn(ev[e], e, nc, sock, call)

-----------------------------------------------------------------------------
(* What does not touch these: a change of a thread inside select, ...      *)
CallLike(c, d) ==
  \/ d.pc = c.pc /\ d.s = c.s /\ d.newconn = c.newconn
  \/ c.pc \in SelectPcs \cup {"idle"} /\ d.pc \in SelectPcs \cup {"idle"}

SockLike(a, b) == b.conn = a.conn /\ b.rcvevent = a.rcvevent /\ b.lastdata = a.lastdata

EventLike(x, y) ==
  /\ y.pc = x.pc /\ y.conn = x.conn /\ y.todo = x.todo /\ y.by = x.by /\ y.s = x.s

Alike ==
  /\ nc' = nc
  /\ \A s \in Sockets : SockLike(sock[s], sock'[s])
  /\ \A t \in Threads : CallLike(call[t], call'[t])
  /\ \A t \in Threads : ev[t].pc # "idle" => call'[t].pc = call[t].pc
  /\ \A e \in Callers : EventLike(ev[e], ev'[e])

(* The types of what belongs to a thread, a socket, a netconn, an event.   *)
LEMMA Typed ==
  ASSUME Local
  PROVE  /\ \A t \in Threads : call[t] \in CallType
         /\ \A s \in Sockets : sock[s] \in SocketType
         /\ \A c \in AllConns : nc[c] \in ConnType
         /\ \A e \in Callers : ev[e] \in EventType /\ EventOK(ev[e])
  BY DEF Local, TypeOK

(* The pcs of select and of the other functions are different ones.        *)
LEMMA PcsDiffer ==
  /\ \A x \in SelectPcs \cup {"idle"} : x \notin NewConnPcs /\ x \notin {"recv", "closing"}
  /\ \A x \in SelectPcs : x \notin {"idle", "alloc", "recv"}
  /\ \A x \in NewConnPcs : x \notin {"recv", "closing"}
  BY DEF SelectPcs, NewConnPcs

(* One thread goes on inside select, or enters or leaves it.               *)
LEMMA InSelect ==
  ASSUME Local, NEW t \in Threads, NEW d, call' = [call EXCEPT ![t] = d],
         call[t].pc \in SelectPcs \cup {"idle"}, d.pc \in SelectPcs \cup {"idle"},
         ev[t].pc = "idle"
  PROVE  /\ \A u \in Threads : CallLike(call[u], call'[u])
         /\ \A u \in Threads : ev[u].pc # "idle" => call'[u].pc = call[u].pc
<1>1. \A u \in Threads : call'[u] = IF u = t THEN d ELSE call[u]
  BY DEF Local, TypeOK
<1> QED
  BY <1>1 DEF CallLike

(* A thread in select runs no callback.                                    *)
LEMMA SelectIsQuiet ==
  ASSUME Local, Owned, NEW t \in Threads, call[t].pc \in SelectPcs
  PROVE  ev[t].pc = "idle"
<1>1. t \in Callers /\ t # Core
  BY SocketsAssumption DEF Callers
<1> QED
  BY <1>1, PcsDiffer DEF Owned, EventOwn

(* Nothing of an event changes, or of a socket.                            *)
LEMMA LikeItself ==
  /\ (\A e \in Callers : ev'[e] = ev[e]) => \A e \in Callers : EventLike(ev[e], ev'[e])
  /\ (\A s \in Sockets : sock'[s] = sock[s]) => \A s \in Sockets : SockLike(sock[s], sock'[s])
  BY DEF EventLike, SockLike

(* select_cb_ctr++ is nothing to an event.                                 *)
LEMMA ChangedIsLike ==
  ASSUME Local, ev' = ListChanged
  PROVE  \A e \in Callers : EventLike(ev[e], ev'[e])
<1> SUFFICES ASSUME NEW e \in Callers PROVE EventLike(ev[e], ev'[e])
  OBVIOUS
<1>1. ev[e] \in EventType
  BY Typed
<1>2. ev'[e] = [ev[e] EXCEPT !.changed = (ev[e].pc = "walk")]
  BY DEF ListChanged
<1> QED
  BY <1>1, <1>2 DEF EventLike, EventType

(* select_waiting is nothing to a socket.                                  *)
LEMMA WaitingIsLike ==
  ASSUME Local, NEW s \in Sockets, NEW n, sock' = [sock EXCEPT ![s].select_waiting = n]
  PROVE  \A r \in Sockets : SockLike(sock[r], sock'[r])
<1> SUFFICES ASSUME NEW r \in Sockets PROVE SockLike(sock[r], sock'[r])
  OBVIOUS
<1>1. sock[s] \in SocketType /\ sock \in [Sockets -> SocketType]
  BY DEF Local, TypeOK
<1>2. sock'[r] = IF r = s THEN [sock[s] EXCEPT !.select_waiting = n] ELSE sock[r]
  BY <1>1
<1> QED
  BY <1>1, <1>2 DEF SockLike, SocketType

(* No step of lwip_select touches it.                                      *)
LEMMA SelectAlike ==
  ASSUME Local, Owned, NEW t \in Threads, Select(t)
  PROVE  Alike
<1>0. call[t] \in CallType /\ call \in [Threads -> CallType]
      /\ ev \in [Callers -> EventType] /\ sock \in [Sockets -> SocketType]
  BY DEF Local, TypeOK
<1> DEFINE Inside == SelectPcs \cup {"idle"}
<1>1. ASSUME NEW want \in Interests[t], NEW timeout \in {"forever", "zero", "finite"},
             lwip_select(t, want, timeout)
      PROVE  Alike
  <2> DEFINE d == [NoCall EXCEPT !.pc = "scan", !.want = want, !.timeout = timeout, !.todo = Fds(want)]
  <2>1. d.pc \in Inside /\ call[t].pc \in Inside /\ ev[t].pc = "idle"
    BY <1>1 DEF lwip_select, NoCall, Busy, SelectPcs
  <2>2. call' = [call EXCEPT ![t] = d] /\ nc' = nc /\ ev' = ev /\ sock' = sock
    BY <1>1 DEF lwip_select
  <2> QED
    BY <2>1, <2>2, InSelect, LikeItself DEF Alike
<1>2. ASSUME lwip_selscan(t) PROVE Alike
  <2>1. call[t].pc \in SelectPcs /\ nc' = nc /\ ev' = ev /\ sock' = sock
    BY <1>2 DEF lwip_selscan, SelectPcs
  <2>2. PICK s \in {Lowest(call[t].todo)} :
          LET ready == call[t].ready \cup Scanned(s, call[t].want)
              rest  == call[t].todo \ {s}
          IN  call' = [call EXCEPT ![t] = IF rest # {} THEN [@ EXCEPT !.ready = ready, !.todo = rest]
                                          ELSE AfterScan(@, ready)]
    BY <1>2 DEF lwip_selscan
  <2> DEFINE ready == call[t].ready \cup Scanned(s, call[t].want)
             rest  == call[t].todo \ {s}
             a == [call[t] EXCEPT !.ready = ready, !.todo = rest]
             d == IF rest # {} THEN a ELSE AfterScan(call[t], ready)
  <2>3. call' = [call EXCEPT ![t] = d]
    BY <2>2
  <2>4. a.pc = call[t].pc
    BY <1>0 DEF CallType
  <2> HIDE DEF ready, a
  <2>5. AfterScan(call[t], ready).pc \in Inside
    <3>1. AfterScan(call[t], ready).pc \in {"add", "wait", "dec", "idle"}
      <4>1. [call[t] EXCEPT !.pc = "add", !.todo = Fds(call[t].want)].pc = "add"
        BY <1>0 DEF CallType
      <4>2. [call[t] EXCEPT !.pc = IF ready = {} THEN "wait" ELSE "dec",
                            !.todo = Fds(call[t].want)].pc \in {"wait", "dec"}
        BY <1>0 DEF CallType
      <4>3. NoCall.pc = "idle"
        BY DEF NoCall
      <4> QED
        BY <4>1, <4>2, <4>3, Zenon DEF AfterScan
    <3> QED
      BY <3>1 DEF SelectPcs
  <2>6. d.pc \in Inside
    BY <2>1, <2>4, <2>5
  <2> HIDE DEF d
  <2> QED
    BY <2>1, <2>3, <2>6, InSelect, SelectIsQuiet, LikeItself DEF Alike
<1>3. ASSUME SelectAdd(t) PROVE Alike
  <2> DEFINE d == [call[t] EXCEPT !.pc = "inc"]
  <2>1. call[t].pc \in SelectPcs /\ nc' = nc /\ sock' = sock /\ ev' = ListChanged
        /\ call' = [call EXCEPT ![t] = d]
    BY <1>3 DEF SelectAdd, SelectPcs, Goto
  <2>2. d.pc \in Inside
    BY <1>0 DEF CallType, SelectPcs
  <2> QED
    BY <2>1, <2>2, InSelect, SelectIsQuiet, ChangedIsLike, LikeItself DEF Alike
<1>4. ASSUME SelectInc(t) PROVE Alike
  <2>1. call[t].pc \in SelectPcs /\ nc' = nc /\ ev' = ev
    BY <1>4 DEF SelectInc, SelectPcs
  <2>2. \A s \in Sockets : SockLike(sock[s], sock'[s])
    <3>1. CASE sock' = sock
      BY <3>1, LikeItself
    <3>2. CASE \E n : sock' = [sock EXCEPT ![Lowest(call[t].todo)].select_waiting = n]
      <4>1. Lowest(call[t].todo) \in Sockets
        BY <1>0, <1>4, LowestIsIn DEF SelectInc, CallType, Local, CallOK
      <4> QED
        BY <3>2, <4>1, WaitingIsLike
    <3>3. sock' = sock \/ \E n : sock' = [sock EXCEPT ![Lowest(call[t].todo)].select_waiting = n]
      BY <1>4 DEF SelectInc
    <3> QED
      BY <3>1, <3>2, <3>3
  <2>3. \E d : call' = [call EXCEPT ![t] = d] /\ d.pc \in Inside
    <3> DEFINE done == Fds(call[t].want) \ call[t].todo
               rest == call[t].todo \ {Lowest(call[t].todo)}
               d1 == [call[t] EXCEPT !.todo = rest]
               d2 == [call[t] EXCEPT !.pc = "rescan", !.todo = Fds(call[t].want)]
               d3 == [call[t] EXCEPT !.bad = TRUE, !.todo = done,
                                     !.pc = IF done = {} THEN "remove" ELSE "dec"]
    <3>1. \E d \in {d1, d2, d3} : call' = [call EXCEPT ![t] = d]
      BY <1>4, <1>0 DEF SelectInc
    <3>2. d1.pc \in Inside /\ d2.pc \in Inside /\ d3.pc \in Inside
      BY <1>0, <1>4 DEF CallType, SelectPcs, SelectInc
    <3> HIDE DEF d1, d2, d3
    <3> QED
      BY <3>1, <3>2
  <2> QED
    BY <2>1, <2>2, <2>3, InSelect, SelectIsQuiet, LikeItself DEF Alike
<1>5. ASSUME SelectWake(t) \/ SelectTimeout(t) PROVE Alike
  <2> DEFINE d1 == [call[t] EXCEPT !.pc = "dec", !.sem = FALSE]
             d2 == [call[t] EXCEPT !.pc = "dec", !.timedout = TRUE]
  <2>1. call[t].pc \in SelectPcs /\ nc' = nc /\ ev' = ev /\ sock' = sock
    BY <1>5 DEF SelectWake, SelectTimeout, SelectPcs
  <2>2. call' = [call EXCEPT ![t] = d1] \/ call' = [call EXCEPT ![t] = d2]
    BY <1>5, <1>0 DEF SelectWake, SelectTimeout
  <2>3. d1.pc \in Inside /\ d2.pc \in Inside
    BY <1>0 DEF CallType, SelectPcs
  <2> HIDE DEF d1, d2
  <2> QED
    BY <2>1, <2>2, <2>3, InSelect, SelectIsQuiet, LikeItself DEF Alike
<1>6. ASSUME SelectDec(t) PROVE Alike
  <2>1. call[t].pc \in SelectPcs /\ nc' = nc /\ ev' = ev
    BY <1>6 DEF SelectDec, SelectPcs
  <2>2. \A s \in Sockets : SockLike(sock[s], sock'[s])
    <3>1. CASE sock' = sock
      BY <3>1, LikeItself
    <3>2. CASE \E n : sock' = [sock EXCEPT ![Lowest(call[t].todo)].select_waiting = n]
      <4>1. Lowest(call[t].todo) \in Sockets
        BY <1>0, <1>6, LowestIsIn DEF SelectDec, CallType, Local, CallOK
      <4> QED
        BY <3>2, <4>1, WaitingIsLike
    <3>3. sock' = sock \/ \E n : sock' = [sock EXCEPT ![Lowest(call[t].todo)].select_waiting = n]
      BY <1>6 DEF SelectDec
    <3> QED
      BY <3>1, <3>2, <3>3
  <2>3. \E d : call' = [call EXCEPT ![t] = d] /\ d.pc \in Inside
    <3> DEFINE s == Lowest(call[t].todo)
               rest == call[t].todo \ {s}
               d == [call[t] EXCEPT !.bad = (call[t].bad \/ sock[s].conn = NULL), !.todo = rest,
                                    !.pc = IF rest = {} THEN "remove" ELSE "dec"]
    <3>1. call' = [call EXCEPT ![t] = d]
      BY <1>6, <1>0 DEF SelectDec
    <3>2. d.pc \in Inside
      BY <1>0 DEF CallType, SelectPcs
    <3> QED
      BY <3>1, <3>2
  <2> QED
    BY <2>1, <2>2, <2>3, InSelect, SelectIsQuiet, LikeItself DEF Alike
<1>7. ASSUME SelectRemove(t) PROVE Alike
  <2> DEFINE a == [call[t] EXCEPT !.pc = "result", !.todo = Fds(call[t].want), !.ready = {},
                                  !.sem = FALSE]
             d == IF call[t].bad \/ call[t].timedout THEN NoCall ELSE a
  <2>1. call[t].pc \in SelectPcs /\ nc' = nc /\ sock' = sock /\ ev' = ListChanged
        /\ call' = [call EXCEPT ![t] = d]
    BY <1>7, <1>0 DEF SelectRemove, SelectPcs
  <2>2. a.pc = "result" /\ NoCall.pc = "idle"
    BY <1>0 DEF CallType, NoCall
  <2>3. d.pc \in Inside
    BY <2>2 DEF SelectPcs
  <2> HIDE DEF d
  <2> QED
    BY <2>1, <2>3, InSelect, SelectIsQuiet, ChangedIsLike, LikeItself DEF Alike
<1> QED
  BY <1>1, <1>2, <1>3, <1>4, <1>5, <1>6, <1>7 DEF Select

-----------------------------------------------------------------------------
(* What an event or a callback of the stack may do.                        *)
ConnMild(a, b) ==
  /\ \/ b.state = a.state
     \/ a.state = "open" /\ b.state = "err"
     \/ a.state = "new" /\ b.state = "open"
  /\ b.socket = a.socket \/ (a.socket < 0 /\ b.socket < 0)
  /\ b.state = "new" => b.socket = a.socket /\ b.mbox = a.mbox

SockMild(a, b) == b.conn = a.conn

(* An event goes on, or is raised under the core lock.                     *)
EventMild(x, y, e, N, S) ==
  y.pc # "idle" =>
    /\ N[y.conn].state = "open" => Len(y.todo) = 1 /\ FromCore(Head(y.todo), e)
    /\ \/ x.pc # "idle" /\ y.conn = x.conn /\ y.by = x.by
       \/ e = Core /\ y.conn \in AllConns /\ N[y.conn].state \notin {"new", "closed"}
    /\ y.pc \in {"apply", "walk"} => S[y.s].conn = y.conn /\ N[y.conn].socket = y.s

Mild ==
  /\ \A c \in AllConns : ConnMild(nc[c], nc'[c])
  /\ nc'[Listener].state = nc[Listener].state
  /\ \A s \in Sockets : SockMild(sock[s], sock'[s])
  /\ \A t \in Threads : CallLike(call[t], call'[t])
  /\ \A t \in Threads : ev[t].pc # "idle" => call'[t].pc = call[t].pc
  /\ \A t \in Threads : call[t].pc = "handover" =>
       sock'[call[t].s].rcvevent = sock[call[t].s].rcvevent
  /\ \A t \in Threads : call[t].pc = "recv" =>
       sock'[call[t].s].lastdata = sock[call[t].s].lastdata
  /\ \A e \in Callers : EventMild(ev[e], ev'[e], e, nc', sock')

(* A netconn without a socket keeps that in such a step.                   *)
LEMMA FreshKept ==
  ASSUME \A c \in AllConns : ConnMild(nc[c], nc'[c]), NEW c, Fresh(c, nc)
  PROVE  Fresh(c, nc')
<1>1. c \in AllConns
  BY DEF Fresh, AllConns
<1> QED
  BY <1>1 DEF ConnMild, Fresh

(* The same acceptmbox is still good.                                      *)
LEMMA QueueKept ==
  ASSUME Owned, \A c \in AllConns : ConnMild(nc[c], nc'[c]),
         \A t \in Threads : CallLike(call[t], call'[t]),
         nc'[Listener].mbox = nc[Listener].mbox
  PROVE  QueueOK(nc'[Listener].mbox, nc', call')
  BY FreshKept, PcsDiffer DEF Owned, QueueOK, CallLike

(* Such a step keeps it all, if it leaves a good acceptmbox.               *)
LEMMA MildOwned ==
  ASSUME Local, Owned, Local', Mild, QueueOK(nc'[Listener].mbox, nc', call')
  PROVE  Owned'
<1>0. /\ \A t \in Threads : call[t] \in CallType
      /\ \A e \in Callers : ev[e] \in EventType /\ EventOK(ev[e])
      /\ \A c \in AllConns : nc[c] \in ConnType
  BY Typed
<1>00. /\ \A e \in Callers : ev'[e] \in EventType /\ EventOK(ev'[e])
       /\ \A c \in AllConns : nc'[c] \in ConnType
  BY Typed DEF Local, TypeOK
<1>1. \A t \in Threads : call[t].s \in Sockets
  BY <1>0 DEF CallType
<1>01. Listener \in AllConns
  BY DEF AllConns
<1>2. ConnSlots(nc', sock')
  <2>1. ASSUME NEW c \in AllConns, nc'[c].socket >= 0, nc'[c].state # "closed"
        PROVE  sock'[nc'[c].socket].conn = c
    <3>1. nc'[c].socket \in Sockets /\ nc[c].socket \in Int /\ nc'[c].socket \in Int
      BY <1>0, <1>00, <2>1, SocketsAssumption DEF ConnType, Sockets
    <3>2. nc'[c].socket = nc[c].socket /\ nc[c].state # "closed"
      BY <2>1, <3>1 DEF Mild, ConnMild
    <3> QED
      BY <3>1, <3>2, <2>1 DEF Owned, ConnSlots, Mild, SockMild
  <2>2. nc'[Listener].state = "open" /\ nc'[Listener].socket = 0
    <3>1. nc[Listener].state = "open" /\ nc[Listener].socket = 0
      BY DEF Owned, ConnSlots
    <3>2. ConnMild(nc[Listener], nc'[Listener])
      BY <1>01 DEF Mild
    <3> QED
      BY <3>1, <3>2 DEF ConnMild, Mild
  <2>3. \A c \in AllConns : nc'[c].state = "new" => nc'[c].socket = -1 /\ nc'[c].mbox = <<>>
    BY DEF Owned, ConnSlots, Mild, ConnMild
  <2> QED
    BY <2>1, <2>2, <2>3 DEF ConnSlots
<1>4. \A t \in Threads : NewConnOK(call'[t], nc', sock')
  <2>1. \A c \in AllConns : ConnMild(nc[c], nc'[c])
    BY DEF Mild
  <2> QED
    BY <1>1, <2>1, FreshKept, PcsDiffer DEF Owned, Mild, NewConnOK, CallLike, SockMild
<1>5. \A t \in Threads : HoldsOK(call'[t], nc', sock')
  <2> SUFFICES ASSUME NEW t \in Threads, call'[t].pc \in {"recv", "closing"}
               PROVE  HoldsOK(call'[t], nc', sock')
    BY DEF HoldsOK
  <2>1. call'[t].pc = call[t].pc /\ call'[t].s = call[t].s
    BY PcsDiffer DEF Mild, CallLike
  <2>2. HoldsOK(call[t], nc, sock) /\ call[t].s \in Sockets
    BY <1>1 DEF Owned
  <2> DEFINE s == call[t].s
             c == sock[s].conn
  <2>3. c \in AllConns /\ c \in Conns /\ nc[c].socket = s /\ nc[c].socket >= 0
    BY <2>1, <2>2 DEF HoldsOK, AllConns, Sockets
  <2>4. nc[c].state # "new"
    BY <2>3 DEF Owned, ConnSlots
  <2>5. nc'[c].socket = s /\ (nc'[c].state = "closed" <=> nc[c].state = "closed")
    BY <2>3, <2>4, <1>0 DEF Mild, ConnMild, ConnType
  <2>6. sock'[s].conn = c /\ (call[t].pc = "recv" => sock'[s].lastdata = sock[s].lastdata)
    BY <2>2 DEF Mild, SockMild
  <2> HIDE DEF s, c
  <2>7. (call[t].pc = "closing" <=> nc[c].state = "closed") /\ (call[t].pc = "recv" => ~sock[s].lastdata)
    BY <2>1, <2>2 DEF HoldsOK, s, c
  <2>8. call'[t].s = s
    BY <2>1 DEF s
  <2> QED
    BY <2>1, <2>3, <2>5, <2>6, <2>7, <2>8 DEF HoldsOK
<1>6. \A t, u \in Threads : t # u => Apart(call'[t], call'[u])
  BY PcsDiffer DEF Owned, Mild, Apart, CallLike
<1>7. \A e \in Callers : EventOwn(ev'[e], e, nc', sock', call')
  <2> SUFFICES ASSUME NEW e \in Callers, ev'[e].pc # "idle"
               PROVE  EventOwn(ev'[e], e, nc', sock', call')
    BY DEF EventOwn
  <2> DEFINE x == ev[e]
             y == ev'[e]
  <2>1. y.conn \in AllConns /\ EventMild(x, y, e, nc', sock')
    BY <1>00 DEF EventOK, Mild
  <2>2. x.pc # "idle" => x.conn \in AllConns /\ EventOwn(x, e, nc, sock, call)
    BY <1>0 DEF EventOK, Owned
  <2>3. ConnMild(nc[y.conn], nc'[y.conn])
    BY <2>1 DEF Mild
  <2>4. y.pc # "idle"
    OBVIOUS
  <2>12. x.pc # "idle" => ev[e].pc # "idle"
    OBVIOUS
  <2> SUFFICES EventOwn(y, e, nc', sock', call')
    OBVIOUS
  <2> HIDE DEF x, y
  <2>5. CASE e = Core /\ nc'[y.conn].state \notin {"new", "closed"}
    BY <2>1, <2>4, <2>5 DEF EventOwn, EventMild
  <2>6. CASE ~(e = Core /\ nc'[y.conn].state \notin {"new", "closed"})
    <3>1. x.pc # "idle" /\ y.conn = x.conn /\ y.by = x.by
      BY <2>1, <2>4, <2>6 DEF EventMild
    <3>2. nc[x.conn].state # "new" /\ nc'[y.conn].state # "new"
      BY <3>1, <2>2, <2>3 DEF EventOwn, ConnMild
    <3>3. ASSUME e # Core
          PROVE  /\ call'[e].pc \in {"idle", "alloc", "recv"}
                 /\ \/ y.conn = Listener
                    \/ call'[e].pc = "recv" /\ sock'[call'[e].s].conn = y.conn
      <4>1. e \in Threads
        BY <3>3 DEF Callers
      <4>2. call'[e].pc = call[e].pc /\ call[e].pc \in {"idle", "alloc", "recv"}
        BY <4>1, <3>1, <2>2, <3>3, <2>12 DEF Mild, EventOwn
      <4>3. call[e].pc = "recv" => call'[e].s = call[e].s /\ call[e].s \in Sockets
        BY <4>1, <4>2, <1>1, PcsDiffer DEF Mild, CallLike
      <4>4. x.conn = Listener \/ (call[e].pc = "recv" /\ sock[call[e].s].conn = x.conn)
        BY <3>1, <2>2, <3>3 DEF EventOwn
      <4> QED
        BY <4>2, <4>3, <4>4, <3>1 DEF Mild, SockMild
    <3>4. ASSUME e = Core, nc'[y.conn].state = "closed"
          PROVE  y.by \in Threads /\ call'[y.by].pc = "closing" /\ sock'[call'[y.by].s].conn = y.conn
      <4>0. nc[x.conn].state = "closed"
        BY <3>1, <3>4, <2>3 DEF ConnMild
      <4>1. x.by \in Threads /\ call[x.by].pc = "closing" /\ sock[call[x.by].s].conn = x.conn
        BY <4>0, <2>2, <3>1, <3>4 DEF EventOwn
      <4>2. call'[x.by].pc = "closing" /\ call'[x.by].s = call[x.by].s
        BY <4>1, PcsDiffer DEF Mild, CallLike
      <4> QED
        BY <4>1, <4>2, <3>1, <1>1 DEF Mild, SockMild
    <3> QED
      BY <2>1, <2>4, <3>2, <3>3, <3>4 DEF EventOwn, EventMild
  <2> QED
    BY <2>5, <2>6
<1> QED
  BY <1>2, <1>4, <1>5, <1>6, <1>7 DEF Owned

(* Steps that do not touch it are among them.                              *)
LEMMA AlikeOwned ==
  ASSUME Local, Owned, Local', Alike
  PROVE  Owned'
<1>0. \A t \in Threads : call[t].s \in Sockets
  BY Typed DEF CallType
<1>01. \A e \in Callers : ev[e].pc # "idle" => ev[e].conn \in AllConns /\ ev[e].s \in Sockets
  BY Typed DEF EventType, EventOK
<1>1. \A c \in AllConns : ConnMild(nc[c], nc'[c])
  BY DEF Alike, ConnMild
<1>2. \A e \in Callers : EventMild(ev[e], ev'[e], e, nc', sock')
  <2> SUFFICES ASSUME NEW e \in Callers, ev'[e].pc # "idle"
               PROVE  EventMild(ev[e], ev'[e], e, nc', sock')
    BY DEF EventMild
  <2>1. EventLike(ev[e], ev'[e]) /\ EventOwn(ev[e], e, nc, sock, call) /\ nc' = nc
    BY DEF Owned, Alike
  <2>2. ev[e].pc # "idle" /\ ev[e].s \in Sockets
    BY <2>1, <1>01 DEF EventLike
  <2>3. sock'[ev[e].s].conn = sock[ev[e].s].conn
    BY <2>2 DEF Alike, SockLike
  <2> QED
    BY <2>1, <2>2, <2>3 DEF EventMild, EventLike, EventOwn
<1>3. Mild
  BY <1>0, <1>1, <1>2 DEF Mild, Alike, SockLike, SockMild
<1>4. QueueOK(nc'[Listener].mbox, nc', call')
  BY <1>1, QueueKept DEF Alike
<1> QED
  BY <1>3, <1>4, MildOwned

-----------------------------------------------------------------------------
(* RcvEventIsExact, for one netconn.                                       *)
Level(c, N, S) == IF N[c].socket < 0 THEN -1 - N[c].socket ELSE S[N[c].socket].rcvevent

Carries(x, c, v) == x.pc \in {"call", "apply"} /\ x.conn = c /\ Head(x.todo) = v

Carriers(E, c, v) == {e \in Callers : Carries(E[e], c, v)}

Number(E, c, v) == Cardinality(Carriers(E, c, v))

Exact(c, N, S, E) ==
  Level(c, N, S) = Len(N[c].mbox) - Number(E, c, "RCVPLUS") + Number(E, c, "RCVMINUS")

(* The property says that of all open netconns.                            *)
LEMMA ExactIs ==
  /\ RcvEventIsExact <=> \A c \in AllConns : nc[c].state = "open" => Exact(c, nc, sock, ev)
  /\ RcvEventIsExact' <=> \A c \in AllConns : nc'[c].state = "open" => Exact(c, nc', sock', ev')
<1>1. \A c \in AllConns : \A v : Raised(c, v) = Number(ev, c, v)
  BY DEF Raised, Number, Carriers, Carries
<1>2. \A c \in AllConns : \A v : Raised(c, v)' = Number(ev', c, v)
  BY DEF Raised, Number, Carriers, Carries
<1> QED
  BY <1>1, <1>2 DEF RcvEventIsExact, Exact, Level

(* There are finitely many of them.                                        *)
LEMMA CarriersFinite ==
  ASSUME NEW E, NEW c, NEW v
  PROVE  IsFiniteSet(Carriers(E, c, v)) /\ Cardinality(Carriers(E, c, v)) \in Nat
<1>1. IsFiniteSet(Callers)
  BY SocketsAssumption, FS_AddElement DEF Callers
<1>2. Carriers(E, c, v) \subseteq Callers
  BY DEF Carriers
<1> QED
  BY <1>1, <1>2, FS_Subset, FS_CardinalityType

(* The callback of e becomes y.                                            *)
Moves(e, y) == ev' = [ev EXCEPT ![e] = y]

(* One of them is raised, applied, or neither.                             *)
LEMMA CarriersAt ==
  ASSUME Local, NEW e \in Callers, NEW y, Moves(e, y), NEW c, NEW v
  PROVE  /\ Number(ev, c, v) \in Nat /\ Number(ev', c, v) \in Nat
         /\ Number(ev', c, v) = Number(ev, c, v) + (IF Carries(y, c, v) THEN 1 ELSE 0)
                                               - (IF Carries(ev[e], c, v) THEN 1 ELSE 0)
<1> DEFINE A == Carriers(ev, c, v)
           B == Carriers(ev', c, v)
<1>1. \A f \in Callers : ev'[f] = IF f = e THEN y ELSE ev[f]
  BY DEF Local, TypeOK, Moves
<1>2. \A f \in Callers : f # e => (f \in A <=> f \in B)
  BY <1>1 DEF Carriers
<1>3. (e \in A <=> Carries(ev[e], c, v)) /\ (e \in B <=> Carries(y, c, v))
  BY <1>1 DEF Carriers
<1>4. A \subseteq Callers /\ B \subseteq Callers
  BY DEF Carriers
<1>5. IsFiniteSet(A) /\ IsFiniteSet(B) /\ Cardinality(A) \in Nat /\ Cardinality(B) \in Nat
  BY CarriersFinite
<1> HIDE DEF A, B
<1>6. (e \in A <=> e \in B) => B = A
  BY <1>2, <1>4
<1>7. e \notin A /\ e \in B => B = A \cup {e}
  BY <1>2, <1>4
<1>8. e \in A /\ e \notin B => B = A \ {e}
  BY <1>2, <1>4
<1>9. e \notin A /\ e \in B => Cardinality(B) = Cardinality(A) + 1
  BY <1>5, <1>7, FS_AddElement
<1>10. e \in A /\ e \notin B => Cardinality(B) = Cardinality(A) - 1
  BY <1>5, <1>8, FS_RemoveElement
<1>11. (e \in A <=> e \in B) => Cardinality(B) = Cardinality(A)
  BY <1>6
<1> QED
  BY <1>3, <1>5, <1>9, <1>10, <1>11 DEF A, B, Number

(* Steps that do not touch it keep it.                                     *)
LEMMA AlikeExact ==
  ASSUME Local, Owned, Alike, RcvEventIsExact
  PROVE  RcvEventIsExact'
<1>1. \A c, v : Carriers(ev', c, v) = Carriers(ev, c, v)
  BY DEF Carriers, Carries, Alike, EventLike
<1>2. \A c \in AllConns : Level(c, nc', sock') = Level(c, nc, sock)
  <2> SUFFICES ASSUME NEW c \in AllConns PROVE Level(c, nc', sock') = Level(c, nc, sock)
    OBVIOUS
  <2>1. nc[c].socket < 0 \/ nc[c].socket \in Sockets
    BY Typed, SocketsAssumption DEF ConnType, Sockets
  <2> QED
    BY <2>1 DEF Level, Alike, SockLike
<1> QED
  BY <1>1, <1>2, ExactIs DEF Exact, Alike, Number

-----------------------------------------------------------------------------
(* What the end of one event makes of its callback.                        *)
LEMMA DoneIs ==
  ASSUME Local, NEW e \in Callers, ev[e].pc # "idle", EventDone(e)
  PROVE  \E y \in EventType : /\ Moves(e, y)
                              /\ IF Len(ev[e].todo) = 1 THEN y.pc = "idle"
                                 ELSE /\ y.pc = "call" /\ y.conn = ev[e].conn /\ y.by = ev[e].by
                                      /\ y.todo = Tail(ev[e].todo)
<1> DEFINE q == ev[e].todo
           z == [NoEvent EXCEPT !.pc = "call", !.conn = ev[e].conn, !.by = ev[e].by,
                                !.todo = Tail(ev[e].todo)]
<1>1. ev[e] \in EventType /\ EventOK(ev[e]) /\ ev \in [Callers -> EventType]
  BY DEF Local, TypeOK
<1>2. ev[e].conn \in AllConns /\ ev[e].by \in Callers \cup {NULL} /\ q \in Seq(Events) /\ q # <<>>
  BY <1>1 DEF EventType, EventOK
<1>3. CASE Len(q) = 1
  BY <1>1, <1>3, NoEventOK DEF EventDone, Moves
<1>4. CASE Len(q) # 1
  <2>1. Tail(q) \in Seq(Events)
    BY <1>2
  <2>2. z \in EventType /\ z.pc = "call" /\ z.conn = ev[e].conn /\ z.by = ev[e].by /\ z.todo = Tail(q)
    BY <1>2, <2>1, NoEventOK DEF EventType
  <2>3. ev' = [ev EXCEPT ![e] = z]
    BY <1>1, <1>4 DEF EventDone
  <2> HIDE DEF z
  <2> QED
    BY <1>4, <2>2, <2>3 DEF Moves
<1> QED
  BY <1>3, <1>4

(* One event goes on; the others stay as they are.                         *)
LEMMA OneMild ==
  ASSUME Local, Owned, NEW e \in Callers, NEW y, Moves(e, y),
         \A c \in AllConns : ConnMild(nc[c], nc'[c]),
         \A s \in Sockets : SockMild(sock[s], sock'[s]),
         EventMild(ev[e], y, e, nc', sock')
  PROVE  \A f \in Callers : EventMild(ev[f], ev'[f], f, nc', sock')
<1> SUFFICES ASSUME NEW f \in Callers, f # e, ev[f].pc # "idle"
             PROVE  EventMild(ev[f], ev[f], f, nc', sock')
  <2>1. \A f \in Callers : ev'[f] = IF f = e THEN y ELSE ev[f]
    BY DEF Local, TypeOK, Moves
  <2> QED
    BY <2>1 DEF EventMild
<1>1. ev[f].conn \in AllConns /\ ev[f].s \in Sockets /\ ev[f].s >= 0
  BY Typed DEF EventType, EventOK, Sockets
<1>2. EventOwn(ev[f], f, nc, sock, call)
  BY DEF Owned
<1>3. ConnMild(nc[ev[f].conn], nc'[ev[f].conn]) /\ SockMild(sock[ev[f].s], sock'[ev[f].s])
  BY <1>1
<1>4. nc[ev[f].conn].socket \in Int
  BY <1>1, Typed DEF ConnType
<1>5. nc'[ev[f].conn].state = "open" => nc[ev[f].conn].state = "open"
  BY <1>2, <1>3 DEF EventOwn, ConnMild
<1>6. ev[f].pc \in {"apply", "walk"} => sock'[ev[f].s].conn = ev[f].conn /\ nc'[ev[f].conn].socket = ev[f].s
  BY <1>1, <1>2, <1>3, <1>4 DEF EventOwn, ConnMild, SockMild
<1> QED
  BY <1>2, <1>5, <1>6 DEF EventMild, EventOwn

(* Nothing happens to an open netconn that the event is not for.           *)
LEMMA OthersExact ==
  ASSUME Local, RcvEventIsExact, NEW e \in Callers, NEW y, Moves(e, y),
         NEW c \in AllConns, nc[c].state = "open",
         ev[e].pc # "idle" => ev[e].conn # c, y.pc # "idle" => y.conn # c,
         Len(nc'[c].mbox) = Len(nc[c].mbox), Level(c, nc', sock') = Level(c, nc, sock)
  PROVE  Exact(c, nc', sock', ev')
<1>1. \A v : ~Carries(ev[e], c, v) /\ ~Carries(y, c, v)
  BY DEF Carries
<1>2. \A v : Number(ev', c, v) = Number(ev, c, v)
  BY <1>1, CarriersAt
<1>3. Exact(c, nc, sock, ev)
  BY ExactIs
<1> QED
  BY <1>2, <1>3 DEF Exact

(* Every netconn with the same slot and the same counter in it.            *)
LEMMA SameLevel ==
  ASSUME Local, NEW c \in AllConns, nc'[c].socket = nc[c].socket,
         nc[c].socket \in Sockets => sock'[nc[c].socket].rcvevent = sock[nc[c].socket].rcvevent
  PROVE  Level(c, nc', sock') = Level(c, nc, sock)
<1>1. nc[c].socket < 0 \/ nc[c].socket \in Sockets
  BY Typed, SocketsAssumption DEF ConnType, Sockets
<1> QED
  BY <1>1 DEF Level

(* The netconn of an event that has a socket is in its slot, also while it *)
(* is being closed.                                                        *)
LEMMA EventSlot ==
  ASSUME Local, Owned, NEW e \in Callers, ev[e].pc # "idle", nc[ev[e].conn].socket >= 0
  PROVE  sock[nc[ev[e].conn].socket].conn = ev[e].conn
<1> DEFINE c == ev[e].conn
<1>1. c \in AllConns /\ EventOwn(ev[e], e, nc, sock, call)
  BY Typed DEF EventOK, Owned
<1>2. CASE nc[c].state # "closed"
  BY <1>1, <1>2 DEF Owned, ConnSlots
<1>3. CASE nc[c].state = "closed"
  <2>1. e = Core
    <3> SUFFICES ASSUME e # Core PROVE FALSE
      OBVIOUS
    <3>1. e \in Threads
      BY DEF Callers
    <3>2. c = Listener \/ (call[e].pc = "recv" /\ sock[call[e].s].conn = c)
      BY <1>1 DEF EventOwn
    <3>3. nc[Listener].state = "open" /\ HoldsOK(call[e], nc, sock)
      BY <3>1 DEF Owned, ConnSlots
    <3> QED
      BY <3>2, <3>3, <1>3 DEF HoldsOK
  <2>2. PICK t \in Threads : call[t].pc = "closing" /\ sock[call[t].s].conn = c
    BY <2>1, <1>1, <1>3 DEF EventOwn
  <2>3. HoldsOK(call[t], nc, sock)
    BY DEF Owned
  <2> QED
    BY <2>2, <2>3 DEF HoldsOK
<1> QED
  BY <1>2, <1>3

(* event_callback finds the socket of the netconn, or counts in it.        *)
LEMMA EventSocketKeeps ==
  ASSUME Local, Local', Owned, RcvEventIsExact, NEW e \in Callers, EventSocket(e)
  PROVE  Owned' /\ RcvEventIsExact'
<1> DEFINE c == ev[e].conn
           x == ev[e]
<1>0. /\ x \in EventType /\ EventOK(x) /\ x.pc = "call" /\ ev \in [Callers -> EventType]
      /\ nc \in [AllConns -> ConnType] /\ EventOwn(x, e, nc, sock, call)
  BY DEF Local, TypeOK, EventSocket, Owned
<1>1. c \in AllConns /\ nc[c] \in ConnType /\ nc[c].socket \in Int /\ nc[c].socket < NUM_SOCKETS
  BY <1>0 DEF EventOK, ConnType
<1>2. sock' = sock /\ call' = call
  BY DEF EventSocket
<1>3. \A s \in Sockets : SockMild(sock[s], sock'[s])
  BY <1>2 DEF SockMild
<1>4. \A t \in Threads : CallLike(call[t], call'[t])
  BY <1>2 DEF CallLike
<1>5. ASSUME NEW y, Moves(e, y), EventMild(x, y, e, nc', sock'),
             \A b \in AllConns : ConnMild(nc[b], nc'[b]),
             \A b \in AllConns : nc'[b].state = nc[b].state /\ nc'[b].mbox = nc[b].mbox,
             \A b \in AllConns : b # c => nc'[b] = nc[b],
             nc[c].state = "open" => Exact(c, nc', sock', ev'),
             y.pc # "idle" => y.conn = c
      PROVE  Owned' /\ RcvEventIsExact'
  <2>0. Listener \in AllConns
    BY DEF AllConns
  <2>1. \A f \in Callers : EventMild(ev[f], ev'[f], f, nc', sock')
    BY <1>3, <1>5, OneMild
  <2>2. Mild
    BY <1>2, <1>3, <1>4, <1>5, <2>0, <2>1 DEF Mild
  <2>3. QueueOK(nc'[Listener].mbox, nc', call')
    BY <1>4, <1>5, <2>0, QueueKept
  <2>4. ASSUME NEW b \in AllConns, nc'[b].state = "open" PROVE Exact(b, nc', sock', ev')
    <3>1. CASE b = c
      BY <3>1, <1>5, <2>4
    <3>2. CASE b # c
      <4>1. nc'[b] = nc[b]
        BY <3>2, <1>5
      <4>2. Level(b, nc', sock') = Level(b, nc, sock)
        BY <4>1, <1>2, SameLevel
      <4>3. ev[e].pc # "idle" => ev[e].conn # b
        BY <3>2
      <4>4. y.pc # "idle" => y.conn # b
        BY <3>2, <1>5
      <4> QED
        BY <4>1, <4>2, <4>3, <4>4, <1>5, <2>4, OthersExact
    <3> QED
      BY <3>1, <3>2
  <2> QED
    BY <2>2, <2>3, <2>4, MildOwned, ExactIs
<1>6. CASE nc[c].socket < 0
  <2>1. nc' = (IF Head(x.todo) = "RCVPLUS" THEN [nc EXCEPT ![c].socket = @ - 1] ELSE nc)
        /\ EventDone(e)
    BY <1>6 DEF EventSocket
  <2>2. PICK y \in EventType : /\ Moves(e, y)
                               /\ IF Len(x.todo) = 1 THEN y.pc = "idle"
                                  ELSE /\ y.pc = "call" /\ y.conn = x.conn /\ y.by = x.by
                                       /\ y.todo = Tail(x.todo)
    BY <2>1, <1>0, DoneIs
  <2> DEFINE n == [nc[c] EXCEPT !.socket = nc[c].socket - 1]
  <2>3. n.state = nc[c].state /\ n.mbox = nc[c].mbox /\ n.socket = nc[c].socket - 1
    BY <1>1 DEF ConnType
  <2>4. nc' = IF Head(x.todo) = "RCVPLUS" THEN [nc EXCEPT ![c] = n] ELSE nc
    BY <2>1
  <2> HIDE DEF n
  <2>5. /\ \A b \in AllConns : b # c => nc'[b] = nc[b]
        /\ nc'[c] = IF Head(x.todo) = "RCVPLUS" THEN n ELSE nc[c]
    BY <2>4, <1>0, <1>1
  <2>6. nc[c].state # "new"
    BY <1>0 DEF EventOwn
  <2>7. \A b \in AllConns : ConnMild(nc[b], nc'[b])
    BY <2>3, <2>5, <2>6, <1>1, <1>6 DEF ConnMild
  <2>8. \A b \in AllConns : nc'[b].state = nc[b].state /\ nc'[b].mbox = nc[b].mbox
    BY <2>3, <2>5
  <2>9. nc[c].state = "open" => Len(x.todo) = 1 /\ FromCore(Head(x.todo), e)
    BY <1>0 DEF EventOwn
  <2>10. EventMild(x, y, e, nc', sock')
    <3>1. nc'[c].state = "open" => y.pc = "idle"
      BY <2>2, <2>8, <2>9, <1>1
    <3>2. y.pc # "idle" => y.pc = "call" /\ y.conn = c /\ y.by = x.by
      BY <2>2
    <3> QED
      BY <3>1, <3>2, <1>0 DEF EventMild
  <2>11. ASSUME nc[c].state = "open" PROVE Exact(c, nc', sock', ev')
    <3>1. y.pc = "idle" /\ FromCore(Head(x.todo), e)
      BY <2>11, <2>9, <2>2
    <3>2. Exact(c, nc, sock, ev)
      BY <2>11, <1>1, ExactIs
    <3>3. Head(x.todo) # "RCVMINUS"
      <4>1. ASSUME e # Core PROVE c = Listener \/ (sock[call[e].s].conn = c /\ call[e].pc = "recv")
        BY <4>1, <1>0 DEF EventOwn
      <4>2. nc[Listener].socket = 0
        BY DEF Owned, ConnSlots
      <4>3. ASSUME e # Core, call[e].pc = "recv", sock[call[e].s].conn = c PROVE FALSE
        <5>1. e \in Threads /\ call[e].s \in Sockets
          BY <4>3, Typed DEF Callers, CallType
        <5>2. nc[c].socket = call[e].s
          BY <5>1, <4>3 DEF Owned, HoldsOK
        <5> QED
          BY <5>1, <5>2, <1>6, SocketsAssumption DEF Sockets
      <4> QED
        BY <4>1, <4>2, <4>3, <3>1, <1>6 DEF FromCore
    <3>4. /\ Carries(x, c, "RCVPLUS") <=> Head(x.todo) = "RCVPLUS"
          /\ ~Carries(x, c, "RCVMINUS") /\ ~Carries(y, c, "RCVPLUS") /\ ~Carries(y, c, "RCVMINUS")
      BY <3>1, <3>3, <1>0 DEF Carries
    <3> DEFINE a == Number(ev, c, "RCVPLUS")
               a1 == Number(ev', c, "RCVPLUS")
               b == Number(ev, c, "RCVMINUS")
               b1 == Number(ev', c, "RCVMINUS")
    <3>5. /\ a \in Nat /\ a1 \in Nat /\ b \in Nat /\ b1 = b
          /\ a1 = IF Head(x.todo) = "RCVPLUS" THEN a - 1 ELSE a
      BY <3>4, <2>2, CarriersAt
    <3> HIDE DEF a, a1, b, b1
    <3>6. -1 - nc[c].socket = Len(nc[c].mbox) - a + b
      BY <3>2, <1>6 DEF Exact, Level, a, b
    <3>7. nc'[c].socket = (IF Head(x.todo) = "RCVPLUS" THEN nc[c].socket - 1 ELSE nc[c].socket)
          /\ nc'[c].mbox = nc[c].mbox
      BY <2>3, <2>5
    <3> DEFINE m == Len(nc[c].mbox)
               k == nc[c].socket
               k1 == nc'[c].socket
    <3>8. m \in Nat /\ k \in Int /\ k < 0 /\ Len(nc'[c].mbox) = m
      BY <1>1, <1>6, <3>7 DEF ConnType
    <3>9. k1 = IF Head(x.todo) = "RCVPLUS" THEN k - 1 ELSE k
      BY <3>7
    <3>10. -1 - k = m - a + b
      BY <3>6
    <3> HIDE DEF m, k, k1
    <3>11. -1 - k1 = m - a1 + b1 /\ k1 < 0
      BY <3>5, <3>8, <3>9, <3>10
    <3> QED
      BY <3>8, <3>11 DEF Exact, Level, a1, b1, k1
  <2>12. y.pc # "idle" => y.conn = c
    BY <2>2
  <2> QED
    BY <2>2, <2>5, <2>7, <2>8, <2>10, <2>11, <2>12, <1>5
<1>7. CASE nc[c].socket >= 0
  <2>1. nc' = nc /\ nc[c].socket \in Sockets
    BY <1>1, <1>7, SocketsAssumption DEF EventSocket, Sockets
  <2>2. \A b \in AllConns : ConnMild(nc[b], nc'[b])
    BY <2>1 DEF ConnMild
  <2>3. sock[nc[c].socket].conn = c
    BY <1>0, <1>1, <1>7, EventSlot
  <2>4. ev' = [ev EXCEPT ![e].pc = "apply", ![e].s = nc[c].socket]
    BY <2>3, <1>1, <1>7, SocketsAssumption DEF EventSocket, AllConns
  <2> QED
    <3> DEFINE y == [ev[e] EXCEPT !.pc = "apply", !.s = nc[c].socket]
    <3>1. Moves(e, y)
      BY <2>4, <1>0 DEF Moves
    <3>2. y.pc = "apply" /\ y.conn = c /\ y.todo = x.todo /\ y.by = x.by /\ y.s = nc[c].socket
      BY <1>0 DEF EventType
    <3> HIDE DEF y
    <3>4. EventMild(x, y, e, nc', sock')
      BY <3>2, <2>3, <2>1, <1>0, <1>2 DEF EventMild, EventOwn
    <3>5. ASSUME nc[c].state = "open" PROVE Exact(c, nc', sock', ev')
      <4>1. Exact(c, nc, sock, ev)
        BY <3>5, <1>1, ExactIs
      <4>2. ASSUME NEW v PROVE Number(ev', c, v) = Number(ev, c, v)
        <5>1. Carries(ev[e], c, v) <=> Carries(y, c, v)
          BY <3>2, <1>0 DEF Carries
        <5> QED
          BY <5>1, <3>1, CarriersAt
      <4> QED
        BY <4>1, <4>2, <2>1, <1>2 DEF Exact, Level
    <3> QED
      BY <3>1, <3>2, <3>4, <3>5, <2>1, <2>2, <1>5
<1> QED
  BY <1>1, <1>6, <1>7

-----------------------------------------------------------------------------
(* How the two sides of RcvEventIsExact move in one step.                  *)
One(b) == IF b THEN 1 ELSE 0

Balance(x, y, c, dl, dm) ==
  dl = dm + One(Carries(x, c, "RCVPLUS")) - One(Carries(y, c, "RCVPLUS"))
          - One(Carries(x, c, "RCVMINUS")) + One(Carries(y, c, "RCVMINUS"))

(* The level of a netconn is a number.                                     *)
LEMMA LevelType ==
  ASSUME Local, NEW c \in AllConns
  PROVE  Level(c, nc, sock) \in Int /\ Len(nc[c].mbox) \in Nat
<1>1. nc[c].socket \in Int /\ (nc[c].socket < 0 \/ nc[c].socket \in Sockets) /\ Len(nc[c].mbox) \in Nat
  BY Typed, SocketsAssumption DEF ConnType, Sockets
<1> QED
  BY <1>1, Typed DEF Level, SocketType

(* A netconn whose two sides move alike.                                   *)
LEMMA Balanced ==
  ASSUME Local, RcvEventIsExact, NEW e \in Callers, NEW y, Moves(e, y),
         NEW c \in AllConns, nc[c].state = "open", NEW dl \in Int, NEW dm \in Int,
         Level(c, nc', sock') = Level(c, nc, sock) + dl,
         Len(nc'[c].mbox) = Len(nc[c].mbox) + dm, Balance(ev[e], y, c, dl, dm)
  PROVE  Exact(c, nc', sock', ev')
<1>1. Exact(c, nc, sock, ev)
  BY ExactIs
<1>2. Level(c, nc, sock) \in Int /\ Len(nc[c].mbox) \in Nat
  BY LevelType
<1> DEFINE L == Level(c, nc, sock)
           M == Len(nc[c].mbox)
           p == Number(ev, c, "RCVPLUS")
           p1 == Number(ev', c, "RCVPLUS")
           m == Number(ev, c, "RCVMINUS")
           m1 == Number(ev', c, "RCVMINUS")
           xp == One(Carries(ev[e], c, "RCVPLUS"))
           yp == One(Carries(y, c, "RCVPLUS"))
           xm == One(Carries(ev[e], c, "RCVMINUS"))
           ym == One(Carries(y, c, "RCVMINUS"))
<1>3. p \in Nat /\ p1 = p + yp - xp /\ m \in Nat /\ m1 = m + ym - xm
  BY CarriersAt DEF One
<1>4. xp \in Int /\ yp \in Int /\ xm \in Int /\ ym \in Int
  BY DEF One
<1>5. L = M - p + m /\ dl = dm + xp - yp - xm + ym
  BY <1>1 DEF Exact, Balance
<1>7. L \in Int /\ M \in Nat
  BY <1>2
<1> HIDE DEF L, M, p, p1, m, m1, xp, yp, xm, ym
<1>6. L + dl = (M + dm) - p1 + m1
  BY <1>3, <1>4, <1>5, <1>7
<1> QED
  BY <1>6 DEF Exact, L, M, p1, m1

(* What the end of one event, or a turn of the loop, makes of a callback.  *)
Goes(x, y) ==
  \/ Len(x.todo) = 1 /\ y.pc = "idle"
  \/ /\ Len(x.todo) # 1 /\ y.pc = "call" /\ y.conn = x.conn /\ y.by = x.by
     /\ y.todo = Tail(x.todo)
  \/ /\ x.pc \in {"apply", "walk"} /\ y.pc = "walk" /\ y.conn = x.conn /\ y.by = x.by
     /\ y.todo = x.todo /\ y.s = x.s

(* An event_callback signals a thread, if it asks for what s (so) has.     *)
Signals(c, d, so, s) ==
  \/ d = c
  \/ /\ d.pc = c.pc /\ d.s = c.s /\ d.newconn = c.newconn /\ d.want = c.want /\ d.todo = c.todo
     /\ d.ready = c.ready /\ d.bad = c.bad /\ d.timedout = c.timedout /\ d.stolen = c.stolen
     /\ \E r \in EventReady(so) : <<s, r>> \in c.want

(* One turn of the loop.                                                   *)
LEMMA WalkIs ==
  ASSUME Local, NEW e \in Callers, ev[e].pc \in {"apply", "walk"}, NEW so,
         NEW k \in Nat \ {0}, NEW cl \in [Threads -> CallType], Walk(e, so, ev[e].s, k, cl)
  PROVE  /\ \E y : Moves(e, y) /\ Goes(ev[e], y)
         /\ \A u \in Threads : Signals(cl[u], call'[u], so, ev[e].s)
<1>1. ev[e] \in EventType /\ ev \in [Callers -> EventType] /\ ev[e].s \in Sockets
      /\ select_cb_list \in Seq(Threads) /\ Len(select_cb_list) \in Nat
  BY DEF Local, TypeOK, EventType
<1>2. CASE k > Len(select_cb_list)
  <2>1. EventDone(e) /\ call' = cl
    BY <1>2 DEF Walk
  <2>2. PICK y \in EventType : /\ Moves(e, y)
                               /\ IF Len(ev[e].todo) = 1 THEN y.pc = "idle"
                                  ELSE /\ y.pc = "call" /\ y.conn = ev[e].conn /\ y.by = ev[e].by
                                       /\ y.todo = Tail(ev[e].todo)
    BY <2>1, DoneIs
  <2>3. Goes(ev[e], y)
    BY <2>2 DEF Goes
  <2>4. \A u \in Threads : Signals(cl[u], call'[u], so, ev[e].s)
    BY <2>1 DEF Signals
  <2> QED
    BY <2>2, <2>3, <2>4
<1>3. CASE ~(k > Len(select_cb_list))
  <2> DEFINE s == ev[e].s
             t == select_cb_list[k]
             y == [ev[e] EXCEPT !.pc = "walk", !.s = s, !.next = k + 1, !.changed = FALSE]
             hit == ~cl[t].signalled /\ \E r \in EventReady(so) : <<s, r>> \in cl[t].want
             x == [cl[t] EXCEPT !.signalled = TRUE, !.sem = TRUE]
  <2>1. t \in Threads
    BY <1>1, <1>3
  <2>2. /\ call' = IF hit THEN [cl EXCEPT ![t].signalled = TRUE, ![t].sem = TRUE] ELSE cl
        /\ ev' = [ev EXCEPT ![e].pc = "walk", ![e].s = s, ![e].next = k + 1, ![e].changed = FALSE]
    BY <1>3 DEF Walk
  <2>3. [cl EXCEPT ![t].signalled = TRUE, ![t].sem = TRUE] = [cl EXCEPT ![t] = x]
    BY <2>1
  <2>4. Moves(e, y)
    BY <1>1, <2>2 DEF Moves
  <2>5. y.pc = "walk" /\ y.s = s /\ y.conn = ev[e].conn /\ y.by = ev[e].by /\ y.todo = ev[e].todo
    BY <1>1 DEF EventType
  <2>6. Goes(ev[e], y)
    BY <2>5 DEF Goes
  <2>7. cl[t] \in CallType
    BY <2>1
  <2>8. /\ x.pc = cl[t].pc /\ x.s = cl[t].s /\ x.newconn = cl[t].newconn /\ x.want = cl[t].want
        /\ x.todo = cl[t].todo /\ x.ready = cl[t].ready /\ x.bad = cl[t].bad
        /\ x.timedout = cl[t].timedout /\ x.stolen = cl[t].stolen
    BY <2>7 DEF CallType
  <2> HIDE DEF x, y
  <2>9. hit => Signals(cl[t], x, so, s)
    BY <2>8 DEF Signals
  <2>10. \A u \in Threads : Signals(cl[u], cl[u], so, s)
    BY DEF Signals
  <2>11. \A u \in Threads : call'[u] = IF hit /\ u = t THEN x ELSE cl[u]
    BY <2>1, <2>2, <2>3
  <2> HIDE DEF hit
  <2>12. \A u \in Threads : Signals(cl[u], call'[u], so, s)
    BY <2>9, <2>10, <2>11
  <2> QED
    BY <2>4, <2>6, <2>12
<1> QED
  BY <1>2, <1>3

(* A callback that goes on is for the same netconn.                        *)
LEMMA GoesMild ==
  ASSUME Local, Owned, NEW e \in Callers, ev[e].pc # "idle", NEW y, Goes(ev[e], y),
         \A b \in AllConns : nc'[b].state = nc[b].state /\ nc'[b].socket = nc[b].socket,
         \A s \in Sockets : SockMild(sock[s], sock'[s])
  PROVE  EventMild(ev[e], y, e, nc', sock')
<1>1. ev[e].conn \in AllConns /\ ev[e].s \in Sockets /\ EventOwn(ev[e], e, nc, sock, call)
  BY Typed DEF EventType, EventOK, Owned
<1>2. y.pc # "idle" => y.conn = ev[e].conn /\ y.by = ev[e].by
  BY DEF Goes
<1>3. y.pc \in {"apply", "walk"} => /\ ev[e].pc \in {"apply", "walk"} /\ y.s = ev[e].s
                                    /\ y.todo = ev[e].todo /\ y.conn = ev[e].conn
  BY DEF Goes
<1>4. nc[ev[e].conn].state = "open" => Len(ev[e].todo) = 1 /\ FromCore(Head(ev[e].todo), e)
  BY <1>1 DEF EventOwn
<1>5. y.pc # "idle" /\ nc'[y.conn].state = "open" => Len(y.todo) = 1 /\ FromCore(Head(y.todo), e)
  BY <1>1, <1>2, <1>4 DEF Goes
<1>6. y.pc \in {"apply", "walk"} => sock'[y.s].conn = y.conn /\ nc'[y.conn].socket = y.s
  BY <1>1, <1>3 DEF EventOwn, SockMild
<1> QED
  BY <1>2, <1>5, <1>6 DEF EventMild

(* The end of the step of a callback for the netconn c.                    *)
LEMMA CallbackKeeps ==
  ASSUME Local, Local', Owned, RcvEventIsExact, NEW e \in Callers, NEW y, Moves(e, y),
         EventMild(ev[e], y, e, nc', sock'),
         \A b \in AllConns : ConnMild(nc[b], nc'[b]),
         nc'[Listener].state = nc[Listener].state,
         \A s \in Sockets : SockMild(sock[s], sock'[s]) /\ sock'[s].lastdata = sock[s].lastdata,
         \A t \in Threads : CallLike(call[t], call'[t]),
         \A t \in Threads : ev[t].pc # "idle" => call'[t].pc = call[t].pc,
         \A t \in Threads : call[t].pc = "handover" =>
           sock'[call[t].s].rcvevent = sock[call[t].s].rcvevent,
         QueueOK(nc'[Listener].mbox, nc', call'),
         \A b \in AllConns : nc'[b].state = "open" => Exact(b, nc', sock', ev')
  PROVE  Owned' /\ RcvEventIsExact'
<1>0. \A t \in Threads : call[t].s \in Sockets
  BY Typed DEF CallType
<1>1. \A s \in Sockets : SockMild(sock[s], sock'[s])
  OBVIOUS
<1>2. \A f \in Callers : EventMild(ev[f], ev'[f], f, nc', sock')
  BY <1>1, OneMild
<1>3. Mild
  BY <1>0, <1>1, <1>2 DEF Mild
<1> QED
  BY <1>3, MildOwned, ExactIs

(* What an event does to the receive counter and to lastdata.              *)
LEMMA AppliedIs ==
  ASSUME NEW so \in SocketType, NEW evt \in Events, evt # "post"
  PROVE  /\ Applied(so, evt).lastdata = so.lastdata
         /\ Applied(so, evt).rcvevent = so.rcvevent + One(evt = "RCVPLUS") - One(evt = "RCVMINUS")
         /\ \A r \in EventReady(so) : (evt = "RCVMINUS" => r # "read") /\ (evt = "SENDMINUS" => r # "write")
              => r \in EventReady(Applied(so, evt))
<1>1. evt \in {"RCVPLUS", "RCVMINUS", "SENDPLUS", "SENDMINUS", "ERROR"} /\ so.rcvevent \in Int
  BY DEF Events, SocketType
<1>2. CASE evt = "RCVPLUS"
  <2>1. Applied(so, evt) = [so EXCEPT !.rcvevent = so.rcvevent + 1]
    BY <1>2, Zenon DEF Applied
  <2> QED
    BY <1>1, <1>2, <2>1 DEF SocketType, One, EventReady
<1>3. CASE evt = "RCVMINUS"
  <2>1. Applied(so, evt) = [so EXCEPT !.rcvevent = so.rcvevent - 1]
    BY <1>3, Zenon DEF Applied
  <2> QED
    BY <1>1, <1>3, <2>1 DEF SocketType, One, EventReady
<1>4. CASE evt = "SENDPLUS"
  <2>1. Applied(so, evt) = [so EXCEPT !.sendevent = TRUE]
    BY <1>4, Zenon DEF Applied
  <2> QED
    BY <1>1, <1>4, <2>1 DEF SocketType, One, EventReady
<1>5. CASE evt = "SENDMINUS"
  <2>1. Applied(so, evt) = [so EXCEPT !.sendevent = FALSE]
    BY <1>5, Zenon DEF Applied
  <2> QED
    BY <1>1, <1>5, <2>1 DEF SocketType, One, EventReady
<1>6. CASE evt = "ERROR"
  <2>1. Applied(so, evt) = [so EXCEPT !.errevent = TRUE]
    BY <1>6, Zenon DEF Applied
  <2> QED
    BY <1>1, <1>6, <2>1 DEF SocketType, One, EventReady
<1> QED
  BY <1>1, <1>2, <1>3, <1>4, <1>5, <1>6

(* What a thread loses by the event of somebody else.                      *)
Marks(c, d, s, K) ==
  /\ d.pc = c.pc /\ d.s = c.s /\ d.newconn = c.newconn /\ d.want = c.want /\ d.todo = c.todo
  /\ d.ready = c.ready /\ d.bad = c.bad /\ d.timedout = c.timedout /\ d.sem = c.sem
  /\ c.stolen => d.stolen
  /\ ~d.stolen => \A k \in K : <<s, k>> \notin c.want

(* The threads that Steal marks.                                           *)
LEMMA StealMarks ==
  ASSUME Local, NEW t, NEW s, NEW k, NEW u \in Threads
  PROVE  Marks(call[u], Steal(t, s, k)[u], s, IF u = t THEN {} ELSE {k})
<1> DEFINE d == [call[u] EXCEPT !.stolen = TRUE]
           hit == u # t /\ <<s, k>> \in call[u].want
<1>1. Steal(t, s, k)[u] = IF hit THEN d ELSE call[u]
  BY DEF Steal
<1>2. call[u] \in CallType
  BY Typed
<1>3. /\ d.pc = call[u].pc /\ d.s = call[u].s /\ d.newconn = call[u].newconn
      /\ d.want = call[u].want /\ d.todo = call[u].todo /\ d.ready = call[u].ready
      /\ d.bad = call[u].bad /\ d.timedout = call[u].timedout /\ d.sem = call[u].sem
      /\ d.stolen = TRUE
  BY <1>2 DEF CallType
<1> HIDE DEF d
<1>4. CASE hit
  <2>1. Steal(t, s, k)[u] = d
    BY <1>1, <1>4
  <2> QED
    BY <2>1, <1>3 DEF Marks
<1>5. CASE ~hit
  <2>1. Steal(t, s, k)[u] = call[u]
    BY <1>1, <1>5
  <2> QED
    BY <2>1, <1>5 DEF Marks
<1> QED
  BY <1>4, <1>5

(* What an event takes from a socket.                                      *)
Taken(evt) ==
  IF evt = "RCVMINUS" THEN {"read"} ELSE IF evt = "SENDMINUS" THEN {"write"} ELSE {}

(* The threads that an event marks.                                        *)
LEMMA StolenMarks ==
  ASSUME Local, NEW e, NEW s, NEW evt, NEW u \in Threads
  PROVE  Marks(call[u], Stolen(e, s, evt)[u], s, IF u = e THEN {} ELSE Taken(evt))
<1>1. CASE evt = "RCVMINUS"
  <2>1. Stolen(e, s, evt) = Steal(e, s, "read") /\ Taken(evt) = {"read"}
    BY <1>1, Zenon DEF Stolen, Taken
  <2>2. Marks(call[u], Steal(e, s, "read")[u], s, IF u = e THEN {} ELSE {"read"})
    BY StealMarks, Zenon
  <2> QED
    BY <2>1, <2>2, Zenon
<1>2. CASE evt = "SENDMINUS"
  <2>1. Stolen(e, s, evt) = Steal(e, s, "write")
    BY <1>2, Zenon DEF Stolen
  <2>2. Taken(evt) = {"write"}
    BY <1>2 DEF Taken
  <2>3. Marks(call[u], Steal(e, s, "write")[u], s, IF u = e THEN {} ELSE {"write"})
    BY StealMarks, Zenon
  <2> QED
    BY <2>1, <2>2, <2>3, Zenon
<1>3. CASE evt # "RCVMINUS" /\ evt # "SENDMINUS"
  <2>1. Stolen(e, s, evt) = call
    BY <1>3, Zenon DEF Stolen
  <2>2. Taken(evt) = {}
    BY <1>3 DEF Taken
  <2> QED
    BY <2>1, <2>2 DEF Marks
<1> QED
  BY <1>1, <1>2, <1>3

(* A thread that is marked and signalled stays where it is.                *)
LEMMA MarkedIsLike ==
  ASSUME NEW c, NEW d, NEW f, NEW so, NEW s, NEW K, Marks(c, d, s, K), Signals(d, f, so, s)
  PROVE  CallLike(c, f) /\ f.pc = c.pc
  BY DEF Marks, Signals, CallLike

(* A callback that goes on carries an event at most as long as its netconn *)
(* is not open.                                                            *)
LEMMA GoesCarries ==
  ASSUME Local, Owned, NEW e \in Callers, ev[e].pc # "idle", NEW y, Goes(ev[e], y),
         nc[ev[e].conn].state = "open"
  PROVE  \A v : ~Carries(y, ev[e].conn, v)
<1>1. EventOwn(ev[e], e, nc, sock, call)
  BY DEF Owned
<1>2. Len(ev[e].todo) = 1
  BY <1>1 DEF EventOwn
<1> QED
  BY <1>2 DEF Goes, Carries

(* event_callback counts the event in the socket.                          *)
LEMMA EventApplyKeeps ==
  ASSUME Local, Local', Owned, RcvEventIsExact, NEW e \in Callers, EventApply(e)
  PROVE  Owned' /\ RcvEventIsExact'
<1> DEFINE s == ev[e].s
           c == ev[e].conn
           evt == Head(ev[e].todo)
           so == Applied(sock[s], evt)
           cl == Stolen(e, s, evt)
<1>1. /\ ev[e] \in EventType /\ EventOK(ev[e]) /\ ev[e].pc = "apply"
      /\ sock \in [Sockets -> SocketType] /\ EventOwn(ev[e], e, nc, sock, call)
  BY DEF Local, TypeOK, EventApply, Owned
<1>2. s \in Sockets /\ ev[e].todo \in Seq(Events) /\ ev[e].todo # <<>> /\ evt # "post" /\ c \in AllConns
  BY <1>1 DEF EventType, EventOK
<1>3. evt \in Events /\ sock[s] \in SocketType /\ sock[s].conn = c /\ nc[c].socket = s
  BY <1>1, <1>2 DEF EventOwn
<1>4. sock' = [sock EXCEPT ![s] = so] /\ nc' = nc
      /\ IF so.select_waiting = 0 THEN EventDone(e) /\ call' = cl ELSE Walk(e, so, s, 1, cl)
  BY DEF EventApply
<1>5. \A u \in Threads : Marks(call[u], cl[u], s, IF u = e THEN {} ELSE Taken(evt))
  BY StolenMarks
<1>6. cl \in [Threads -> CallType]
  BY StolenIsSteal
<1> HIDE DEF evt
<1>7. so.lastdata = sock[s].lastdata /\ so.conn = c
      /\ so.rcvevent = sock[s].rcvevent + One(evt = "RCVPLUS") - One(evt = "RCVMINUS")
  BY <1>2, <1>3, AppliedOK, AppliedIs
<1> HIDE DEF so, cl
<1>8. (\E y : Moves(e, y) /\ Goes(ev[e], y)) /\ \A u \in Threads : Signals(cl[u], call'[u], so, s)
  <2>1. CASE so.select_waiting = 0
    <3>1. EventDone(e) /\ call' = cl /\ ev[e].pc # "idle"
      BY <1>1, <1>4, <2>1
    <3>2. \E y : Moves(e, y) /\ Goes(ev[e], y)
      BY <3>1, DoneIs DEF Goes
    <3> QED
      BY <3>1, <3>2 DEF Signals
  <2>2. CASE so.select_waiting # 0
    <3>1. Walk(e, so, s, 1, cl) /\ 1 \in Nat \ {0} /\ ev[e].pc \in {"apply", "walk"}
      BY <1>1, <1>4, <2>2
    <3> QED
      BY <1>6, <3>1, WalkIs
  <2> QED
    BY <2>1, <2>2
<1>9. PICK y : Moves(e, y) /\ Goes(ev[e], y)
  BY <1>8
<1>10. \A r \in Sockets : sock'[r] = IF r = s THEN so ELSE sock[r]
  BY <1>1, <1>2, <1>4
<1>11. \A r \in Sockets : SockMild(sock[r], sock'[r]) /\ sock'[r].lastdata = sock[r].lastdata
  BY <1>3, <1>7, <1>10 DEF SockMild
<1>12. \A t \in Threads : CallLike(call[t], call'[t]) /\ call'[t].pc = call[t].pc
  BY <1>5, <1>8, MarkedIsLike
<1>13. \A b \in AllConns : ConnMild(nc[b], nc'[b]) /\ nc'[b].state = nc[b].state /\ nc'[b].socket = nc[b].socket
  BY <1>4 DEF ConnMild
<1>14. EventMild(ev[e], y, e, nc', sock')
  <2>1. \A r \in Sockets : SockMild(sock[r], sock'[r])
    BY <1>11
  <2> QED
    BY <2>1, <1>1, <1>9, <1>13, GoesMild
<1>15. ASSUME NEW t \in Threads, call[t].pc = "handover"
       PROVE  sock'[call[t].s].rcvevent = sock[call[t].s].rcvevent
  <2>1. NewConnOK(call[t], nc, sock) /\ call[t].s \in Sockets
    BY Typed DEF Owned, CallType
  <2>2. sock[call[t].s].conn = call[t].newconn /\ nc[call[t].newconn].socket < 0
    BY <2>1, <1>15 DEF NewConnOK, NewConnPcs, Fresh
  <2>3. call[t].s # s
    BY <2>2, <1>2, <1>3, SocketsAssumption DEF Sockets
  <2> QED
    BY <2>1, <2>3, <1>10
<1>16. ASSUME NEW b \in AllConns, nc'[b].state = "open" PROVE Exact(b, nc', sock', ev')
  <2>0. nc[b].state = "open"
    BY <1>4, <1>16
  <2>1. CASE b = c
    <3>1. Carries(ev[e], c, "RCVPLUS") <=> evt = "RCVPLUS"
      BY <1>1 DEF Carries, evt
    <3>2. Carries(ev[e], c, "RCVMINUS") <=> evt = "RCVMINUS"
      BY <1>1 DEF Carries, evt
    <3>3. \A v : ~Carries(y, c, v)
      BY <1>1, <1>9, <2>0, <2>1, GoesCarries
    <3> DEFINE dl == One(evt = "RCVPLUS") - One(evt = "RCVMINUS")
    <3>4. dl \in Int /\ 0 \in Int
      BY DEF One
    <3>5. Balance(ev[e], y, c, dl, 0)
      BY <3>1, <3>2, <3>3 DEF Balance, One
    <3>6. Level(c, nc', sock') = Level(c, nc, sock) + dl
      <4>1. Level(c, nc, sock) = sock[s].rcvevent /\ Level(c, nc', sock') = so.rcvevent
        BY <1>2, <1>3, <1>4, <1>10, SocketsAssumption DEF Level, Sockets
      <4>2. sock[s].rcvevent \in Int
        BY <1>3 DEF SocketType
      <4> QED
        BY <4>1, <4>2, <1>7 DEF One
    <3> HIDE DEF dl
    <3>7. Len(nc'[c].mbox) = Len(nc[c].mbox) + 0
      BY <1>2, <1>4, LevelType
    <3> QED
      BY <1>2, <1>9, <2>0, <2>1, <3>4, <3>5, <3>6, <3>7, Balanced
  <2>2. CASE b # c
    <3>1. nc[b].socket \in Sockets => nc[b].socket # s
      BY <2>0, <2>2, <1>3 DEF Owned, ConnSlots, Sockets
    <3>2. Level(b, nc', sock') = Level(b, nc, sock)
      BY <3>1, <1>4, <1>10, SameLevel
    <3>3. y.pc # "idle" => y.conn # b
      BY <1>9, <2>2 DEF Goes
    <3> QED
      BY <1>4, <1>9, <2>0, <2>2, <3>2, <3>3, OthersExact
  <2> QED
    BY <2>1, <2>2
<1>17. QueueOK(nc'[Listener].mbox, nc', call')
  <2>1. \A b \in AllConns : ConnMild(nc[b], nc'[b])
    BY <1>13
  <2>2. \A t \in Threads : CallLike(call[t], call'[t])
    BY <1>12
  <2> QED
    BY <2>1, <2>2, <1>4, QueueKept
<1> HIDE DEF s, c
<1> QED
  BY <1>4, <1>9, <1>11, <1>12, <1>13, <1>14, <1>15, <1>16, <1>17, CallbackKeeps

(* The walk over the list touches no counter.                              *)
LEMMA EventWalkKeeps ==
  ASSUME Local, Local', Owned, RcvEventIsExact, NEW e \in Callers, EventWalk(e)
  PROVE  Owned' /\ RcvEventIsExact'
<1> DEFINE s == ev[e].s
           k == IF ev[e].changed THEN 1 ELSE ev[e].next
<1>1. s \in Sockets /\ k \in Nat \ {0} /\ call \in [Threads -> CallType] /\ ev[e].pc = "walk"
  BY DEF Local, TypeOK, EventType, EventWalk
<1>2. Walk(e, sock[s], s, k, call) /\ sock' = sock /\ nc' = nc
  BY DEF EventWalk
<1> HIDE DEF k
<1>3. (\E y : Moves(e, y) /\ Goes(ev[e], y)) /\ \A u \in Threads : Signals(call[u], call'[u], sock[s], s)
  BY <1>1, <1>2, WalkIs
<1>4. PICK y : Moves(e, y) /\ Goes(ev[e], y)
  BY <1>3
<1>5. \A t \in Threads : CallLike(call[t], call'[t]) /\ call'[t].pc = call[t].pc
  BY <1>3 DEF Signals, CallLike
<1>6. \A r \in Sockets : SockMild(sock[r], sock'[r]) /\ sock'[r].lastdata = sock[r].lastdata
  BY <1>2 DEF SockMild
<1>7. \A b \in AllConns : ConnMild(nc[b], nc'[b]) /\ nc'[b].state = nc[b].state /\ nc'[b].socket = nc[b].socket
  BY <1>2 DEF ConnMild
<1>8. EventMild(ev[e], y, e, nc', sock')
  <2>1. \A r \in Sockets : SockMild(sock[r], sock'[r])
    BY <1>6
  <2> QED
    BY <2>1, <1>1, <1>4, <1>7, GoesMild
<1>9. ASSUME NEW b \in AllConns, nc'[b].state = "open" PROVE Exact(b, nc', sock', ev')
  <2>0. nc[b].state = "open"
    BY <1>2, <1>9
  <2>1. \A v : ~Carries(ev[e], b, v)
    BY <1>1 DEF Carries
  <2>2. \A v : ~Carries(y, b, v)
    <3>1. CASE b = ev[e].conn
      BY <3>1, <2>0, <1>1, <1>4, GoesCarries
    <3>2. CASE b # ev[e].conn
      BY <3>2, <1>4 DEF Goes, Carries
    <3> QED
      BY <3>1, <3>2
  <2>3. Balance(ev[e], y, b, 0, 0) /\ 0 \in Int
    BY <2>1, <2>2 DEF Balance, One
  <2>4. Level(b, nc', sock') = Level(b, nc, sock) + 0 /\ Len(nc'[b].mbox) = Len(nc[b].mbox) + 0
    BY <1>2, LevelType
  <2> QED
    BY <2>0, <2>3, <2>4, <1>4, Balanced
<1>10. QueueOK(nc'[Listener].mbox, nc', call')
  <2>1. \A b \in AllConns : ConnMild(nc[b], nc'[b])
    BY <1>7
  <2>2. \A t \in Threads : CallLike(call[t], call'[t])
    BY <1>5
  <2> QED
    BY <2>1, <2>2, <1>2, QueueKept
<1> QED
  BY <1>2, <1>4, <1>5, <1>6, <1>7, <1>8, <1>9, <1>10, CallbackKeeps

(* err_tcp posts to a mailbox whose netconn is not open any more.          *)
LEMMA EventPostKeeps ==
  ASSUME Local, Local', Owned, RcvEventIsExact, NEW e \in Callers, EventPost(e)
  PROVE  Owned' /\ RcvEventIsExact'
<1> DEFINE c == ev[e].conn
           n == [nc[c] EXCEPT !.mbox = Append(nc[c].mbox, NULL)]
<1>1. ev[e].pc = "call" /\ Head(ev[e].todo) = "post" /\ sock' = sock /\ call' = call /\ EventDone(e)
  BY DEF EventPost
<1>2. c \in AllConns /\ EventOwn(ev[e], e, nc, sock, call) /\ nc \in [AllConns -> ConnType]
  BY <1>1, Typed DEF EventOK, Owned, Local, TypeOK
<1>3. nc[c].state \notin {"new", "open"}
  BY <1>1, <1>2 DEF EventOwn, FromCore
<1>4. c # Listener
  BY <1>3 DEF Owned, ConnSlots
<1>5. n.state = nc[c].state /\ n.socket = nc[c].socket
  BY <1>2 DEF ConnType
<1>6. nc' = [nc EXCEPT ![c] = n]
  BY <1>2 DEF EventPost
<1> HIDE DEF n
<1>7. \A b \in AllConns : nc'[b] = IF b = c THEN n ELSE nc[b]
  BY <1>2, <1>6
<1>8. Listener \in AllConns
  BY DEF AllConns
<1>9. PICK y : Moves(e, y) /\ Goes(ev[e], y)
  BY <1>1, DoneIs DEF Goes
<1>10. \A b \in AllConns : ConnMild(nc[b], nc'[b]) /\ nc'[b].state = nc[b].state /\ nc'[b].socket = nc[b].socket
  BY <1>3, <1>5, <1>7 DEF ConnMild
<1>11. \A r \in Sockets : SockMild(sock[r], sock'[r]) /\ sock'[r].lastdata = sock[r].lastdata
  BY <1>1 DEF SockMild
<1>12. \A t \in Threads : CallLike(call[t], call'[t])
  BY <1>1 DEF CallLike
<1>13. EventMild(ev[e], y, e, nc', sock')
  <2>1. \A r \in Sockets : SockMild(sock[r], sock'[r])
    BY <1>11
  <2> QED
    BY <2>1, <1>1, <1>9, <1>10, GoesMild
<1>14. ASSUME NEW b \in AllConns, nc'[b].state = "open" PROVE Exact(b, nc', sock', ev')
  <2>1. b # c /\ nc'[b] = nc[b]
    BY <1>3, <1>5, <1>7, <1>14
  <2>2. Level(b, nc', sock') = Level(b, nc, sock)
    BY <1>1, <2>1, SameLevel
  <2>3. y.pc # "idle" => y.conn # b
    BY <1>9, <2>1, <1>1 DEF Goes
  <2> QED
    BY <1>9, <1>14, <2>1, <2>2, <2>3, OthersExact
<1>15. QueueOK(nc'[Listener].mbox, nc', call')
  <2>1. \A b \in AllConns : ConnMild(nc[b], nc'[b])
    BY <1>10
  <2> QED
    BY <2>1, <1>4, <1>7, <1>8, <1>12, QueueKept
<1> QED
  BY <1>1, <1>8, <1>9, <1>10, <1>11, <1>12, <1>13, <1>14, <1>15, CallbackKeeps

-----------------------------------------------------------------------------
(* The callbacks of the stack.                                             *)

(* The callback that is raised.                                            *)
LEMMA RaiseMoves ==
  ASSUME NEW e, NEW c, NEW todo, NEW by, ev' = Raise(e, c, todo, by)
  PROVE  \E y : /\ Moves(e, y) /\ y.pc = "call" /\ y.conn = c /\ y.todo = todo /\ y.by = by
<1> DEFINE y == [NoEvent EXCEPT !.pc = "call", !.conn = c, !.todo = todo, !.by = by]
<1>1. y.pc = "call" /\ y.conn = c /\ y.todo = todo /\ y.by = by
  BY DEF NoEvent
<1>2. Moves(e, y)
  BY DEF Raise, Moves
<1> QED
  BY <1>1, <1>2

(* A callback of the stack for the open netconn c, that posts d messages   *)
(* to its mailbox.                                                         *)
LEMMA StackKeeps ==
  ASSUME Local, Local', Owned, RcvEventIsExact, NEW c \in AllConns, NEW todo, NEW d \in Nat,
         ev[Core].pc = "idle", nc[c].state = "open", ev' = Raise(Core, c, todo, Core),
         sock' = sock, call' = call,
         nc'[c].socket = nc[c].socket, nc'[c].state \in {"open", "err"},
         c = Listener => nc'[c].state = "open",
         nc'[c].state = "open" =>
           /\ Len(todo) = 1 /\ FromCore(Head(todo), Core)
           /\ Len(nc'[c].mbox) = Len(nc[c].mbox) + d /\ d = One(Head(todo) = "RCVPLUS"),
         \A b \in AllConns : b # c => nc'[b] = nc[b] \/ (/\ nc[b].state = "new"
                               /\ nc'[b].state = "open" /\ nc'[b].mbox = nc[b].mbox
                               /\ nc'[b].socket = nc[b].socket),
         QueueOK(nc'[Listener].mbox, nc', call')
  PROVE  Owned' /\ RcvEventIsExact'
<1>0. Core \in Callers /\ Listener \in AllConns /\ 0 \in Int
  BY DEF Callers, AllConns
<1>1. PICK y : Moves(Core, y) /\ y.pc = "call" /\ y.conn = c /\ y.todo = todo /\ y.by = Core
  BY RaiseMoves
<1>2. nc[Listener].state = "open"
  BY DEF Owned, ConnSlots
<1>3. \A b \in AllConns : ConnMild(nc[b], nc'[b])
  BY DEF ConnMild
<1>4. nc'[Listener].state = nc[Listener].state
  BY <1>0, <1>2
<1>5. \A r \in Sockets : SockMild(sock[r], sock'[r]) /\ sock'[r].lastdata = sock[r].lastdata
  BY DEF SockMild
<1>6. \A t \in Threads : CallLike(call[t], call'[t])
  BY DEF CallLike
<1>7. EventMild(ev[Core], y, Core, nc', sock')
  BY <1>1 DEF EventMild
<1>8. ASSUME NEW b \in AllConns, nc'[b].state = "open" PROVE Exact(b, nc', sock', ev')
  <2>1. CASE b = c
    <3>1. /\ Carries(y, c, "RCVPLUS") <=> Head(todo) = "RCVPLUS"
          /\ ~Carries(y, c, "RCVMINUS")
      BY <1>1, <1>8, <2>1 DEF Carries, FromCore
    <3>2. \A v : ~Carries(ev[Core], c, v)
      BY DEF Carries
    <3>3. Balance(ev[Core], y, c, 0, d)
      BY <3>1, <3>2, <1>8, <2>1 DEF Balance, One
    <3>4. Level(c, nc', sock') = Level(c, nc, sock) + 0
      <4>1. Level(c, nc', sock') = Level(c, nc, sock)
        BY SameLevel
      <4> QED
        BY <4>1, LevelType
    <3> QED
      BY <1>0, <1>1, <1>8, <2>1, <3>3, <3>4, Balanced
  <2>2. CASE b # c /\ nc'[b] = nc[b]
    <3>1. Level(b, nc', sock') = Level(b, nc, sock)
      BY <2>2, SameLevel
    <3> QED
      BY <1>0, <1>1, <1>8, <2>2, <3>1, OthersExact
  <2>3. CASE b # c /\ nc[b].state = "new"
    <3>1. nc[b].socket = -1 /\ nc[b].mbox = <<>>
      BY <2>3 DEF Owned, ConnSlots
    <3>2. nc'[b].socket = -1 /\ nc'[b].mbox = <<>>
      BY <3>1, <2>3
    <3>3. \A v : Carriers(ev, b, v) = {}
      BY <2>3 DEF Carriers, Carries, Owned, EventOwn
    <3>4. \A f \in Callers : ev'[f] = IF f = Core THEN y ELSE ev[f]
      BY <1>0, <1>1 DEF Moves, Local, TypeOK
    <3>5. \A v : Carriers(ev', b, v) = {}
      BY <1>1, <2>3, <3>3, <3>4 DEF Carriers, Carries
    <3>6. \A v : Number(ev', b, v) = 0
      BY <3>5, FS_EmptySet DEF Number
    <3> QED
      BY <3>2, <3>6 DEF Exact, Level
  <2> QED
    BY <2>1, <2>2, <2>3
<1> QED
  BY <1>0, <1>1, <1>3, <1>4, <1>5, <1>6, <1>7, <1>8, CallbackKeeps

(* accept_function: a netconn is made and posted to the acceptmbox.        *)
LEMMA AcceptFunctionKeeps ==
  ASSUME Local, Local', Owned, RcvEventIsExact, NEW c \in Conns \cup {NULL}, accept_function(c)
  PROVE  Owned' /\ RcvEventIsExact'
<1> DEFINE q == nc[Listener].mbox
           n == [nc[Listener] EXCEPT !.mbox = Append(q, c)]
           m == [nc[c] EXCEPT !.state = "open"]
<1>1. /\ Listener \in AllConns /\ nc \in [AllConns -> ConnType] /\ nc[Listener] \in ConnType
      /\ q \in Seq(AllConns \cup {NULL}) /\ nc[Listener].state = "open" /\ nc[Listener].socket = 0
      /\ c \in Conns => c \in AllConns /\ c # Listener /\ c # NULL
  BY SocketsAssumption DEF AllConns, Local, TypeOK, ConnType, Owned, ConnSlots
<1>2. n.state = nc[Listener].state /\ n.socket = nc[Listener].socket /\ n.mbox = Append(q, c)
  BY <1>1 DEF ConnType
<1>3. c # NULL => nc[c].state = "new" /\ m.state = "open" /\ m.socket = nc[c].socket /\ m.mbox = nc[c].mbox
  BY <1>1 DEF ConnType, accept_function
<1>4. ev[Core].pc = "idle" /\ ev' = Raise(Core, Listener, <<"RCVPLUS">>, Core) /\ sock' = sock /\ call' = call
  BY DEF accept_function, Callback, CoreFree
<1>5. nc' = IF c = NULL THEN [nc EXCEPT ![Listener] = n] ELSE [nc EXCEPT ![c] = m, ![Listener] = n]
  BY <1>1 DEF accept_function
<1> HIDE DEF n, m
<1>6. \A b \in AllConns : nc'[b] = IF b = Listener THEN n ELSE IF c # NULL /\ b = c THEN m ELSE nc[b]
  BY <1>1, <1>5
<1>7. \A b \in AllConns : ConnMild(nc[b], nc'[b])
  BY <1>1, <1>2, <1>3, <1>6 DEF ConnMild
<1>8. QueueOK(nc'[Listener].mbox, nc', call')
  <2>0. QueueOK(q, nc, call)
    BY DEF Owned
  <2>1. nc'[Listener].mbox = Append(q, c) /\ Len(Append(q, c)) = Len(q) + 1 /\ Len(q) \in Nat
    BY <1>1, <1>2, <1>6
  <2>2. \A i \in 1 .. Len(q) : Append(q, c)[i] = q[i]
    BY <1>1
  <2>3. Append(q, c)[Len(q) + 1] = c
    BY <1>1
  <2>4. c # NULL => c \in Conns /\ ~Fresh(c, nc) /\ Fresh(c, nc')
    <3>1. c # NULL => c \in AllConns /\ nc[c].socket = -1 /\ c \in Conns
      BY <1>1, <1>3 DEF Owned, ConnSlots
    <3>2. c # NULL => nc'[c] = m
      BY <1>1, <1>6
    <3> QED
      BY <1>3, <3>1, <3>2 DEF Fresh
  <2>5. \A i \in 1 .. Len(q) : q[i] # NULL => q[i] # c
    BY <2>0, <2>4 DEF QueueOK
  <2>6. \A t \in Threads : c # NULL /\ call[t].pc \in NewConnPcs => call[t].newconn # c
    BY <2>4 DEF Owned, NewConnOK
  <2> DEFINE r == Append(q, c)
  <2>7. \A i \in 1 .. Len(r) : i \in 1 .. Len(q) \/ i = Len(q) + 1
    BY <2>1
  <2> SUFFICES QueueOK(r, nc', call')
    BY <2>1
  <2>8. \A i \in 1 .. Len(q) : r[i] = q[i]
    BY <2>2
  <2>9. r[Len(q) + 1] = c
    BY <2>3
  <2> HIDE DEF r, q
  <2>10. \A i, j \in 1 .. Len(r) : i # j /\ r[i] # NULL => r[i] # r[j]
    BY <2>0, <2>5, <2>7, <2>8, <2>9 DEF QueueOK
  <2>11. \A i \in 1 .. Len(r) : r[i] # NULL => Fresh(r[i], nc')
    BY <2>0, <2>4, <2>7, <2>8, <2>9, <1>7, FreshKept DEF QueueOK
  <2>12. \A i \in 1 .. Len(r) : r[i] # NULL =>
           \A t \in Threads : call'[t].pc \in NewConnPcs => call'[t].newconn # r[i]
    BY <2>0, <2>6, <2>7, <2>8, <2>9, <1>4 DEF QueueOK
  <2> QED
    BY <2>10, <2>11, <2>12 DEF QueueOK
<1>9. /\ nc'[Listener].socket = nc[Listener].socket /\ nc'[Listener].state = "open"
      /\ Len(nc'[Listener].mbox) = Len(nc[Listener].mbox) + 1
  BY <1>1, <1>2, <1>6
<1>10. Len(<<"RCVPLUS">>) = 1 /\ FromCore(Head(<<"RCVPLUS">>), Core) /\ 1 = One(Head(<<"RCVPLUS">>) = "RCVPLUS")
  BY DEF FromCore, One
<1>11. \A b \in AllConns : b # Listener => nc'[b] = nc[b] \/ (/\ nc[b].state = "new"
                             /\ nc'[b].state = "open" /\ nc'[b].mbox = nc[b].mbox
                             /\ nc'[b].socket = nc[b].socket)
  BY <1>3, <1>6
<1> DEFINE todo == <<"RCVPLUS">>
<1>12. Len(todo) = 1 /\ FromCore(Head(todo), Core) /\ 1 = One(Head(todo) = "RCVPLUS")
       /\ ev' = Raise(Core, Listener, todo, Core) /\ 1 \in Nat
  BY <1>4, <1>10
<1> HIDE DEF todo
<1> QED
  BY <1>1, <1>4, <1>8, <1>9, <1>11, <1>12, StackKeeps

(* The callbacks for a connection.                                         *)
LEMMA ConnStackKeeps ==
  ASSUME Local, Local', Owned, RcvEventIsExact, NEW c \in Conns,
         recv_tcp(c) \/ lwip_netconn_do_writemore(c) \/ sent_tcp(c) \/ err_tcp(c)
  PROVE  Owned' /\ RcvEventIsExact'
<1>1. /\ c \in AllConns /\ c # Listener /\ nc \in [AllConns -> ConnType] /\ nc[c] \in ConnType
      /\ Len(nc[c].mbox) \in Nat /\ Listener \in AllConns
  BY SocketsAssumption DEF AllConns, Local, TypeOK, ConnType
<1>2. ev[Core].pc = "idle" /\ nc[c].state = "open" /\ sock' = sock /\ call' = call
  BY DEF recv_tcp, lwip_netconn_do_writemore, sent_tcp, err_tcp, Callback, CoreFree
<1>3. ASSUME NEW n, NEW todo, NEW d \in Nat, nc' = [nc EXCEPT ![c] = n],
             n.socket = nc[c].socket, n.state \in {"open", "err"},
             ev' = Raise(Core, c, todo, Core),
             n.state = "open" => /\ Len(todo) = 1 /\ FromCore(Head(todo), Core)
                                 /\ Len(n.mbox) = Len(nc[c].mbox) + d /\ d = One(Head(todo) = "RCVPLUS")
      PROVE  Owned' /\ RcvEventIsExact'
  <2>1. \A b \in AllConns : nc'[b] = IF b = c THEN n ELSE nc[b]
    BY <1>1, <1>3
  <2>2. \A b \in AllConns : ConnMild(nc[b], nc'[b])
    BY <2>1, <1>2, <1>3 DEF ConnMild
  <2>3. QueueOK(nc'[Listener].mbox, nc', call')
    <3>1. \A t \in Threads : CallLike(call[t], call'[t])
      BY <1>2 DEF CallLike
    <3> QED
      BY <3>1, <1>1, <2>1, <2>2, QueueKept
  <2>4. nc'[c] = n
    BY <1>1, <2>1
  <2>5. \A b \in AllConns : b # c => nc'[b] = nc[b]
    BY <2>1
  <2> QED
    BY <1>1, <1>2, <1>3, <2>3, <2>4, <2>5, StackKeeps
<1>4. CASE recv_tcp(c)
  <2> DEFINE n == [nc[c] EXCEPT !.mbox = Append(nc[c].mbox, NULL)]
             todo == <<"RCVPLUS">>
  <2>1. nc' = [nc EXCEPT ![c] = n] /\ ev' = Raise(Core, c, todo, Core)
    BY <1>4, <1>1 DEF recv_tcp
  <2>2. n.socket = nc[c].socket /\ n.state = "open" /\ Len(n.mbox) = Len(nc[c].mbox) + 1
    BY <1>1, <1>2 DEF ConnType
  <2>3. Len(todo) = 1 /\ FromCore(Head(todo), Core) /\ 1 = One(Head(todo) = "RCVPLUS") /\ 1 \in Nat
    BY DEF FromCore, One
  <2> HIDE DEF n, todo
  <2> QED
    BY <2>1, <2>2, <2>3, <1>3
<1>5. CASE lwip_netconn_do_writemore(c) \/ sent_tcp(c)
  <2>1. PICK a \in BOOLEAN, v \in {"SENDMINUS", "SENDPLUS"} :
          nc' = [nc EXCEPT ![c].checkspace = a] /\ ev' = Raise(Core, c, <<v>>, Core)
    BY <1>5 DEF lwip_netconn_do_writemore, sent_tcp
  <2> DEFINE n == [nc[c] EXCEPT !.checkspace = a]
             todo == <<v>>
  <2>2. nc' = [nc EXCEPT ![c] = n] /\ ev' = Raise(Core, c, todo, Core)
    BY <2>1, <1>1
  <2>3. n.socket = nc[c].socket /\ n.state = "open" /\ Len(n.mbox) = Len(nc[c].mbox) + 0
    BY <1>1, <1>2 DEF ConnType
  <2>4. Len(todo) = 1 /\ FromCore(Head(todo), Core) /\ 0 = One(Head(todo) = "RCVPLUS") /\ 0 \in Nat
    BY DEF FromCore, One
  <2> HIDE DEF n, todo
  <2> QED
    BY <2>2, <2>3, <2>4, <1>3
<1>6. CASE err_tcp(c)
  <2> DEFINE n == [nc[c] EXCEPT !.state = "err"]
             todo == <<"ERROR", "RCVPLUS", "SENDPLUS", "post">>
  <2>1. nc' = [nc EXCEPT ![c] = n] /\ ev' = Raise(Core, c, todo, Core)
    BY <1>6, <1>1 DEF err_tcp
  <2>2. n.socket = nc[c].socket /\ n.state = "err"
    BY <1>1, <1>2 DEF ConnType
  <2> HIDE DEF n, todo
  <2>3. 0 \in Nat /\ n.state # "open"
    BY <2>2
  <2> QED
    BY <2>1, <2>2, <2>3, <1>3
<1> QED
  BY <1>4, <1>5, <1>6

-----------------------------------------------------------------------------
(* The threads.                                                            *)

(* Nothing happens to an open netconn, and no event is raised or applied.  *)
LEMMA StayExact ==
  ASSUME RcvEventIsExact, ev' = ev,
         \A c \in AllConns : nc'[c].state = "open" =>
           /\ nc[c].state = "open" /\ Len(nc'[c].mbox) = Len(nc[c].mbox)
           /\ Level(c, nc', sock') = Level(c, nc, sock)
  PROVE  RcvEventIsExact'
  BY ExactIs DEF Exact

(* An event that the step does not concern.                                *)
LEMMA EventStaysOwn ==
  ASSUME Local, Owned, NEW f \in Callers,
         ev[f].pc # "idle" =>
           /\ nc'[ev[f].conn].state = nc[ev[f].conn].state
           /\ nc'[ev[f].conn].socket = nc[ev[f].conn].socket
           /\ ev[f].pc \in {"apply", "walk"} => sock'[ev[f].s].conn = sock[ev[f].s].conn,
         f \in Threads /\ ev[f].pc # "idle" =>
           /\ call'[f].pc = call[f].pc /\ call'[f].s = call[f].s
           /\ call[f].pc = "recv" => sock'[call[f].s].conn = sock[call[f].s].conn,
         f = Core /\ ev[f].pc # "idle" /\ ev[f].by \in Threads /\ call[ev[f].by].pc = "closing" =>
           /\ call'[ev[f].by].pc = "closing" /\ call'[ev[f].by].s = call[ev[f].by].s
           /\ sock'[call[ev[f].by].s].conn = sock[call[ev[f].by].s].conn
  PROVE  EventOwn(ev[f], f, nc', sock', call')
<1>1. EventOwn(ev[f], f, nc, sock, call)
  BY DEF Owned
<1>2. f # Core => f \in Threads
  BY DEF Callers
<1> QED
  BY <1>1, <1>2 DEF EventOwn

(* A thread at the end of its call, or not in any, holds nothing.          *)
LEMMA HoldsNothing ==
  ASSUME NEW c, c.pc \notin NewConnPcs, c.pc \notin {"recv", "closing"}
  PROVE  /\ \A N, S : NewConnOK(c, N, S) /\ HoldsOK(c, N, S)
         /\ \A d : Apart(c, d) /\ Apart(d, c)
  BY DEF NewConnOK, HoldsOK, Apart

(* What a thread in lwip_recvfrom or lwip_close holds.                     *)
LEMMA HeldSocket ==
  ASSUME Local, Owned, NEW t \in Threads, call[t].pc \in {"recv", "closing"}
  PROVE  /\ call[t].s \in Sockets /\ call[t].s >= 0 /\ sock[call[t].s].conn \in Conns
         /\ sock[call[t].s].conn \in AllConns /\ nc[sock[call[t].s].conn].socket = call[t].s
         /\ call[t].pc = "closing" <=> nc[sock[call[t].s].conn].state = "closed"
         /\ call[t].pc = "recv" => ~sock[call[t].s].lastdata
         /\ \A u \in Threads : u # t /\ call[u].pc \in {"recv", "closing"} => call[u].s # call[t].s
<1>1. call[t].s \in Sockets /\ call[t].s >= 0
  BY Typed DEF CallType, Sockets
<1>2. HoldsOK(call[t], nc, sock) /\ \A u \in Threads : u # t => Apart(call[t], call[u])
  BY DEF Owned
<1> QED
  BY <1>1, <1>2 DEF HoldsOK, Apart, AllConns

(* What a thread in lwip_accept holds.                                     *)
LEMMA HeldConn ==
  ASSUME Local, Owned, NEW t \in Threads, call[t].pc \in NewConnPcs
  PROVE  /\ call[t].newconn \in Conns /\ call[t].newconn \in AllConns
         /\ call[t].newconn # Listener /\ call[t].newconn # NULL
         /\ nc[call[t].newconn].socket < 0 /\ nc[call[t].newconn].socket \in Int
         /\ nc[call[t].newconn].state \in {"open", "err"} /\ call[t].s \in Sockets
         /\ call[t].pc # "alloc" => sock[call[t].s].conn = call[t].newconn
         /\ call[t].pc = "handover" => sock[call[t].s].rcvevent = 0
         /\ \A u \in Threads : u # t /\ call[u].pc \in NewConnPcs => call[u].newconn # call[t].newconn
         /\ \A i \in 1 .. Len(nc[Listener].mbox) : nc[Listener].mbox[i] # call[t].newconn
<1>1. NewConnOK(call[t], nc, sock) /\ \A u \in Threads : u # t => Apart(call[t], call[u])
  BY DEF Owned
<1>2. call[t].newconn \in Conns /\ call[t].newconn # Listener /\ call[t].newconn # NULL
      /\ call[t].newconn \in AllConns
  BY <1>1, SocketsAssumption DEF NewConnOK, Fresh, AllConns
<1>3. nc[call[t].newconn].socket \in Int /\ call[t].s \in Sockets
  BY <1>2, Typed DEF ConnType, CallType
<1>4. \A i \in 1 .. Len(nc[Listener].mbox) : nc[Listener].mbox[i] # call[t].newconn
  BY <1>2 DEF Owned, QueueOK
<1> QED
  BY <1>1, <1>2, <1>3, <1>4 DEF NewConnOK, Fresh, Apart

(* An event that is not for the listening socket or under the core lock is *)
(* for the socket that its thread receives from.                           *)
LEMMA EventOfThread ==
  ASSUME Local, Owned, NEW t \in Threads, ev[t].pc # "idle"
  PROVE  /\ call[t].pc \in {"idle", "alloc", "recv"}
         /\ ev[t].conn = Listener \/ (call[t].pc = "recv" /\ sock[call[t].s].conn = ev[t].conn)
<1>1. t \in Callers /\ t # Core
  BY SocketsAssumption DEF Callers
<1> QED
  BY <1>1 DEF Owned, EventOwn

(* lwip_recvfrom takes what is left of a message: no event, no mailbox.    *)
LEMMA RecvLastdataKeeps ==
  ASSUME Local, Local', Owned, RcvEventIsExact, NEW t \in Threads, NEW s \in Sockets,
         NEW all \in BOOLEAN, RecvLastdata(t, s, all)
  PROVE  Owned' /\ RcvEventIsExact'
<1>1. /\ call[t].pc = "idle" /\ Unused(t, s) /\ nc' = nc /\ ev' = ev
      /\ sock' = [sock EXCEPT ![s].lastdata = ~all]
      /\ call' = [Steal(t, s, "read") EXCEPT ![t] = NoCall]
  BY DEF RecvLastdata
<1>2. sock[s] \in SocketType /\ sock \in [Sockets -> SocketType]
  BY DEF Local, TypeOK
<1> DEFINE a == [sock[s] EXCEPT !.lastdata = ~all]
<1>3. a.conn = sock[s].conn /\ a.rcvevent = sock[s].rcvevent
  BY <1>2 DEF SocketType
<1>4. sock' = [sock EXCEPT ![s] = a]
  BY <1>1, <1>2
<1> HIDE DEF a
<1>5. \A r \in Sockets : sock'[r] = IF r = s THEN a ELSE sock[r]
  BY <1>2, <1>4
<1>6. \A r \in Sockets : sock'[r].conn = sock[r].conn /\ sock'[r].rcvevent = sock[r].rcvevent
  BY <1>3, <1>5
<1>7. \A u \in Threads : call'[u] = IF u = t THEN NoCall ELSE Steal(t, s, "read")[u]
  BY <1>1 DEF Steal
<1>8. \A u \in Threads : CallLike(call[u], call'[u]) /\ call'[u].pc = call[u].pc
  <2> SUFFICES ASSUME NEW u \in Threads PROVE CallLike(call[u], call'[u]) /\ call'[u].pc = call[u].pc
    OBVIOUS
  <2>1. CASE u = t
    BY <2>1, <1>1, <1>7 DEF CallLike, NoCall
  <2>2. CASE u # t
    <3>1. Marks(call[u], Steal(t, s, "read")[u], s, IF u = t THEN {} ELSE {"read"})
      BY StealMarks, Zenon
    <3> QED
      BY <2>2, <3>1, <1>7 DEF CallLike, Marks
  <2> QED
    BY <2>1, <2>2
<1>9. \A f \in Callers : EventMild(ev[f], ev'[f], f, nc', sock')
  <2> SUFFICES ASSUME NEW f \in Callers, ev[f].pc # "idle"
               PROVE  EventMild(ev[f], ev[f], f, nc, sock')
    BY <1>1 DEF EventMild
  <2>1. EventOwn(ev[f], f, nc, sock, call) /\ ev[f].s \in Sockets
    BY Typed DEF Owned, EventType
  <2> QED
    BY <2>1, <1>6 DEF EventOwn, EventMild
<1>10. \A b \in AllConns : ConnMild(nc[b], nc'[b])
  BY <1>1 DEF ConnMild
<1>11. \A u \in Threads : call[u].s \in Sockets
  BY Typed DEF CallType
<1>12. \A u \in Threads : call[u].pc = "recv" => sock'[call[u].s].lastdata = sock[call[u].s].lastdata
  BY <1>1, <1>5, <1>11 DEF Unused
<1>13. Mild
  BY <1>1, <1>6, <1>8, <1>9, <1>10, <1>11, <1>12 DEF Mild, SockMild
<1>14. QueueOK(nc'[Listener].mbox, nc', call')
  <2>1. \A u \in Threads : CallLike(call[u], call'[u])
    BY <1>8
  <2> QED
    BY <2>1, <1>1, <1>10, QueueKept
<1>15. \A c \in AllConns : Level(c, nc', sock') = Level(c, nc, sock)
  BY <1>1, <1>6, SameLevel
<1> QED
  BY <1>1, <1>13, <1>14, <1>15, MildOwned, StayExact

(* lwip_recvfrom takes a message and raises RCVMINUS for it.               *)
LEMMA RecvFetchKeeps ==
  ASSUME Local, Local', Owned, RcvEventIsExact, NEW t \in Threads, NEW s \in Sockets,
         RecvFetch(t, s)
  PROVE  Owned' /\ RcvEventIsExact'
<1> DEFINE c == sock[s].conn
           q == nc[c].mbox
           n == [nc[c] EXCEPT !.mbox = Tail(q)]
           d == [NoCall EXCEPT !.pc = "recv", !.s = s]
<1>1. /\ call[t].pc = "idle" /\ ~Busy(t) /\ Unused(t, s) /\ c \in Conns /\ ~sock[s].lastdata
      /\ nc[c].socket = s /\ nc[c].state # "closed" /\ q # <<>>
      /\ ev' = Raise(t, c, <<"RCVMINUS">>, t) /\ call' = [call EXCEPT ![t] = d] /\ sock' = sock
  BY DEF RecvFetch
<1>2. /\ c \in AllConns /\ c # Listener /\ nc \in [AllConns -> ConnType] /\ nc[c] \in ConnType
      /\ Listener \in AllConns /\ q \in Seq(AllConns \cup {NULL}) /\ s >= 0
      /\ t \in Callers /\ t # Core /\ ev[t].pc = "idle"
  <2>1. c \in AllConns /\ c # Listener /\ Listener \in AllConns /\ s >= 0
    BY <1>1, SocketsAssumption DEF AllConns, Sockets
  <2>2. t \in Callers /\ t # Core /\ ev[t].pc = "idle"
    BY <1>1, SocketsAssumption DEF Callers, Busy
  <2>3. nc \in [AllConns -> ConnType] /\ nc[c] \in ConnType
    BY <2>1 DEF Local, TypeOK
  <2> QED
    BY <2>1, <2>2, <2>3 DEF ConnType
<1>3. n.state = nc[c].state /\ n.socket = nc[c].socket /\ Len(n.mbox) = Len(q) - 1
  BY <1>1, <1>2 DEF ConnType
<1>4. nc' = [nc EXCEPT ![c] = n]
  BY <1>2 DEF RecvFetch
<1>5. d.pc = "recv" /\ d.s = s
  BY DEF NoCall
<1> HIDE DEF n, d
<1>6. \A b \in AllConns : nc'[b] = IF b = c THEN n ELSE nc[b]
  BY <1>2, <1>4
<1>7. \A b \in AllConns : nc'[b].state = nc[b].state /\ nc'[b].socket = nc[b].socket
  BY <1>3, <1>6
<1>8. \A u \in Threads : call'[u] = IF u = t THEN d ELSE call[u]
  BY <1>1 DEF Local, TypeOK
<1>9. PICK y : Moves(t, y) /\ y.pc = "call" /\ y.conn = c /\ y.todo = <<"RCVMINUS">> /\ y.by = t
  BY <1>1, RaiseMoves
<1>10. \A f \in Callers : ev'[f] = IF f = t THEN y ELSE ev[f]
  BY <1>2, <1>9 DEF Moves, Local, TypeOK
<1>11. Len(<<"RCVMINUS">>) = 1 /\ Head(<<"RCVMINUS">>) = "RCVMINUS"
  OBVIOUS
<1>12. d.pc \notin NewConnPcs /\ d.pc \notin SelectPcs
  BY <1>5, PcsDiffer
<1>13. nc[c].state # "new"
  BY <1>1, <1>2 DEF Owned, ConnSlots
<1>14. \A b : Fresh(b, nc) => Fresh(b, nc')
  BY <1>7 DEF Fresh, AllConns
<1>20. ConnSlots(nc', sock')
  BY <1>1, <1>2, <1>6, <1>7, <1>13 DEF Owned, ConnSlots
<1>21. QueueOK(nc'[Listener].mbox, nc', call')
  <2>1. nc'[Listener] = nc[Listener]
    BY <1>2, <1>6
  <2> QED
    BY <2>1, <1>8, <1>12, <1>14 DEF Owned, QueueOK
<1>22. \A u \in Threads : NewConnOK(call'[u], nc', sock')
  BY <1>1, <1>8, <1>12, <1>14 DEF Owned, NewConnOK
<1>23. \A u \in Threads : HoldsOK(call'[u], nc', sock')
  <2> SUFFICES ASSUME NEW u \in Threads PROVE HoldsOK(call'[u], nc', sock')
    OBVIOUS
  <2>1. CASE u = t
    BY <2>1, <1>1, <1>2, <1>5, <1>7, <1>8 DEF HoldsOK
  <2>2. CASE u # t
    BY <2>2, <1>1, <1>7, <1>8 DEF Owned, HoldsOK, AllConns
  <2> QED
    BY <2>1, <2>2
<1>24. \A u, v \in Threads : u # v => Apart(call'[u], call'[v])
  <2>1. \A u \in Threads : u # t => Apart(d, call[u]) /\ Apart(call[u], d)
    BY <1>1, <1>5, <1>12 DEF Apart, Unused
  <2> QED
    BY <2>1, <1>8 DEF Owned
<1>25. \A f \in Callers : EventOwn(ev'[f], f, nc', sock', call')
  <2> SUFFICES ASSUME NEW f \in Callers PROVE EventOwn(ev'[f], f, nc', sock', call')
    OBVIOUS
  <2>1. CASE f = t
    BY <2>1, <1>1, <1>2, <1>5, <1>7, <1>8, <1>9, <1>10, <1>11, <1>13, SMTT(30) DEF EventOwn, FromCore
  <2>2. CASE f # t
    <3>1. ev[f].pc # "idle" => ev[f].conn \in AllConns
      BY Typed DEF EventOK
    <3>2. EventOwn(ev[f], f, nc', sock', call')
      BY <2>2, <3>1, <1>1, <1>7, <1>8, EventStaysOwn
    <3> QED
      BY <3>2, <2>2, <1>10
  <2> QED
    BY <2>1, <2>2
<1>26. ASSUME NEW b \in AllConns, nc'[b].state = "open" PROVE Exact(b, nc', sock', ev')
  <2>0. nc[b].state = "open" /\ Level(b, nc', sock') = Level(b, nc, sock)
    BY <1>1, <1>7, <1>26, SameLevel
  <2>1. CASE b = c
    <3>1. Carries(y, c, "RCVMINUS") /\ ~Carries(y, c, "RCVPLUS") /\ \A v : ~Carries(ev[t], c, v)
      BY <1>2, <1>9, <1>11 DEF Carries
    <3>2. Balance(ev[t], y, c, 0, -1) /\ 0 \in Int /\ -1 \in Int
      BY <3>1 DEF Balance, One
    <3>3. Level(c, nc', sock') = Level(c, nc, sock) + 0
      BY <2>0, <2>1, LevelType
    <3>4. Len(nc'[c].mbox) = Len(nc[c].mbox) + (-1)
      BY <1>2, <1>3, <1>6
    <3> QED
      BY <1>2, <1>9, <2>0, <2>1, <3>2, <3>3, <3>4, Balanced
  <2>2. CASE b # c
    BY <2>0, <2>2, <1>2, <1>6, <1>9, OthersExact
  <2> QED
    BY <2>1, <2>2
<1> QED
  BY <1>20, <1>21, <1>22, <1>23, <1>24, <1>25, <1>26, ExactIs DEF Owned

(* lwip_recvfrom leaves something in lastdata or not.                      *)
LEMMA RecvDoneKeeps ==
  ASSUME Local, Local', Owned, RcvEventIsExact, NEW t \in Threads, NEW all \in BOOLEAN,
         RecvDone(t, all)
  PROVE  Owned' /\ RcvEventIsExact'
<1> DEFINE s == call[t].s
           a == [sock[s] EXCEPT !.lastdata = ~all]
<1>1. call[t].pc = "recv" /\ ~Busy(t) /\ nc' = nc /\ ev' = ev /\ call' = [call EXCEPT ![t] = NoCall]
  BY DEF RecvDone
<1>2. /\ s \in Sockets /\ sock[s] \in SocketType /\ sock \in [Sockets -> SocketType]
      /\ t \in Callers /\ t # Core /\ ev[t].pc = "idle"
      /\ \A u \in Threads : u # t /\ call[u].pc \in {"recv", "closing"} => call[u].s # s
  BY <1>1, Typed, HeldSocket, SocketsAssumption DEF Local, TypeOK, Callers, Busy
<1>3. a.conn = sock[s].conn /\ a.rcvevent = sock[s].rcvevent
  BY <1>2 DEF SocketType
<1>4. sock' = [sock EXCEPT ![s] = a]
  BY <1>2 DEF RecvDone
<1> HIDE DEF a
<1>5. \A r \in Sockets : sock'[r] = IF r = s THEN a ELSE sock[r]
  BY <1>2, <1>4
<1>6. \A r \in Sockets : sock'[r].conn = sock[r].conn /\ sock'[r].rcvevent = sock[r].rcvevent
  BY <1>3, <1>5
<1>7. \A u \in Threads : call'[u] = IF u = t THEN NoCall ELSE call[u]
  BY <1>1 DEF Local, TypeOK
<1>8. NoCall.pc = "idle" /\ NoCall.pc \notin NewConnPcs /\ NoCall.pc \notin {"recv", "closing"}
  BY DEF NoCall, NewConnPcs
<1>9. \A u \in Threads : call[u].s \in Sockets
  BY Typed DEF CallType
<1>20. ConnSlots(nc', sock')
  <2>1. \A c \in AllConns : nc[c].socket >= 0 => nc[c].socket \in Sockets
    BY Typed, SocketsAssumption DEF ConnType, Sockets
  <2> QED
    BY <2>1, <1>1, <1>6 DEF Owned, ConnSlots
<1>21. QueueOK(nc'[Listener].mbox, nc', call')
  BY <1>1, <1>7, <1>8 DEF Owned, QueueOK
<1>22. \A u \in Threads : NewConnOK(call'[u], nc', sock')
  BY <1>1, <1>6, <1>7, <1>8, <1>9 DEF Owned, NewConnOK
<1>23. \A u \in Threads : HoldsOK(call'[u], nc', sock')
  <2> SUFFICES ASSUME NEW u \in Threads, u # t, call[u].pc \in {"recv", "closing"}
               PROVE  HoldsOK(call[u], nc', sock')
    BY <1>7, <1>8 DEF HoldsOK
  <2>1. HoldsOK(call[u], nc, sock) /\ sock'[call[u].s] = sock[call[u].s]
    BY <1>2, <1>5, <1>9 DEF Owned
  <2> QED
    BY <2>1, <1>1 DEF HoldsOK
<1>24. \A u, v \in Threads : u # v => Apart(call'[u], call'[v])
  BY <1>7, <1>8, HoldsNothing DEF Owned
<1>25. \A f \in Callers : EventOwn(ev'[f], f, nc', sock', call')
  <2> SUFFICES ASSUME NEW f \in Callers PROVE EventOwn(ev[f], f, nc', sock', call')
    BY <1>1
  <2>1. ev[f].s \in Sockets
    BY Typed DEF EventType
  <2> QED
    BY <2>1, <1>1, <1>2, <1>6, <1>7, <1>9, EventStaysOwn
<1>26. \A c \in AllConns : Level(c, nc', sock') = Level(c, nc, sock)
  BY <1>1, <1>6, SameLevel
<1> QED
  BY <1>1, <1>20, <1>21, <1>22, <1>23, <1>24, <1>25, <1>26, StayExact DEF Owned

(* netconn_accept takes a netconn and raises RCVMINUS for it.              *)
LEMMA AcceptFetchKeeps ==
  ASSUME Local, Local', Owned, RcvEventIsExact, NEW t \in Threads, AcceptFetch(t)
  PROVE  Owned' /\ RcvEventIsExact'
<1> DEFINE q == nc[Listener].mbox
           n == [nc[Listener] EXCEPT !.mbox = Tail(q)]
           a == [NoCall EXCEPT !.pc = "alloc", !.newconn = Head(q)]
           d == IF Head(q) = NULL THEN NoCall ELSE a
<1>1. /\ call[t].pc = "idle" /\ ~Busy(t) /\ q # <<>> /\ sock' = sock
      /\ ev' = Raise(t, Listener, <<"RCVMINUS">>, t) /\ call' = [call EXCEPT ![t] = d]
  BY DEF AcceptFetch
<1>2. /\ nc \in [AllConns -> ConnType] /\ nc[Listener] \in ConnType
      /\ Listener \in AllConns /\ q \in Seq(AllConns \cup {NULL})
      /\ t \in Callers /\ t # Core /\ ev[t].pc = "idle"
      /\ nc[Listener].state = "open" /\ nc[Listener].socket = 0
  BY <1>1, SocketsAssumption DEF AllConns, Local, TypeOK, ConnType, Callers, Busy, Owned, ConnSlots
<1>3. n.state = nc[Listener].state /\ n.socket = nc[Listener].socket /\ n.mbox = Tail(q)
  BY <1>2 DEF ConnType
<1>4. nc' = [nc EXCEPT ![Listener] = n]
  BY <1>2 DEF AcceptFetch
<1>5. NoCall.pc = "idle" /\ a.pc = "alloc" /\ a.newconn = Head(q)
  BY DEF NoCall
<1> HIDE DEF n, a
<1>6. \A b \in AllConns : nc'[b] = IF b = Listener THEN n ELSE nc[b]
  BY <1>2, <1>4
<1>7. \A b \in AllConns : nc'[b].state = nc[b].state /\ nc'[b].socket = nc[b].socket
  BY <1>3, <1>6
<1>8. \A u \in Threads : call'[u] = IF u = t THEN d ELSE call[u]
  BY <1>1 DEF Local, TypeOK
<1>9. PICK y : Moves(t, y) /\ y.pc = "call" /\ y.conn = Listener /\ y.todo = <<"RCVMINUS">> /\ y.by = t
  BY <1>1, RaiseMoves
<1>10. \A f \in Callers : ev'[f] = IF f = t THEN y ELSE ev[f]
  BY <1>2, <1>9 DEF Moves, Local, TypeOK
<1>11. Len(<<"RCVMINUS">>) = 1 /\ Head(<<"RCVMINUS">>) = "RCVMINUS"
  OBVIOUS
<1>12. /\ d.pc \in {"idle", "alloc"} /\ d.pc \notin {"recv", "closing"}
       /\ d.pc \in NewConnPcs => d.pc = "alloc" /\ d.newconn = Head(q) /\ Head(q) # NULL
  BY <1>5 DEF NewConnPcs
<1> HIDE DEF d
<1>13. /\ Len(Tail(q)) = Len(q) - 1 /\ Len(q) \in Nat /\ Len(q) > 0
       /\ \A i \in 1 .. Len(q) - 1 : Tail(q)[i] = q[i + 1]
       /\ Head(q) = q[1] /\ 1 \in 1 .. Len(q)
  BY <1>1, <1>2
<1>14. \A b : Fresh(b, nc) => Fresh(b, nc')
  BY <1>7 DEF Fresh, AllConns
<1>15. QueueOK(q, nc, call)
  BY DEF Owned
<1>20. ConnSlots(nc', sock')
  BY <1>1, <1>2, <1>6, <1>7 DEF Owned, ConnSlots
<1>21. QueueOK(nc'[Listener].mbox, nc', call')
  <2>1. nc'[Listener].mbox = Tail(q)
    BY <1>2, <1>3, <1>6
  <2> DEFINE r == Tail(q)
  <2>2. \A i \in 1 .. Len(r) : i + 1 \in 1 .. Len(q) /\ r[i] = q[i + 1] /\ i + 1 # 1
    BY <1>13
  <2>3. \A i, j \in 1 .. Len(r) : i # j => i + 1 # j + 1
    BY <1>13
  <2> SUFFICES QueueOK(r, nc', call')
    BY <2>1
  <2> HIDE DEF r
  <2>4. \A i, j \in 1 .. Len(r) : i # j /\ r[i] # NULL => r[i] # r[j]
    BY <2>2, <2>3, <1>15 DEF QueueOK
  <2>5. \A i \in 1 .. Len(r) : r[i] # NULL => Fresh(r[i], nc')
    BY <2>2, <1>14, <1>15 DEF QueueOK
  <2>6. \A i \in 1 .. Len(r) : r[i] # NULL => r[i] # Head(q)
    BY <2>2, <1>13, <1>15 DEF QueueOK
  <2>7. \A i \in 1 .. Len(r) : r[i] # NULL =>
          \A u \in Threads : call'[u].pc \in NewConnPcs => call'[u].newconn # r[i]
    BY <2>2, <2>6, <1>8, <1>12, <1>15 DEF QueueOK
  <2> QED
    BY <2>4, <2>5, <2>7 DEF QueueOK
<1>22. \A u \in Threads : NewConnOK(call'[u], nc', sock')
  <2>1. NewConnOK(d, nc', sock')
    BY <1>12, <1>13, <1>14, <1>15 DEF QueueOK, NewConnOK
  <2> QED
    BY <2>1, <1>1, <1>8, <1>14 DEF Owned, NewConnOK
<1>23. \A u \in Threads : HoldsOK(call'[u], nc', sock')
  BY <1>1, <1>7, <1>8, <1>12 DEF Owned, HoldsOK, AllConns
<1>24. \A u, v \in Threads : u # v => Apart(call'[u], call'[v])
  <2>1. \A u \in Threads : u # t => Apart(d, call[u]) /\ Apart(call[u], d)
    BY <1>12, <1>13, <1>15 DEF Apart, QueueOK
  <2> QED
    BY <2>1, <1>8 DEF Owned
<1>25. \A f \in Callers : EventOwn(ev'[f], f, nc', sock', call')
  <2> SUFFICES ASSUME NEW f \in Callers PROVE EventOwn(ev'[f], f, nc', sock', call')
    OBVIOUS
  <2>1. CASE f = t
    BY <2>1, <1>2, <1>7, <1>8, <1>9, <1>10, <1>11, <1>12 DEF EventOwn, FromCore
  <2>2. CASE f # t
    <3>1. ev[f].pc # "idle" => ev[f].conn \in AllConns
      BY Typed DEF EventOK
    <3>2. EventOwn(ev[f], f, nc', sock', call')
      BY <2>2, <3>1, <1>1, <1>7, <1>8, EventStaysOwn
    <3> QED
      BY <3>2, <2>2, <1>10
  <2> QED
    BY <2>1, <2>2
<1>26. ASSUME NEW b \in AllConns, nc'[b].state = "open" PROVE Exact(b, nc', sock', ev')
  <2>0. nc[b].state = "open" /\ Level(b, nc', sock') = Level(b, nc, sock)
    BY <1>1, <1>7, <1>26, SameLevel
  <2>1. CASE b = Listener
    <3>1. Carries(y, b, "RCVMINUS") /\ ~Carries(y, b, "RCVPLUS") /\ \A v : ~Carries(ev[t], b, v)
      BY <1>2, <1>9, <1>11, <2>1 DEF Carries
    <3>2. Balance(ev[t], y, b, 0, -1) /\ 0 \in Int /\ -1 \in Int
      BY <3>1 DEF Balance, One
    <3>3. Level(b, nc', sock') = Level(b, nc, sock) + 0
      BY <2>0, LevelType
    <3>4. Len(nc'[b].mbox) = Len(nc[b].mbox) + (-1)
      BY <2>1, <1>3, <1>6, <1>13
    <3> QED
      BY <1>2, <1>9, <2>0, <3>2, <3>3, <3>4, Balanced
  <2>2. CASE b # Listener
    BY <2>0, <2>2, <1>2, <1>6, <1>9, OthersExact
  <2> QED
    BY <2>1, <2>2
<1> QED
  BY <1>20, <1>21, <1>22, <1>23, <1>24, <1>25, <1>26, ExactIs DEF Owned

(* alloc_socket takes a free slot, or the netconn is deleted.              *)
LEMMA AllocSocketKeeps ==
  ASSUME Local, Local', Owned, RcvEventIsExact, NEW t \in Threads, AllocSocket(t)
  PROVE  Owned' /\ RcvEventIsExact'
<1> DEFINE c == call[t].newconn
<1>1. call[t].pc = "alloc" /\ call[t].pc \in NewConnPcs /\ ~Busy(t) /\ ev' = ev
  BY DEF AllocSocket, NewConnPcs
<1>2. /\ c \in Conns /\ c \in AllConns /\ c # Listener /\ c # NULL /\ nc[c].socket < 0
      /\ nc[c].socket \in Int
      /\ \A u \in Threads : u # t /\ call[u].pc \in NewConnPcs => call[u].newconn # c
      /\ \A i \in 1 .. Len(nc[Listener].mbox) : nc[Listener].mbox[i] # c
  BY <1>1, HeldConn
<1>3. /\ nc \in [AllConns -> ConnType] /\ nc[c] \in ConnType /\ Listener \in AllConns
      /\ sock \in [Sockets -> SocketType] /\ t \in Callers /\ t # Core /\ ev[t].pc = "idle"
  BY <1>1, <1>2, SocketsAssumption DEF Local, TypeOK, AllConns, Callers, Busy
<1>4. \A u \in Threads : call[u].s \in Sockets /\ call[u] \in CallType
  BY Typed DEF CallType
<1>5. \A u \in Threads : call[u].pc \in {"recv", "closing"} =>
        sock[call[u].s].conn # c /\ sock[call[u].s].conn # NULL /\ sock[call[u].s].conn \in AllConns
  BY <1>2, HeldSocket, SocketsAssumption
<1>6. \A f \in Callers : ev[f].pc # "idle" => ev[f].conn \in AllConns /\ ev[f].s \in Sockets
  BY Typed DEF EventOK, EventType
<1>7. \A f \in Threads : ev[f].pc # "idle" => ev[f].conn # c
  BY <1>2, <1>5, EventOfThread
<1>8. CASE FreeSockets = {}
  <2> DEFINE n == [nc[c] EXCEPT !.state = "closed", !.mbox = <<>>, !.socket = nc[c].socket - 1]
  <2>1. /\ call' = [call EXCEPT ![t] = NoCall] /\ sock' = sock /\ ev[Core].pc = "idle"
    BY <1>8 DEF AllocSocket, CoreFree
  <2>2. n.state = "closed" /\ n.socket = nc[c].socket - 1 /\ n.mbox = <<>>
    BY <1>3 DEF ConnType
  <2>3. nc' = [nc EXCEPT ![c] = n]
    BY <1>8, <1>3 DEF AllocSocket
  <2>4. NoCall.pc = "idle" /\ NoCall.pc \notin NewConnPcs /\ NoCall.pc \notin {"recv", "closing"}
    BY DEF NoCall, NewConnPcs
  <2> HIDE DEF n
  <2>5. \A b \in AllConns : nc'[b] = IF b = c THEN n ELSE nc[b]
    BY <1>3, <2>3
  <2>6. \A u \in Threads : call'[u] = IF u = t THEN NoCall ELSE call[u]
    BY <2>1 DEF Local, TypeOK
  <2>7. \A b : b # c /\ Fresh(b, nc) => Fresh(b, nc')
    BY <2>5 DEF Fresh, AllConns
  <2> HIDE DEF c
  <2>20. ConnSlots(nc', sock')
    BY <1>2, <1>3, <2>1, <2>2, <2>5 DEF Owned, ConnSlots
  <2>21. QueueOK(nc'[Listener].mbox, nc', call')
    <3>1. nc'[Listener] = nc[Listener]
      BY <1>2, <1>3, <2>5
    <3> QED
      BY <3>1, <1>2, <2>4, <2>6, <2>7 DEF Owned, QueueOK
  <2>22. \A u \in Threads : NewConnOK(call'[u], nc', sock')
    BY <1>2, <2>1, <2>4, <2>6, <2>7 DEF Owned, NewConnOK
  <2>23. \A u \in Threads : HoldsOK(call'[u], nc', sock')
    BY <1>5, <2>1, <2>4, <2>5, <2>6 DEF Owned, HoldsOK
  <2>24. \A u, v \in Threads : u # v => Apart(call'[u], call'[v])
    BY <2>4, <2>6, HoldsNothing DEF Owned
  <2>25. \A f \in Callers : EventOwn(ev'[f], f, nc', sock', call')
    <3> SUFFICES ASSUME NEW f \in Callers, ev[f].pc # "idle" PROVE EventOwn(ev[f], f, nc', sock', call')
      BY <1>1 DEF EventOwn
    <3>1. f \in Threads /\ f # t
      BY <1>3, <2>1 DEF Callers
    <3>2. nc'[ev[f].conn] = nc[ev[f].conn]
      BY <3>1, <1>6, <1>7, <2>5
    <3>3. f # Core
      BY <3>1, SocketsAssumption
    <3> QED
      BY <3>1, <3>2, <3>3, <2>1, <2>6, EventStaysOwn
  <2>26. \A b \in AllConns : nc'[b].state = "open" =>
           /\ nc[b].state = "open" /\ Len(nc'[b].mbox) = Len(nc[b].mbox)
           /\ Level(b, nc', sock') = Level(b, nc, sock)
    BY <2>1, <2>2, <2>5, SameLevel
  <2> QED
    BY <1>1, <2>20, <2>21, <2>22, <2>23, <2>24, <2>25, <2>26, StayExact DEF Owned
<1>9. CASE FreeSockets # {}
  <2> DEFINE r == Lowest(FreeSockets)
             a == [sock[r] EXCEPT !.conn = c]
             d == [call[t] EXCEPT !.pc = "allocinit", !.s = r]
  <2>1. r \in Sockets /\ sock[r].conn = NULL
    <3>1. FreeSockets \subseteq Sockets
      BY DEF FreeSockets
    <3>2. r \in FreeSockets
      BY <3>1, <1>9, LowestIsIn
    <3> QED
      BY <3>2 DEF FreeSockets
  <2>2. nc' = nc /\ sock' = [sock EXCEPT ![r].conn = c]
        /\ call' = [call EXCEPT ![t].pc = "allocinit", ![t].s = r]
    BY <1>9 DEF AllocSocket
  <2> HIDE DEF r
  <2>3. sock' = [sock EXCEPT ![r] = a] /\ call' = [call EXCEPT ![t] = d]
    BY <2>1, <2>2, <1>3, <1>4
  <2>4. a.conn = c /\ a.rcvevent = sock[r].rcvevent /\ a.lastdata = sock[r].lastdata
    BY <2>1, <1>3 DEF SocketType
  <2>5. d.pc = "allocinit" /\ d.s = r /\ d.newconn = c
    BY <1>4 DEF CallType
  <2> HIDE DEF a, d
  <2>6. \A i \in Sockets : sock'[i] = IF i = r THEN a ELSE sock[i]
    BY <2>1, <2>3, <1>3
  <2>7. \A u \in Threads : call'[u] = IF u = t THEN d ELSE call[u]
    BY <2>3 DEF Local, TypeOK
  <2>8. \A i \in Sockets : sock[i].conn # NULL => sock'[i] = sock[i]
    BY <2>1, <2>6
  <2>9. d.pc \notin {"recv", "closing"}
    BY <2>5
  <2> HIDE DEF c
  <2>20. ConnSlots(nc', sock')
    <3>1. \A b \in AllConns : nc[b].socket >= 0 => nc[b].socket \in Sockets
      BY Typed, SocketsAssumption DEF ConnType, Sockets
    <3>2. NULL \notin AllConns
      BY SocketsAssumption DEF AllConns
    <3> QED
      BY <3>1, <3>2, <2>2, <2>8 DEF Owned, ConnSlots
  <2>21. QueueOK(nc'[Listener].mbox, nc', call')
    <3> DEFINE q == nc[Listener].mbox
    <3>1. QueueOK(q, nc, call) /\ nc'[Listener].mbox = q
      BY <2>2 DEF Owned
    <3>2. \A i \in 1 .. Len(q) : q[i] # c
      BY <1>2
    <3> HIDE DEF q
    <3>3. \A i \in 1 .. Len(q) : q[i] # NULL =>
            \A u \in Threads : call'[u].pc \in NewConnPcs => call'[u].newconn # q[i]
      BY <3>1, <3>2, <2>5, <2>7 DEF QueueOK
    <3>4. \A i \in 1 .. Len(q) : q[i] # NULL => Fresh(q[i], nc')
      BY <3>1, <2>2 DEF QueueOK
    <3>5. QueueOK(q, nc', call')
      BY <3>1, <3>3, <3>4 DEF QueueOK
    <3> QED
      BY <3>1, <3>5
  <2>22. \A u \in Threads : NewConnOK(call'[u], nc', sock')
    <3>1. NewConnOK(call[t], nc, sock) /\ Fresh(c, nc)
      BY <1>1 DEF Owned, NewConnOK, c
    <3>2. NewConnOK(d, nc', sock')
      BY <3>1, <2>1, <2>2, <2>4, <2>5, <2>6 DEF NewConnOK
    <3>3. ASSUME NEW u \in Threads, u # t, call[u].pc \in NewConnPcs PROVE NewConnOK(call[u], nc', sock')
      <4>1. NewConnOK(call[u], nc, sock) /\ call[u].newconn # NULL
        BY <3>3, HeldConn DEF Owned
      <4> QED
        BY <4>1, <3>3, <1>4, <2>2, <2>8 DEF NewConnOK
    <3> QED
      BY <3>2, <3>3, <2>7 DEF NewConnOK
  <2>23. \A u \in Threads : HoldsOK(call'[u], nc', sock')
    <3> SUFFICES ASSUME NEW u \in Threads, u # t, call[u].pc \in {"recv", "closing"}
                 PROVE  HoldsOK(call[u], nc', sock')
      BY <2>7, <2>9 DEF HoldsOK
    <3>1. HoldsOK(call[u], nc, sock) /\ sock'[call[u].s] = sock[call[u].s]
      BY <1>4, <1>5, <2>8 DEF Owned
    <3> QED
      BY <3>1, <2>2 DEF HoldsOK
  <2>24. \A u, v \in Threads : u # v => Apart(call'[u], call'[v])
    <3>1. \A u \in Threads : u # t => Apart(d, call[u]) /\ Apart(call[u], d)
      BY <1>2, <2>5, <2>9 DEF Apart
    <3> QED
      BY <3>1, <2>7 DEF Owned
  <2>25. \A f \in Callers : EventOwn(ev'[f], f, nc', sock', call')
    <3> SUFFICES ASSUME NEW f \in Callers, ev[f].pc # "idle" PROVE EventOwn(ev[f], f, nc', sock', call')
      BY <1>1 DEF EventOwn
    <3>1. f # t
      BY <1>3
    <3>2. EventOwn(ev[f], f, nc, sock, call) /\ ev[f].conn # NULL
      BY <1>6, SocketsAssumption DEF Owned, AllConns
    <3>3. ev[f].pc \in {"apply", "walk"} => sock'[ev[f].s].conn = sock[ev[f].s].conn
      BY <3>2, <1>6, <2>8 DEF EventOwn
    <3>4. f \in Threads /\ call[f].pc = "recv" => sock'[call[f].s].conn = sock[call[f].s].conn
      BY <1>4, <1>5, <2>8
    <3>5. ev[f].by \in Threads /\ call[ev[f].by].pc = "closing" =>
            /\ call'[ev[f].by] = call[ev[f].by]
            /\ sock'[call[ev[f].by].s].conn = sock[call[ev[f].by].s].conn
      BY <1>1, <1>4, <1>5, <2>7, <2>8
    <3> QED
      BY <3>1, <3>3, <3>4, <3>5, <2>2, <2>7, EventStaysOwn
  <2>26. \A b \in AllConns : Level(b, nc', sock') = Level(b, nc, sock)
    BY <2>2, <2>4, <2>6, SameLevel
  <2> QED
    BY <1>1, <2>2, <2>20, <2>21, <2>22, <2>23, <2>24, <2>25, <2>26, StayExact DEF Owned
<1> QED
  BY <1>8, <1>9

(* alloc_socket resets the slot of a netconn that does not know it yet.    *)
LEMMA AllocInitKeeps ==
  ASSUME Local, Local', Owned, RcvEventIsExact, NEW t \in Threads, AllocInit(t)
  PROVE  Owned' /\ RcvEventIsExact'
<1> DEFINE c == call[t].newconn
           s == call[t].s
           a == [NoSocket EXCEPT !.conn = c, !.sendevent = TRUE]
           d == [call[t] EXCEPT !.pc = "handover"]
<1>1. /\ call[t].pc = "allocinit" /\ call[t].pc \in NewConnPcs /\ ev' = ev /\ nc' = nc
      /\ sock' = [sock EXCEPT ![s] = a] /\ call' = [call EXCEPT ![t] = d]
  BY DEF AllocInit, NewConnPcs, Goto
<1>2. /\ c \in Conns /\ c \in AllConns /\ c # Listener /\ c # NULL /\ nc[c].socket < 0
      /\ nc[c].socket \in Int /\ s \in Sockets /\ sock[s].conn = c
      /\ \A u \in Threads : u # t /\ call[u].pc \in NewConnPcs => call[u].newconn # c
      /\ \A i \in 1 .. Len(nc[Listener].mbox) : nc[Listener].mbox[i] # c
  BY <1>1, HeldConn
<1>3. a.conn = c /\ a.rcvevent = 0 /\ d.pc = "handover" /\ d.s = s /\ d.newconn = c
  BY Typed DEF NoSocket, CallType
<1> HIDE DEF a, d
<1>4. \A i \in Sockets : sock'[i] = IF i = s THEN a ELSE sock[i]
  BY <1>1, <1>2 DEF Local, TypeOK
<1>5. \A i \in Sockets : sock'[i].conn = sock[i].conn
  BY <1>2, <1>3, <1>4
<1>6. \A u \in Threads : call'[u] = IF u = t THEN d ELSE call[u]
  BY <1>1 DEF Local, TypeOK
<1>7. \A u \in Threads : call[u].s \in Sockets
  BY Typed DEF CallType
<1>8. \A u \in Threads : call[u].pc \in {"recv", "closing"} => call[u].s # s
  BY <1>2, HeldSocket
<1>9. Fresh(c, nc) /\ d.pc \notin {"recv", "closing"}
  BY <1>1, <1>3 DEF Owned, NewConnOK
<1>10. \A b \in AllConns : nc[b].socket >= 0 => nc[b].socket \in Sockets
  BY Typed, SocketsAssumption DEF ConnType, Sockets
<1> HIDE DEF c, s
<1>20. ConnSlots(nc', sock')
  BY <1>1, <1>5, <1>10 DEF Owned, ConnSlots
<1>21. QueueOK(nc'[Listener].mbox, nc', call')
  <2> DEFINE q == nc[Listener].mbox
  <2>1. QueueOK(q, nc, call) /\ nc'[Listener].mbox = q
    BY <1>1 DEF Owned
  <2>2. \A i \in 1 .. Len(q) : q[i] # c
    BY <1>2
  <2> HIDE DEF q
  <2>3. \A i \in 1 .. Len(q) : q[i] # NULL =>
          \A u \in Threads : call'[u].pc \in NewConnPcs => call'[u].newconn # q[i]
    BY <2>1, <2>2, <1>3, <1>6 DEF QueueOK
  <2>4. \A i \in 1 .. Len(q) : q[i] # NULL => Fresh(q[i], nc')
    BY <2>1, <1>1 DEF QueueOK
  <2>5. QueueOK(q, nc', call')
    BY <2>1, <2>3, <2>4 DEF QueueOK
  <2> QED
    BY <2>1, <2>5
<1>22. \A u \in Threads : NewConnOK(call'[u], nc', sock')
  <2>1. NewConnOK(d, nc', sock')
    BY <1>1, <1>2, <1>3, <1>4, <1>9 DEF NewConnOK
  <2>2. ASSUME NEW u \in Threads, u # t, call[u].pc \in NewConnPcs PROVE NewConnOK(call[u], nc', sock')
    <3>1. NewConnOK(call[u], nc, sock) /\ call[u].newconn # c
      BY <2>2, <1>2 DEF Owned
    <3>2. call[u].pc # "alloc" => sock'[call[u].s] = sock[call[u].s]
      BY <3>1, <2>2, <1>2, <1>4, <1>7 DEF NewConnOK
    <3>3. call[u].pc = "handover" => call[u].pc # "alloc"
      OBVIOUS
    <3> QED
      BY <3>1, <3>2, <3>3, <1>1 DEF NewConnOK
  <2> QED
    BY <2>1, <2>2, <1>6 DEF NewConnOK
<1>23. \A u \in Threads : HoldsOK(call'[u], nc', sock')
  <2> SUFFICES ASSUME NEW u \in Threads, u # t, call[u].pc \in {"recv", "closing"}
               PROVE  HoldsOK(call[u], nc', sock')
    BY <1>6, <1>9 DEF HoldsOK
  <2>1. HoldsOK(call[u], nc, sock) /\ sock'[call[u].s] = sock[call[u].s]
    BY <1>4, <1>7, <1>8 DEF Owned
  <2> QED
    BY <2>1, <1>1 DEF HoldsOK
<1>24. \A u, v \in Threads : u # v => Apart(call'[u], call'[v])
  <2>1. \A u \in Threads : u # t => Apart(d, call[u]) /\ Apart(call[u], d)
    BY <1>2, <1>3, <1>9 DEF Apart
  <2> QED
    BY <2>1, <1>6 DEF Owned
<1>25. \A f \in Callers : EventOwn(ev'[f], f, nc', sock', call')
  <2> SUFFICES ASSUME NEW f \in Callers, ev[f].pc # "idle" PROVE EventOwn(ev[f], f, nc', sock', call')
    BY <1>1 DEF EventOwn
  <2>1. f \in Threads => f # t
    BY <1>1, EventOfThread
  <2>2. ev[f].s \in Sockets
    BY Typed DEF EventType
  <2>3. ev[f].by \in Threads /\ call[ev[f].by].pc = "closing" =>
          /\ call'[ev[f].by] = call[ev[f].by]
          /\ sock'[call[ev[f].by].s].conn = sock[call[ev[f].by].s].conn
    BY <1>1, <1>5, <1>6, <1>7
  <2> QED
    BY <2>1, <2>2, <2>3, <1>1, <1>5, <1>6, <1>7, EventStaysOwn
<1>26. ASSUME NEW b \in AllConns, nc[b].state = "open" PROVE Level(b, nc', sock') = Level(b, nc, sock)
  <2>1. nc[b].socket \in Sockets => nc[b].socket # s
    BY <1>2, <1>26 DEF Owned, ConnSlots, Sockets
  <2> QED
    BY <2>1, <1>1, <1>4, SameLevel
<1> QED
  BY <1>1, <1>20, <1>21, <1>22, <1>23, <1>24, <1>25, <1>26, StayExact DEF Owned

(* lwip_accept hands the events counted so far over to the socket.         *)
LEMMA HandoverKeeps ==
  ASSUME Local, Local', Owned, RcvEventIsExact, NEW t \in Threads, AcceptHandover(t)
  PROVE  Owned' /\ RcvEventIsExact'
<1> DEFINE c == call[t].newconn
           s == call[t].s
           k == sock[s].rcvevent - 1 - nc[c].socket
           a == [sock[s] EXCEPT !.rcvevent = k]
           n == [nc[c] EXCEPT !.socket = s]
<1>1. /\ call[t].pc = "handover" /\ call[t].pc \in NewConnPcs /\ ev' = ev
      /\ call' = [call EXCEPT ![t] = NoCall]
  BY DEF AcceptHandover, NewConnPcs
<1>2. /\ c \in Conns /\ c \in AllConns /\ c # Listener /\ c # NULL /\ nc[c].socket < 0
      /\ nc[c].socket \in Int /\ s \in Sockets /\ sock[s].conn = c /\ sock[s].rcvevent = 0
      /\ nc[c].state \in {"open", "err"}
      /\ \A u \in Threads : u # t /\ call[u].pc \in NewConnPcs => call[u].newconn # c
      /\ \A i \in 1 .. Len(nc[Listener].mbox) : nc[Listener].mbox[i] # c
  BY <1>1, HeldConn
<1>3. /\ nc \in [AllConns -> ConnType] /\ nc[c] \in ConnType /\ Listener \in AllConns
      /\ sock \in [Sockets -> SocketType] /\ sock[s] \in SocketType
  BY <1>2 DEF Local, TypeOK, AllConns
<1>4. sock' = [sock EXCEPT ![s] = a] /\ nc' = [nc EXCEPT ![c] = n]
  BY <1>2, <1>3 DEF AcceptHandover
<1>5. a.conn = c /\ a.rcvevent = -1 - nc[c].socket
  BY <1>2, <1>3 DEF SocketType
<1>6. n.state = nc[c].state /\ n.mbox = nc[c].mbox /\ n.socket = s
  BY <1>3 DEF ConnType
<1>7. NoCall.pc = "idle" /\ NoCall.pc \notin NewConnPcs /\ NoCall.pc \notin {"recv", "closing"}
  BY DEF NoCall, NewConnPcs
<1> HIDE DEF a, n, k
<1>8. \A i \in Sockets : sock'[i] = IF i = s THEN a ELSE sock[i]
  BY <1>2, <1>3, <1>4
<1>9. \A i \in Sockets : sock'[i].conn = sock[i].conn
  BY <1>2, <1>5, <1>8
<1>10. \A b \in AllConns : nc'[b] = IF b = c THEN n ELSE nc[b]
  BY <1>2, <1>3, <1>4
<1>11. \A u \in Threads : call'[u] = IF u = t THEN NoCall ELSE call[u]
  BY <1>1 DEF Local, TypeOK
<1>12. \A u \in Threads : call[u].s \in Sockets
  BY Typed DEF CallType
<1>13. \A u \in Threads : call[u].pc \in {"recv", "closing"} =>
         call[u].s # s /\ sock[call[u].s].conn # c /\ sock[call[u].s].conn \in AllConns
  BY <1>2, HeldSocket
<1>14. \A b \in AllConns : nc[b].socket >= 0 => nc[b].socket \in Sockets
  BY Typed, SocketsAssumption DEF ConnType, Sockets
<1>15. \A b : b # c /\ Fresh(b, nc) => Fresh(b, nc')
  BY <1>10 DEF Fresh, AllConns
<1> HIDE DEF c, s
<1>20. ConnSlots(nc', sock')
  <2>1. ASSUME NEW b \in AllConns, nc'[b].socket >= 0, nc'[b].state # "closed"
        PROVE  sock'[nc'[b].socket].conn = b
    <3>1. CASE b = c
      BY <3>1, <1>2, <1>5, <1>6, <1>8, <1>10
    <3>2. CASE b # c
      BY <3>2, <2>1, <1>9, <1>10, <1>14 DEF Owned, ConnSlots
    <3> QED
      BY <3>1, <3>2
  <2> QED
    BY <2>1, <1>2, <1>3, <1>6, <1>10 DEF Owned, ConnSlots
<1>21. QueueOK(nc'[Listener].mbox, nc', call')
  <2> DEFINE q == nc[Listener].mbox
  <2>1. QueueOK(q, nc, call) /\ nc'[Listener].mbox = q
    BY <1>2, <1>3, <1>10 DEF Owned
  <2>2. \A i \in 1 .. Len(q) : q[i] # c
    BY <1>2
  <2> HIDE DEF q
  <2>3. \A i \in 1 .. Len(q) : q[i] # NULL =>
          \A u \in Threads : call'[u].pc \in NewConnPcs => call'[u].newconn # q[i]
    BY <2>1, <1>7, <1>11 DEF QueueOK
  <2>4. \A i \in 1 .. Len(q) : q[i] # NULL => Fresh(q[i], nc')
    BY <2>1, <2>2, <1>15 DEF QueueOK
  <2>5. QueueOK(q, nc', call')
    BY <2>1, <2>3, <2>4 DEF QueueOK
  <2> QED
    BY <2>1, <2>5
<1>22. \A u \in Threads : NewConnOK(call'[u], nc', sock')
  <2> SUFFICES ASSUME NEW u \in Threads, u # t, call[u].pc \in NewConnPcs
               PROVE  NewConnOK(call[u], nc', sock')
    BY <1>7, <1>11 DEF NewConnOK
  <2>1. NewConnOK(call[u], nc, sock) /\ call[u].newconn # c
    BY <1>2 DEF Owned
  <2>2. call[u].pc # "alloc" => sock'[call[u].s] = sock[call[u].s]
    BY <2>1, <1>2, <1>8, <1>12 DEF NewConnOK
  <2>3. call[u].pc = "handover" => call[u].pc # "alloc"
    OBVIOUS
  <2> QED
    BY <2>1, <2>2, <2>3, <1>15 DEF NewConnOK
<1>23. \A u \in Threads : HoldsOK(call'[u], nc', sock')
  <2> SUFFICES ASSUME NEW u \in Threads, u # t, call[u].pc \in {"recv", "closing"}
               PROVE  HoldsOK(call[u], nc', sock')
    BY <1>7, <1>11 DEF HoldsOK
  <2>1. HoldsOK(call[u], nc, sock) /\ sock'[call[u].s] = sock[call[u].s]
        /\ nc'[sock[call[u].s].conn] = nc[sock[call[u].s].conn]
    BY <1>8, <1>10, <1>12, <1>13 DEF Owned
  <2> QED
    BY <2>1 DEF HoldsOK
<1>24. \A u, v \in Threads : u # v => Apart(call'[u], call'[v])
  BY <1>7, <1>11, HoldsNothing DEF Owned
<1>25. \A f \in Callers : EventOwn(ev'[f], f, nc', sock', call')
  <2> SUFFICES ASSUME NEW f \in Callers, ev[f].pc # "idle" PROVE EventOwn(ev[f], f, nc', sock', call')
    BY <1>1 DEF EventOwn
  <2>1. f \in Threads => f # t
    BY <1>1, EventOfThread
  <2>2. ev[f].s \in Sockets /\ ev[f].s >= 0 /\ ev[f].conn \in AllConns /\ EventOwn(ev[f], f, nc, sock, call)
    BY Typed DEF EventType, EventOK, Owned, Sockets
  <2>3. nc'[ev[f].conn].state = nc[ev[f].conn].state
    BY <2>2, <1>6, <1>10
  <2>4. ev[f].pc \in {"apply", "walk"} =>
          nc'[ev[f].conn].socket = ev[f].s /\ sock'[ev[f].s].conn = ev[f].conn
    BY <2>2, <1>2, <1>9, <1>10 DEF EventOwn
  <2>5. f \in Threads /\ f # Core => call'[f] = call[f] /\ sock'[call[f].s].conn = sock[call[f].s].conn
    BY <2>1, <1>9, <1>11, <1>12
  <2>6. ev[f].by \in Threads /\ call[ev[f].by].pc = "closing" =>
          /\ call'[ev[f].by] = call[ev[f].by]
          /\ sock'[call[ev[f].by].s].conn = sock[call[ev[f].by].s].conn
    BY <1>1, <1>9, <1>11, <1>12
  <2>7. f # Core => f \in Threads
    BY DEF Callers
  <2> QED
    BY <2>2, <2>3, <2>4, <2>5, <2>6, <2>7 DEF EventOwn
<1>26. ASSUME NEW b \in AllConns, nc'[b].state = "open"
       PROVE  /\ nc[b].state = "open" /\ Len(nc'[b].mbox) = Len(nc[b].mbox)
              /\ Level(b, nc', sock') = Level(b, nc, sock)
  <2>1. CASE b = c
    <3>1. nc'[b] = n /\ sock'[s] = a /\ s >= 0
      BY <2>1, <1>2, <1>8, <1>10 DEF Sockets
    <3>2. Level(b, nc', sock') = a.rcvevent /\ Level(b, nc, sock) = -1 - nc[c].socket
      BY <3>1, <2>1, <1>2, <1>6 DEF Level, Sockets
    <3> QED
      BY <3>1, <3>2, <2>1, <1>5, <1>6, <1>26
  <2>2. CASE b # c
    <3>1. nc'[b] = nc[b]
      BY <2>2, <1>10
    <3>2. nc[b].socket \in Sockets => nc[b].socket # s
      BY <3>1, <2>2, <1>2, <1>26 DEF Owned, ConnSlots, Sockets
    <3> QED
      BY <3>1, <3>2, <1>8, <1>26, SameLevel
  <2> QED
    BY <2>1, <2>2
<1> QED
  BY <1>1, <1>20, <1>21, <1>22, <1>23, <1>24, <1>25, <1>26, StayExact DEF Owned

(* lwip_close closes the netconn and drains its mailbox.                   *)
LEMMA CloseKeeps ==
  ASSUME Local, Local', Owned, RcvEventIsExact, NEW t \in Threads, NEW s \in Sockets,
         lwip_close(t, s)
  PROVE  Owned' /\ RcvEventIsExact'
<1> DEFINE c == sock[s].conn
           n == [nc[c] EXCEPT !.state = "closed", !.mbox = <<>>]
           d == [NoCall EXCEPT !.pc = "closing", !.s = s]
           todo == IF nc[c].state = "err" THEN <<"RCVPLUS", "SENDPLUS">>
                   ELSE <<"ERROR", "RCVPLUS", "SENDPLUS">>
<1>1. /\ call[t].pc = "idle" /\ ~Busy(t) /\ Unused(t, s) /\ c \in Conns
      /\ nc[c].socket = s /\ nc[c].state # "closed" /\ ev[Core].pc = "idle"
      /\ ev' = Raise(Core, c, todo, t) /\ call' = [call EXCEPT ![t] = d] /\ sock' = sock
  BY DEF lwip_close, CoreFree
<1> HIDE DEF todo
<1>2. c \in AllConns /\ c # Listener /\ Listener \in AllConns /\ s >= 0 /\ Core \in Callers
      /\ t # Core /\ ev[t].pc = "idle"
  BY <1>1, SocketsAssumption DEF AllConns, Sockets, Callers, Busy
<1>3. nc \in [AllConns -> ConnType] /\ nc[c] \in ConnType
  BY <1>2 DEF Local, TypeOK
<1>4. n.state = "closed" /\ n.socket = s
  BY <1>1, <1>3 DEF ConnType
<1>5. nc' = [nc EXCEPT ![c] = n]
  BY <1>3 DEF lwip_close
<1>6. d.pc = "closing" /\ d.s = s
  BY DEF NoCall
<1> HIDE DEF n, d
<1>7. \A b \in AllConns : nc'[b] = IF b = c THEN n ELSE nc[b]
  BY <1>3, <1>5
<1>8. \A u \in Threads : call'[u] = IF u = t THEN d ELSE call[u]
  BY <1>1 DEF Local, TypeOK
<1>9. PICK y : Moves(Core, y) /\ y.pc = "call" /\ y.conn = c /\ y.todo = todo /\ y.by = t
  BY <1>1, RaiseMoves
<1>10. \A f \in Callers : ev'[f] = IF f = Core THEN y ELSE ev[f]
  BY <1>2, <1>9 DEF Moves, Local, TypeOK
<1>11. d.pc \notin NewConnPcs
  BY <1>6, PcsDiffer
<1>12. \A u \in Threads : u # t /\ call[u].pc \in {"recv", "closing"} =>
         call[u].s # s /\ sock[call[u].s].conn # c /\ sock[call[u].s].conn \in AllConns
  BY <1>1, HeldSocket DEF Unused
<1>13. \A b : Fresh(b, nc) => Fresh(b, nc')
  <2>1. s \in Nat /\ nc[c].socket = s
    BY <1>1, SocketsAssumption DEF Sockets
  <2>2. ~Fresh(c, nc)
    BY <2>1 DEF Fresh
  <2>3. \A b : Fresh(b, nc) => b \in AllConns
    BY DEF Fresh, AllConns
  <2> HIDE DEF c
  <2> QED
    BY <2>2, <2>3, <1>7 DEF Fresh
<1> HIDE DEF c
<1>20. ConnSlots(nc', sock')
  <2>1. ASSUME NEW b \in AllConns, nc'[b].socket >= 0, nc'[b].state # "closed"
        PROVE  sock'[nc'[b].socket].conn = b
    BY <2>1, <1>1, <1>4, <1>7 DEF Owned, ConnSlots
  <2>2. \A b \in AllConns : nc'[b].state = "new" => nc'[b].socket = -1 /\ nc'[b].mbox = <<>>
    BY <1>4, <1>7 DEF Owned, ConnSlots
  <2> QED
    BY <2>1, <2>2, <1>2, <1>7 DEF Owned, ConnSlots
<1>21. QueueOK(nc'[Listener].mbox, nc', call')
  <2>1. nc'[Listener] = nc[Listener]
    BY <1>2, <1>7
  <2> QED
    BY <2>1, <1>8, <1>11, <1>13 DEF Owned, QueueOK
<1>22. \A u \in Threads : NewConnOK(call'[u], nc', sock')
  BY <1>1, <1>8, <1>11, <1>13 DEF Owned, NewConnOK
<1>23. \A u \in Threads : HoldsOK(call'[u], nc', sock')
  <2> SUFFICES ASSUME NEW u \in Threads, call'[u].pc \in {"recv", "closing"}
               PROVE  HoldsOK(call'[u], nc', sock')
    BY DEF HoldsOK
  <2>1. CASE u = t
    <3>1. nc'[c] = n /\ sock'[s].conn = c
      BY <1>1, <1>2, <1>7 DEF c
    <3> QED
      BY <2>1, <3>1, <1>1, <1>4, <1>6, <1>8 DEF HoldsOK
  <2>2. CASE u # t
    <3>1. HoldsOK(call[u], nc, sock) /\ nc'[sock[call[u].s].conn] = nc[sock[call[u].s].conn]
          /\ call'[u] = call[u]
      BY <2>2, <1>7, <1>8, <1>12 DEF Owned
    <3> QED
      BY <3>1, <1>1 DEF HoldsOK
  <2> QED
    BY <2>1, <2>2
<1>24. \A u, v \in Threads : u # v => Apart(call'[u], call'[v])
  <2>1. \A u \in Threads : u # t => Apart(d, call[u]) /\ Apart(call[u], d)
    BY <1>6, <1>11, <1>12 DEF Apart
  <2> QED
    BY <2>1, <1>8 DEF Owned
<1>25. \A f \in Callers : EventOwn(ev'[f], f, nc', sock', call')
  <2> SUFFICES ASSUME NEW f \in Callers PROVE EventOwn(ev'[f], f, nc', sock', call')
    OBVIOUS
  <2>1. CASE f = Core
    <3>1. nc'[c] = n /\ call'[t] = d /\ sock'[s].conn = c
      BY <1>1, <1>2, <1>7, <1>8 DEF c
    <3> QED
      BY <2>1, <3>1, <1>4, <1>6, <1>9, <1>10 DEF EventOwn
  <2>2. CASE f # Core /\ ev[f].pc # "idle"
    <3>1. f \in Threads /\ f # t
      BY <2>2, <1>2 DEF Callers
    <3>2. ev[f].conn \in AllConns /\ ev[f].conn # c
      BY <2>2, <3>1, <1>2, <1>12, Typed, EventOfThread DEF EventOK
    <3>3. EventOwn(ev[f], f, nc', sock', call')
      BY <2>2, <3>1, <3>2, <1>1, <1>7, <1>8, EventStaysOwn
    <3> QED
      BY <2>2, <3>3, <1>10
  <2>3. CASE f # Core /\ ev[f].pc = "idle"
    BY <2>3, <1>10 DEF EventOwn
  <2> QED
    BY <2>1, <2>2, <2>3
<1>26. ASSUME NEW b \in AllConns, nc'[b].state = "open" PROVE Exact(b, nc', sock', ev')
  <2>1. b # c /\ nc'[b] = nc[b]
    BY <1>4, <1>7, <1>26
  <2>2. Level(b, nc', sock') = Level(b, nc, sock)
    BY <2>1, <1>1, SameLevel
  <2> QED
    BY <1>1, <1>2, <1>9, <1>26, <2>1, <2>2, OthersExact
<1> QED
  BY <1>20, <1>21, <1>22, <1>23, <1>24, <1>25, <1>26, ExactIs DEF Owned

(* free_socket frees the slot: nobody but the thread that closes it uses   *)
(* it any more, and its events are over.                                   *)
LEMMA FreeKeeps ==
  ASSUME Local, Local', Owned, RcvEventIsExact, NEW t \in Threads, free_socket(t)
  PROVE  Owned' /\ RcvEventIsExact'
<1> DEFINE s == call[t].s
           c == sock[s].conn
           a == [sock[s] EXCEPT !.lastdata = FALSE, !.conn = NULL]
<1>1. call[t].pc = "closing" /\ call[t].pc \in {"recv", "closing"} /\ ~Busy(t) /\ nc' = nc /\ ev' = ev
  BY DEF free_socket
<1>2. /\ s \in Sockets /\ s >= 0 /\ c \in AllConns /\ nc[c].socket = s /\ nc[c].state = "closed"
      /\ \A u \in Threads : u # t /\ call[u].pc \in {"recv", "closing"} => call[u].s # s
  BY <1>1, HeldSocket
<1>3. sock \in [Sockets -> SocketType] /\ sock[s] \in SocketType /\ t \in Callers /\ t # Core
      /\ ev[t].pc = "idle" /\ (ev[Core].pc # "idle" => ev[Core].by # t)
  BY <1>1, <1>2, SocketsAssumption DEF Local, TypeOK, Callers, Busy
<1>4. a.rcvevent = sock[s].rcvevent
  BY <1>3 DEF SocketType
<1>5. sock' = [sock EXCEPT ![s] = a]
  BY <1>3 DEF free_socket
<1> HIDE DEF a
<1>6. \A i \in Sockets : sock'[i] = IF i = s THEN a ELSE sock[i]
  BY <1>2, <1>3, <1>5
<1>7. \A u \in Threads : /\ u = t => call'[u].pc = "idle"
                         /\ u # t => /\ call'[u].pc = call[u].pc /\ call'[u].s = call[u].s
                                     /\ call'[u].newconn = call[u].newconn
  <2> SUFFICES ASSUME NEW u \in Threads
               PROVE  /\ u = t => call'[u].pc = "idle"
                      /\ u # t => /\ call'[u].pc = call[u].pc /\ call'[u].s = call[u].s
                                  /\ call'[u].newconn = call[u].newconn
    OBVIOUS
  <2>1. call'[u] = IF u = t THEN NoCall
                   ELSE [call[u] EXCEPT !.stolen = @ \/ call[t].s \in Fds(call[u].want)]
    BY DEF free_socket
  <2>2. call[u] \in CallType
    BY Typed
  <2> QED
    BY <2>1, <2>2 DEF CallType, NoCall
<1>8. \A u \in Threads : call[u].s \in Sockets
  BY Typed DEF CallType
<1>9. \A u \in Threads : call[u].pc \in NewConnPcs => call[u].newconn # c
  BY <1>2, HeldConn
<1>10. \A b \in AllConns : nc[b].socket >= 0 => nc[b].socket \in Sockets
  BY Typed, SocketsAssumption DEF ConnType, Sockets
<1>11. "idle" \notin NewConnPcs /\ "idle" \notin {"recv", "closing"}
  BY PcsDiffer
<1> SUFFICES Owned' /\ RcvEventIsExact'
  OBVIOUS
<1>20. ConnSlots(nc', sock')
  <2>1. ASSUME NEW b \in AllConns, nc[b].socket >= 0, nc[b].state # "closed"
        PROVE  sock'[nc[b].socket].conn = b
    <3>1. sock[nc[b].socket].conn = b /\ nc[b].socket \in Sockets
      BY <2>1, <1>10 DEF Owned, ConnSlots
    <3>2. nc[b].socket # s
      BY <3>1, <2>1, <1>2
    <3> QED
      BY <3>1, <3>2, <1>6
  <2> QED
    BY <2>1, <1>1 DEF Owned, ConnSlots
<1>21. QueueOK(nc'[Listener].mbox, nc', call')
  <2> DEFINE q == nc[Listener].mbox
  <2>1. QueueOK(q, nc, call) /\ nc'[Listener].mbox = q
    BY <1>1 DEF Owned
  <2> HIDE DEF q
  <2>3. \A i \in 1 .. Len(q) : q[i] # NULL =>
          \A u \in Threads : call'[u].pc \in NewConnPcs => call'[u].newconn # q[i]
    BY <2>1, <1>7, <1>11 DEF QueueOK
  <2>4. \A i \in 1 .. Len(q) : q[i] # NULL => Fresh(q[i], nc')
    BY <2>1, <1>1 DEF QueueOK
  <2>5. QueueOK(q, nc', call')
    BY <2>1, <2>3, <2>4 DEF QueueOK
  <2> QED
    BY <2>1, <2>5
<1>22. \A u \in Threads : NewConnOK(call'[u], nc', sock')
  <2> SUFFICES ASSUME NEW u \in Threads, u # t, call[u].pc \in NewConnPcs
               PROVE  NewConnOK(call'[u], nc', sock')
    BY <1>7, <1>11 DEF NewConnOK
  <2>1. NewConnOK(call[u], nc, sock) /\ call[u].newconn # c
    BY <1>9 DEF Owned
  <2>2. call[u].pc # "alloc" => sock'[call[u].s] = sock[call[u].s]
    BY <2>1, <1>6, <1>8 DEF NewConnOK
  <2>3. call[u].pc = "handover" => call[u].pc # "alloc"
    OBVIOUS
  <2> QED
    BY <2>1, <2>2, <2>3, <1>1, <1>7 DEF NewConnOK
<1>23. \A u \in Threads : HoldsOK(call'[u], nc', sock')
  <2> SUFFICES ASSUME NEW u \in Threads, u # t, call[u].pc \in {"recv", "closing"}
               PROVE  HoldsOK(call'[u], nc', sock')
    BY <1>7, <1>11 DEF HoldsOK
  <2>1. HoldsOK(call[u], nc, sock) /\ sock'[call[u].s] = sock[call[u].s]
    BY <1>2, <1>6, <1>8 DEF Owned
  <2> QED
    BY <2>1, <1>1, <1>7 DEF HoldsOK
<1>24. \A u, v \in Threads : u # v => Apart(call'[u], call'[v])
  BY <1>7, <1>11 DEF Owned, Apart
<1>25. \A f \in Callers : EventOwn(ev'[f], f, nc', sock', call')
  <2> SUFFICES ASSUME NEW f \in Callers, ev[f].pc # "idle" PROVE EventOwn(ev[f], f, nc', sock', call')
    BY <1>1 DEF EventOwn
  <2>1. f # t /\ ev[f].s \in Sockets /\ ev[f].conn \in AllConns /\ EventOwn(ev[f], f, nc, sock, call)
        /\ (f = Core => ev[f].by # t)
    BY <1>3, Typed DEF EventType, EventOK, Owned
  <2>2. f \in Threads /\ call[f].pc = "recv" => sock'[call[f].s].conn = sock[call[f].s].conn
    BY <2>1, <1>2, <1>6, <1>8
  <2>3. f = Core /\ ev[f].by \in Threads /\ call[ev[f].by].pc = "closing" =>
          /\ call[ev[f].by].s # s /\ sock'[call[ev[f].by].s].conn = sock[call[ev[f].by].s].conn
          /\ call'[ev[f].by].pc = "closing" /\ call'[ev[f].by].s = call[ev[f].by].s
    BY <2>1, <1>2, <1>6, <1>7, <1>8
  <2>4. ASSUME ev[f].pc \in {"apply", "walk"} PROVE ev[f].s # s
    <3> SUFFICES ASSUME ev[f].s = s PROVE FALSE
      OBVIOUS
    <3>1. ev[f].conn = c
      BY <2>1, <2>4 DEF EventOwn
    <3>2. CASE f \in Threads
      <4>1. ev[f].conn = Listener \/ (call[f].pc = "recv" /\ sock[call[f].s].conn = c)
        BY <3>1, <3>2, EventOfThread
      <4>2. nc[Listener].state = "open"
        BY DEF Owned, ConnSlots
      <4> QED
        BY <4>1, <4>2, <3>1, <3>2, <1>2, HeldSocket
    <3>3. CASE f = Core
      <4>1. ev[f].by \in Threads /\ call[ev[f].by].pc = "closing" /\ sock[call[ev[f].by].s].conn = c
        BY <3>1, <3>3, <2>1, <1>2 DEF EventOwn
      <4>2. nc[c].socket = call[ev[f].by].s
        BY <4>1, HeldSocket
      <4> QED
        BY <4>1, <4>2, <3>3, <2>1, <1>2
    <3> QED
      BY <3>2, <3>3 DEF Callers
  <2>5. ev[f].pc \in {"apply", "walk"} => sock'[ev[f].s].conn = sock[ev[f].s].conn
    BY <2>1, <2>4, <1>6
  <2> QED
    BY <2>1, <2>2, <2>3, <2>5, <1>1, <1>7, EventStaysOwn
<1>26. \A b \in AllConns : Level(b, nc', sock') = Level(b, nc, sock)
  BY <1>1, <1>4, <1>6, SameLevel
<1> QED
  BY <1>1, <1>20, <1>21, <1>22, <1>23, <1>24, <1>25, <1>26, StayExact DEF Owned

-----------------------------------------------------------------------------
(* It holds at first.                                                      *)
LEMMA OwnedInit ==
  ASSUME Init
  PROVE  Owned /\ RcvEventIsExact
<1>1. /\ nc[Listener].state = "open" /\ nc[Listener].socket = 0 /\ nc[Listener].mbox = <<>>
      /\ Listener \in AllConns
      /\ \A c \in AllConns : c # Listener => nc[c].state = "new" /\ nc[c].socket = -1 /\ nc[c].mbox = <<>>
  BY DEF Init, NoConn, AllConns
<1>2. 0 \in Sockets /\ sock[0].conn = Listener /\ sock[0].rcvevent = 0
  BY SocketsAssumption DEF Init, NoSocket, Sockets
<1>3. \A t \in Threads : call[t].pc = "idle"
  BY DEF Init, NoCall
<1>4. \A e \in Callers : ev[e].pc = "idle"
  BY DEF Init, NoEvent
<1>5. "idle" \notin NewConnPcs /\ "idle" \notin {"recv", "closing"}
  BY PcsDiffer
<1>6. ConnSlots(nc, sock)
  BY <1>1, <1>2 DEF ConnSlots
<1>7. QueueOK(nc[Listener].mbox, nc, call)
  <2>1. Len(nc[Listener].mbox) = 0
    BY <1>1
  <2> QED
    BY <2>1 DEF QueueOK
<1>8. Owned
  BY <1>3, <1>4, <1>5, <1>6, <1>7 DEF Owned, NewConnOK, HoldsOK, Apart, EventOwn
<1>9. RcvEventIsExact
  <2>1. \A c, v : Number(ev, c, v) = 0
    <3>1. \A c, v : Carriers(ev, c, v) = {}
      BY <1>4 DEF Carriers, Carries
    <3> QED
      BY <3>1, FS_EmptySet DEF Number
  <2>2. ASSUME NEW c \in AllConns, nc[c].state = "open" PROVE Exact(c, nc, sock, ev)
    <3>1. c = Listener
      BY <1>1, <2>2
    <3>2. Level(c, nc, sock) = 0 /\ Len(nc[c].mbox) = 0
      BY <3>1, <1>1, <1>2 DEF Level
    <3> QED
      BY <2>1, <3>2 DEF Exact
  <2> QED
    BY <2>2, ExactIs
<1> QED
  BY <1>8, <1>9

(* Every step keeps it, action by action.                                  *)
LEMMA OwnedStep ==
  ASSUME Local, Local', Owned, RcvEventIsExact, [Next]_vars
  PROVE  Owned' /\ RcvEventIsExact'
<1> DEFINE G == Owned' /\ RcvEventIsExact'
<1>1. ASSUME Alike PROVE G
  BY <1>1, AlikeOwned, AlikeExact
<1>2. ASSUME NEW t \in Threads, Select(t) PROVE G
  BY <1>1, <1>2, SelectAlike
<1>3. ASSUME NEW t \in Threads, Use(t) PROVE G
  <2>1. CASE \E s \in Sockets, all \in BOOLEAN : RecvLastdata(t, s, all)
    BY <2>1, RecvLastdataKeeps
  <2>2. CASE \E s \in Sockets : RecvFetch(t, s)
    BY <2>2, RecvFetchKeeps
  <2>3. CASE \E all \in BOOLEAN : RecvDone(t, all)
    BY <2>3, RecvDoneKeeps
  <2>4. CASE AcceptFetch(t)
    BY <2>4, AcceptFetchKeeps
  <2>5. CASE AllocSocket(t)
    BY <2>5, AllocSocketKeeps
  <2>6. CASE AllocInit(t)
    BY <2>6, AllocInitKeeps
  <2>7. CASE AcceptHandover(t)
    BY <2>7, HandoverKeeps
  <2>8. CASE \E s \in Sockets : lwip_close(t, s)
    BY <2>8, CloseKeeps
  <2>9. CASE free_socket(t)
    BY <2>9, FreeKeeps
  <2> QED
    BY <1>3, <2>1, <2>2, <2>3, <2>4, <2>5, <2>6, <2>7, <2>8, <2>9 DEF Use
<1>4. ASSUME NEW e \in Callers, Event(e) PROVE G
  BY <1>4, EventSocketKeeps, EventApplyKeeps, EventWalkKeeps, EventPostKeeps DEF Event
<1>5. CASE Stack
  <2>1. CASE \E c \in Conns \cup {NULL} : accept_function(c)
    BY <2>1, AcceptFunctionKeeps
  <2>2. CASE \E c \in Conns : \/ recv_tcp(c) \/ lwip_netconn_do_writemore(c)
                              \/ sent_tcp(c) \/ err_tcp(c)
    BY <2>2, ConnStackKeeps
  <2> QED
    BY <1>5, <2>1, <2>2 DEF Stack
<1>6. CASE UNCHANGED vars
  <2>1. Alike
    BY <1>6, LikeItself DEF vars, Alike, CallLike
  <2> QED
    BY <2>1, <1>1
<1>7. CASE Next
  <2>1. CASE \E t \in Threads : Select(t) \/ Use(t)
    BY <2>1, <1>2, <1>3
  <2>2. CASE \E e \in Callers : Event(e)
    BY <2>2, <1>4
  <2> QED
    BY <1>5, <1>7, <2>1, <2>2 DEF Next
<1> QED
  BY <1>6, <1>7

(* Who holds what, and the counters of receive events, are invariant.      *)
THEOREM OwnedInvariant == Spec => [](Owned /\ RcvEventIsExact)
<1>1. Init => Owned /\ RcvEventIsExact
  BY OwnedInit
<1>2. Local /\ Local' /\ Owned /\ RcvEventIsExact /\ [Next]_vars => (Owned /\ RcvEventIsExact)'
  BY OwnedStep
<1> QED
  BY <1>1, <1>2, LocalInvariant, PTL DEF Spec

(* rcvevent, or conn->socket before there is a socket, counts exactly the  *)
(* messages in the mailbox whose event is not under way: event_callback,   *)
(* lwip_accept's hand-over (sockets.c:520), lwip_recvfrom and lwip_close   *)
(* lose none and count none twice, in whatever order they meet, also when  *)
(* a slot is reused.                                                       *)
THEOREM ReceiveEventsExact == Spec => []RcvEventIsExact
  BY OwnedInvariant, PTL

-----------------------------------------------------------------------------
(* What makes a select return.                                             *)

(* Socket s, now so, has something that is asked for.                      *)
Has(so, s, want) ==
  /\ so.conn # NULL
  /\ \/ <<s, "read">> \in want /\ so.lastdata
     \/ \E k \in EventReady(so) : <<s, k>> \in want

(* The netconn in the slot knows it.                                       *)
Live(s, N, S) == S[s].conn # NULL /\ N[S[s].conn].socket = s

(* A thread in select that will return something: it is signalled, or its  *)
(* second scan has found something, or it leaves without an error or a     *)
(* timeout.                                                                *)
Due(c) ==
  \/ c.pc \in {"scan", "add", "inc", "rescan", "wait"} /\ c.sem
  \/ c.pc = "rescan" /\ c.ready # {}
  \/ c.pc \in {"dec", "remove"} /\ ~c.bad /\ ~c.timedout

(* Such a thread finds what it will return, unless it was taken away; and  *)
(* as long as nothing was taken away its sockets are open.                 *)
WokenOK(c, N, S) ==
  c.pc \in SelectPcs =>
    /\ ~c.stolen => \A s \in Fds(c.want) : Live(s, N, S)
    /\ c.pc \in {"add", "inc"} => c.ready = {}
    /\ Due(c) /\ ~c.stolen => \E s \in Sockets : Has(S[s], s, c.want)
    /\ c.pc = "result" /\ ~c.stolen => c.ready # {} \/ \E s \in c.todo : Has(S[s], s, c.want)

Woke == \A t \in Threads : WokenOK(call[t], nc, sock)

(* lwip_selscan finds exactly that.                                        *)
LEMMA ScannedIsHas ==
  ASSUME NEW s \in Sockets, NEW want \in SUBSET (Sockets \X Kinds)
  PROVE  Scanned(s, want) # {} <=> Has(sock[s], s, want)
<1>1. "read" \in Kinds /\ "write" \in Kinds /\ "except" \in Kinds
  BY DEF Kinds
<1>2. ASSUME NEW p \in Scanned(s, want) PROVE Has(sock[s], s, want)
  <2>1. p \in want /\ p[1] = s /\ sock[s].conn # NULL /\ p[2] \in Kinds /\ p = <<s, p[2]>>
    BY DEF Scanned
  <2>2. (p[2] = "read" /\ sock[s].lastdata) \/ p[2] \in EventReady(sock[s])
    BY <2>1 DEF Scanned, EventReady
  <2> QED
    BY <2>1, <2>2 DEF Has
<1>3. ASSUME Has(sock[s], s, want) PROVE \E p : p \in Scanned(s, want)
  <2>1. CASE <<s, "read">> \in want /\ sock[s].lastdata
    <3>1. <<s, "read">> \in Scanned(s, want)
      BY <2>1, <1>3 DEF Has, Scanned
    <3> QED
      BY <3>1
  <2>2. CASE \E k \in EventReady(sock[s]) : <<s, k>> \in want
    <3>1. PICK k \in EventReady(sock[s]) : <<s, k>> \in want
      BY <2>2
    <3>2. <<s, k>> \in Scanned(s, want)
      BY <3>1, <1>3 DEF Has, Scanned, EventReady
    <3> QED
      BY <3>2
  <2> QED
    BY <1>3, <2>1, <2>2 DEF Has
<1> QED
  BY <1>2, <1>3

(* What a socket has is something asked for.                               *)
LEMMA HasIsWanted ==
  ASSUME NEW so, NEW s, NEW want, Has(so, s, want)
  PROVE  s \in Fds(want)
<1>1. PICK k : <<s, k>> \in want
  BY DEF Has
<1>2. <<s, k>>[1] = s
  OBVIOUS
<1> QED
  BY <1>1, <1>2 DEF Fds

(* A slot that is in use stays so and keeps its events, but for those of   *)
(* the kinds K.                                                            *)
GrowsBut(s, K, N, S, M, T) ==
  Live(s, N, S) =>
    /\ T[s].conn = S[s].conn /\ M[T[s].conn].socket = s
    /\ "read" \in K \/ (S[s].lastdata => T[s].lastdata)
    /\ \A k \in EventReady(S[s]) : k \in K \/ k \in EventReady(T[s])

(* A thread in select that does not move.                                  *)
Bears(c, d) ==
  /\ d.pc = c.pc /\ d.want = c.want /\ d.todo = c.todo /\ d.ready = c.ready
  /\ d.bad = c.bad /\ d.timedout = c.timedout
  /\ c.stolen => d.stolen

Unwanted(s, want) == {k \in Kinds : <<s, k>> \notin want}

(* It loses only what it does not ask for, or what was taken from it.      *)
LEMMA BearsOK ==
  ASSUME NEW c \in CallType, CallOK(c), NEW d, NEW N, NEW S, NEW M, NEW T,
         WokenOK(c, N, S), Bears(c, d),
         ~d.stolen => \A s \in Fds(c.want) : GrowsBut(s, Unwanted(s, c.want), N, S, M, T),
         d.sem => c.sem \/ \E s \in Sockets : Has(T[s], s, c.want)
  PROVE  WokenOK(d, M, T)
<1> SUFFICES ASSUME d.pc \in SelectPcs PROVE WokenOK(d, M, T)
  BY DEF WokenOK
<1>1. /\ c.pc \in SelectPcs /\ d.pc = c.pc /\ d.want = c.want /\ d.todo = c.todo
      /\ d.ready = c.ready /\ d.bad = c.bad /\ d.timedout = c.timedout /\ (~d.stolen => ~c.stolen)
  BY DEF Bears
<1>2. ASSUME ~d.stolen PROVE \A s \in Fds(c.want) : Live(s, N, S) /\ Live(s, M, T)
  <2>1. \A s \in Fds(c.want) : Live(s, N, S)
    BY <1>1, <1>2 DEF WokenOK
  <2> QED
    BY <2>1, <1>2 DEF GrowsBut, Live
<1>3. ASSUME ~d.stolen, NEW s, Has(S[s], s, c.want) PROVE Has(T[s], s, c.want)
  <2>1. s \in Fds(c.want)
    BY <1>3, HasIsWanted
  <2>2. GrowsBut(s, Unwanted(s, c.want), N, S, M, T) /\ Live(s, N, S)
    BY <2>1, <1>2, <1>3
  <2>3. "read" \in Unwanted(s, c.want) => <<s, "read">> \notin c.want
    BY DEF Unwanted
  <2>4. \A k \in Unwanted(s, c.want) : <<s, k>> \notin c.want
    BY DEF Unwanted
  <2>5. T[s].conn # NULL
    BY <2>2 DEF GrowsBut, Live
  <2>6. CASE <<s, "read">> \in c.want /\ S[s].lastdata
    BY <2>2, <2>3, <2>5, <2>6 DEF GrowsBut, Has
  <2>7. CASE \E k \in EventReady(S[s]) : <<s, k>> \in c.want
    BY <2>2, <2>4, <2>5, <2>7 DEF GrowsBut, Has
  <2> QED
    BY <1>3, <2>6, <2>7 DEF Has
<1>4. ASSUME Due(d), ~d.stolen PROVE \E s \in Sockets : Has(T[s], s, c.want)
  <2>1. CASE Due(c)
    <3>1. PICK s \in Sockets : Has(S[s], s, c.want)
      BY <2>1, <1>1, <1>4 DEF WokenOK
    <3> QED
      BY <3>1, <1>3, <1>4
  <2>2. CASE ~Due(c)
    BY <2>2, <1>1, <1>4 DEF Due
  <2> QED
    BY <2>1, <2>2
<1>5. ASSUME d.pc = "result", ~d.stolen PROVE d.ready # {} \/ \E s \in d.todo : Has(T[s], s, d.want)
  <2>1. c.ready # {} \/ \E s \in c.todo : Has(S[s], s, c.want)
    BY <1>1, <1>5 DEF WokenOK
  <2> QED
    BY <2>1, <1>1, <1>3, <1>5
<1>6. d.pc \in {"add", "inc"} => d.ready = {}
  BY <1>1 DEF WokenOK
<1> QED
  BY <1>1, <1>2, <1>4, <1>5, <1>6 DEF WokenOK

(* A step that no thread in select takes.                                  *)
LEMMA OthersWoke ==
  ASSUME Local, Woke,
         \A u \in Threads : call'[u].pc \in SelectPcs =>
           /\ Bears(call[u], call'[u])
           /\ ~call'[u].stolen =>
                \A s \in Fds(call[u].want) : GrowsBut(s, Unwanted(s, call[u].want), nc, sock, nc', sock')
           /\ call'[u].sem => call[u].sem \/ \E s \in Sockets : Has(sock'[s], s, call[u].want)
  PROVE  Woke'
<1> SUFFICES ASSUME NEW u \in Threads, call'[u].pc \in SelectPcs PROVE WokenOK(call'[u], nc', sock')
  BY DEF Woke, WokenOK
<1>1. call[u] \in CallType /\ CallOK(call[u]) /\ WokenOK(call[u], nc, sock)
  BY Typed DEF Local, Woke
<1> DEFINE c == call[u]
           d == call'[u]
<1>2. /\ Bears(c, d)
      /\ ~d.stolen => \A s \in Fds(c.want) : GrowsBut(s, Unwanted(s, c.want), nc, sock, nc', sock')
      /\ d.sem => c.sem \/ \E s \in Sockets : Has(sock'[s], s, c.want)
  OBVIOUS
<1>3. c \in CallType /\ CallOK(c) /\ WokenOK(c, nc, sock)
  BY <1>1
<1> SUFFICES WokenOK(d, nc', sock')
  OBVIOUS
<1> HIDE DEF c, d
<1> QED
  BY <1>2, <1>3, BearsOK

(* A step that takes nothing away and no thread in select takes.           *)
LEMMA GrowWoke ==
  ASSUME Local, Woke, \A s \in Sockets : GrowsBut(s, {}, nc, sock, nc', sock'),
         \A u \in Threads : call'[u].pc \in SelectPcs => call'[u] = call[u]
  PROVE  Woke'
<1> SUFFICES ASSUME NEW u \in Threads, call'[u].pc \in SelectPcs
             PROVE  /\ Bears(call[u], call'[u])
                    /\ \A s \in Fds(call[u].want) : GrowsBut(s, Unwanted(s, call[u].want), nc, sock, nc', sock')
                    /\ call'[u].sem => call[u].sem
  BY OthersWoke
<1>1. call'[u] = call[u] /\ Fds(call[u].want) \subseteq Sockets
  BY Typed, FdsAreSockets DEF CallType
<1>2. \A s \in Sockets : \A K : GrowsBut(s, K, nc, sock, nc', sock')
  BY DEF GrowsBut
<1> QED
  BY <1>1, <1>2 DEF Bears

(* Nothing happens to a slot, and a netconn keeps it.                      *)
LEMMA SameSlots ==
  ASSUME Local, NEW s \in Sockets, sock[s].conn # NULL /\ nc[sock[s].conn].socket = s =>
           sock'[s] = sock[s] /\ nc'[sock[s].conn].socket = s
  PROVE  GrowsBut(s, {}, nc, sock, nc', sock')
  BY DEF GrowsBut, Live

(* The netconn in a slot.                                                  *)
LEMMA InSlot ==
  ASSUME Local, NEW s \in Sockets, sock[s].conn # NULL
  PROVE  sock[s].conn \in AllConns
  BY Typed DEF SocketType

(* The callbacks of the stack take nothing away.                           *)
LEMMA StackWoke ==
  ASSUME Local, Woke, Stack
  PROVE  Woke'
<1>1. sock' = sock /\ call' = call
  BY DEF Stack, accept_function, recv_tcp, lwip_netconn_do_writemore, sent_tcp, err_tcp
<1>2. \A b \in AllConns : nc'[b].socket = nc[b].socket
  <2> SUFFICES ASSUME NEW b \in AllConns PROVE nc'[b].socket = nc[b].socket
    OBVIOUS
  <2>0. nc \in [AllConns -> ConnType] /\ Listener \in AllConns
        /\ \A c \in Conns : c \in AllConns
    BY DEF Local, TypeOK, AllConns
  <2>1. ASSUME NEW c \in Conns \cup {NULL}, accept_function(c) PROVE nc'[b].socket = nc[b].socket
    <3>1. CASE c = NULL
      <4>1. nc' = [nc EXCEPT ![Listener].mbox = Append(@, c)]
        BY <2>1, <3>1 DEF accept_function
      <4> QED
        BY <4>1, <2>0 DEF ConnType
    <3>2. CASE c # NULL
      <4>1. nc' = [nc EXCEPT ![c].state = "open", ![Listener].mbox = Append(@, c)] /\ c \in Conns
        BY <2>1, <3>2 DEF accept_function
      <4>2. c # Listener
        BY <4>1, SocketsAssumption
      <4> DEFINE m == [nc[c] EXCEPT !.state = "open"]
                 n == [nc[Listener] EXCEPT !.mbox = Append(@, c)]
      <4>3. nc' = [nc EXCEPT ![c] = m, ![Listener] = n]
        BY <4>1, <4>2, <2>0
      <4>4. m.socket = nc[c].socket /\ n.socket = nc[Listener].socket
        BY <4>1, <2>0 DEF ConnType
      <4> HIDE DEF m, n
      <4>5. nc'[b] = IF b = Listener THEN n ELSE IF b = c THEN m ELSE nc[b]
        BY <4>1, <4>2, <4>3, <2>0
      <4> QED
        BY <4>4, <4>5
    <3> QED
      BY <3>1, <3>2
  <2>2. ASSUME NEW c \in Conns, recv_tcp(c) PROVE nc'[b].socket = nc[b].socket
    BY <2>0, <2>2 DEF recv_tcp, ConnType
  <2>3. ASSUME NEW c \in Conns, lwip_netconn_do_writemore(c) PROVE nc'[b].socket = nc[b].socket
    BY <2>0, <2>3 DEF lwip_netconn_do_writemore, ConnType
  <2>4. ASSUME NEW c \in Conns, sent_tcp(c) PROVE nc'[b].socket = nc[b].socket
    BY <2>0, <2>4 DEF sent_tcp, ConnType
  <2>5. ASSUME NEW c \in Conns, err_tcp(c) PROVE nc'[b].socket = nc[b].socket
    BY <2>0, <2>5 DEF err_tcp, ConnType
  <2> QED
    BY <2>1, <2>2, <2>3, <2>4, <2>5 DEF Stack
<1> QED
  BY <1>1, <1>2, InSlot, SameSlots, GrowWoke

(* Neither does event_callback before it comes to the socket, or the post  *)
(* of err_tcp.                                                             *)
LEMMA EventSocketWoke ==
  ASSUME Local, Woke, NEW e \in Callers, EventSocket(e) \/ EventPost(e)
  PROVE  Woke'
<1> DEFINE c == ev[e].conn
<1>1. sock' = sock /\ call' = call /\ ev[e].pc = "call"
  BY DEF EventSocket, EventPost
<1>2. nc \in [AllConns -> ConnType] /\ c \in AllConns
  BY <1>1, Typed DEF Local, TypeOK, EventOK
<1>3. \A b \in AllConns : nc[b].socket >= 0 => nc'[b].socket = nc[b].socket
  <2>1. CASE nc' = nc
    BY <2>1
  <2>2. CASE nc[c].socket < 0 /\ nc' = [nc EXCEPT ![c].socket = @ - 1]
    <3>1. \A b \in AllConns : b # c => nc'[b] = nc[b]
      BY <2>2, <1>2
    <3>2. nc[c].socket \in Int
      BY <1>2, Typed DEF ConnType
    <3> QED
      BY <2>2, <3>1, <3>2
  <2>3. CASE nc' = [nc EXCEPT ![c].mbox = Append(@, NULL)]
    BY <2>3, <1>2 DEF ConnType
  <2> QED
    BY <2>1, <2>2, <2>3 DEF EventSocket, EventPost
<1>4. \A s \in Sockets : s >= 0
  BY DEF Sockets
<1> QED
  BY <1>1, <1>3, <1>4, InSlot, SameSlots, GrowWoke

(* The walk signals a thread for what the socket has.                      *)
LEMMA SignalsBears ==
  ASSUME NEW c, NEW d, NEW f, NEW so, NEW s, NEW K, Marks(c, d, s, K), Signals(d, f, so, s)
  PROVE  /\ Bears(c, f)
         /\ f.sem => c.sem \/ \E r \in EventReady(so) : <<s, r>> \in c.want
         /\ ~f.stolen => \A k \in K : <<s, k>> \notin c.want
  BY DEF Marks, Signals, Bears

(* It does so again at every entry of the list.                            *)
LEMMA EventWalkWoke ==
  ASSUME Local, Owned, Woke, NEW e \in Callers, EventWalk(e)
  PROVE  Woke'
<1> DEFINE s == ev[e].s
           k == IF ev[e].changed THEN 1 ELSE ev[e].next
<1>1. s \in Sockets /\ k \in Nat \ {0} /\ call \in [Threads -> CallType] /\ ev[e].pc = "walk"
      /\ ev[e] \in EventType
  BY DEF Local, TypeOK, EventType, EventWalk
<1>2. Walk(e, sock[s], s, k, call) /\ sock' = sock /\ nc' = nc
  BY DEF EventWalk
<1> HIDE DEF k
<1>3. \A u \in Threads : Signals(call[u], call'[u], sock[s], s)
  BY <1>1, <1>2, WalkIs
<1>4. sock[s].conn # NULL
  <2>1. EventOwn(ev[e], e, nc, sock, call) /\ ev[e].conn \in AllConns
    BY <1>1, Typed DEF Owned, EventOK
  <2> QED
    BY <2>1, <1>1, SocketsAssumption DEF EventOwn, AllConns
<1>5. \A r, K : GrowsBut(r, K, nc, sock, nc', sock')
  BY <1>2 DEF GrowsBut, Live
<1>6. ASSUME NEW u \in Threads
      PROVE  Bears(call[u], call'[u]) /\ (call'[u].sem => call[u].sem \/ Has(sock'[s], s, call[u].want))
  <2>1. Marks(call[u], call[u], s, {})
    BY DEF Marks
  <2>2. Bears(call[u], call'[u]) /\ (call'[u].sem => call[u].sem \/ \E r \in EventReady(sock[s]) : <<s, r>> \in call[u].want)
    BY <2>1, <1>3, SignalsBears
  <2> QED
    BY <2>2, <1>2, <1>4 DEF Has
<1> QED
  BY <1>1, <1>5, <1>6, OthersWoke

(* event_callback takes an event only from threads that it marks.          *)
LEMMA EventApplyWoke ==
  ASSUME Local, Owned, Woke, NEW e \in Callers, EventApply(e)
  PROVE  Woke'
<1> DEFINE s == ev[e].s
           c == ev[e].conn
           evt == Head(ev[e].todo)
           so == Applied(sock[s], evt)
           cl == Stolen(e, s, evt)
<1>1. /\ ev[e] \in EventType /\ EventOK(ev[e]) /\ ev[e].pc = "apply"
      /\ sock \in [Sockets -> SocketType] /\ EventOwn(ev[e], e, nc, sock, call)
  BY DEF Local, TypeOK, EventApply, Owned
<1>2. s \in Sockets /\ ev[e].todo \in Seq(Events) /\ ev[e].todo # <<>> /\ evt # "post" /\ c \in AllConns
  BY <1>1 DEF EventType, EventOK
<1>3. evt \in Events /\ sock[s] \in SocketType /\ sock[s].conn = c /\ nc[c].socket = s
  BY <1>1, <1>2 DEF EventOwn
<1>4. sock' = [sock EXCEPT ![s] = so] /\ nc' = nc
      /\ IF so.select_waiting = 0 THEN EventDone(e) /\ call' = cl ELSE Walk(e, so, s, 1, cl)
  BY DEF EventApply
<1>5. \A u \in Threads : Marks(call[u], cl[u], s, IF u = e THEN {} ELSE Taken(evt))
  BY StolenMarks
<1>6. cl \in [Threads -> CallType]
  BY StolenIsSteal
<1> HIDE DEF evt
<1>7. /\ so.lastdata = sock[s].lastdata /\ so.conn = c
      /\ \A r \in EventReady(sock[s]) : (evt = "RCVMINUS" => r # "read") /\ (evt = "SENDMINUS" => r # "write")
              => r \in EventReady(so)
  BY <1>2, <1>3, AppliedOK, AppliedIs
<1>8. \A r \in EventReady(sock[s]) : r \in Taken(evt) \/ r \in EventReady(so)
  BY <1>7 DEF Taken
<1> HIDE DEF so, cl
<1>9. \A u \in Threads : Signals(cl[u], call'[u], so, s)
  <2>1. CASE so.select_waiting = 0
    BY <1>4, <2>1 DEF Signals
  <2>2. CASE so.select_waiting # 0
    <3>1. Walk(e, so, s, 1, cl) /\ 1 \in Nat \ {0} /\ ev[e].pc \in {"apply", "walk"}
      BY <1>1, <1>4, <2>2
    <3> QED
      BY <1>6, <3>1, WalkIs
  <2> QED
    BY <2>1, <2>2
<1>10. \A r \in Sockets : sock'[r] = IF r = s THEN so ELSE sock[r]
  BY <1>1, <1>2, <1>4
<1>11. GrowsBut(s, Taken(evt), nc, sock, nc', sock')
  BY <1>2, <1>3, <1>4, <1>7, <1>8, <1>10 DEF GrowsBut
<1>12. \A r \in Sockets : r # s => GrowsBut(r, {}, nc, sock, nc', sock')
  BY <1>4, <1>10 DEF GrowsBut, Live
<1>13. c # NULL /\ sock'[s] = so
  BY <1>2, <1>10, SocketsAssumption DEF AllConns
<1> HIDE DEF c, s
<1>14. ASSUME NEW u \in Threads, call'[u].pc \in SelectPcs
       PROVE  /\ Bears(call[u], call'[u])
              /\ call'[u].sem => call[u].sem \/ Has(sock'[s], s, call[u].want)
              /\ ~call'[u].stolen => \A r \in Fds(call[u].want) :
                   GrowsBut(r, Unwanted(r, call[u].want), nc, sock, nc', sock')
  <2>1. /\ Bears(call[u], call'[u])
        /\ call'[u].sem => call[u].sem \/ \E r \in EventReady(so) : <<s, r>> \in call[u].want
        /\ ~call'[u].stolen => \A k \in (IF u = e THEN {} ELSE Taken(evt)) : <<s, k>> \notin call[u].want
    BY <1>5, <1>9, SignalsBears
  <2>2. u # e
    <3>1. call[u].pc \in SelectPcs
      BY <2>1, <1>14 DEF Bears
    <3> QED
      BY <3>1, <1>1, SelectIsQuiet
  <2>3. call'[u].sem => call[u].sem \/ Has(sock'[s], s, call[u].want)
    BY <2>1, <1>7, <1>13 DEF Has
  <2>4. ASSUME ~call'[u].stolen, NEW r \in Fds(call[u].want)
        PROVE  GrowsBut(r, Unwanted(r, call[u].want), nc, sock, nc', sock')
    <3>1. r \in Sockets
      BY Typed, FdsAreSockets DEF CallType
    <3>2. CASE r = s
      <4>1. Taken(evt) \subseteq Kinds
        BY DEF Taken, Kinds
      <4>2. Taken(evt) \subseteq Unwanted(s, call[u].want)
        BY <2>1, <2>2, <2>4, <4>1 DEF Unwanted
      <4> QED
        BY <3>2, <4>2, <1>11 DEF GrowsBut
    <3>3. CASE r # s
      BY <3>1, <3>3, <1>12 DEF GrowsBut
    <3> QED
      BY <3>2, <3>3
  <2> QED
    BY <2>1, <2>3, <2>4
<1> QED
  BY <1>2, <1>14, OthersWoke

(* lwip_recvfrom from lastdata marks the threads that ask for it.          *)
LEMMA RecvLastdataWoke ==
  ASSUME Local, Woke, NEW t \in Threads, NEW s \in Sockets, NEW all \in BOOLEAN,
         RecvLastdata(t, s, all)
  PROVE  Woke'
<1>1. /\ nc' = nc /\ sock' = [sock EXCEPT ![s].lastdata = ~all]
      /\ call' = [Steal(t, s, "read") EXCEPT ![t] = NoCall]
  BY DEF RecvLastdata
<1>2. sock[s] \in SocketType /\ sock \in [Sockets -> SocketType]
  BY DEF Local, TypeOK
<1> DEFINE a == [sock[s] EXCEPT !.lastdata = ~all]
<1>3. /\ a.conn = sock[s].conn /\ a.rcvevent = sock[s].rcvevent /\ a.sendevent = sock[s].sendevent
      /\ a.errevent = sock[s].errevent
  BY <1>2 DEF SocketType
<1>4. sock' = [sock EXCEPT ![s] = a]
  BY <1>1, <1>2
<1> HIDE DEF a
<1>5. \A r \in Sockets : sock'[r] = IF r = s THEN a ELSE sock[r]
  BY <1>2, <1>4
<1>6. EventReady(a) = EventReady(sock[s])
  BY <1>3 DEF EventReady
<1>7. GrowsBut(s, {"read"}, nc, sock, nc', sock')
  BY <1>1, <1>3, <1>5, <1>6 DEF GrowsBut, Live
<1>8. \A r \in Sockets : r # s => GrowsBut(r, {}, nc, sock, nc', sock')
  BY <1>1, <1>5 DEF GrowsBut, Live
<1>9. \A u \in Threads : call'[u] = IF u = t THEN NoCall ELSE Steal(t, s, "read")[u]
  BY <1>1 DEF Steal
<1>10. ASSUME NEW u \in Threads, call'[u].pc \in SelectPcs
       PROVE  /\ Bears(call[u], call'[u]) /\ (call'[u].sem => call[u].sem)
              /\ ~call'[u].stolen => \A r \in Fds(call[u].want) :
                   GrowsBut(r, Unwanted(r, call[u].want), nc, sock, nc', sock')
  <2>1. u # t
    BY <1>9, <1>10, PcsDiffer DEF NoCall
  <2>2. Marks(call[u], Steal(t, s, "read")[u], s, IF u = t THEN {} ELSE {"read"})
    BY StealMarks, Zenon
  <2>3. Marks(call[u], call'[u], s, {"read"})
    BY <2>1, <2>2, <1>9
  <2>4. Bears(call[u], call'[u]) /\ (call'[u].sem => call[u].sem)
        /\ (~call'[u].stolen => <<s, "read">> \notin call[u].want)
    BY <2>3 DEF Marks, Bears
  <2>5. ASSUME ~call'[u].stolen, NEW r \in Fds(call[u].want)
        PROVE  GrowsBut(r, Unwanted(r, call[u].want), nc, sock, nc', sock')
    <3>1. r \in Sockets
      BY Typed, FdsAreSockets DEF CallType
    <3>2. CASE r = s
      <4>1. "read" \in Unwanted(s, call[u].want)
        BY <2>4, <2>5 DEF Unwanted, Kinds
      <4> QED
        BY <3>2, <4>1, <1>7 DEF GrowsBut
    <3>3. CASE r # s
      BY <3>1, <3>3, <1>8 DEF GrowsBut
    <3> QED
      BY <3>2, <3>3
  <2> QED
    BY <2>4, <2>5
<1> QED
  BY <1>10, OthersWoke

(* A step in which a thread outside select changes a netconn that keeps    *)
(* its socket.                                                             *)
LEMMA OutsideWoke ==
  ASSUME Local, Woke, NEW t \in Threads, NEW c \in AllConns, NEW n, NEW d,
         sock' = sock, nc' = [nc EXCEPT ![c] = n], call' = [call EXCEPT ![t] = d],
         n.socket = nc[c].socket, d.pc \notin SelectPcs
  PROVE  Woke'
<1>1. nc \in [AllConns -> ConnType] /\ call \in [Threads -> CallType]
  BY DEF Local, TypeOK
<1>2. \A b \in AllConns : nc'[b].socket = nc[b].socket
  BY <1>1
<1>3. \A u \in Threads : call'[u].pc \in SelectPcs => call'[u] = call[u]
  BY <1>1
<1> QED
  BY <1>2, <1>3, InSlot, SameSlots, GrowWoke

(* lwip_recvfrom takes a message and announces the event.                  *)
LEMMA RecvFetchWoke ==
  ASSUME Local, Woke, NEW t \in Threads, NEW s \in Sockets, RecvFetch(t, s)
  PROVE  Woke'
<1> DEFINE c == sock[s].conn
           n == [nc[c] EXCEPT !.mbox = Tail(@)]
           d == [NoCall EXCEPT !.pc = "recv", !.s = s]
<1>1. c \in AllConns /\ nc \in [AllConns -> ConnType]
  BY DEF RecvFetch, AllConns, Local, TypeOK
<1>2. sock' = sock /\ call' = [call EXCEPT ![t] = d]
  BY DEF RecvFetch
<1>3. nc' = [nc EXCEPT ![c].mbox = Tail(@)]
  BY DEF RecvFetch
<1>4. nc' = [nc EXCEPT ![c] = n]
  BY <1>1, <1>3
<1>5. n.socket = nc[c].socket
  BY <1>1 DEF ConnType
<1>6. d.pc \notin SelectPcs
  BY DEF NoCall, SelectPcs
<1> HIDE DEF c, n, d
<1> QED
  BY <1>1, <1>2, <1>4, <1>5, <1>6, OutsideWoke

(* lwip_close drains the netconn and announces its events.                 *)
LEMMA CloseWoke ==
  ASSUME Local, Woke, NEW t \in Threads, NEW s \in Sockets, lwip_close(t, s)
  PROVE  Woke'
<1> DEFINE c == sock[s].conn
           n == [nc[c] EXCEPT !.state = "closed", !.mbox = <<>>]
           d == [NoCall EXCEPT !.pc = "closing", !.s = s]
<1>1. c \in AllConns /\ nc \in [AllConns -> ConnType]
  BY DEF lwip_close, AllConns, Local, TypeOK
<1>2. sock' = sock /\ call' = [call EXCEPT ![t] = d]
  BY DEF lwip_close
<1>3. nc' = [nc EXCEPT ![c].state = "closed", ![c].mbox = <<>>]
  BY DEF lwip_close
<1>4. nc' = [nc EXCEPT ![c] = n]
  BY <1>1, <1>3
<1>5. n.socket = nc[c].socket
  BY <1>1 DEF ConnType
<1>6. d.pc \notin SelectPcs
  BY DEF NoCall, SelectPcs
<1> HIDE DEF c, n, d
<1> QED
  BY <1>1, <1>2, <1>4, <1>5, <1>6, OutsideWoke

(* lwip_accept takes a connection and announces the event.                 *)
LEMMA AcceptFetchWoke ==
  ASSUME Local, Woke, NEW t \in Threads, AcceptFetch(t)
  PROVE  Woke'
<1> DEFINE n == [nc[Listener] EXCEPT !.mbox = Tail(@)]
           a == [NoCall EXCEPT !.pc = "alloc", !.newconn = Head(nc[Listener].mbox)]
           d == IF Head(nc[Listener].mbox) = NULL THEN NoCall ELSE a
<1>1. Listener \in AllConns /\ nc \in [AllConns -> ConnType]
  BY DEF AllConns, Local, TypeOK
<1>2. sock' = sock /\ call' = [call EXCEPT ![t] = d]
  BY DEF AcceptFetch
<1>3. nc' = [nc EXCEPT ![Listener].mbox = Tail(@)]
  BY DEF AcceptFetch
<1>4. nc' = [nc EXCEPT ![Listener] = n]
  BY <1>1, <1>3
<1>5. n.socket = nc[Listener].socket
  BY <1>1 DEF ConnType
<1>6. a.pc \notin SelectPcs /\ NoCall.pc \notin SelectPcs
  BY DEF NoCall, SelectPcs
<1> HIDE DEF a
<1>7. d.pc \notin SelectPcs
  BY <1>6
<1> HIDE DEF n, d
<1> QED
  BY <1>1, <1>2, <1>4, <1>5, <1>7, OutsideWoke

(* lwip_recvfrom can only add to lastdata, which was empty.                *)
LEMMA RecvDoneWoke ==
  ASSUME Local, Owned, Woke, NEW t \in Threads, NEW all \in BOOLEAN, RecvDone(t, all)
  PROVE  Woke'
<1> DEFINE s == call[t].s
           a == [sock[s] EXCEPT !.lastdata = ~all]
<1>1. call[t].pc = "recv" /\ nc' = nc /\ call' = [call EXCEPT ![t] = NoCall]
  BY DEF RecvDone
<1>2. s \in Sockets /\ sock[s] \in SocketType /\ sock \in [Sockets -> SocketType] /\ ~sock[s].lastdata
  BY <1>1, HeldSocket DEF Local, TypeOK
<1>3. /\ a.conn = sock[s].conn /\ a.rcvevent = sock[s].rcvevent /\ a.sendevent = sock[s].sendevent
      /\ a.errevent = sock[s].errevent
  BY <1>2 DEF SocketType
<1>4. sock' = [sock EXCEPT ![s] = a]
  BY <1>2 DEF RecvDone
<1> HIDE DEF a
<1>5. \A r \in Sockets : sock'[r] = IF r = s THEN a ELSE sock[r]
  BY <1>2, <1>4
<1>6. EventReady(a) = EventReady(sock[s])
  BY <1>3 DEF EventReady
<1>7. \A r \in Sockets : GrowsBut(r, {}, nc, sock, nc', sock')
  BY <1>1, <1>2, <1>3, <1>5, <1>6 DEF GrowsBut, Live
<1>8. NoCall.pc \notin SelectPcs
  BY PcsDiffer DEF NoCall
<1>9. \A u \in Threads : call'[u].pc \in SelectPcs => call'[u] = call[u]
  BY <1>1, <1>8 DEF Local, TypeOK
<1> QED
  BY <1>7, <1>9, GrowWoke

(* Nothing is taken away with a slot that its netconn does not know.       *)
LEMMA AcceptWoke ==
  ASSUME Local, Owned, Woke, NEW t \in Threads, AllocSocket(t) \/ AllocInit(t) \/ AcceptHandover(t)
  PROVE  Woke'
<1> DEFINE c == call[t].newconn
<1>1. call[t].pc \in NewConnPcs
  BY DEF AllocSocket, AllocInit, AcceptHandover, NewConnPcs
<1>2. /\ c \in AllConns /\ c # NULL /\ nc[c].socket < 0 /\ nc[c].socket \in Int /\ call[t].s \in Sockets
      /\ call[t].pc # "alloc" => sock[call[t].s].conn = c
  BY <1>1, HeldConn
<1>3. /\ nc \in [AllConns -> ConnType] /\ sock \in [Sockets -> SocketType]
      /\ call \in [Threads -> CallType] /\ call[t] \in CallType
  BY DEF Local, TypeOK
<1>4. PICK d : call' = [call EXCEPT ![t] = d] /\ d.pc \notin SelectPcs
  <2>1. CASE AllocSocket(t)
    <3> DEFINE a == [call[t] EXCEPT !.pc = "allocinit", !.s = Lowest(FreeSockets)]
    <3>1. call' = [call EXCEPT ![t] = NoCall] \/ call' = [call EXCEPT ![t] = a]
      BY <2>1, <1>3 DEF AllocSocket
    <3>2. NoCall.pc \notin SelectPcs /\ a.pc \notin SelectPcs
      BY <1>3 DEF NoCall, CallType, SelectPcs
    <3> QED
      BY <3>1, <3>2
  <2>2. CASE AllocInit(t)
    <3> DEFINE a == [call[t] EXCEPT !.pc = "handover"]
    <3>1. call' = [call EXCEPT ![t] = a]
      BY <2>2, <1>3 DEF AllocInit, Goto
    <3>2. a.pc \notin SelectPcs
      BY <1>3 DEF CallType, SelectPcs
    <3> QED
      BY <3>1, <3>2
  <2>3. CASE AcceptHandover(t)
    <3>1. call' = [call EXCEPT ![t] = NoCall]
      BY <2>3 DEF AcceptHandover
    <3>2. NoCall.pc \notin SelectPcs
      BY DEF NoCall, SelectPcs
    <3> QED
      BY <3>1, <3>2
  <2> QED
    BY <2>1, <2>2, <2>3
<1>5. \A u \in Threads : call'[u].pc \in SelectPcs => call'[u] = call[u]
  BY <1>3, <1>4
<1>6. \A b \in AllConns : b # c => nc'[b] = nc[b]
  BY <1>3 DEF AllocSocket, AllocInit, AcceptHandover
<1>7. ASSUME NEW s \in Sockets, sock[s].conn # NULL, sock[s].conn # c PROVE sock'[s] = sock[s]
  <2>1. CASE AllocSocket(t)
    <3>1. CASE FreeSockets = {}
      BY <2>1, <3>1 DEF AllocSocket
    <3>2. CASE FreeSockets # {}
      <4>1. FreeSockets \subseteq Sockets
        BY DEF FreeSockets
      <4>2. Lowest(FreeSockets) \in FreeSockets
        BY <3>2, <4>1, LowestIsIn
      <4>3. s # Lowest(FreeSockets) /\ Lowest(FreeSockets) \in Sockets
        BY <4>1, <4>2, <1>7 DEF FreeSockets
      <4>4. sock' = [sock EXCEPT ![Lowest(FreeSockets)].conn = call[t].newconn]
        BY <2>1, <3>2 DEF AllocSocket
      <4> QED
        BY <4>3, <4>4, <1>3, <1>7
    <3> QED
      BY <3>1, <3>2
  <2>2. CASE AllocInit(t)
    BY <2>2, <1>2, <1>3, <1>7 DEF AllocInit
  <2>3. CASE AcceptHandover(t)
    BY <2>3, <1>2, <1>3, <1>7 DEF AcceptHandover
  <2> QED
    BY <2>1, <2>2, <2>3
<1>8. \A s \in Sockets : s >= 0
  BY DEF Sockets
<1> HIDE DEF c
<1>9. ASSUME NEW s \in Sockets, sock[s].conn # NULL, nc[sock[s].conn].socket = s
      PROVE  sock'[s] = sock[s] /\ nc'[sock[s].conn].socket = s
  <2>1. sock[s].conn # c /\ sock[s].conn \in AllConns
    BY <1>2, <1>8, <1>9, InSlot
  <2> QED
    BY <2>1, <1>6, <1>7, <1>9
<1>10. \A s \in Sockets : GrowsBut(s, {}, nc, sock, nc', sock')
  BY <1>9, SameSlots
<1> QED
  BY <1>5, <1>10, GrowWoke

(* free_socket marks the threads that ask for the socket.                  *)
LEMMA FreeWoke ==
  ASSUME Local, Owned, Woke, NEW t \in Threads, free_socket(t)
  PROVE  Woke'
<1> DEFINE s == call[t].s
<1>1. /\ nc' = nc /\ sock' = [sock EXCEPT ![s].lastdata = FALSE, ![s].conn = NULL]
      /\ call' = [u \in Threads |->
                IF u = t THEN NoCall
                ELSE [call[u] EXCEPT !.stolen = @ \/ s \in Fds(call[u].want)]]
  BY DEF free_socket
<1>2. s \in Sockets /\ sock \in [Sockets -> SocketType]
  BY Typed DEF CallType, Local, TypeOK
<1>3. \A r \in Sockets : r # s => sock'[r] = sock[r]
  BY <1>1, <1>2
<1>4. ASSUME NEW u \in Threads, call'[u].pc \in SelectPcs
      PROVE  /\ Bears(call[u], call'[u]) /\ (call'[u].sem => call[u].sem)
             /\ ~call'[u].stolen => s \notin Fds(call[u].want)
  <2>1. u # t
    BY <1>1, <1>4, PcsDiffer DEF NoCall
  <2> DEFINE st == (call[u].stolen \/ s \in Fds(call[u].want))
             d == [call[u] EXCEPT !.stolen = st]
  <2>2. call'[u] = d
    BY <1>1, <2>1
  <2>3. call[u] \in CallType
    BY Typed
  <2>4. /\ d.pc = call[u].pc /\ d.want = call[u].want /\ d.todo = call[u].todo
        /\ d.ready = call[u].ready /\ d.bad = call[u].bad /\ d.timedout = call[u].timedout
        /\ d.sem = call[u].sem /\ d.stolen = st
    BY <2>3 DEF CallType
  <2> HIDE DEF d
  <2>5. (call[u].stolen => d.stolen) /\ (~d.stolen => s \notin Fds(call[u].want)) /\ (d.sem => call[u].sem)
    BY <2>4, Zenon
  <2> QED
    BY <2>2, <2>4, <2>5 DEF Bears
<1>5. \A u \in Threads : Fds(call[u].want) \subseteq Sockets
  BY Typed, FdsAreSockets DEF CallType
<1>6. \A r \in Sockets : r # s => \A K : GrowsBut(r, K, nc, sock, nc', sock')
  BY <1>1, <1>3 DEF GrowsBut, Live
<1> HIDE DEF s
<1> QED
  BY <1>4, <1>5, <1>6, OthersWoke

-----------------------------------------------------------------------------
(* The steps of a thread in select.                                        *)

(* What a socket has does not depend on select_waiting.                    *)
SameEvents(a, b) == a.conn = b.conn /\ a.lastdata = b.lastdata /\ EventReady(a) = EventReady(b)

(* So a step of a thread in select leaves the others as they were.         *)
LEMMA MoveWoke ==
  ASSUME Local, Local', Woke, NEW t \in Threads, NEW d,
         call' = [call EXCEPT ![t] = d], nc' = nc,
         \A s \in Sockets : SameEvents(sock'[s], sock[s]),
         WokenOK(d, nc, sock)
  PROVE  Woke'
<1>1. call \in [Threads -> CallType]
  BY DEF Local, TypeOK
<1> SUFFICES ASSUME NEW u \in Threads PROVE WokenOK(call'[u], nc', sock')
  BY DEF Woke
<1>2. WokenOK(call'[u], nc, sock)
  BY <1>1 DEF Woke
<1>3. call'[u] \in CallType
  BY DEF Local, TypeOK
<1> DEFINE x == call'[u]
<1>4. x \in CallType /\ WokenOK(x, nc, sock)
  BY <1>2, <1>3
<1> SUFFICES WokenOK(x, nc', sock')
  OBVIOUS
<1> HIDE DEF x
<1>5. Fds(x.want) \subseteq Sockets /\ x.todo \subseteq Sockets
  BY <1>4, FdsAreSockets DEF CallType
<1>6. \A s \in Sockets : Live(s, nc, sock) => Live(s, nc', sock')
  BY DEF Live, SameEvents
<1>7. \A s \in Sockets : Has(sock[s], s, x.want) => Has(sock'[s], s, x.want)
  BY DEF Has, SameEvents
<1> SUFFICES ASSUME x.pc \in SelectPcs PROVE WokenOK(x, nc', sock')
  BY DEF WokenOK
<1>8. ~x.stolen => \A s \in Fds(x.want) : Live(s, nc', sock')
  BY <1>4, <1>5, <1>6 DEF WokenOK
<1>9. Due(x) /\ ~x.stolen => \E s \in Sockets : Has(sock'[s], s, x.want)
  BY <1>4, <1>7 DEF WokenOK
<1>10. x.pc = "result" /\ ~x.stolen => x.ready # {} \/ \E s \in x.todo : Has(sock'[s], s, x.want)
  BY <1>4, <1>5, <1>7 DEF WokenOK
<1>11. x.pc \in {"add", "inc"} => x.ready = {}
  BY <1>4 DEF WokenOK
<1> QED
  BY <1>8, <1>9, <1>10, <1>11 DEF WokenOK

(* A thread that goes on in select and owes its result to no more than it  *)
(* did, or to what a socket has.                                           *)
LEMMA AdvanceOK ==
  ASSUME NEW c, NEW d, NEW N, NEW S, WokenOK(c, N, S), c.pc \in SelectPcs, d.pc # "result",
         d.want = c.want, d.stolen = c.stolen, d.pc \in {"add", "inc"} => d.ready = {},
         Due(d) => Due(c) \/ \E s \in Sockets : Has(S[s], s, c.want)
  PROVE  WokenOK(d, N, S)
<1>1. ~d.stolen => \A s \in Fds(d.want) : Live(s, N, S)
  BY DEF WokenOK
<1>2. Due(d) /\ ~d.stolen => \E s \in Sockets : Has(S[s], s, d.want)
  BY DEF WokenOK
<1> QED
  BY <1>1, <1>2 DEF WokenOK

(* lwip_select enters with sockets that it was given.                      *)
LEMMA SelectWoke ==
  ASSUME Local, Local', Woke, NEW t \in Threads, NEW want, NEW timeout, lwip_select(t, want, timeout)
  PROVE  Woke'
<1> DEFINE d == [NoCall EXCEPT !.pc = "scan", !.want = want, !.timeout = timeout, !.todo = Fds(want)]
<1>1. /\ call' = [call EXCEPT ![t] = d] /\ nc' = nc /\ sock' = sock
      /\ \A s \in Fds(want) : sock[s].conn # NULL /\ nc[sock[s].conn].socket = s
  BY DEF lwip_select
<1>2. d.pc = "scan" /\ d.want = want /\ d.sem = FALSE
  BY DEF NoCall
<1> HIDE DEF d
<1>3. \A s \in Sockets : SameEvents(sock'[s], sock[s])
  BY <1>1 DEF SameEvents
<1>4. WokenOK(d, nc, sock)
  BY <1>1, <1>2 DEF WokenOK, Due, Live
<1> QED
  BY <1>1, <1>3, <1>4, MoveWoke

(* What the scan of a socket makes of the thread.                          *)
LEMMA ScanOK ==
  ASSUME NEW c \in CallType, CallOK(c), WokenOK(c, nc, sock), NEW s \in c.todo, NEW d,
         ScansTo(c, s, d), c.pc \in {"scan", "rescan", "result"}
  PROVE  WokenOK(d, nc, sock)
<1>0. s \in Sockets /\ c.want \in SUBSET (Sockets \X Kinds) /\ c.pc \in SelectPcs
  BY DEF CallType, SelectPcs
<1> DEFINE R == Scanned(s, c.want)
<1>1. R # {} <=> Has(sock[s], s, c.want)
  BY <1>0, ScannedIsHas
<1>2. R # {} => \E r \in Sockets : Has(sock[r], r, c.want)
  BY <1>0, <1>1
<1>3. CASE c.todo \ {s} # {}
  <2>1. d = [c EXCEPT !.ready = @ \cup R, !.todo = c.todo \ {s}]
    BY <1>3 DEF ScansTo
  <2> HIDE DEF R
  <2>2. /\ d.pc = c.pc /\ d.want = c.want /\ d.stolen = c.stolen /\ d.sem = c.sem
        /\ d.ready = c.ready \cup R /\ d.todo = c.todo \ {s}
    BY <2>1 DEF CallType
  <2>3. CASE c.pc # "result"
    <3>1. Due(d) => Due(c) \/ R # {}
      BY <2>2 DEF Due
    <3> QED
      BY <3>1, <2>2, <2>3, <1>0, <1>2, AdvanceOK
  <2>4. CASE c.pc = "result"
    <3>1. ~c.stolen => c.ready # {} \/ \E r \in c.todo : Has(sock[r], r, c.want)
      BY <2>4, <1>0 DEF WokenOK
    <3>2. ~d.stolen => d.ready # {} \/ \E r \in d.todo : Has(sock[r], r, d.want)
      BY <3>1, <2>2, <1>1
    <3>3. ~Due(d)
      BY <2>2, <2>4 DEF Due
    <3>4. ~d.stolen => \A r \in Fds(d.want) : Live(r, nc, sock)
      BY <2>2, <1>0 DEF WokenOK
    <3> QED
      BY <3>2, <3>3, <3>4, <2>2, <2>4 DEF WokenOK
  <2> QED
    BY <2>3, <2>4
<1>4. CASE c.todo \ {s} = {}
  <2> DEFINE ready == c.ready \cup R
  <2>1. d = AfterScan(c, ready)
    BY <1>4 DEF ScansTo
  <2> HIDE DEF R
  <2>2. CASE d = NoCall
    BY <2>2 DEF WokenOK, NoCall, SelectPcs
  <2>3. CASE c.pc = "rescan"
    <3> DEFINE p == IF ready = {} THEN "wait" ELSE "dec"
    <3>1. d = [c EXCEPT !.pc = p, !.todo = Fds(c.want)]
      BY <2>1, <2>3, AfterScanByPc
    <3>2. p = (IF ready = {} THEN "wait" ELSE "dec")
      OBVIOUS
    <3> HIDE DEF p
    <3>3. d.pc = p /\ d.want = c.want /\ d.stolen = c.stolen /\ d.sem = c.sem
      BY <3>1 DEF CallType
    <3>4. Due(d) => Due(c) \/ R # {}
      BY <2>3, <3>2, <3>3 DEF Due
    <3> QED
      BY <3>2, <3>3, <3>4, <1>0, <1>2, AdvanceOK
  <2>4. CASE c.pc = "scan" /\ d # NoCall
    <3>1. ready = {}
      <4>1. SUFFICES ASSUME ready # {} PROVE d = NoCall
        BY <2>4
      <4> QED
        BY <2>1, <2>4, <4>1, Zenon DEF AfterScan
    <3>2. d = [c EXCEPT !.pc = "add", !.todo = Fds(c.want)]
      BY <2>1, <2>4, AfterScanByPc
    <3>3. d.pc = "add" /\ d.want = c.want /\ d.stolen = c.stolen /\ d.sem = c.sem /\ d.ready = c.ready
      BY <3>2 DEF CallType
    <3>4. Due(d) => Due(c)
      BY <2>4, <3>3 DEF Due
    <3> QED
      BY <3>1, <3>3, <3>4, <1>0, AdvanceOK
  <2>5. CASE c.pc = "result"
    BY <2>1, <2>2, <2>5, AfterScanByPc
  <2> QED
    BY <2>2, <2>3, <2>4, <2>5
<1> QED
  BY <1>3, <1>4

(* One socket of lwip_selscan.                                             *)
LEMMA ScanWoke ==
  ASSUME Local, Local', Woke, NEW t \in Threads, lwip_selscan(t)
  PROVE  Woke'
<1>1. PICK s \in call[t].todo : \E d : call' = [call EXCEPT ![t] = d] /\ ScansTo(call[t], s, d)
  BY ScanStep
<1>2. PICK d : call' = [call EXCEPT ![t] = d] /\ ScansTo(call[t], s, d)
  BY <1>1
<1>3. nc' = nc /\ sock' = sock /\ call[t].pc \in {"scan", "rescan", "result"}
  BY DEF lwip_selscan
<1>4. call[t] \in CallType /\ CallOK(call[t]) /\ WokenOK(call[t], nc, sock)
  BY Typed DEF Local, Woke
<1>5. WokenOK(d, nc, sock)
  BY <1>2, <1>3, <1>4, ScanOK
<1>6. \A r \in Sockets : SameEvents(sock'[r], sock[r])
  BY <1>3 DEF SameEvents
<1> QED
  BY <1>2, <1>3, <1>5, <1>6, MoveWoke

(* The select_cb is put on the list, or the wait ends.                     *)
LEMMA AddWakeWoke ==
  ASSUME Local, Local', Woke, NEW t \in Threads, SelectAdd(t) \/ SelectWake(t) \/ SelectTimeout(t)
  PROVE  Woke'
<1> DEFINE c == call[t]
           x == [c EXCEPT !.pc = "inc"]
           y == [c EXCEPT !.pc = "dec", !.sem = FALSE]
           z == [c EXCEPT !.pc = "dec", !.timedout = TRUE]
<1>1. c \in CallType /\ WokenOK(c, nc, sock) /\ call \in [Threads -> CallType] /\ c.pc \in SelectPcs
  BY Typed DEF Local, TypeOK, Woke, SelectPcs, SelectAdd, SelectWake, SelectTimeout
<1>2. nc' = nc /\ sock' = sock
  BY DEF SelectAdd, SelectWake, SelectTimeout
<1>3. \A s \in Sockets : SameEvents(sock'[s], sock[s])
  BY <1>2 DEF SameEvents
<1>4. CASE SelectAdd(t)
  <2>1. call' = [call EXCEPT ![t] = x] /\ c.pc = "add"
    BY <1>1, <1>4 DEF SelectAdd, Goto
  <2>2. /\ x.pc = "inc" /\ x.want = c.want /\ x.stolen = c.stolen /\ x.sem = c.sem
        /\ x.ready = c.ready
    BY <1>1 DEF CallType
  <2> HIDE DEF x
  <2>3. x.ready = {} /\ (Due(x) => Due(c))
    BY <1>1, <2>1, <2>2 DEF WokenOK, Due
  <2>4. WokenOK(x, nc, sock)
    BY <1>1, <2>2, <2>3, AdvanceOK
  <2> QED
    BY <1>2, <1>3, <2>1, <2>4, MoveWoke
<1>5. CASE SelectWake(t)
  <2>1. call' = [call EXCEPT ![t] = y] /\ c.pc = "wait" /\ c.sem
    BY <1>1, <1>5 DEF SelectWake
  <2>2. y.pc = "dec" /\ y.want = c.want /\ y.stolen = c.stolen
    BY <1>1 DEF CallType
  <2> HIDE DEF y
  <2>3. Due(c)
    BY <2>1 DEF Due
  <2>4. WokenOK(y, nc, sock)
    BY <1>1, <2>2, <2>3, AdvanceOK
  <2> QED
    BY <1>2, <1>3, <2>1, <2>4, MoveWoke
<1>6. CASE SelectTimeout(t)
  <2>1. call' = [call EXCEPT ![t] = z] /\ c.pc = "wait"
    BY <1>1, <1>6 DEF SelectTimeout
  <2>2. z.pc = "dec" /\ z.want = c.want /\ z.stolen = c.stolen /\ z.timedout = TRUE
    BY <1>1 DEF CallType
  <2> HIDE DEF z
  <2>3. ~Due(z)
    BY <2>2 DEF Due
  <2>4. WokenOK(z, nc, sock)
    BY <1>1, <2>2, <2>3, AdvanceOK
  <2> QED
    BY <1>2, <1>3, <2>1, <2>4, MoveWoke
<1> QED
  BY <1>4, <1>5, <1>6

(* select_waiting++: a socket closed meanwhile is an error, not a result.  *)
LEMMA IncWoke ==
  ASSUME Local, Local', Woke, NEW t \in Threads, SelectInc(t)
  PROVE  Woke'
<1> DEFINE c == call[t]
           s == Lowest(c.todo)
           rest == c.todo \ {s}
           done == Fds(c.want) \ c.todo
<1>1. /\ c \in CallType /\ CallOK(c) /\ c.pc = "inc" /\ call \in [Threads -> CallType]
      /\ sock \in [Sockets -> SocketType] /\ WokenOK(c, nc, sock) /\ nc' = nc
  BY DEF Local, TypeOK, SelectInc, Woke
<1>2. c.pc \in SelectPcs /\ c.ready = {}
  BY <1>1 DEF WokenOK, SelectPcs
<1>3. s \in Sockets
  <2>1. c.todo # {} /\ c.todo \subseteq Sockets
    BY <1>1 DEF CallOK, CallType
  <2> QED
    BY <2>1, LowestIsIn
<1>4. CASE sock[s].conn = NULL
  <2> DEFINE p == IF done = {} THEN "remove" ELSE "dec"
             d == [c EXCEPT !.bad = TRUE, !.todo = done, !.pc = p]
  <2>1. sock' = sock /\ call' = [call EXCEPT ![t] = d]
    BY <1>1, <1>4 DEF SelectInc
  <2>2. p \in {"remove", "dec"}
    OBVIOUS
  <2> HIDE DEF p
  <2>3. d.pc = p /\ d.want = c.want /\ d.stolen = c.stolen /\ d.bad = TRUE
    BY <1>1 DEF CallType
  <2> HIDE DEF d
  <2>4. ~Due(d)
    BY <2>2, <2>3 DEF Due
  <2>5. WokenOK(d, nc, sock)
    BY <1>1, <1>2, <2>2, <2>3, <2>4, AdvanceOK
  <2>6. \A r \in Sockets : SameEvents(sock'[r], sock[r])
    BY <2>1 DEF SameEvents
  <2> QED
    BY <1>1, <2>1, <2>5, <2>6, MoveWoke
<1>5. CASE sock[s].conn # NULL
  <2> DEFINE d == IF rest # {} THEN [c EXCEPT !.todo = rest]
                  ELSE [c EXCEPT !.pc = "rescan", !.todo = Fds(c.want)]
             b == [sock[s] EXCEPT !.select_waiting = @ + 1]
  <2>1. call' = [call EXCEPT ![t] = d] /\ sock' = [sock EXCEPT ![s] = b]
    BY <1>1, <1>3, <1>5 DEF SelectInc
  <2>2. /\ d.want = c.want /\ d.stolen = c.stolen /\ d.sem = c.sem /\ d.ready = c.ready
        /\ d.pc \in {"inc", "rescan"}
    <3>1. CASE rest # {}
      BY <3>1, <1>1 DEF CallType
    <3>2. CASE rest = {}
      BY <3>2, <1>1 DEF CallType
    <3> QED
      BY <3>1, <3>2
  <2> HIDE DEF d
  <2>3. Due(d) => Due(c)
    BY <1>1, <1>2, <2>2 DEF Due
  <2>4. WokenOK(d, nc, sock)
    BY <1>1, <1>2, <2>2, <2>3, AdvanceOK
  <2>5. SameEvents(b, sock[s])
    <3>1. /\ b.conn = sock[s].conn /\ b.lastdata = sock[s].lastdata /\ b.rcvevent = sock[s].rcvevent
          /\ b.sendevent = sock[s].sendevent /\ b.errevent = sock[s].errevent
      BY <1>1, <1>3 DEF SocketType
    <3> HIDE DEF b
    <3> QED
      BY <3>1 DEF SameEvents, EventReady
  <2> HIDE DEF b
  <2>6. \A r \in Sockets : SameEvents(sock[r], sock[r])
    BY DEF SameEvents
  <2>7. \A r \in Sockets : SameEvents(sock'[r], sock[r])
    BY <1>1, <1>3, <2>1, <2>5, <2>6
  <2> QED
    BY <1>1, <2>1, <2>4, <2>7, MoveWoke
<1> QED
  BY <1>4, <1>5

(* select_waiting--: the thread goes on to the result only if no socket    *)
(* was closed.                                                             *)
LEMMA DecWoke ==
  ASSUME Local, Local', Woke, NEW t \in Threads, SelectDec(t)
  PROVE  Woke'
<1> DEFINE c == call[t]
           s == Lowest(c.todo)
           rest == c.todo \ {s}
           p == IF rest = {} THEN "remove" ELSE "dec"
           bad == c.bad \/ sock[s].conn = NULL
           d == [c EXCEPT !.bad = bad, !.todo = rest, !.pc = p]
           b == [sock[s] EXCEPT !.select_waiting = @ - 1]
<1>1. /\ c \in CallType /\ CallOK(c) /\ c.pc = "dec" /\ call \in [Threads -> CallType]
      /\ sock \in [Sockets -> SocketType] /\ WokenOK(c, nc, sock) /\ nc' = nc
  BY DEF Local, TypeOK, SelectDec, Woke
<1>2. c.pc \in SelectPcs
  BY <1>1 DEF SelectPcs
<1>3. s \in Sockets
  <2>1. c.todo # {} /\ c.todo \subseteq Sockets
    BY <1>1 DEF CallOK, CallType
  <2> QED
    BY <2>1, LowestIsIn
<1>4. /\ call' = [call EXCEPT ![t] = d]
      /\ sock' = sock \/ sock' = [sock EXCEPT ![s] = b]
  BY <1>1, <1>3 DEF SelectDec
<1>5. p \in {"remove", "dec"} /\ (c.bad => bad)
  OBVIOUS
<1> HIDE DEF p, bad
<1>6. d.pc = p /\ d.want = c.want /\ d.stolen = c.stolen /\ d.bad = bad /\ d.timedout = c.timedout
  BY <1>1 DEF CallType
<1> HIDE DEF d
<1>7. Due(d) => Due(c)
  BY <1>1, <1>5, <1>6, Zenon DEF Due
<1>8. WokenOK(d, nc, sock)
  BY <1>1, <1>2, <1>5, <1>6, <1>7, AdvanceOK
<1>9. SameEvents(b, sock[s])
  <2>1. /\ b.conn = sock[s].conn /\ b.lastdata = sock[s].lastdata /\ b.rcvevent = sock[s].rcvevent
        /\ b.sendevent = sock[s].sendevent /\ b.errevent = sock[s].errevent
    BY <1>1, <1>3 DEF SocketType
  <2> HIDE DEF b
  <2> QED
    BY <2>1 DEF SameEvents, EventReady
<1> HIDE DEF b
<1>10. \A r \in Sockets : SameEvents(sock[r], sock[r])
  BY DEF SameEvents
<1>11. \A r \in Sockets : SameEvents(sock'[r], sock[r])
  BY <1>1, <1>3, <1>4, <1>9, <1>10
<1> QED
  BY <1>1, <1>4, <1>8, <1>11, MoveWoke

(* The result is scanned for among all the sockets asked for.              *)
LEMMA RemoveWoke ==
  ASSUME Local, Local', Woke, NEW t \in Threads, SelectRemove(t)
  PROVE  Woke'
<1> DEFINE c == call[t]
           x == [c EXCEPT !.pc = "result", !.todo = Fds(c.want), !.ready = {}, !.sem = FALSE]
<1>1. /\ c \in CallType /\ c.pc = "remove" /\ call \in [Threads -> CallType] /\ WokenOK(c, nc, sock)
      /\ nc' = nc /\ sock' = sock
  BY DEF Local, TypeOK, SelectRemove, Woke
<1>2. c.pc \in SelectPcs
  BY <1>1 DEF SelectPcs
<1>3. \A r \in Sockets : SameEvents(sock'[r], sock[r])
  BY <1>1 DEF SameEvents
<1>4. CASE c.bad \/ c.timedout
  <2>1. call' = [call EXCEPT ![t] = NoCall]
    BY <1>1, <1>4 DEF SelectRemove
  <2>2. WokenOK(NoCall, nc, sock)
    BY DEF WokenOK, NoCall, SelectPcs
  <2> QED
    BY <1>1, <1>3, <2>1, <2>2, MoveWoke
<1>5. CASE ~(c.bad \/ c.timedout)
  <2>1. call' = [call EXCEPT ![t] = x]
    BY <1>1, <1>5 DEF SelectRemove
  <2>2. x.pc = "result" /\ x.want = c.want /\ x.todo = Fds(c.want) /\ x.stolen = c.stolen
    BY <1>1 DEF CallType
  <2> HIDE DEF x
  <2>3. Due(c)
    BY <1>1, <1>5 DEF Due
  <2>4. ~c.stolen => \E r \in Sockets : Has(sock[r], r, c.want)
    BY <1>1, <1>2, <2>3 DEF WokenOK
  <2>5. ~x.stolen => \E r \in x.todo : Has(sock[r], r, x.want)
    BY <2>2, <2>4, HasIsWanted
  <2>6. ~Due(x)
    BY <2>2 DEF Due
  <2>7. ~x.stolen => \A r \in Fds(x.want) : Live(r, nc, sock)
    BY <1>1, <1>2, <2>2 DEF WokenOK
  <2>8. WokenOK(x, nc, sock)
    BY <2>2, <2>5, <2>6, <2>7 DEF WokenOK
  <2> QED
    BY <1>1, <1>3, <2>1, <2>8, MoveWoke
<1> QED
  BY <1>4, <1>5

(* Every step keeps it.                                                    *)
LEMMA WokeStep ==
  ASSUME Local, Local', Owned, Woke, [Next]_vars
  PROVE  Woke'
<1>1. ASSUME NEW t \in Threads, Select(t) PROVE Woke'
  BY <1>1, SelectWoke, ScanWoke, AddWakeWoke, IncWoke, DecWoke, RemoveWoke DEF Select
<1>2. ASSUME NEW t \in Threads, Use(t) PROVE Woke'
  BY <1>2, RecvLastdataWoke, RecvFetchWoke, RecvDoneWoke, AcceptFetchWoke, AcceptWoke,
     CloseWoke, FreeWoke DEF Use
<1>3. ASSUME NEW e \in Callers, Event(e) PROVE Woke'
  BY <1>3, EventSocketWoke, EventApplyWoke, EventWalkWoke DEF Event
<1>4. CASE UNCHANGED vars
  BY <1>4 DEF vars, Woke
<1>5. CASE Next
  BY <1>1, <1>2, <1>3, <1>5, StackWoke DEF Next
<1> QED
  BY <1>4, <1>5

(* Nobody is in select at first.                                           *)
LEMMA WokeInit == Init => Woke
  BY DEF Init, Woke, WokenOK, NoCall, SelectPcs

(* The other steps leave the pc of a thread that scans for its result.     *)
LEMMA SelectKeepsPc ==
  ASSUME Local, NEW t \in Threads, call[t].pc = "result", NEW u \in Threads, Select(u), ~lwip_selscan(t)
  PROVE  call'[t].pc = call[t].pc
<1>1. call \in [Threads -> CallType]
  BY DEF Local, TypeOK
<1>2. ASSUME NEW want, NEW timeout, lwip_select(u, want, timeout) PROVE call'[t].pc = call[t].pc
  BY <1>1, <1>2 DEF lwip_select
<1>3. CASE lwip_selscan(u)
  BY <1>1, <1>3 DEF lwip_selscan
<1>4. CASE SelectAdd(u)
  BY <1>1, <1>4 DEF SelectAdd, Goto
<1>5. CASE SelectInc(u)
  <2>1. u # t
    BY <1>5 DEF SelectInc
  <2>2. call'[t] = call[t]
    BY <1>1, <1>5, <2>1 DEF SelectInc
  <2> QED
    BY <2>2
<1>6. CASE SelectWake(u) \/ SelectTimeout(u)
  BY <1>1, <1>6 DEF SelectWake, SelectTimeout
<1>7. CASE SelectDec(u)
  BY <1>1, <1>7 DEF SelectDec
<1>8. CASE SelectRemove(u)
  BY <1>1, <1>8 DEF SelectRemove
<1> QED
  BY <1>2, <1>3, <1>4, <1>5, <1>6, <1>7, <1>8 DEF Select

(* So does any other function.                                             *)
LEMMA UseKeepsPc ==
  ASSUME Local, NEW t \in Threads, call[t].pc = "result", NEW u \in Threads, Use(u)
  PROVE  call'[t].pc = call[t].pc
<1>1. call \in [Threads -> CallType] /\ call[t] \in CallType
  BY DEF Local, TypeOK
<1>2. ASSUME NEW s \in Sockets, NEW all \in BOOLEAN, RecvLastdata(u, s, all)
      PROVE  call'[t].pc = call[t].pc
  <2>1. u # t /\ call' = [Steal(u, s, "read") EXCEPT ![u] = NoCall]
    BY <1>2 DEF RecvLastdata
  <2>2. call'[t] = Steal(u, s, "read")[t]
    BY <2>1 DEF Steal
  <2>3. Marks(call[t], Steal(u, s, "read")[t], s, IF t = u THEN {} ELSE {"read"})
    BY StealMarks, Zenon
  <2> QED
    BY <2>2, <2>3 DEF Marks
<1>3. ASSUME NEW s \in Sockets, RecvFetch(u, s) \/ lwip_close(u, s) PROVE call'[t].pc = call[t].pc
  BY <1>1, <1>3 DEF RecvFetch, lwip_close
<1>4. ASSUME NEW all \in BOOLEAN, RecvDone(u, all) PROVE call'[t].pc = call[t].pc
  BY <1>1, <1>4 DEF RecvDone
<1>5. CASE AcceptFetch(u)
  BY <1>1, <1>5 DEF AcceptFetch
<1>6. CASE AllocSocket(u)
  BY <1>1, <1>6 DEF AllocSocket
<1>7. CASE AllocInit(u)
  BY <1>1, <1>7 DEF AllocInit, Goto
<1>8. CASE AcceptHandover(u)
  BY <1>1, <1>8 DEF AcceptHandover
<1>9. CASE free_socket(u)
  <2>1. u # t
    BY <1>9 DEF free_socket
  <2> DEFINE st == call[t].stolen \/ call[u].s \in Fds(call[t].want)
  <2>2. call'[t] = [call[t] EXCEPT !.stolen = st]
    BY <1>9, <2>1 DEF free_socket
  <2> HIDE DEF st
  <2> QED
    BY <2>2, <1>1 DEF CallType
<1> QED
  BY <1>2, <1>3, <1>4, <1>5, <1>6, <1>7, <1>8, <1>9 DEF Use

(* So does event_callback.                                                 *)
LEMMA EventKeepsPc ==
  ASSUME Local, NEW t \in Threads, NEW e \in Callers, Event(e)
  PROVE  call'[t].pc = call[t].pc
<1>1. CASE EventSocket(e) \/ EventPost(e)
  BY <1>1 DEF EventSocket, EventPost
<1>2. CASE EventWalk(e)
  <2> DEFINE s == ev[e].s
             k == IF ev[e].changed THEN 1 ELSE ev[e].next
  <2>1. s \in Sockets /\ k \in Nat \ {0} /\ call \in [Threads -> CallType] /\ ev[e].pc = "walk"
        /\ ev[e] \in EventType
    BY <1>2 DEF Local, TypeOK, EventType, EventWalk
  <2>2. Walk(e, sock[s], s, k, call)
    BY <1>2 DEF EventWalk
  <2> HIDE DEF k
  <2>3. Signals(call[t], call'[t], sock[s], s)
    BY <2>1, <2>2, WalkIs
  <2> QED
    BY <2>3 DEF Signals
<1>3. CASE EventApply(e)
  <2> DEFINE s == ev[e].s
             evt == Head(ev[e].todo)
             so == Applied(sock[s], evt)
             cl == Stolen(e, s, evt)
  <2>1. ev[e] \in EventType /\ ev[e].pc = "apply" /\ s \in Sockets
    BY <1>3 DEF Local, TypeOK, EventApply, EventType
  <2>2. IF so.select_waiting = 0 THEN EventDone(e) /\ call' = cl ELSE Walk(e, so, s, 1, cl)
    BY <1>3 DEF EventApply
  <2>3. Marks(call[t], cl[t], s, IF t = e THEN {} ELSE Taken(evt)) /\ cl \in [Threads -> CallType]
    BY StolenMarks, StolenIsSteal
  <2> HIDE DEF so, cl
  <2>4. Signals(cl[t], call'[t], so, s)
    <3>1. CASE so.select_waiting = 0
      BY <2>2, <3>1 DEF Signals
    <3>2. CASE so.select_waiting # 0
      <4>1. Walk(e, so, s, 1, cl) /\ 1 \in Nat \ {0} /\ ev[e].pc \in {"apply", "walk"}
        BY <2>1, <2>2, <3>2
      <4> QED
        BY <2>1, <2>3, <4>1, WalkIs
    <3> QED
      BY <3>1, <3>2
  <2> QED
    BY <2>3, <2>4 DEF Marks, Signals
<1> QED
  BY <1>1, <1>2, <1>3 DEF Event

(* A thread leaves select from its last scan only, at its last socket.     *)
LEMMA ResultEnds ==
  ASSUME Local, Woke, [Next]_vars, NEW t \in Threads, call[t].pc = "result", call'[t].pc = "idle"
  PROVE  \/ call[t].stolen
         \/ call[t].ready \cup Scanned(Lowest(call[t].todo), call[t].want) # {}
<1> DEFINE c == call[t]
           s == Lowest(c.todo)
<1>1. call \in [Threads -> CallType] /\ c \in CallType /\ WokenOK(c, nc, sock) /\ c.pc \in SelectPcs
  BY DEF Local, TypeOK, Woke, SelectPcs
<1>2. lwip_selscan(t)
  <2>1. SUFFICES ASSUME ~lwip_selscan(t) PROVE call'[t].pc = call[t].pc
    OBVIOUS
  <2>2. CASE UNCHANGED vars
    BY <2>2 DEF vars
  <2>3. CASE Stack
    BY <2>3 DEF Stack, accept_function, recv_tcp, lwip_netconn_do_writemore, sent_tcp, err_tcp
  <2> QED
    BY <2>1, <2>2, <2>3, SelectKeepsPc, UseKeepsPc, EventKeepsPc DEF Next
<1>3. c.todo # {} /\ c.todo \subseteq Sockets
  BY <1>1, <1>2 DEF lwip_selscan, CallType
<1>4. s \in c.todo
  BY <1>3, LowestIsIn
<1>5. c.todo \ {s} = {}
  <2>1. SUFFICES ASSUME c.todo \ {s} # {} PROVE call'[t].pc = c.pc
    OBVIOUS
  <2> DEFINE ready == c.ready \cup Scanned(s, c.want)
             rest == c.todo \ {s}
             d == [c EXCEPT !.ready = ready, !.todo = rest]
  <2>2. call' = [call EXCEPT ![t] = d]
    BY <2>1, <1>1, <1>2 DEF lwip_selscan
  <2>3. d.pc = c.pc
    BY <1>1 DEF CallType
  <2> HIDE DEF d
  <2> QED
    BY <2>2, <2>3, <1>1
<1>6. ~c.stolen => c.ready # {} \/ Has(sock[s], s, c.want)
  <2>1. ~c.stolen => c.ready # {} \/ \E r \in c.todo : Has(sock[r], r, c.want)
    BY <1>1 DEF WokenOK
  <2> QED
    BY <2>1, <1>5
<1>7. Has(sock[s], s, c.want) => Scanned(s, c.want) # {}
  BY <1>1, <1>3, <1>4, ScannedIsHas DEF CallType
<1> QED
  BY <1>6, <1>7

(* A select that was not to time out comes back with nothing only if some  *)
(* other thread took away what it was signalled for: event_callback        *)
(* signals it for no other reason (sockets.c:1640), and its second scan    *)
(* (sockets.c:1461) does not send it on for nothing.                       *)
THEOREM WokenOnlyForSomething == Spec => WokenForSomething
<1>1. Init => Woke
  BY WokeInit
<1>2. Local /\ Local' /\ Owned /\ Woke /\ [Next]_vars => Woke'
  BY WokeStep
<1>3. Local /\ Woke /\ [Next]_vars =>
        [\A t \in Threads : call[t].pc = "result" /\ call'[t].pc = "idle" =>
           \/ call[t].stolen
           \/ call[t].ready \cup Scanned(Lowest(call[t].todo), call[t].want) # {}]_vars
  BY ResultEnds
<1> QED
  BY <1>1, <1>2, <1>3, LocalInvariant, OwnedInvariant, PTL DEF Spec, WokenForSomething
==============================================================================
