------------------------------- MODULE Sockets -------------------------------
(***************************************************************************)
(* The socket table of lwIP (api/sockets.c): lwip_select in several        *)
(* threads against event_callback, which the stack runs for every netconn  *)
(* event, and against lwip_accept, lwip_recvfrom and lwip_close.           *)
(*                                                                         *)
(* What SYS_ARCH_PROTECT encloses is one step.  lwip_select and the walk   *)
(* of event_callback over select_cb_list drop the protection between any   *)
(* two sockets and any two list entries, and so do the steps here.         *)
(***************************************************************************)
EXTENDS Integers, FiniteSets, SequencesExt

CONSTANTS
  Threads,       \* application threads
  Core,          \* whoever holds the core lock and runs a netconn callback
  Conns,         \* netconns that the listening socket may accept
  Listener,      \* netconn of the listening socket, which is socket 0
  NUM_SOCKETS,
  Interests,     \* Interests[t]: what thread t may select, sets of <<socket, kind>>
  MaxEvents,     \* bound: callbacks of the stack in one behaviour
  NULL

ASSUME SocketsAssumption ==
  /\ NUM_SOCKETS \in Nat \ {0}
  /\ IsFiniteSet(Threads) /\ Core \notin Threads
  /\ Listener \notin Conns /\ NULL \notin Conns \cup {Listener}
  /\ MaxEvents \in Nat

Sockets == 0 .. NUM_SOCKETS - 1
Kinds == {"read", "write", "except"}
AllConns == Conns \cup {Listener}
Callers == Threads \cup {Core}
Events == {"RCVPLUS", "RCVMINUS", "SENDPLUS", "SENDMINUS", "ERROR", "post"}

ASSUME InterestsAssumption ==
  Interests \in [Threads -> SUBSET ((SUBSET (Sockets \X Kinds)) \ {{}})]

VARIABLES
  sock,            \* sockets[]: struct lwip_sock
  nc,              \* the netconns: whether the pcb lives, socket, recvmbox
  select_cb_list,  \* threads whose select_cb is on the list, top first
  call,            \* call[t]: the socket function thread t is in
  ev,              \* ev[e]: the event_callback that e is in
  events,          \* callbacks of the stack so far (for MaxEvents)
  aborted          \* an LWIP_ASSERT failed: LWIP_PLATFORM_ASSERT calls abort()

vars == <<sock, nc, select_cb_list, call, ev, events, aborted>>

-----------------------------------------------------------------------------
(* State.                                                                  *)

NoSocket == [conn |-> NULL, lastdata |-> FALSE, rcvevent |-> 0, sendevent |-> FALSE,
             errevent |-> FALSE, select_waiting |-> 0]

(* socket is conn->socket: -1 minus the receive events counted before the  *)
(* socket exists.  checkspace is NETCONN_FLAG_CHECK_WRITESPACE.            *)
NoConn == [state |-> "new", socket |-> -1, mbox |-> <<>>, checkspace |-> FALSE]

(* The local variables of a socket function.  stolen is not in the code: a *)
(* thread took away, during this select, something it asked for.           *)
NoCall == [pc |-> "idle", want |-> {}, timeout |-> "forever", todo |-> {}, ready |-> {},
           bad |-> FALSE, signalled |-> FALSE, sem |-> FALSE, timedout |-> FALSE,
           newconn |-> NULL, s |-> 0, stolen |-> FALSE]

(* next and changed stand for scb->next and for select_cb_ctr compared     *)
(* with last_select_cb_ctr: the counter only grows.                        *)
NoEvent == [pc |-> "idle", conn |-> NULL, todo |-> <<>>, s |-> 0, next |-> 1,
            changed |-> FALSE, by |-> NULL]

Init ==
  /\ sock = [s \in Sockets |-> IF s = 0 THEN [NoSocket EXCEPT !.conn = Listener] ELSE NoSocket]
  /\ nc = [c \in AllConns |-> IF c = Listener THEN [NoConn EXCEPT !.state = "open", !.socket = 0]
                                              ELSE NoConn]
  /\ select_cb_list = <<>>
  /\ call = [t \in Threads |-> NoCall]
  /\ ev = [e \in Callers |-> NoEvent]
  /\ events = 0
  /\ aborted = FALSE

CallPcs == {"idle", "scan", "add", "inc", "rescan", "wait", "dec", "remove", "result",
            "recv", "alloc", "allocinit", "handover", "closing"}

(* The types of the variables.                                             *)
SocketType == [conn : AllConns \cup {NULL}, lastdata : BOOLEAN, rcvevent : Int,
               sendevent : BOOLEAN, errevent : BOOLEAN, select_waiting : Nat]

ConnType == [state : {"new", "open", "err", "closed"}, socket : {i \in Int : i < NUM_SOCKETS},
             mbox : Seq(AllConns \cup {NULL}), checkspace : BOOLEAN]

CallType == [pc : CallPcs, want : SUBSET (Sockets \X Kinds),
             timeout : {"forever", "zero", "finite"}, todo : SUBSET Sockets,
             ready : SUBSET (Sockets \X Kinds), bad : BOOLEAN, signalled : BOOLEAN,
             sem : BOOLEAN, timedout : BOOLEAN, newconn : AllConns \cup {NULL},
             s : Sockets, stolen : BOOLEAN]

EventType == [pc : {"idle", "call", "apply", "walk"}, conn : AllConns \cup {NULL},
              todo : Seq(Events), s : Sockets, next : Nat \ {0}, changed : BOOLEAN,
              by : Callers \cup {NULL}]

TypeOK ==
  /\ sock \in [Sockets -> SocketType] /\ nc \in [AllConns -> ConnType]
  /\ select_cb_list \in Seq(Threads)
  /\ call \in [Threads -> CallType] /\ ev \in [Callers -> EventType]
  /\ events \in 0 .. MaxEvents /\ aborted \in BOOLEAN

-----------------------------------------------------------------------------
(* Helpers.                                                                *)

Fds(want) == {p[1] : p \in want}

Lowest(S) == CHOOSE s \in S : \A r \in S : s <= r

(* What lwip_selscan finds at socket s; a closed one is skipped...         *)
Scanned(s, want) ==
  {p \in want : /\ p[1] = s /\ sock[s].conn # NULL
               /\ \/ p[2] = "read" /\ (sock[s].lastdata \/ sock[s].rcvevent > 0)
                  \/ p[2] = "write" /\ sock[s].sendevent
                  \/ p[2] = "except" /\ sock[s].errevent}

(* ... and the kinds for which event_callback signals a waiting select.    *)
EventReady(so) ==
  {k \in Kinds : \/ k = "read" /\ so.rcvevent > 0
                 \/ k = "write" /\ so.sendevent
                 \/ k = "except" /\ so.errevent}

(* The thread runs event_callback itself, or holds the core lock for it.   *)
Busy(t) == ev[t].pc # "idle" \/ (ev[Core].pc # "idle" /\ ev[Core].by = t)

(* API_EVENT: one callback after another for the events in todo.           *)
Raise(e, c, todo, by) ==
  [ev EXCEPT ![e] = [NoEvent EXCEPT !.pc = "call", !.conn = c, !.todo = todo, !.by = by]]

(* select_cb_ctr++: event_callback will restart at the top of the list.    *)
ListChanged == [e \in Callers |-> [ev[e] EXCEPT !.changed = (ev[e].pc = "walk")]]

(* Every select that asks for <<s, k>> may come back with nothing.         *)
Steal(t, s, k) ==
  [u \in Threads |-> IF u # t /\ <<s, k>> \in call[u].want
                     THEN [call[u] EXCEPT !.stolen = TRUE] ELSE call[u]]

Goto(t, pc) == [call EXCEPT ![t].pc = pc]


-----------------------------------------------------------------------------
(* lwip_select.                                                            *)

(* An application passes sockets that lwip_accept has given it.            *)
lwip_select(t, want, timeout) ==
  /\ ~aborted /\ call[t].pc = "idle" /\ ~Busy(t)
  /\ \A s \in Fds(want) : sock[s].conn # NULL /\ nc[sock[s].conn].socket = s
  /\ call' = [call EXCEPT ![t] = [NoCall EXCEPT !.pc = "scan", !.want = want,
                                                 !.timeout = timeout, !.todo = Fds(want)]]
  /\ UNCHANGED <<sock, nc, select_cb_list, ev, events, aborted>>

(* Where a scan leads that found the pairs in ready.                       *)
AfterScan(c, ready) ==
  CASE c.pc = "scan" /\ ready = {} /\ c.timeout # "zero" ->
         [c EXCEPT !.pc = "add", !.todo = Fds(c.want)]
    [] c.pc = "rescan" ->
         [c EXCEPT !.pc = IF ready = {} THEN "wait" ELSE "dec", !.todo = Fds(c.want)]
    [] OTHER -> NoCall

(* Mutant: the second scan is not made.                                    *)
lwip_selscan_Once(t) ==
  /\ ~aborted /\ call[t].pc \in {"scan", "rescan", "result"} /\ call[t].todo # {}
  /\ \E s \in {Lowest(call[t].todo)} :
       LET ready == call[t].ready \cup (IF call[t].pc = "rescan" THEN {} ELSE Scanned(s, call[t].want))
           rest  == call[t].todo \ {s}
       IN  call' = [call EXCEPT ![t] = IF rest # {} THEN [@ EXCEPT !.ready = ready, !.todo = rest]
                                       ELSE AfterScan(@, ready)]
  /\ UNCHANGED <<sock, nc, select_cb_list, ev, events, aborted>>

(* One socket of lwip_selscan.  The scan runs three times: at first, again *)
(* once the thread is on the list and counted, and for the result.         *)
lwip_selscan(t) ==
  /\ ~aborted /\ call[t].pc \in {"scan", "rescan", "result"} /\ call[t].todo # {}
  /\ \E s \in {Lowest(call[t].todo)} :
       LET ready == call[t].ready \cup Scanned(s, call[t].want)
           rest  == call[t].todo \ {s}
       IN  call' = [call EXCEPT ![t] = IF rest # {} THEN [@ EXCEPT !.ready = ready, !.todo = rest]
                                       ELSE AfterScan(@, ready)]
  /\ UNCHANGED <<sock, nc, select_cb_list, ev, events, aborted>>

(* Put the select_cb on top of the list.                                   *)
SelectAdd(t) ==
  /\ ~aborted /\ call[t].pc = "add"
  /\ select_cb_list' = <<t>> \o select_cb_list
  /\ ev' = ListChanged
  /\ call' = Goto(t, "inc")
  /\ UNCHANGED <<sock, nc, events, aborted>>

(* select_waiting++ for one socket.  At a socket that is not open the loop *)
(* breaks; the sockets before it (maxfdp2) are decremented again.          *)
SelectInc(t) ==
  /\ ~aborted /\ call[t].pc = "inc"
  /\ \E s \in {Lowest(call[t].todo)} :
       LET rest == call[t].todo \ {s}
           done == Fds(call[t].want) \ call[t].todo
       IN  IF sock[s].conn # NULL
           THEN /\ sock' = [sock EXCEPT ![s].select_waiting = @ + 1]
                /\ call' = IF rest # {} THEN [call EXCEPT ![t].todo = rest]
                           ELSE [call EXCEPT ![t].pc = "rescan", ![t].todo = Fds(call[t].want)]
           ELSE /\ call' = [call EXCEPT ![t].bad = TRUE, ![t].todo = done,
                                        ![t].pc = IF done = {} THEN "remove" ELSE "dec"]
                /\ UNCHANGED sock
  /\ UNCHANGED <<nc, select_cb_list, ev, events, aborted>>

(* sys_arch_sem_wait returns because the semaphore was signalled...        *)
SelectWake(t) ==
  /\ ~aborted /\ call[t].pc = "wait" /\ call[t].sem
  /\ call' = [call EXCEPT ![t].pc = "dec", ![t].sem = FALSE]
  /\ UNCHANGED <<sock, nc, select_cb_list, ev, events, aborted>>

(* ... or because the timeout has passed first.                            *)
SelectTimeout(t) ==
  /\ ~aborted /\ call[t].pc = "wait" /\ call[t].timeout = "finite" /\ ~call[t].sem
  /\ call' = [call EXCEPT ![t].pc = "dec", ![t].timedout = TRUE]
  /\ UNCHANGED <<sock, nc, select_cb_list, ev, events, aborted>>

(* Mutant: a timed-out select leaves its count behind.                     *)
SelectDec_Leak(t) ==
  /\ ~aborted /\ call[t].pc = "dec"
  /\ \E s \in {Lowest(call[t].todo)} :
       LET rest == call[t].todo \ {s}
       IN  /\ sock' = IF sock[s].conn # NULL /\ sock[s].select_waiting > 0 /\ ~call[t].timedout
                      THEN [sock EXCEPT ![s].select_waiting = @ - 1] ELSE sock
           /\ aborted' = (sock[s].conn # NULL /\ sock[s].select_waiting = 0)
           /\ call' = [call EXCEPT ![t].bad = @ \/ sock[s].conn = NULL, ![t].todo = rest,
                                   ![t].pc = IF rest = {} THEN "remove" ELSE "dec"]
  /\ UNCHANGED <<nc, select_cb_list, ev, events>>

(* select_waiting-- for one socket, with its assertion.                    *)
SelectDec(t) ==
  /\ ~aborted /\ call[t].pc = "dec"
  /\ \E s \in {Lowest(call[t].todo)} :
       LET rest == call[t].todo \ {s}
       IN  /\ sock' = IF sock[s].conn # NULL /\ sock[s].select_waiting > 0
                      THEN [sock EXCEPT ![s].select_waiting = @ - 1] ELSE sock
           /\ aborted' = (sock[s].conn # NULL /\ sock[s].select_waiting = 0)
           /\ call' = [call EXCEPT ![t].bad = @ \/ sock[s].conn = NULL, ![t].todo = rest,
                                   ![t].pc = IF rest = {} THEN "remove" ELSE "dec"]
  /\ UNCHANGED <<nc, select_cb_list, ev, events>>

(* Take the select_cb off the list and free its semaphore; then EBADF, or  *)
(* 0 after a timeout, or the scan that fills the result.                   *)
SelectRemove(t) ==
  /\ ~aborted /\ call[t].pc = "remove"
  /\ \E k \in 1 .. Len(select_cb_list) :
       select_cb_list[k] = t /\ select_cb_list' = RemoveAt(select_cb_list, k)
  /\ ev' = ListChanged
  /\ call' = [call EXCEPT ![t] = IF @.bad \/ @.timedout THEN NoCall
                                 ELSE [@ EXCEPT !.pc = "result", !.todo = Fds(call[t].want),
                                                !.ready = {}, !.sem = FALSE]]
  /\ UNCHANGED <<sock, nc, events, aborted>>

-----------------------------------------------------------------------------
(* event_callback.                                                         *)

(* The callback of one event is over: the caller goes on to its next one.  *)
EventDone(e) ==
  ev' = [ev EXCEPT ![e] = IF Len(@.todo) = 1 THEN NoEvent
                          ELSE [NoEvent EXCEPT !.pc = "call", !.conn = ev[e].conn,
                                               !.by = ev[e].by, !.todo = Tail(ev[e].todo)]]

(* conn->socket is read, again under protection when it is negative: the   *)
(* socket does not exist yet and receive events are counted in it.         *)
EventSocket(e) ==
  /\ ~aborted /\ ev[e].pc = "call" /\ Head(ev[e].todo) # "post"
  /\ LET c == ev[e].conn
     IN  IF nc[c].socket < 0
         THEN /\ nc' = IF Head(ev[e].todo) = "RCVPLUS" THEN [nc EXCEPT ![c].socket = @ - 1] ELSE nc
              /\ EventDone(e)
         ELSE /\ UNCHANGED nc
              /\ IF sock[nc[c].socket].conn = NULL THEN EventDone(e)
                 ELSE ev' = [ev EXCEPT ![e].pc = "apply", ![e].s = nc[c].socket]
  /\ UNCHANGED <<sock, select_cb_list, call, events, aborted>>

(* The event in the socket.                                                *)
Applied(so, evt) ==
  CASE evt = "RCVPLUS"   -> [so EXCEPT !.rcvevent = @ + 1]
    [] evt = "RCVMINUS"  -> [so EXCEPT !.rcvevent = @ - 1]
    [] evt = "SENDPLUS"  -> [so EXCEPT !.sendevent = TRUE]
    [] evt = "SENDMINUS" -> [so EXCEPT !.sendevent = FALSE]
    [] evt = "ERROR"     -> [so EXCEPT !.errevent = TRUE]

(* The event takes something away from the selects that ask for it.        *)
Stolen(e, s, evt) ==
  CASE evt = "RCVMINUS"  -> Steal(e, s, "read")
    [] evt = "SENDMINUS" -> Steal(e, s, "write")
    [] OTHER             -> call

(* Mutant: a select is signalled whatever has happened on its socket.      *)
Walk_AnyEvent(e, so, s, k, cl) ==
  IF k > Len(select_cb_list)
  THEN EventDone(e) /\ call' = cl
  ELSE LET t == select_cb_list[k]
       IN  /\ call' = IF ~cl[t].signalled /\ s \in Fds(cl[t].want)
                      THEN [cl EXCEPT ![t].signalled = TRUE, ![t].sem = TRUE] ELSE cl
           /\ ev' = [ev EXCEPT ![e].pc = "walk", ![e].s = s, ![e].next = k + 1, ![e].changed = FALSE]

(* One turn of the loop, at the k-th entry of the list: signal the select  *)
(* if it was not signalled before and asks for what socket s, now so, has. *)
Walk(e, so, s, k, cl) ==
  IF k > Len(select_cb_list)
  THEN EventDone(e) /\ call' = cl
  ELSE LET t == select_cb_list[k]
       IN  /\ call' = IF ~cl[t].signalled /\ \E r \in EventReady(so) : <<s, r>> \in cl[t].want
                      THEN [cl EXCEPT ![t].signalled = TRUE, ![t].sem = TRUE] ELSE cl
           /\ ev' = [ev EXCEPT ![e].pc = "walk", ![e].s = s, ![e].next = k + 1, ![e].changed = FALSE]

(* Set the event and, in the same critical section, look at the top of the *)
(* list if any select waits for the socket.                                *)
EventApply(e) ==
  /\ ~aborted /\ ev[e].pc = "apply"
  /\ \E so \in {Applied(sock[ev[e].s], Head(ev[e].todo))} :
       /\ sock' = [sock EXCEPT ![ev[e].s] = so]
       /\ \E cl \in {Stolen(e, ev[e].s, Head(ev[e].todo))} :
            IF so.select_waiting = 0 THEN EventDone(e) /\ call' = cl
            ELSE Walk(e, so, ev[e].s, 1, cl)
  /\ UNCHANGED <<nc, select_cb_list, events, aborted>>

(* Mutant: the walk goes on at the next entry of a list that has changed.  *)
EventWalk_NoRestart(e) ==
  /\ ~aborted /\ ev[e].pc = "walk"
  /\ Walk(e, sock[ev[e].s], ev[e].s, ev[e].next, call)
  /\ UNCHANGED <<sock, nc, select_cb_list, events, aborted>>

(* Protect again: from the top if the list has changed, else the next one. *)
EventWalk(e) ==
  /\ ~aborted /\ ev[e].pc = "walk"
  /\ Walk(e, sock[ev[e].s], ev[e].s, IF ev[e].changed THEN 1 ELSE ev[e].next, call)
  /\ UNCHANGED <<sock, nc, select_cb_list, events, aborted>>

(* err_tcp posts NULL to recvmbox after its events.                        *)
EventPost(e) ==
  /\ ~aborted /\ ev[e].pc = "call" /\ Head(ev[e].todo) = "post"
  /\ nc' = [nc EXCEPT ![ev[e].conn].mbox = Append(@, NULL)]
  /\ EventDone(e)
  /\ UNCHANGED <<sock, select_cb_list, call, events, aborted>>

-----------------------------------------------------------------------------
(* The callbacks of the stack, under the core lock (api_msg.c).            *)

CoreFree == ~aborted /\ ev[Core].pc = "idle"

Callback == CoreFree /\ events < MaxEvents /\ events' = events + 1

(* A connection for the listening netconn: a new netconn without a socket, *)
(* or &netconn_aborted (NULL here) if there is none.                       *)
accept_function(c) ==
  /\ Callback
  /\ IF c = NULL
     THEN nc' = [nc EXCEPT ![Listener].mbox = Append(@, c)]
     ELSE /\ nc[c].state = "new"
          /\ nc' = [nc EXCEPT ![c].state = "open", ![Listener].mbox = Append(@, c)]
  /\ ev' = Raise(Core, Listener, <<"RCVPLUS">>, Core)
  /\ UNCHANGED <<sock, select_cb_list, call, aborted>>

(* Data: posted to recvmbox first, the event is raised afterwards.         *)
recv_tcp(c) ==
  /\ Callback /\ nc[c].state = "open"
  /\ nc' = [nc EXCEPT ![c].mbox = Append(@, NULL)]
  /\ ev' = Raise(Core, c, <<"RCVPLUS">>, Core)
  /\ UNCHANGED <<sock, select_cb_list, call, aborted>>

(* do_writemore fills the send buffer (SENDMINUS and the flag)...          *)
lwip_netconn_do_writemore(c) ==
  /\ Callback /\ nc[c].state = "open" /\ nc[c].socket >= 0 /\ ~nc[c].checkspace
  /\ nc' = [nc EXCEPT ![c].checkspace = TRUE]
  /\ ev' = Raise(Core, c, <<"SENDMINUS">>, Core)
  /\ UNCHANGED <<sock, select_cb_list, call, aborted>>

(* ... and sent_tcp or poll_tcp finds space again.                         *)
sent_tcp(c) ==
  /\ Callback /\ nc[c].state = "open" /\ nc[c].checkspace
  /\ nc' = [nc EXCEPT ![c].checkspace = FALSE]
  /\ ev' = Raise(Core, c, <<"SENDPLUS">>, Core)
  /\ UNCHANGED <<sock, select_cb_list, call, aborted>>

(* The connection is reset.                                                *)
err_tcp(c) ==
  /\ Callback /\ nc[c].state = "open"
  /\ nc' = [nc EXCEPT ![c].state = "err"]
  /\ ev' = Raise(Core, c, <<"ERROR", "RCVPLUS", "SENDPLUS", "post">>, Core)
  /\ UNCHANGED <<sock, select_cb_list, call, aborted>>

-----------------------------------------------------------------------------
(* The other socket functions.  A socket is used by one thread at a time,  *)
(* but for select.                                                         *)

Unused(t, s) == \A u \in Threads \ {t} : call[u].pc \notin {"recv", "closing"} \/ call[u].s # s

(* lwip_recvfrom takes what is left of the last message, all or a part...  *)
RecvLastdata(t, s, all) ==
  /\ ~aborted /\ call[t].pc = "idle" /\ ~Busy(t) /\ Unused(t, s)
  /\ sock[s].conn \in Conns /\ sock[s].lastdata
  /\ sock' = [sock EXCEPT ![s].lastdata = ~all]
  /\ call' = [Steal(t, s, "read") EXCEPT ![t] = NoCall]
  /\ UNCHANGED <<nc, select_cb_list, ev, events, aborted>>

(* ... or fetches a message from recvmbox and then raises RCVMINUS.        *)
RecvFetch(t, s) ==
  /\ ~aborted /\ call[t].pc = "idle" /\ ~Busy(t) /\ Unused(t, s)
  /\ sock[s].conn \in Conns /\ ~sock[s].lastdata
  /\ nc[sock[s].conn].socket = s /\ nc[sock[s].conn].state # "closed" /\ nc[sock[s].conn].mbox # <<>>
  /\ nc' = [nc EXCEPT ![sock[s].conn].mbox = Tail(@)]
  /\ ev' = Raise(t, sock[s].conn, <<"RCVMINUS">>, t)
  /\ call' = [call EXCEPT ![t] = [NoCall EXCEPT !.pc = "recv", !.s = s]]
  /\ UNCHANGED <<sock, select_cb_list, events, aborted>>

(* What does not fit the caller's buffer stays in lastdata.                *)
RecvDone(t, all) ==
  /\ ~aborted /\ call[t].pc = "recv" /\ ~Busy(t)
  /\ sock' = [sock EXCEPT ![call[t].s].lastdata = ~all]
  /\ call' = [call EXCEPT ![t] = NoCall]
  /\ UNCHANGED <<nc, select_cb_list, ev, events, aborted>>

(* lwip_accept: netconn_accept fetches a connection and raises RCVMINUS.   *)
AcceptFetch(t) ==
  /\ ~aborted /\ call[t].pc = "idle" /\ ~Busy(t)
  /\ nc[Listener].mbox # <<>>
  /\ nc' = [nc EXCEPT ![Listener].mbox = Tail(@)]
  /\ ev' = Raise(t, Listener, <<"RCVMINUS">>, t)
  /\ call' = [call EXCEPT
                ![t] = IF Head(nc[Listener].mbox) = NULL THEN NoCall
                       ELSE [NoCall EXCEPT !.pc = "alloc", !.newconn = Head(nc[Listener].mbox)]]
  /\ UNCHANGED <<sock, select_cb_list, events, aborted>>

FreeSockets == {s \in Sockets : sock[s].conn = NULL}

(* alloc_socket takes the first free slot; without one the new netconn is  *)
(* deleted (its events find no socket)...                                  *)
AllocSocket(t) ==
  /\ ~aborted /\ call[t].pc = "alloc" /\ ~Busy(t)
  /\ IF FreeSockets = {}
     THEN /\ CoreFree
          /\ nc' = [nc EXCEPT ![call[t].newconn].state = "closed", ![call[t].newconn].mbox = <<>>,
                              ![call[t].newconn].socket = @ - 1]
          /\ call' = [call EXCEPT ![t] = NoCall]
          /\ UNCHANGED sock
     ELSE /\ sock' = [sock EXCEPT ![Lowest(FreeSockets)].conn = call[t].newconn]
          /\ call' = [call EXCEPT ![t].pc = "allocinit", ![t].s = Lowest(FreeSockets)]
          /\ UNCHANGED nc
  /\ UNCHANGED <<select_cb_list, ev, events, aborted>>

(* ... and resets the rest of it after it has dropped the protection.      *)
AllocInit(t) ==
  /\ ~aborted /\ call[t].pc = "allocinit"
  /\ sock' = [sock EXCEPT ![call[t].s] = [NoSocket EXCEPT !.conn = call[t].newconn,
                                                          !.sendevent = TRUE]]
  /\ call' = Goto(t, "handover")
  /\ UNCHANGED <<nc, select_cb_list, ev, events, aborted>>

(* Mutant: the events counted in newconn->socket are forgotten.            *)
AcceptHandover_Drop(t) ==
  /\ ~aborted /\ call[t].pc = "handover"
  /\ nc' = [nc EXCEPT ![call[t].newconn].socket = call[t].s]
  /\ call' = [call EXCEPT ![t] = NoCall]
  /\ UNCHANGED <<sock, select_cb_list, ev, events, aborted>>

(* lwip_accept moves the events counted so far to the socket.              *)
AcceptHandover(t) ==
  /\ ~aborted /\ call[t].pc = "handover"
  /\ sock' = [sock EXCEPT ![call[t].s].rcvevent = @ - 1 - nc[call[t].newconn].socket]
  /\ nc' = [nc EXCEPT ![call[t].newconn].socket = call[t].s]
  /\ call' = [call EXCEPT ![t] = NoCall]
  /\ UNCHANGED <<select_cb_list, ev, events, aborted>>

(* lwip_close: netconn_delete drains the mailbox, closes the pcb and tells *)
(* everyone (no ERROR if the pcb is gone already)...                       *)
lwip_close(t, s) ==
  /\ CoreFree /\ call[t].pc = "idle" /\ ~Busy(t) /\ Unused(t, s)
  /\ sock[s].conn \in Conns
  /\ nc[sock[s].conn].socket = s /\ nc[sock[s].conn].state # "closed"
  /\ nc' = [nc EXCEPT ![sock[s].conn].state = "closed", ![sock[s].conn].mbox = <<>>]
  /\ ev' = Raise(Core, sock[s].conn,
                 IF nc[sock[s].conn].state = "err" THEN <<"RCVPLUS", "SENDPLUS">>
                 ELSE <<"ERROR", "RCVPLUS", "SENDPLUS">>, t)
  /\ call' = [call EXCEPT ![t] = [NoCall EXCEPT !.pc = "closing", !.s = s]]
  /\ UNCHANGED <<sock, select_cb_list, events, aborted>>

(* ... and free_socket makes the slot available.                           *)
free_socket(t) ==
  /\ ~aborted /\ call[t].pc = "closing" /\ ~Busy(t)
  /\ sock' = [sock EXCEPT ![call[t].s].lastdata = FALSE, ![call[t].s].conn = NULL]
  /\ call' = [u \in Threads |->
                IF u = t THEN NoCall
                ELSE [call[u] EXCEPT !.stolen = @ \/ call[t].s \in Fds(call[u].want)]]
  /\ UNCHANGED <<nc, select_cb_list, ev, events, aborted>>

-----------------------------------------------------------------------------
Select(t) ==
  \/ \E want \in Interests[t], timeout \in {"forever", "zero", "finite"} : lwip_select(t, want, timeout)
  \/ lwip_selscan(t)
  \/ SelectAdd(t)
  \/ SelectInc(t)
  \/ SelectWake(t)
  \/ SelectTimeout(t)
  \/ SelectDec(t)
  \/ SelectRemove(t)

Event(e) == EventSocket(e) \/ EventApply(e) \/ EventWalk(e) \/ EventPost(e)

Stack ==
  \/ \E c \in Conns \cup {NULL} : accept_function(c)
  \/ \E c \in Conns : \/ recv_tcp(c)
                      \/ lwip_netconn_do_writemore(c)
                      \/ sent_tcp(c)
                      \/ err_tcp(c)

Use(t) ==
  \/ \E s \in Sockets, all \in BOOLEAN : RecvLastdata(t, s, all)
  \/ \E s \in Sockets : RecvFetch(t, s)
  \/ \E all \in BOOLEAN : RecvDone(t, all)
  \/ AcceptFetch(t)
  \/ AllocSocket(t)
  \/ AllocInit(t)
  \/ AcceptHandover(t)
  \/ \E s \in Sockets : lwip_close(t, s)
  \/ free_socket(t)

Next ==
  \/ \E t \in Threads : Select(t) \/ Use(t)
  \/ \E e \in Callers : Event(e)
  \/ Stack

Spec == Init /\ [][Next]_vars

(* The callbacks run to their end, and a thread whose semaphore is         *)
(* signalled is run.  Nothing is assumed of the stack or of the            *)
(* application.                                                            *)
FairSpec ==
  /\ Spec
  /\ \A e \in Callers : WF_vars(Event(e))
  /\ \A t \in Threads : WF_vars(SelectWake(t))

-----------------------------------------------------------------------------
(* Properties.                                                             *)

(* The sockets in which thread t is counted.                               *)
Counted(t) ==
  CASE call[t].pc = "inc" -> Fds(call[t].want) \ call[t].todo
    [] call[t].pc \in {"rescan", "wait"} -> Fds(call[t].want)
    [] call[t].pc = "dec" -> call[t].todo
    [] OTHER -> {}

(* alloc_socket has marked the slot as used and not reset it yet: "The     *)
(* socket is not yet known to anyone" (sockets.c:412).                     *)
Unknown(s) == \E t \in Threads : call[t].pc = "allocinit" /\ call[t].s = s

(* select_waiting of an open socket is the number of selects counted in it:*)
(* event_callback trusts a zero, and lwip_select asserts that it is not    *)
(* zero before it decrements (sockets.c:1496).                             *)
WaitingIsExact ==
  \A s \in Sockets : sock[s].conn # NULL /\ ~Unknown(s) =>
    sock[s].select_waiting = Cardinality({t \in Threads : s \in Counted(t)})

(* No wake-up is lost: a select that sleeps, is not signalled and asks for *)
(* what a socket has, is still ahead of an event_callback for that socket  *)
(* in its walk over select_cb_list, which drops the protection at every    *)
(* entry.                                                                  *)
NoLostWakeup ==
  \A t \in Threads : \A s \in Sockets :
    (/\ call[t].pc = "wait" /\ ~call[t].sem /\ sock[s].conn # NULL
     /\ \E k \in EventReady(sock[s]) : <<s, k>> \in call[t].want)
    => \E e \in Callers :
         /\ ev[e].pc = "walk" /\ ev[e].s = s
         /\ ev[e].changed \/ \E k \in ev[e].next .. Len(select_cb_list) : select_cb_list[k] = t

(* Receive events of a netconn that were raised but are not applied yet.   *)
Raised(c, evt) ==
  Cardinality({e \in Callers : /\ ev[e].pc \in {"call", "apply"} /\ ev[e].conn = c
                               /\ Head(ev[e].todo) = evt})

(* rcvevent counts the messages in the mailbox, except for those whose     *)
(* event is under way: events counted in conn->socket before accept has    *)
(* made the socket, and RCVMINUS before its RCVPLUS, are not lost.         *)
RcvEventIsExact ==
  \A c \in AllConns : nc[c].state = "open" =>
    (IF nc[c].socket < 0 THEN -1 - nc[c].socket ELSE sock[nc[c].socket].rcvevent)
      = Len(nc[c].mbox) - Raised(c, "RCVPLUS") + Raised(c, "RCVMINUS")

(* A select that was not to time out returns an empty result only if some  *)
(* other thread took what had made it return: event_callback signals for   *)
(* nothing but an event that the select asks for.                          *)
WokenForSomething ==
  [][\A t \in Threads : call[t].pc = "result" /\ call'[t].pc = "idle" =>
       \/ call[t].stolen
       \/ call[t].ready \cup Scanned(Lowest(call[t].todo), call[t].want) # {}]_vars

(* A select that sleeps on a socket that has an event wakes up, unless the *)
(* event is taken away before, provided that the other threads do not      *)
(* enter and leave select for ever: every change of the list sends the     *)
(* walk of event_callback back to the top (sockets.c:1678).                *)
SelectWakes ==
  (<>[][FALSE]_select_cb_list) =>
    \A t \in Threads : \A s \in Sockets :
      LET due == /\ call[t].pc = "wait" /\ sock[s].conn # NULL
                 /\ \E k \in EventReady(sock[s]) : <<s, k>> \in call[t].want
      IN  due ~> ~due

(* A select does not sleep on a socket that another thread has closed: the *)
(* second scan is there for what happens between the first scan and the    *)
(* moment the select is on the list (sockets.c:1461), and EBADF is         *)
(* returned for a socket closed meanwhile (sockets.c:1533).                *)
ClosedIsNoticed ==
  \A t \in Threads : \A s \in Fds(call[t].want) :
    call[t].pc = "wait" /\ ~call[t].sem => sock[s].conn # NULL
=============================================================================
