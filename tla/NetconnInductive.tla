-------------------------- MODULE NetconnInductive --------------------------
(***************************************************************************)
(* The inductive invariant of Netconn, NetconnInv, and the words in which  *)
(* NetconnProofs speaks of what a function of the model makes of a netconn *)
(* or of the pcbs.                                                         *)
(*                                                                         *)
(* NetconnInv has a part for each netconn with the thread that uses it     *)
(* (ConnOK), one for each pcb (PcbOK), one for a netconn and its pcb       *)
(* (Pair), the backlog counters (Backlog) and who holds a netconn that no  *)
(* thread uses (Reach).  In what follows C, P and h stand for values of    *)
(* conn, pcb and th, k or o for a netconn, r or o for a pcb and x for the  *)
(* state of a thread.                                                      *)
(***************************************************************************)
EXTENDS Netconn

(***************************************************************************)
(* The state that the core lock protects, when no assertion failed.        *)
(***************************************************************************)
Is(s, C, P) == s \in [conn : {C}, pcb : {P}, failed : {FALSE}]

(* A pcb in one of these states belongs to a netconn, in one of the others *)
(* the netconn has let it go.                                              *)
Owned == {"CLOSED", "LISTEN", "SYN_SENT", "ESTABLISHED", "CLOSE_WAIT"}
Orphan == {"FIN_WAIT", "CLOSING", "LAST_ACK", "TIME_WAIT"}

(* Where a thread is when no call of it is in progress under the lock.     *)
Quiet == {"idle", "written", "recv", "do_recv", "eof", "accept", "accepted"}

NulIn(q) == \E i \in DOMAIN q : q[i] = "nul"

(* A netconn that no thread uses yet.                                      *)
Unaccepted(k) ==
  /\ k.used /\ k.state = "NONE" /\ ~k.innb /\ ~k.msg /\ k.sem = 0
  /\ k.acceptmbox = NoMbox /\ k.write_offset = 0

(* The call in progress: what state, msg, sem and innb say at each pc.     *)
Control(k, x) ==
  /\ x.pc = "none" => k = NoConn \/ Unaccepted(k)
  /\ x.pc # "none" => k.used
  /\ x.pc \in Quiet \cup {"free"} => k.sem = 0 /\ ~k.msg
  /\ x.pc \in Quiet => k.state \in {"NONE", "LISTEN", "CONNECT"}
  /\ x.pc \in Quiet /\ k.state = "CONNECT" => k.innb
  /\ x.pc = "free" => k.state = "NONE" /\ k.pcb = NULL
  /\ k.innb => k.state = "CONNECT" \/ x.pc = "free"
  /\ k.pcb = NULL => k.state = "NONE"
  /\ x.pc \in Waits =>
       IF k.sem = 1 THEN ~k.msg /\ k.state = "NONE"
       ELSE /\ k.msg /\ ~k.innb
            /\ k.state \in {"CONNECT", "WRITE", "CLOSE"}
            /\ x.pc = "connect" <=> k.state = "CONNECT"
            /\ x.pc = "write" <=> k.state = "WRITE"
  /\ x.pc = "delconn" /\ k.sem = 1 => k.api.err = "OK" /\ k.pcb = NULL
  /\ k.state = "CLOSE" => k.api.shut = "RDWR"

(* The mailboxes.                                                          *)
Boxes(k, x) ==
  /\ ~k.recvmbox.valid => k.recvmbox = NoMbox
  /\ ~k.acceptmbox.valid => k.acceptmbox = NoMbox
  /\ k.acceptmbox.valid => k.state = "LISTEN"
  /\ ~NulIn(k.acceptmbox.q)
  /\ k.state \in {"LISTEN", "CLOSE"} \/ x.pc \in {"free", "delconn"} => ~k.recvmbox.valid
  /\ k.recvmbox.valid /\ k.pcb = NULL => k.fatal
  /\ x.pc = "recv" => k.recvmbox.valid /\ (k.pcb = NULL => k.recvmbox.q # <<>>)
  /\ x.pc = "do_recv" => x.item \in {"data", "nul"}
  /\ x.pc = "accepted" => x.item \in Conns
  /\ x.pc \notin {"do_recv", "accepted"} => x.item = NULL

(* The count of a write.                                                   *)
Count(k, x) ==
  /\ k.pcb # NULL /\ k.state # "WRITE" => k.write_offset = 0
  /\ k.state = "WRITE" => k.api.given = k.write_offset /\ k.write_offset < SIZE
  /\ (x.pc = "written" \/ (x.pc = "write" /\ k.state = "NONE")) /\ k.api.err = "OK" =>
       k.api.given = (IF k.api.nb \/ k.api.timeo THEN k.api.len ELSE SIZE)

ConnOK(k, x) == Control(k, x) /\ Boxes(k, x) /\ Count(k, x)

PcbOK(r) ==
  /\ r.st = "free" => r = NoPcb
  /\ r.st \in Orphan => r.arg = NULL
  /\ r.st \in Orphan \cup {"SYN_RCVD", "LISTEN"} => ~r.recv /\ ~r.sent /\ ~r.poll /\ ~r.err
  /\ r.st \in {"CLOSED", "SYN_SENT", "SYN_RCVD", "LISTEN"} =>
       r.unread = 0 /\ r.refused = "none" /\ r.out = 0
  /\ r.st \in {"CLOSED", "SYN_SENT", "LISTEN"} => r.listener = NULL /\ ~r.pend
  /\ r.st = "SYN_RCVD" => r.pend
  /\ r.st = "TIME_WAIT" => ~(r.pend /\ r.listener # NULL)
  /\ r.st = "ESTABLISHED" => r.refused # "fin"

Taken(x) == IF x.pc = "do_recv" /\ x.item = "data" THEN 1 ELSE 0

(* The window that is closed is data on its way to the application.        *)
Window(k, r, x) ==
  /\ r.unread = Taken(x) + (IF r.refused = "none" THEN 0 ELSE 1) + DataIn(k.recvmbox.q)
  /\ \A i \in DOMAIN k.recvmbox.q : k.recvmbox.q[i] = "nul" => i = Len(k.recvmbox.q)
  /\ NulIn(k.recvmbox.q) => r.st = "CLOSE_WAIT" /\ r.refused = "none"

(* Netconn c and its pcb.                                                  *)
Pair(c, k, r, x) ==
  /\ r.arg = c /\ r.st \in Owned
  /\ r.st = "LISTEN" <=> k.state = "LISTEN"
  /\ r.st = "SYN_SENT" <=> k.state = "CONNECT"
  /\ k.state \in {"WRITE", "CLOSE"} => r.st \in {"ESTABLISHED", "CLOSE_WAIT"}
  /\ r.st # "LISTEN" => r.err /\ r.poll
  /\ k.recvmbox.valid => r.recv /\ Window(k, r, x)
  /\ k.recvmbox.valid /\ x.pc = "do_recv" /\ x.item = "nul" =>
       k.recvmbox.q = <<>> /\ r.st = "CLOSE_WAIT" /\ r.refused = "none"

Types(C, P, h) == C \in [Conns -> ConnType] /\ P \in [Pcbs -> PcbType] /\ h \in [Conns -> ThreadType]

(* Netconn and pcb refer to each other.                                    *)
Links(C, P, h) ==
  /\ \A c \in Conns : C[c].pcb # NULL => Pair(c, C[c], P[C[c].pcb], h[c])
  /\ \A p \in Pcbs : P[p].st \in Owned => P[p].arg \in Conns /\ C[P[p].arg].pcb = p

Listens(P, p) ==
  P[p].listener # NULL => /\ P[P[p].listener].st = "LISTEN"
                          /\ P[p].st = "SYN_RCVD" => P[p].arg = P[P[p].listener].arg

Pending(P, l) == {p \in Pcbs : P[p].listener = l /\ P[p].pend}

(* The backlog of each listening pcb.                                      *)
Backlog(P) ==
  /\ \A p \in Pcbs : Listens(P, p)
  /\ \A l \in Pcbs : P[l].st = "LISTEN" => P[l].accepts_pending = Cardinality(Pending(P, l))

Base(C, P, h) ==
  /\ Types(C, P, h)
  /\ \A c \in Conns : ConnOK(C[c], h[c])
  /\ \A p \in Pcbs : PcbOK(P[p])
  /\ Links(C, P, h)
  /\ Backlog(P)

(* The places where a netconn without a thread can be.                     *)
InQueue(C, c, i, n) == i \in DOMAIN C[c].acceptmbox.q /\ C[c].acceptmbox.q[i] = n

Reach(C, h) ==
  /\ \A c, n \in Conns : h[c].item = n \/ (\E i \in Nat : InQueue(C, c, i, n)) =>
       C[n].used /\ h[n].pc = "none"
  /\ \A c, d, n \in Conns : h[c].item = n /\ h[d].item = n => c = d
  /\ \A c, d, n \in Conns : \A i \in Nat : ~(InQueue(C, c, i, n) /\ h[d].item = n)
  /\ \A c, d, n \in Conns : \A i, j \in Nat :
       InQueue(C, c, i, n) /\ InQueue(C, d, j, n) => c = d /\ i = j
  /\ \A n \in Conns : C[n].used /\ h[n].pc = "none" =>
       \E c \in Conns : h[c].item = n \/ \E i \in Nat : InQueue(C, c, i, n)

NetconnInv == failed = FALSE /\ Base(conn, pcb, th) /\ Reach(conn, th)

-----------------------------------------------------------------------------
(* What a change of one pcb must keep of the backlogs: whom it counts for, *)
(* and, of a listening pcb, everything that the others refer to.           *)
BacklogKept(o, r) ==
  /\ r.listener # NULL /\ r.pend <=> o.listener # NULL /\ o.pend
  /\ r.listener # NULL => r.listener = o.listener
  /\ o.st = "LISTEN" => r.st = "LISTEN" /\ r.accepts_pending = o.accepts_pending /\ r.arg = o.arg
  /\ o.st # "LISTEN" /\ r.st = "LISTEN" => r.accepts_pending = 0
  /\ r.st = "SYN_RCVD" => o.st = "SYN_RCVD" /\ r.arg = o.arg

(* The pcbs after tcp_backlog_accepted(p): p no longer counts.             *)
Unpended(P, p) ==
  [q \in Pcbs |-> IF q = p THEN [P[q] EXCEPT !.pend = P[q].pend /\ P[q].listener = NULL]
                  ELSE IF q = P[p].listener /\ P[p].pend
                  THEN [P[q] EXCEPT !.accepts_pending = P[q].accepts_pending - 1]
                  ELSE P[q]]

(* What becomes of a pcb that gave back its slot and was let go.           *)
LetGo(o, r) ==
  /\ r.st \notin Owned \cup {"SYN_RCVD"}
  /\ r.listener # NULL => r.listener = o.listener /\ ~r.pend

(* The pcbs after tcp_listen_closed.                                       *)
Unlistened(P, l) ==
  [p \in Pcbs |-> IF p = l THEN NoPcb
                  ELSE IF P[p].listener = l THEN [P[p] EXCEPT !.listener = NULL]
                  ELSE P[p]]

(* A pcb after tcp_recved.                                                 *)
Recved(o, n) == [o EXCEPT !.unread = IF o.unread > n THEN o.unread - n ELSE 0]

(* p gives back a slot only of a listening pcb that has one taken.         *)
Slot(P, p) ==
  P[p].listener # NULL /\ P[p].pend =>
     /\ P[p].listener \in Pcbs /\ P[p].listener # p
     /\ P[P[p].listener].accepts_pending \in Nat \ {0}

(* A pcb after tcp_pcb_purge.                                              *)
Purged(o) == [o EXCEPT !.refused = "none", !.out = 0]

(* A state in which tcp_pcb_purge does nothing has no slot to give back.   *)
Purgeable(P, p) ==
  /\ Slot(P, p)
  /\ P[p].st \in {"CLOSED", "TIME_WAIT"} => ~(P[p].listener # NULL /\ P[p].pend)
  /\ P[p].st # "LISTEN"

(* What err_tcp makes of a netconn.                                        *)
Errd(o) ==
  IF o.state \in {"WRITE", "CLOSE", "CONNECT"} /\ ~o.innb
  THEN [ErrConn(o) EXCEPT !.msg = FALSE, !.sem = ErrConn(o).sem + 1,
          !.api.err = IF o.state = "CLOSE" THEN "OK" ELSE "ERR"]
  ELSE [ErrConn(o) EXCEPT !.innb = IF o.state \in {"WRITE", "CLOSE", "CONNECT"} THEN FALSE ELSE ErrConn(o).innb]

(* The assertions of err_tcp.                                              *)
ErrReady(o) ==
  /\ o.used
  /\ IF o.state \in {"WRITE", "CLOSE", "CONNECT"} /\ ~o.innb THEN o.msg
     ELSE o.state \in {"WRITE", "CLOSE", "CONNECT"} \/ ~o.msg

Busy(o) == o.state \in {"WRITE", "CLOSE", "CONNECT"}

(* A netconn whose recvmbox is drained and freed.                          *)
Drained(o) == [o EXCEPT !.recvmbox = NoMbox]

(* The loop of netconn_drain as a recursive function.                      *)
IsLoop(u, s, q, n) ==
  u = [i \in 0 .. n |-> IF i = 0 THEN s ELSE IF q[i] = "aborted" THEN u[i - 1] ELSE DropQueued(u[i - 1], q[i])]

(* What an acceptmbox holds: netconns without a thread, each once.         *)
Droppable(C, h, q) ==
  /\ q \in Seq(Conns \cup {"aborted"})
  /\ \A i \in 1 .. Len(q) : q[i] \in Conns => C[q[i]].used /\ h[q[i]].pc = "none"
  /\ \A i, j \in 1 .. Len(q) : q[i] \in Conns /\ q[i] = q[j] => i = j

(* After n rounds the first n of the queue are gone.                       *)
Dropped(C, C2, q, n) ==
  /\ C2 \in [Conns -> ConnType]
  /\ \A m \in Conns : C2[m] = IF \E i \in 1 .. n : q[i] = m THEN NoConn ELSE C[m]

(* What Complete makes of a netconn.                                       *)
Completed(o, err, delayed) ==
  [o EXCEPT !.api.err = err, !.msg = FALSE, !.state = "NONE", !.sem = IF delayed THEN o.sem + 1 ELSE o.sem]

Errors == {"OK", "MEM", "CONN", "ERR"}

(* conn->pcb.tcp = NULL.                                                   *)
Unlinked(o) == [o EXCEPT !.pcb = NULL]

(* A pcb that TCP keeps for itself: no callbacks, nothing to read.         *)
Detached(o) == [o EXCEPT !.arg = NULL, !.recv = FALSE, !.sent = FALSE, !.poll = FALSE, !.err = FALSE]

RxClosed(o) == [o EXCEPT !.rxclosed = TRUE]

NoCallbacks(o) == o.arg = NULL /\ ~o.recv /\ ~o.sent /\ ~o.poll /\ ~o.err

(* What tcp_close returns when it sends an RST.                            *)
RstSent(R, C, U, p) ==
  /\ R.err = "OK"
  /\ \E r \in PcbType : /\ Is(R.s, C, [Unpended(U, p) EXCEPT ![p] = r])
                        /\ PcbOK(r) /\ LetGo(U[p], r)

(* What tcp_close returns when it sends a FIN, and when it cannot.         *)
FinSent(R, C, U, p) ==
  /\ R.err = "OK"
  /\ \E r \in PcbType : /\ Is(R.s, C, [U EXCEPT ![p] = r])
                        /\ PcbOK(r) /\ r.st \notin Owned /\ BacklogKept(U[p], r)
FinNoMem(R, C, U, p) == R.err = "MEM" /\ Is(R.s, C, [U EXCEPT ![p] = RxClosed(U[p])])

(* lwip_netconn_do_close_internal for both directions, by what tcp_close   *)
(* returns.                                                                *)
CloseCore(s, c) ==
  ClearCallbacks(Check(s, s.conn[c].state = "CLOSE" /\ s.conn[c].pcb # NULL /\ s.conn[c].msg),
                 s.conn[c].pcb, "RDWR", TRUE)
CloseResult(s, c, mem) == tcp_close(CloseCore(s, c), s.conn[c].pcb, mem)
UnlinkPcb(s, c) == [s EXCEPT !.conn[c].pcb = NULL]

(* The pcb of a close that waits for memory.                               *)
Restored(o, c) ==
  [RxClosed(Detached(o)) EXCEPT !.sent = TRUE, !.poll = TRUE, !.err = TRUE, !.arg = c]

(* The ways in which a close can end: the pcb is let go, with or without   *)
(* its slot; a listening pcb is freed; or the close waits for memory.      *)
CloseEnds(R, C, P, c, p, k) ==
  \/ /\ P[p].st # "LISTEN"
     /\ \E r \in PcbType : /\ Is(R, [C EXCEPT ![c] = k], [Unpended(P, p) EXCEPT ![p] = r])
                           /\ PcbOK(r) /\ LetGo(P[p], r)
  \/ \E r \in PcbType : /\ Is(R, [C EXCEPT ![c] = k], [P EXCEPT ![p] = r])
                        /\ PcbOK(r) /\ r.st \notin Owned /\ BacklogKept(P[p], r)
  \/ P[p].st = "LISTEN" /\ Is(R, [C EXCEPT ![c] = k], Unlistened(P, p))
CloseWaits(R, C, P, c, p) ==
  P[p].st \in {"ESTABLISHED", "CLOSE_WAIT"} /\ Is(R, C, [P EXCEPT ![p] = Restored(P[p], c)])

(* What a close needs of the state.                                        *)
CloseReady(s, C, P, c, p) ==
  /\ C \in [Conns -> ConnType] /\ P \in [Pcbs -> PcbType] /\ Is(s, C, P)
  /\ c \in Conns /\ p \in Pcbs /\ C[c].pcb = p /\ C[c].state = "CLOSE" /\ C[c].msg
  /\ C[c].api.shut = "RDWR" /\ P[p].st \in Owned /\ PcbOK(P[p]) /\ Slot(P, p)

(* The pcbs that tcp_close gets: p has no callbacks.                       *)
CorePcbs(P, p) == [P EXCEPT ![p] = Detached(P[p])]

(* Whatever the netconn becomes that let its pcb go: the pcbs P2 fit.      *)
Fits(C, P2, h, c) ==
  \A k \in ConnType, x \in ThreadType : k.pcb = NULL /\ ConnOK(k, x) =>
     Base([C EXCEPT ![c] = k], P2, [h EXCEPT ![c] = x])

(* A call under the lock starts: state, current_msg and the api_msg.       *)
Started(o, state, a) == [o EXCEPT !.state = state, !.msg = TRUE, !.api = a]

(* The state in which it runs.                                             *)
StartCall(s, c, state, a) ==
  [Check(s, ~s.conn[c].msg /\ s.conn[c].write_offset = 0) EXCEPT
     !.conn[c].state = state, !.conn[c].msg = TRUE, !.conn[c].api = a]

(* The api_msg of a call that has returned is gone.                        *)
Returned(o) == [o EXCEPT !.api = NoMsg]

(* The api_msg of a close,                                                 *)
CloseMsg(shut, late) == [NoMsg EXCEPT !.shut = shut, !.late = late]

(* and of a write.                                                         *)
WriteMsg(nb, timeo, late) == [NoMsg EXCEPT !.nb = nb, !.timeo = timeo, !.late = late]

(* What do_close and do_delconn find: a netconn without mailboxes, whose   *)
(* thread has no call in progress.                                         *)
Closable(C, P, h, s, c, p) ==
  /\ Base(C, P, h) /\ Reach(C, h) /\ Is(s, C, P) /\ c \in Conns /\ p \in Pcbs
  /\ h[c].pc \in {"idle", "eof"} /\ C[c].pcb = p /\ C[c].recvmbox = NoMbox /\ C[c].acceptmbox = NoMbox

(* A pcb after the receiving side was shut down.                           *)
ReadShut(o) == [o EXCEPT !.recv = FALSE, !.rxclosed = TRUE, !.refused = "none"]

(* setup_tcp.                                                              *)
SetUp(o, c) == [o EXCEPT !.arg = c, !.recv = TRUE, !.sent = TRUE, !.poll = TRUE, !.err = TRUE]

(* A netconn that was just allocated.                                      *)
NewConn(p) == [NoConn EXCEPT !.used = TRUE, !.pcb = p, !.recvmbox = NewMbox]

(* A netconn whose SYN is sent.                                            *)
Connecting(o, nb) == [o EXCEPT !.state = "CONNECT", !.innb = nb, !.msg = ~nb]

SynSent(o) == [o EXCEPT !.st = "SYN_SENT"]

(* lwip_netconn_do_writemore: its assertions, its length, its end.         *)
WriteStart(s, c) ==
  Check(s, s.conn[c].state = "WRITE" /\ s.conn[c].msg /\ s.conn[c].pcb # NULL /\ s.conn[c].write_offset < SIZE)
WriteLen(s, c) ==
  IF SND_BUF - s.pcb[s.conn[c].pcb].out < SIZE - s.conn[c].write_offset
  THEN SND_BUF - s.pcb[s.conn[c].pcb].out ELSE SIZE - s.conn[c].write_offset
WriteDone(u, c, err, n, delayed) ==
  [Complete(u, c, err, delayed) EXCEPT !.conn[c].write_offset = 0, !.conn[c].api.len = n]

(* What Written makes of the netconn and of its pcb.                       *)
Grown(o, len) == [o EXCEPT !.write_offset = o.write_offset + len, !.api.given = o.api.given + len]
Sending(r, len) == [r EXCEPT !.out = r.out + len]

(* What Completed makes of the fields, under a name.                       *)
CompletedFrom(k, o, err, n) ==
  /\ k \in ConnType /\ k.used = o.used /\ k.state = "NONE" /\ k.innb = o.innb
  /\ k.pcb = o.pcb /\ ~k.msg /\ k.recvmbox = o.recvmbox
  /\ k.acceptmbox = o.acceptmbox /\ k.fatal = o.fatal
  /\ k.write_offset = o.write_offset /\ k.sem = n
  /\ k.api \in MsgType
  /\ k.api.err = err /\ k.api.shut = o.api.shut /\ k.api.nb = o.api.nb
  /\ k.api.len = o.api.len /\ k.api.timeo = o.api.timeo /\ k.api.given = o.api.given

(* What the end of a write makes of the netconn.                           *)
Finished(o, err, n, delayed) == [Completed(o, err, delayed) EXCEPT !.write_offset = 0, !.api.len = n]

(* And Finished.                                                           *)
FinishedFrom(k, o, err, n, delayed) ==
  /\ k \in ConnType /\ k.used = o.used /\ k.state = "NONE" /\ k.innb = o.innb
  /\ k.pcb = o.pcb /\ ~k.msg /\ k.recvmbox = o.recvmbox
  /\ k.acceptmbox = o.acceptmbox /\ k.fatal = o.fatal
  /\ k.write_offset = 0 /\ k.sem = (IF delayed THEN 1 ELSE o.sem)
  /\ k.api.err = err /\ k.api.shut = o.api.shut /\ k.api.nb = o.api.nb
  /\ k.api.len = n /\ k.api.timeo = o.api.timeo /\ k.api.given = o.api.given

(* A write can go on.                                                      *)
WriteReady(s, C, P, c, p) ==
  /\ C \in [Conns -> ConnType] /\ P \in [Pcbs -> PcbType] /\ Is(s, C, P)
  /\ c \in Conns /\ p \in Pcbs /\ C[c].pcb = p /\ C[c].state = "WRITE" /\ C[c].msg
  /\ C[c].write_offset < SIZE /\ C[c].api.given = C[c].write_offset

(* It waits for more, or it ends.                                          *)
WriteWaits(R, C, P, c, p, len) ==
  /\ C[c].write_offset + len < SIZE /\ P[p].st \in {"ESTABLISHED", "CLOSE_WAIT"}
  /\ Is(R, [C EXCEPT ![c] = Grown(C[c], len)], [P EXCEPT ![p] = Sending(P[p], len)])

WriteEnds(R, C, P, c, p, len, err, n, delayed) ==
  /\ Is(R, [C EXCEPT ![c] = Finished(Grown(C[c], len), err, n, delayed)], [P EXCEPT ![p] = Sending(P[p], len)])
  /\ len = 0 \/ P[p].st \in {"ESTABLISHED", "CLOSE_WAIT"}
  /\ err = "OK" => C[c].write_offset + len = IF C[c].api.nb \/ C[c].api.timeo THEN n ELSE SIZE

(* How lwip_netconn_do_writemore may leave the netconn and its pcb: it     *)
(* gave len units to tcp_write, and waits for more or is done.             *)
WriteGoes(R, C, P, c, p, delayed) ==
  \E len \in Nat :
     /\ C[c].write_offset + len <= SIZE /\ P[p].out + len <= SND_BUF
     /\ \/ WriteWaits(R, C, P, c, p, len)
        \/ \E err \in {"OK", "ERR"}, n \in 0 .. SIZE : WriteEnds(R, C, P, c, p, len, err, n, delayed)

(* A netconn with a write in progress, and its pcb.                        *)
Writer(c, p, k, r) ==
  /\ k.used /\ ~k.innb /\ k.pcb = p /\ k.state = "WRITE" /\ k.sem = 0 /\ k.acceptmbox = NoMbox
  /\ ~k.recvmbox.valid => k.recvmbox = NoMbox
  /\ k.msg /\ k.write_offset < SIZE /\ k.api.given = k.write_offset
  /\ r.arg = c /\ r.st \in {"CLOSED", "ESTABLISHED", "CLOSE_WAIT"} /\ r.err /\ r.poll
  /\ k.recvmbox.valid => r.recv /\ \A x : Taken(x) = 0 => Window(k, r, x)

(* What stays of a pcb.                                                    *)
SameLinks(o, r) ==
  /\ r.st = o.st /\ r.arg = o.arg /\ r.listener = o.listener /\ r.pend = o.pend
  /\ r.accepts_pending = o.accepts_pending

(* A netconn and its pcb after a part of a write.                          *)
WriteFits(R, C, P, c, p, delayed) ==
  \E k \in ConnType, r \in PcbType :
     /\ Is(R, [C EXCEPT ![c] = k], [P EXCEPT ![p] = r])
     /\ k.used /\ k.pcb = p /\ k.acceptmbox = NoMbox /\ PcbOK(r) /\ SameLinks(P[p], r)
     /\ k.state \in {"WRITE", "NONE"}
     /\ \A x \in ThreadType :
          x.item = NULL /\ x.pc = (IF delayed \/ k.state = "WRITE" THEN "write" ELSE "written") =>
             ConnOK(k, x) /\ Pair(c, k, r, x)

(* Where the thread that writes goes.                                      *)
WriteMoves(R, c, delayed) ==
  \/ /\ ~delayed
     /\ th' = [th EXCEPT ![c] = [th[c] EXCEPT !.pc = IF R.conn[c].state = "WRITE" THEN "write" ELSE "written"]]
  \/ delayed /\ th' = th /\ th[c].pc = "write"

(* The timeout of a call has passed.                                       *)
Expired(o) == [o EXCEPT !.api.late = TRUE]

(* The thread has taken op_completed.                                      *)
Woken(o, a) == [o EXCEPT !.sem = o.sem - 1, !.api = a]

(* A message has been fetched from the recvmbox.                           *)
TookOne(o) == [o EXCEPT !.recvmbox.q = Tail(o.recvmbox.q)]

(* A message has been fetched from the acceptmbox.                         *)
TookConn(o) == [o EXCEPT !.acceptmbox.q = Tail(o.acceptmbox.q),
                         !.fatal = o.fatal \/ Head(o.acceptmbox.q) = "nul"]

(* What the end of a netconn's pcb leaves.                                 *)
GivenUp(C, P, h, c, p) ==
  /\ ErrReady(C[c])
  /\ Base([C EXCEPT ![c] = Errd(C[c])], [Unpended(P, p) EXCEPT ![p] = NoPcb], h)
  /\ Reach([C EXCEPT ![c] = Errd(C[c])], h)
  /\ P[p].err /\ P[p].arg = c /\ P[p].st # "TIME_WAIT"

(* A purged pcb waits for 2MSL.                                            *)
Waiting(o) == [Purged(o) EXCEPT !.st = "TIME_WAIT"]

(* The same pcb, but for what it has in flight.                            *)
SamePcb(o, r) ==
  /\ SameLinks(o, r) /\ r.recv = o.recv /\ r.sent = o.sent /\ r.poll = o.poll /\ r.err = o.err
  /\ r.refused = o.refused /\ r.unread = o.unread

(* One unit less is in flight.                                             *)
AckedOne(o) == [o EXCEPT !.out = o.out - 1]

(* A connection is established: the netconn, and the state of its pcb.     *)
Connected(o) ==
  [o EXCEPT !.innb = FALSE, !.msg = FALSE, !.state = "NONE", !.sem = IF o.innb THEN o.sem ELSE o.sem + 1]

(* The pcb in another state.                                               *)
InState(o, st) == [o EXCEPT !.st = st]

(* The pcb after a segment: its state, what is unread, and what is kept.   *)
Moved(o, st, n, f) == [o EXCEPT !.st = st, !.unread = n, !.refused = f]

(* The netconn with another recvmbox.                                      *)
Got(o, b) == [o EXCEPT !.recvmbox = b]

(* A mailbox that holds n messages with data, and at most one "nul", the   *)
(* last of all, only if nul.                                               *)
Mail(b, n, nul) ==
  /\ b \in Mbox({"data", "nul"}) /\ b.valid /\ DataIn(b.q) = n
  /\ \A i \in DOMAIN b.q : b.q[i] = "nul" => i = Len(b.q)
  /\ NulIn(b.q) => nul

(* What recv_tcp returns.                                                  *)
RecvGives(R, C, P, c, p, m) ==
  /\ ~C[c].recvmbox.valid =>
       /\ R.err = "OK"
       /\ m = "data" => Is(R.s, C, [P EXCEPT ![p] = Recved(P[p], 1)])
       /\ m = "nul" => Is(R.s, C, P)
  /\ C[c].recvmbox.valid =>
       /\ Is(R.s, [C EXCEPT ![c] = Got(C[c], Posted(C[c].recvmbox, m, RECVMBOX_SIZE))], P)
       /\ R.err = (IF Full(C[c].recvmbox, RECVMBOX_SIZE) THEN "MEM" ELSE "OK")

(* What tcp_recved(pcb, 1) leaves of the closed window.                    *)
Less(n) == IF n > 1 THEN n - 1 ELSE 0

(* Data, and the end of the stream if the data was taken.                  *)
Offered(s, p, fin) ==
  IF fin /\ EventRecv(s, p, fin).pcb[p].refused = "none" THEN EventClosed(EventRecv(s, p, fin), p)
  ELSE EventRecv(s, p, fin)

(* The mailbox after data and perhaps the end of the stream.               *)
MailOf(b, fin) ==
  IF Full(b, RECVMBOX_SIZE) THEN b
  ELSE IF fin THEN Posted(Posted(b, "data", RECVMBOX_SIZE), "nul", RECVMBOX_SIZE)
  ELSE Posted(b, "data", RECVMBOX_SIZE)

(* The pcb of a netconn, but for its state, its window and refused data.   *)
SameEnd(o, r) ==
  /\ r.arg = o.arg /\ r.listener = o.listener /\ r.pend = o.pend /\ r.accepts_pending = o.accepts_pending
  /\ r.recv = o.recv /\ r.sent = o.sent /\ r.poll = o.poll /\ r.err = o.err
  /\ o.st \in {"ESTABLISHED", "CLOSE_WAIT"} /\ r.st \in {"ESTABLISHED", "CLOSE_WAIT"}

(* The pcbs when p has been purged.                                        *)
PurgedPcbs(P, p) == [Unpended(P, p) EXCEPT ![p] = Purged(Unpended(P, p)[p])]

(* The fields of V = PurgedPcbs(P, p), under a name.                       *)
PurgedFrom(V, P, p) ==
  /\ V \in [Pcbs -> PcbType] /\ \A z : [V EXCEPT ![p] = z] = [Unpended(P, p) EXCEPT ![p] = z]
  /\ V[p].st = P[p].st /\ V[p].arg = P[p].arg /\ V[p].listener = P[p].listener
  /\ V[p].recv = P[p].recv /\ V[p].sent = P[p].sent /\ V[p].poll = P[p].poll /\ V[p].err = P[p].err
  /\ V[p].unread = P[p].unread /\ V[p].refused = "none" /\ ~(V[p].listener # NULL /\ V[p].pend)

(* The pcbs from which a pcb without a netconn takes a segment.            *)
OrphanPcbs(Q, p, next) ==
  \/ next \in {"FIN_WAIT", "CLOSING"} /\ Q = pcb
  \/ next = "TIME_WAIT" /\ Q = PurgedPcbs(pcb, p)

(* What a segment does, from the state s in which the pcb has taken it.    *)
SegmentGoes(s, p, data, fin) ==
  \/ data /\ pcb[p].rxclosed /\ Becomes(tcp_abandon(s, p))
  \/ data /\ ~pcb[p].rxclosed /\ Becomes(Offered(s, p, fin))
  \/ ~data /\ fin /\ Becomes(IF s.pcb[p].refused = "none" THEN EventClosed(s, p) ELSE s)

(* The netconn o after a post to its acceptmbox.                           *)
Offering(o, m) == [o EXCEPT !.acceptmbox = Posted(o.acceptmbox, m, ACCEPTMBOX_SIZE)]

(* The acceptmbox of netconn c after a post in state y.                    *)
PostTo(y, c, m) == [y EXCEPT !.conn[c].acceptmbox = Posted(@, m, ACCEPTMBOX_SIZE)]

(* accept_function with a new netconn n, before its post; and undone.      *)
Allocated(y, p, n) == [y EXCEPT !.conn[n] = [NoConn EXCEPT !.used = TRUE, !.pcb = p, !.recvmbox = NewMbox]]
Ready(y, p, n) == tcp_backlog_delayed(setup_tcp(Allocated(y, p, n), n), p)
Undone(y, p, n) ==
  [y EXCEPT !.conn[n] = NoConn,
            !.pcb[p] = [@ EXCEPT !.arg = NULL, !.recv = FALSE, !.sent = FALSE, !.poll = FALSE, !.err = FALSE]]

(* The pcb of a SYN.                                                       *)
SynPcb(c, l) == [NoPcb EXCEPT !.st = "SYN_RCVD", !.arg = c, !.listener = l, !.pend = TRUE]

(* V is pcb but for the pcb p of a SYN, which can be freed in V as well.   *)
Forgettable(V, p) ==
  /\ V \in [Pcbs -> PcbType] /\ Purgeable(V, p) /\ ~V[p].err
  /\ [Unpended(V, p) EXCEPT ![p] = NoPcb] = [Unpended(pcb, p) EXCEPT ![p] = NoPcb]

(* tcp_backlog_delayed takes a slot.                                       *)
Repend(P, p, l) ==
  [P EXCEPT ![l] = [P[l] EXCEPT !.accepts_pending = P[l].accepts_pending + 1], ![p] = [P[p] EXCEPT !.pend = TRUE]]
=============================================================================
