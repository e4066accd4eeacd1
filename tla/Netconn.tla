------------------------------- MODULE Netconn -------------------------------
(***************************************************************************)
(* TCP netconns of lwIP: api/api_lib.c in the application's threads,       *)
(* api/api_msg.c under the core lock, and the callbacks that TCP makes     *)
(* into it.  One thread uses one netconn.                                  *)
(*                                                                         *)
(* With LWIP_TCPIP_CORE_LOCKING an lwip_netconn_do_... function runs in    *)
(* the calling thread with the core locked, so it is one step, except that *)
(* connect, write and close may give up the lock and wait for              *)
(* conn->op_completed.  A TCP callback is one step, too.  The mailboxes    *)
(* are read without the lock.                                              *)
(***************************************************************************)
EXTENDS Integers, Sequences, FiniteSets

CONSTANTS
  Conns,          \* netconns: the MEMP_NETCONN pool
  Pcbs,           \* TCP pcbs: the pool
  Ops,            \* Ops[c]: the operations the thread of netconn c calls
  Hows,           \* arguments of netconn_shutdown: "RD", "WR", "RDWR"
  RECVMBOX_SIZE, ACCEPTMBOX_SIZE, BACKLOG,
  WND,            \* receive window, in segments
  SND_BUF,        \* send buffer, in units of data
  SIZE,           \* size of a netconn_write, in units of data
  NULL

(* What a mailbox holds besides netconns. *)
Messages == {"data", "nul", "aborted"}

ASSUME NetconnAssumption ==
  /\ IsFiniteSet(Conns) /\ IsFiniteSet(Pcbs)
  /\ NULL \notin Conns \cup Pcbs /\ Messages \cap (Conns \cup {NULL}) = {}
  /\ Ops \in [Conns -> SUBSET {"connect", "listen", "write", "recv", "shutdown"}]
  /\ Hows \subseteq {"RD", "WR", "RDWR"}
  /\ {RECVMBOX_SIZE, ACCEPTMBOX_SIZE, BACKLOG, WND, SND_BUF, SIZE} \subseteq Nat \ {0}

VARIABLES
  conn,    \* struct netconn, with the api_msg of the call in progress
  pcb,     \* struct tcp_pcb, as far as the netconn layer sees it
  th,      \* th[c]: where the thread that uses c is
  failed   \* an LWIP_ASSERT failed or a callback met a freed netconn

vars == <<conn, pcb, th, failed>>

-----------------------------------------------------------------------------
(* State.                                                                  *)

States == {"NONE", "WRITE", "LISTEN", "CONNECT", "CLOSE"}
TcpStates == {"free", "CLOSED", "LISTEN", "SYN_SENT", "SYN_RCVD", "ESTABLISHED",
              "CLOSE_WAIT", "FIN_WAIT", "CLOSING", "LAST_ACK", "TIME_WAIT"}
Active == TcpStates \ {"free", "CLOSED", "LISTEN", "TIME_WAIT"}

NoMbox == [valid |-> FALSE, q |-> <<>>]
NewMbox == [valid |-> TRUE, q |-> <<>>]

(* api_msg: shut is msg.sd.shut, len msg.w.len, timeo whether send_timeout *)
(* is set, late whether the timeout of the call has passed.  given is not  *)
(* in the code: the units of data this call handed to tcp_write.           *)
NoMsg == [err |-> "OK", shut |-> "RDWR", nb |-> FALSE, len |-> 0, timeo |-> FALSE,
          late |-> FALSE, given |-> 0]

(* msg is current_msg # NULL, innb NETCONN_FLAG_IN_NONBLOCKING_CONNECT,    *)
(* sem the value of op_completed, fatal ERR_IS_FATAL(last_err).            *)
NoConn == [used |-> FALSE, state |-> "NONE", innb |-> FALSE, pcb |-> NULL, msg |-> FALSE,
           recvmbox |-> NoMbox, acceptmbox |-> NoMbox, fatal |-> FALSE, write_offset |-> 0,
           sem |-> 0, api |-> NoMsg]

(* recv, sent, poll and err: whether the callback of api_msg.c is set.     *)
(* pend is TF_BACKLOGPEND; unread is TCP_WND_MAX - rcv_wnd; out is what    *)
(* tcp_write queued and the peer has not acknowledged; refused is          *)
(* refused_data, "fin" when it carries PBUF_FLAG_TCP_FIN.                  *)
NoPcb == [st |-> "free", arg |-> NULL, recv |-> FALSE, sent |-> FALSE, poll |-> FALSE,
          err |-> FALSE, listener |-> NULL, pend |-> FALSE, accepts_pending |-> 0,
          rxclosed |-> FALSE, refused |-> "none", unread |-> 0, out |-> 0]

NoThread == [pc |-> "none", item |-> NULL]

Init ==
  /\ conn = [c \in Conns |-> NoConn]
  /\ pcb = [p \in Pcbs |-> NoPcb]
  /\ th = [c \in Conns |-> NoThread]
  /\ failed = FALSE

Waits == {"connect", "write", "close", "delconn"}
Pcs == Waits \cup {"none", "idle", "written", "free", "recv", "do_recv", "eof", "accept",
                   "accepted"}

(* The functions below take the state the core lock protects, and return   *)
(* the state they leave.                                                   *)
Core == [conn |-> conn, pcb |-> pcb, failed |-> failed]

Becomes(s) == \E t \in {s} : conn' = t.conn /\ pcb' = t.pcb /\ failed' = t.failed

Check(s, b) == [s EXCEPT !.failed = @ \/ ~b]

Signal(s, c) == [s EXCEPT !.conn[c].sem = @ + 1]

(* sys_mbox_trypost for a mailbox that holds size messages. *)
Full(mbox, size) == Len(mbox.q) >= size
Posted(mbox, m, size) ==
  IF mbox.valid /\ ~Full(mbox, size) THEN [mbox EXCEPT !.q = Append(@, m)] ELSE mbox

-----------------------------------------------------------------------------
(* What the netconn layer calls in tcp.c.                                  *)

tcp_recved(s, p, n) ==
  [s EXCEPT !.pcb[p].unread = IF @ > n THEN @ - n ELSE 0]

tcp_backlog_delayed(s, p) ==
  LET l == s.pcb[p].listener
  IN  IF ~s.pcb[p].pend /\ l # NULL
      THEN [s EXCEPT !.pcb[l].accepts_pending = @ + 1, !.pcb[p].pend = TRUE]
      ELSE s

tcp_backlog_accepted(s, p) ==
  LET l == s.pcb[p].listener
  IN  IF s.pcb[p].pend /\ l # NULL
      THEN [Check(s, s.pcb[l].accepts_pending # 0) EXCEPT
              !.pcb[l].accepts_pending = @ - 1, !.pcb[p].pend = FALSE]
      ELSE s

(* Mutant: the backlog slot is not given back. *)
tcp_pcb_purge_KeepPending(s, p) ==
  IF s.pcb[p].st \in {"CLOSED", "TIME_WAIT", "LISTEN"}
  THEN s
  ELSE [s EXCEPT !.pcb[p].refused = "none", !.pcb[p].out = 0]

tcp_pcb_purge(s, p) ==
  IF s.pcb[p].st \in {"CLOSED", "TIME_WAIT", "LISTEN"}
  THEN s
  ELSE [tcp_backlog_accepted(s, p) EXCEPT !.pcb[p].refused = "none", !.pcb[p].out = 0]

Freed(s, p) == [tcp_pcb_purge(s, p) EXCEPT !.pcb[p] = NoPcb]

(* tcp_remove_listener over all lists, and the listening pcb is freed. *)
tcp_listen_closed(s, l) ==
  [s EXCEPT !.pcb = [p \in Pcbs |->
     IF p = l THEN NoPcb
     ELSE IF s.pcb[p].listener = l THEN [s.pcb[p] EXCEPT !.listener = NULL]
     ELSE s.pcb[p]]]

(* mem: tcp_send_fin finds memory for the FIN. *)
tcp_close_shutdown(s, p, mem) ==
  LET st == s.pcb[p].st
      Ok(t) == [s |-> t, err |-> "OK"]
      Fin(next) == IF mem THEN Ok([s EXCEPT !.pcb[p].st = next]) ELSE [s |-> s, err |-> "MEM"]
  IN  CASE st \in {"CLOSED", "SYN_SENT"} -> Ok(Freed(s, p))
        [] st = "LISTEN" -> Ok(tcp_listen_closed(s, p))
        [] st = "ESTABLISHED" -> Fin("FIN_WAIT")
        [] st = "CLOSE_WAIT" -> Fin("LAST_ACK")
        [] OTHER -> Ok(s)

(* Closing with unread data sends a RST in place of the FIN. *)
tcp_close(s, p, mem) ==
  LET t == IF s.pcb[p].st = "LISTEN" THEN s ELSE [s EXCEPT !.pcb[p].rxclosed = TRUE]
      unread == s.pcb[p].unread > 0
      Ok(u) == [s |-> u, err |-> "OK"]
  IN  CASE unread /\ s.pcb[p].st = "ESTABLISHED" ->
             Ok([tcp_pcb_purge(t, p) EXCEPT !.pcb[p].st = "TIME_WAIT"])
        [] unread /\ s.pcb[p].st = "CLOSE_WAIT" -> Ok(Freed(t, p))
        [] OTHER -> tcp_close_shutdown(t, p, mem)

tcp_shutdown(s, p, shut, mem) ==
  CASE s.pcb[p].st = "LISTEN" -> [s |-> s, err |-> "CONN"]
    [] s.pcb[p].st # "LISTEN" /\ shut = "RD" ->
         [s |-> [s EXCEPT !.pcb[p].rxclosed = TRUE, !.pcb[p].refused = "none"], err |-> "OK"]
    [] s.pcb[p].st \in {"ESTABLISHED", "CLOSE_WAIT"} /\ shut = "WR" ->
         tcp_close_shutdown(s, p, mem)
    [] OTHER -> [s |-> s, err |-> "CONN"]

-----------------------------------------------------------------------------
(* Callbacks and shared functions of api_msg.c.                            *)

setup_tcp(s, c) ==
  LET p == s.conn[c].pcb
  IN  [s EXCEPT !.pcb[p] = [s.pcb[p] EXCEPT !.arg = c, !.recv = TRUE, !.sent = TRUE,
                                            !.poll = TRUE, !.err = TRUE]]

(* A call that TCP makes with callback_arg c: c must not be freed. *)
Callback(s, c) == Check(s, c # NULL /\ (c \in Conns => s.conn[c].used))

(* Mutants: conn->pcb is kept; nobody who reads is woken. *)
ErrConn_KeepPcb(old) ==
  [old EXCEPT !.state = "NONE", !.fatal = @ \/ old.state # "CLOSE",
              !.recvmbox = Posted(@, "nul", RECVMBOX_SIZE),
              !.acceptmbox = Posted(@, "nul", ACCEPTMBOX_SIZE)]

ErrConn_NoPost(old) ==
  [old EXCEPT !.pcb = NULL, !.state = "NONE", !.fatal = @ \/ old.state # "CLOSE"]

(* err_tcp up to the waiting call: no pcb, an error, NULL to both mailboxes. *)
ErrConn(old) ==
  [old EXCEPT !.pcb = NULL, !.state = "NONE", !.fatal = @ \/ old.state # "CLOSE",
              !.recvmbox = Posted(@, "nul", RECVMBOX_SIZE),
              !.acceptmbox = Posted(@, "nul", ACCEPTMBOX_SIZE)]

err_tcp(s, c) ==
  IF c = NULL THEN Check(s, FALSE)
  ELSE LET old == s.conn[c]
           waited == old.state \in {"WRITE", "CLOSE", "CONNECT"}
           woken == waited /\ ~old.innb
           posted == ErrConn(old)
       IN  [Check(Callback(s, c), IF woken THEN old.msg ELSE waited \/ ~old.msg) EXCEPT
              !.conn[c] =
                 IF woken
                 THEN [posted EXCEPT !.msg = FALSE, !.sem = @ + 1,
                         !.api.err = IF old.state = "CLOSE" THEN "OK" ELSE "ERR"]
                 ELSE [posted EXCEPT !.innb = IF waited THEN FALSE ELSE @]]

(* The stack gives up a pcb: tcp_abandon, or tcp_slowtmr, or an RST. *)
tcp_abandon(s, p) ==
  LET t == Freed(s, p)
  IN  IF s.pcb[p].st # "TIME_WAIT" /\ s.pcb[p].err THEN err_tcp(t, s.pcb[p].arg) ELSE t

(* Returns "MEM" when the mailbox is full: TCP keeps the data. *)
recv_tcp(s, c, p, m) ==
  LET mbox == s.conn[c].recvmbox
      t == Check(Callback(s, c), s.conn[c].pcb = p)
  IN  IF ~mbox.valid
      THEN [s |-> IF m = "data" THEN tcp_recved(t, p, 1) ELSE t, err |-> "OK"]
      ELSE [s |-> [t EXCEPT !.conn[c].recvmbox = Posted(@, m, RECVMBOX_SIZE)],
            err |-> IF Full(mbox, RECVMBOX_SIZE) THEN "MEM" ELSE "OK"]

DataIn(q) == Cardinality({i \in DOMAIN q : q[i] = "data"})

(* netconn_drain of one netconn without an acceptmbox. *)
DrainRecv(s, c) ==
  LET old == s.conn[c]
      t == IF old.pcb # NULL THEN tcp_recved(s, old.pcb, DataIn(old.recvmbox.q)) ELSE s
  IN  [t EXCEPT !.conn[c].recvmbox = NoMbox]

(* Mutant: netconn_free is forgotten. *)
DropQueued_Leak(s, n) ==
  LET t == DrainRecv(s, n)
  IN  IF t.conn[n].pcb # NULL THEN tcp_abandon(t, t.conn[n].pcb) ELSE t

(* A netconn nobody accepted is drained, its pcb aborted, and it is freed. *)
DropQueued(s, n) ==
  LET t == DrainRecv(s, n)
      u == IF t.conn[n].pcb # NULL THEN tcp_abandon(t, t.conn[n].pcb) ELSE t
  IN  [u EXCEPT !.conn[n] = NoConn]

(* The loop over the acceptmbox. *)
DropAll(s, q) ==
  LET u[i \in 0 .. Len(q)] ==
        IF i = 0 THEN s ELSE IF q[i] = "aborted" THEN u[i - 1] ELSE DropQueued(u[i - 1], q[i])
  IN  u[Len(q)]

netconn_drain(s, c) ==
  LET t == DrainRecv(s, c)
  IN  [DropAll(t, t.conn[c].acceptmbox.q) EXCEPT !.conn[c].acceptmbox = NoMbox]

(* The call of netconn c is over: the api_msg gets err, and the thread, if *)
(* it waits (delayed), op_completed.                                       *)
Complete(s, c, err, delayed) ==
  LET t == [s EXCEPT !.conn[c].api.err = err, !.conn[c].msg = FALSE, !.conn[c].state = "NONE"]
  IN  IF delayed THEN Signal(t, c) ELSE t

(* Mutant: the error callback is not restored. *)
RestoreCallbacks_NoErr(s, c, p, shut) ==
  [s EXCEPT !.pcb[p].sent = @ \/ shut # "RD", !.pcb[p].poll = TRUE, !.pcb[p].arg = c]

(* Waiting for memory: the callbacks are restored, all but recv. *)
RestoreCallbacks(s, c, p, shut) ==
  LET old == s.pcb[p]
  IN  [Check(s, old.st # "LISTEN") EXCEPT
         !.pcb[p] = [old EXCEPT !.sent = @ \/ shut # "RD", !.poll = TRUE, !.err = TRUE, !.arg = c]]

(* Mutant: sent_tcp stays registered. *)
ClearCallbacks_KeepSent(s, p, shut, close) ==
  LET old == s.pcb[p]
  IN  [s EXCEPT !.pcb[p] = [old EXCEPT !.arg = IF close THEN NULL ELSE @, !.recv = @ /\ shut = "WR",
                                       !.poll = @ /\ ~close, !.err = @ /\ ~close]]

ClearCallbacks(s, p, shut, close) ==
  LET rx == shut # "WR"
      tx == shut # "RD"
      old == s.pcb[p]
  IN  [s EXCEPT !.pcb[p] = IF old.st = "LISTEN" THEN [old EXCEPT !.arg = IF close THEN NULL ELSE @]
                           ELSE [old EXCEPT !.arg = IF close THEN NULL ELSE @,
                                            !.recv = @ /\ ~rx, !.sent = @ /\ ~tx,
                                            !.poll = @ /\ ~close, !.err = @ /\ ~close]]

(* Shutting down the second half of the connection closes it. *)
Closes(s, p, shut) ==
  \/ shut = "RDWR"
  \/ shut = "RD" /\ s.pcb[p].st \in {"FIN_WAIT", "CLOSING"}
  \/ shut = "WR" /\ s.pcb[p].rxclosed

lwip_netconn_do_close_internal(s, c, mem, delayed) ==
  LET p == s.conn[c].pcb
      shut == s.conn[c].api.shut
      close == Closes(s, p, shut)
      t == Check(s, s.conn[c].state = "CLOSE" /\ p # NULL /\ s.conn[c].msg)
      u == ClearCallbacks(t, p, shut, close)
      r == IF close THEN tcp_close(u, p, mem) ELSE tcp_shutdown(u, p, shut, mem)
      Done(v, err) ==
        Complete(IF close /\ err = "OK" THEN [v EXCEPT !.conn[c].pcb = NULL] ELSE v, c, err, delayed)
  IN  CASE r.err # "MEM" -> Done(r.s, r.err)
        [] r.err = "MEM" /\ s.conn[c].api.late ->
             IF close THEN Done(tcp_abandon(r.s, p), "OK") ELSE Done(r.s, "MEM")
        [] OTHER -> RestoreCallbacks(r.s, c, p, shut)

(* Mutant: the offset starts anew with every attempt. *)
Written_Restart(s, c, p, len) ==
  [s EXCEPT !.pcb[p].out = @ + len, !.conn[c].write_offset = len, !.conn[c].api.given = @ + len]

(* tcp_write took len units. *)
Written(s, c, p, len) ==
  LET old == s.conn[c]
  IN  [s EXCEPT !.pcb[p].out = @ + len,
                !.conn[c] = [old EXCEPT !.write_offset = @ + len, !.api.given = @ + len]]

(* mem: tcp_write finds memory; rte: tcp_output finds no route. *)
lwip_netconn_do_writemore(s, c, mem, rte, delayed) ==
  LET old == s.conn[c]
      p == old.pcb
      diff == SIZE - old.write_offset
      avail == SND_BUF - s.pcb[p].out
      len == IF avail < diff THEN avail ELSE diff
      t == Check(s, old.state = "WRITE" /\ old.msg /\ p # NULL /\ old.write_offset < SIZE)
      ok == s.pcb[p].st \in {"ESTABLISHED", "CLOSE_WAIT"}
      written == Written(t, c, p, len)
      Done(u, err, n) ==
        [Complete(u, c, err, delayed) EXCEPT !.conn[c].write_offset = 0, !.conn[c].api.len = n]
      off == written.conn[c].write_offset
      expired == old.api.timeo /\ old.api.late
  IN  IF expired THEN IF old.write_offset = 0 THEN Done(t, "ERR", 0)
                                              ELSE Done(t, "OK", old.write_offset)
      ELSE IF ~ok \/ (old.api.nb /\ len = 0) THEN Done(t, "ERR", 0)
      ELSE IF mem \/ len = 0
           THEN IF rte THEN Done(written, "ERR", 0)
                ELSE IF off = SIZE \/ old.api.nb THEN Done(written, "OK", off) ELSE written
           ELSE IF rte \/ old.api.nb THEN Done(t, "ERR", 0) ELSE t

(* What sent_tcp and poll_tcp do for a call in progress. *)
Continue(s, c, mem, rte) ==
  CASE s.conn[c].state = "WRITE" -> lwip_netconn_do_writemore(s, c, mem, rte, TRUE)
    [] s.conn[c].state = "CLOSE" -> lwip_netconn_do_close_internal(s, c, mem, TRUE)
    [] OTHER -> s

sent_tcp(s, c, mem, rte) ==
  IF c = NULL THEN Check(s, FALSE) ELSE Continue(Callback(s, c), c, mem, rte)

(* Mutant: only a write is continued. *)
poll_tcp_WriteOnly(s, c, mem, rte) ==
  IF c = NULL THEN Check(s, FALSE)
  ELSE IF s.conn[c].state = "WRITE" THEN Continue(Callback(s, c), c, mem, rte) ELSE Callback(s, c)

poll_tcp(s, c, mem, rte) ==
  IF c = NULL THEN Check(s, FALSE) ELSE Continue(Callback(s, c), c, mem, rte)

lwip_netconn_do_connected(s, c) ==
  LET old == s.conn[c]
      t == [Check(Callback(s, c), old.state = "CONNECT" /\ old.msg = ~old.innb) EXCEPT
              !.conn[c].innb = FALSE, !.conn[c].msg = FALSE, !.conn[c].state = "NONE"]
  IN  IF old.innb THEN setup_tcp(t, c) ELSE setup_tcp(Signal(t, c), c)

(* n is what netconn_alloc returns.  ok: the function returned ERR_OK. *)
accept_function(s, c, p, n) ==
  LET mbox == s.conn[c].acceptmbox
      PostAborted == [s EXCEPT !.conn[c].acceptmbox = Posted(@, "aborted", ACCEPTMBOX_SIZE)]
      new == [s EXCEPT !.conn[n] = [NoConn EXCEPT !.used = TRUE, !.pcb = p, !.recvmbox = NewMbox]]
      ready == tcp_backlog_delayed(setup_tcp(new, n), p)
      undone == [ready EXCEPT !.conn[n] = NoConn,
                              !.pcb[p] = [@ EXCEPT !.arg = NULL, !.recv = FALSE, !.sent = FALSE,
                                                   !.poll = FALSE, !.err = FALSE]]
  IN  IF ~mbox.valid THEN [s |-> s, ok |-> FALSE]
      ELSE IF p = NULL \/ n = NULL THEN [s |-> PostAborted, ok |-> FALSE]
      ELSE IF Full(mbox, ACCEPTMBOX_SIZE) THEN [s |-> undone, ok |-> FALSE]
      ELSE [s |-> [ready EXCEPT !.conn[c].acceptmbox = Posted(@, n, ACCEPTMBOX_SIZE)], ok |-> TRUE]

-----------------------------------------------------------------------------
(* The application's calls.                                                *)

At(c, pc) == th[c].pc = pc
Goto(c, pc) == th' = [th EXCEPT ![c].pc = pc]
FreePcbs == {p \in Pcbs : pcb[p].st = "free"}

netconn_new(c) ==
  /\ ~conn[c].used /\ Ops[c] \cap {"connect", "listen"} # {} /\ FreePcbs # {}
  /\ LET p == CHOOSE p \in FreePcbs : TRUE
         s == [Core EXCEPT !.conn[c] = [NoConn EXCEPT !.used = TRUE, !.pcb = p, !.recvmbox = NewMbox],
                           !.pcb[p] = [NoPcb EXCEPT !.st = "CLOSED"]]
     IN  Becomes(setup_tcp(s, c))
  /\ Goto(c, "idle")

(* syn: tcp_connect has a route, a port and memory for the SYN. *)
netconn_connect(c, nb, syn) ==
  /\ At(c, "idle") /\ "connect" \in Ops[c] /\ conn[c].state = "NONE"
  /\ LET p == conn[c].pcb
         s == setup_tcp(Core, c)
     IN  IF p = NULL
         THEN Becomes([Core EXCEPT !.conn[c].fatal = TRUE]) /\ UNCHANGED th
         ELSE IF pcb[p].st = "CLOSED" /\ syn
         THEN /\ Becomes([s EXCEPT !.pcb[p].st = "SYN_SENT", !.conn[c].state = "CONNECT",
                                   !.conn[c].innb = nb, !.conn[c].msg = ~nb])
              /\ Goto(c, IF nb THEN "idle" ELSE "connect")
         ELSE Becomes(s) /\ UNCHANGED th

(* mbox: sys_mbox_new succeeds.  The pcb is replaced by a listening one. *)
netconn_listen(c, mbox) ==
  /\ At(c, "idle") /\ "listen" \in Ops[c] /\ ~conn[c].fatal
  /\ conn[c].pcb # NULL /\ conn[c].state = "NONE" /\ pcb[conn[c].pcb].st = "CLOSED"
  /\ LET p == conn[c].pcb
         s == [Core EXCEPT !.conn[c].recvmbox = NoMbox]
     IN  Becomes(IF mbox THEN [s EXCEPT !.conn[c].acceptmbox = NewMbox, !.conn[c].state = "LISTEN",
                                        !.pcb[p] = [NoPcb EXCEPT !.st = "LISTEN", !.arg = c]]
                         ELSE [s EXCEPT !.conn[c].pcb = NULL, !.pcb[p] = NoPcb])
  /\ UNCHANGED th

netconn_write(c, nb, timeo, late, mem, rte) ==
  /\ At(c, "idle") /\ "write" \in Ops[c]
  /\ ~conn[c].fatal /\ conn[c].state = "NONE" /\ conn[c].pcb # NULL
  /\ LET s == [Check(Core, ~conn[c].msg /\ conn[c].write_offset = 0) EXCEPT
                 !.conn[c].state = "WRITE", !.conn[c].msg = TRUE,
                 !.conn[c].api = [NoMsg EXCEPT !.nb = nb, !.timeo = timeo, !.late = late]]
     IN  \E r \in {lwip_netconn_do_writemore(s, c, mem, rte, FALSE)} :
            /\ Becomes(r)
            /\ Goto(c, IF r.conn[c].state = "WRITE" THEN "write" ELSE "written")

WriteReturns(c) ==
  /\ At(c, "written")
  /\ Becomes([Core EXCEPT !.conn[c].api = NoMsg])
  /\ Goto(c, "idle")

(* The part of do_close and do_delconn that closes the pcb, from state s. *)
CloseTcp(s, c, shut, late, mem, wait, done) ==
  \E r \in {lwip_netconn_do_close_internal(
              [Check(s, ~s.conn[c].msg /\ s.conn[c].write_offset = 0) EXCEPT
                 !.conn[c].state = "CLOSE", !.conn[c].msg = TRUE,
                 !.conn[c].api = [NoMsg EXCEPT !.shut = shut, !.late = late]], c, mem, FALSE)} :
     IF r.conn[c].state = "CLOSE"
     THEN Becomes(r) /\ Goto(c, wait)
     ELSE Becomes([r EXCEPT !.conn[c].api = NoMsg]) /\ Goto(c, done)

lwip_netconn_do_close(c, shut, late, mem) ==
  IF conn[c].pcb # NULL /\ (shut = "RDWR" \/ conn[c].state # "LISTEN") /\ conn[c].state # "CONNECT"
  THEN CloseTcp(IF shut = "WR" THEN Core ELSE netconn_drain(Core, c), c, shut, late, mem,
                "close", "idle")
  ELSE Becomes(Core) /\ Goto(c, "idle")

netconn_shutdown(c, shut, late, mem) ==
  /\ At(c, "idle") /\ "shutdown" \in Ops[c]
  /\ lwip_netconn_do_close(c, shut, late, mem)

netconn_delete(c, late, mem) ==
  /\ At(c, "idle")
  /\ conn[c].state \in {"NONE", "LISTEN"} \/ (conn[c].state = "CONNECT" /\ conn[c].innb)
  /\ \E s \in {netconn_drain(Core, c)} :
       IF s.conn[c].pcb # NULL
       THEN CloseTcp(s, c, "RDWR", late, mem, "delconn", "free")
       ELSE Becomes(s) /\ Goto(c, "free")

netconn_free(c) ==
  /\ At(c, "free")
  /\ Becomes([Check(Core, conn[c].pcb = NULL /\ ~conn[c].recvmbox.valid /\ ~conn[c].acceptmbox.valid)
              EXCEPT !.conn[c] = NoConn])
  /\ th' = [th EXCEPT ![c] = NoThread]

(* sys_arch_sem_wait returns, and the thread takes the core lock again. *)
Wake(c) ==
  /\ th[c].pc \in Waits /\ conn[c].sem > 0
  /\ Becomes([Check(Core, CASE At(c, "connect") -> conn[c].state # "CONNECT"
                            [] At(c, "write") -> conn[c].state # "WRITE"
                            [] OTHER -> conn[c].state = "NONE") EXCEPT
                !.conn[c].sem = @ - 1, !.conn[c].api = IF At(c, "write") THEN @ ELSE NoMsg])
  /\ Goto(c, CASE At(c, "write") -> "written"
               [] At(c, "delconn") /\ conn[c].api.err = "OK" -> "free"
               [] OTHER -> "idle")

netconn_recv(c) ==
  /\ At(c, "idle") /\ "recv" \in Ops[c] /\ conn[c].recvmbox.valid /\ ~conn[c].fatal
  /\ Goto(c, "recv")
  /\ UNCHANGED <<conn, pcb, failed>>

RecvFetch(c) ==
  /\ At(c, "recv") /\ conn[c].recvmbox.q # <<>>
  /\ th' = [th EXCEPT ![c] = [pc |-> "do_recv", item |-> Head(conn[c].recvmbox.q)]]
  /\ conn' = [conn EXCEPT ![c].recvmbox.q = Tail(@)]
  /\ UNCHANGED <<pcb, failed>>

(* recv_timeout passes in netconn_recv_data or in netconn_accept. *)
FetchTimeout(c) ==
  /\ th[c].pc \in {"recv", "accept"}
  /\ Goto(c, "idle")
  /\ UNCHANGED <<conn, pcb, failed>>

(* Mutant: the stack is not told that the data was taken. *)
lwip_netconn_do_recv_Untold(c) ==
  /\ At(c, "do_recv")
  /\ th' = [th EXCEPT ![c] = [pc |-> IF th[c].item = "data" THEN "idle" ELSE "eof", item |-> NULL]]
  /\ UNCHANGED <<conn, pcb, failed>>

lwip_netconn_do_recv(c) ==
  /\ At(c, "do_recv")
  /\ Becomes(IF conn[c].pcb # NULL THEN tcp_recved(Core, conn[c].pcb, 1) ELSE Core)
  /\ th' = [th EXCEPT ![c] = [pc |-> IF th[c].item = "data" THEN "idle" ELSE "eof", item |-> NULL]]

(* NULL was received: the netconn is shut down for reading. *)
RecvEof(c) == At(c, "eof") /\ lwip_netconn_do_close(c, "RD", FALSE, TRUE)

netconn_accept(c) ==
  /\ At(c, "idle") /\ conn[c].acceptmbox.valid /\ ~conn[c].fatal
  /\ Goto(c, "accept")
  /\ UNCHANGED <<conn, pcb, failed>>

AcceptFetch(c) ==
  /\ At(c, "accept") /\ conn[c].acceptmbox.q # <<>>
  /\ LET m == Head(conn[c].acceptmbox.q)
     IN  /\ conn' = [conn EXCEPT ![c].acceptmbox.q = Tail(@), ![c].fatal = @ \/ m = "nul"]
         /\ th' = [th EXCEPT ![c] = IF m \in Conns THEN [pc |-> "accepted", item |-> m]
                                                   ELSE [pc |-> "idle", item |-> NULL]]
  /\ UNCHANGED <<pcb, failed>>

(* The application gets the new netconn, which has a thread of its own. *)
lwip_netconn_do_accepted(c) ==
  /\ At(c, "accepted")
  /\ LET n == th[c].item
     IN  /\ Becomes(IF conn[n].pcb # NULL THEN tcp_backlog_accepted(Core, conn[n].pcb) ELSE Core)
         /\ th' = [th EXCEPT ![c] = [pc |-> "idle", item |-> NULL], ![n].pc = "idle"]

(* The timeout of a waiting call passes. *)
Late(c) ==
  /\ th[c].pc \in Waits \ {"connect"} /\ ~conn[c].api.late
  /\ At(c, "write") => conn[c].api.timeo
  /\ conn' = [conn EXCEPT ![c].api.late = TRUE]
  /\ UNCHANGED <<pcb, th, failed>>

-----------------------------------------------------------------------------
(* TCP: what can happen to a pcb, and the callbacks it makes.              *)

SynAck(p) ==
  /\ pcb[p].st = "SYN_SENT"
  /\ LET s == [Core EXCEPT !.pcb[p].st = "ESTABLISHED"]
     IN  Becomes(IF pcb[p].arg = NULL THEN s ELSE lwip_netconn_do_connected(s, pcb[p].arg))
  /\ UNCHANGED th

(* TCP_EVENT_RECV for one segment of data that is already in unread. *)
EventRecv(s, p, fin) ==
  IF ~s.pcb[p].recv THEN [tcp_recved(s, p, 1) EXCEPT !.pcb[p].refused = "none"]
  ELSE IF s.pcb[p].arg = NULL THEN Check(s, FALSE)
  ELSE LET r == recv_tcp(s, s.pcb[p].arg, p, "data")
       IN  [r.s EXCEPT !.pcb[p].refused = IF r.err = "OK" THEN "none" ELSE IF fin THEN "fin" ELSE "data"]

(* TCP_EVENT_CLOSED: nobody looks at what recv_tcp returns. *)
EventClosed(s, p) ==
  IF ~s.pcb[p].recv THEN s
  ELSE IF s.pcb[p].arg = NULL THEN Check(s, FALSE)
  ELSE recv_tcp(s, s.pcb[p].arg, p, "nul").s

(* Where a FIN leads from st. *)
AfterFin(st) == IF st = "ESTABLISHED" THEN {"CLOSE_WAIT"} ELSE {"CLOSING", "TIME_WAIT"}

(* A segment in order with data, a FIN or both. *)
Segment(p, data, fin, next) ==
  /\ pcb[p].st \in {"ESTABLISHED", "FIN_WAIT"} /\ pcb[p].refused = "none"
  /\ data \/ fin
  /\ data => pcb[p].unread < WND
  /\ IF fin THEN next \in AfterFin(pcb[p].st) ELSE next = pcb[p].st
  /\ LET s == [IF next = "TIME_WAIT" THEN tcp_pcb_purge(Core, p) ELSE Core EXCEPT
                 !.pcb[p].st = next, !.pcb[p].unread = IF data THEN @ + 1 ELSE @]
         t == IF data THEN EventRecv(s, p, fin) ELSE s
     IN  Becomes(IF data /\ pcb[p].rxclosed THEN tcp_abandon(s, p)
                 ELSE IF fin /\ t.pcb[p].refused = "none" THEN EventClosed(t, p)
                 ELSE t)
  /\ UNCHANGED th

tcp_process_refused_data(p) ==
  /\ pcb[p].st \in Active /\ pcb[p].refused # "none"
  /\ LET s == EventRecv(Core, p, pcb[p].refused = "fin")
     IN  Becomes(IF pcb[p].refused = "fin" /\ s.pcb[p].refused = "none" THEN EventClosed(s, p) ELSE s)
  /\ UNCHANGED th

Acked(p, mem, rte) ==
  /\ pcb[p].st \in Active /\ pcb[p].out > 0
  /\ LET s == [Core EXCEPT !.pcb[p].out = @ - 1]
     IN  Becomes(IF pcb[p].sent THEN sent_tcp(s, pcb[p].arg, mem, rte) ELSE s)
  /\ UNCHANGED th

(* The ACK of our FIN, once all data is acknowledged. *)
FinAcked(p) ==
  /\ pcb[p].out = 0
  /\ \/ /\ pcb[p].st = "CLOSING"
        /\ Becomes([tcp_pcb_purge(Core, p) EXCEPT !.pcb[p].st = "TIME_WAIT"])
     \/ /\ pcb[p].st = "LAST_ACK"
        /\ Becomes(IF ~pcb[p].rxclosed THEN tcp_abandon(Core, p) ELSE Freed(Core, p))
  /\ UNCHANGED th

Poll(p, mem, rte) ==
  /\ pcb[p].st \in Active /\ pcb[p].poll
  /\ Becomes(poll_tcp(Core, pcb[p].arg, mem, rte))
  /\ UNCHANGED th

(* An RST arrives, a timer of tcp_slowtmr gives up, or tcp_alloc kills.    *)
PcbDies(p) ==
  /\ pcb[p].st \in Active
  /\ Becomes(tcp_abandon(Core, p))
  /\ UNCHANGED th

TimeWaitOver(p) ==
  /\ pcb[p].st = "TIME_WAIT"
  /\ Becomes(Freed(Core, p))
  /\ UNCHANGED th

tcp_listen_input(l) ==
  /\ pcb[l].st = "LISTEN" /\ pcb[l].accepts_pending < BACKLOG
  /\ Becomes(IF FreePcbs = {} THEN accept_function(Core, pcb[l].arg, NULL, NULL).s
              ELSE LET p == CHOOSE p \in FreePcbs : TRUE
                   IN  [Core EXCEPT !.pcb[l].accepts_pending = @ + 1,
                                    !.pcb[p] = [NoPcb EXCEPT !.st = "SYN_RCVD", !.arg = pcb[l].arg,
                                                             !.listener = l, !.pend = TRUE]])
  /\ UNCHANGED th

(* The ACK of a SYN|ACK: tcp_process in SYN_RCVD. *)
Handshake(p, n) ==
  /\ pcb[p].st = "SYN_RCVD"
  /\ IF \E c \in Conns : ~conn[c].used THEN n \in Conns /\ ~conn[n].used ELSE n = NULL
  /\ LET s == [Core EXCEPT !.pcb[p].st = "ESTABLISHED"]
         r == accept_function(tcp_backlog_accepted(s, p), pcb[p].arg, p, n)
     IN  Becomes(IF pcb[p].listener = NULL THEN tcp_abandon(s, p)
                 ELSE IF r.ok THEN r.s ELSE tcp_abandon(r.s, p))
  /\ UNCHANGED th

-----------------------------------------------------------------------------

Thread(c) ==
  \/ netconn_new(c) \/ netconn_free(c) \/ Wake(c) \/ WriteReturns(c)
  \/ \E nb, syn \in BOOLEAN : netconn_connect(c, nb, syn)
  \/ \E mbox \in BOOLEAN : netconn_listen(c, mbox)
  \/ \E nb, timeo, late, mem, rte \in BOOLEAN : netconn_write(c, nb, timeo, late, mem, rte)
  \/ \E shut \in Hows, late, mem \in BOOLEAN : netconn_shutdown(c, shut, late, mem)
  \/ \E late, mem \in BOOLEAN : netconn_delete(c, late, mem)
  \/ netconn_recv(c) \/ RecvFetch(c) \/ FetchTimeout(c) \/ lwip_netconn_do_recv(c) \/ RecvEof(c)
  \/ netconn_accept(c) \/ AcceptFetch(c) \/ lwip_netconn_do_accepted(c)

Stack(p) ==
  \/ SynAck(p) \/ tcp_process_refused_data(p) \/ FinAcked(p) \/ PcbDies(p) \/ TimeWaitOver(p)
  \/ \E data, fin \in BOOLEAN, next \in TcpStates : Segment(p, data, fin, next)
  \/ \E mem, rte \in BOOLEAN : Acked(p, mem, rte) \/ Poll(p, mem, rte)
  \/ tcp_listen_input(p)
  \/ \E n \in Conns \cup {NULL} : Handshake(p, n)

Next == (\E c \in Conns : Thread(c) \/ Late(c)) \/ (\E p \in Pcbs : Stack(p))

Spec == Init /\ [][Next]_vars

-----------------------------------------------------------------------------
(* Properties.                                                             *)

Mbox(msgs) == [valid : BOOLEAN, q : Seq(msgs)]

MsgType ==
  [err : {"OK", "MEM", "CONN", "ERR"}, shut : {"RD", "WR", "RDWR"}, nb : BOOLEAN, len : 0 .. SIZE,
   timeo : BOOLEAN, late : BOOLEAN, given : 0 .. SIZE]

ConnType ==
  [used : BOOLEAN, state : States, innb : BOOLEAN, pcb : Pcbs \cup {NULL}, msg : BOOLEAN,
   recvmbox : Mbox({"data", "nul"}), acceptmbox : Mbox(Conns \cup {"aborted", "nul"}),
   fatal : BOOLEAN, write_offset : 0 .. SIZE, sem : 0 .. 1, api : MsgType]

PcbType ==
  [st : TcpStates, arg : Conns \cup {NULL}, recv : BOOLEAN, sent : BOOLEAN, poll : BOOLEAN,
   err : BOOLEAN, listener : Pcbs \cup {NULL}, pend : BOOLEAN, accepts_pending : Nat,
   rxclosed : BOOLEAN, refused : {"none", "data", "fin"}, unread : 0 .. WND, out : 0 .. SND_BUF]

ThreadType == [pc : Pcs, item : Conns \cup {NULL, "data", "nul"}]

(* TypeOK: the state is well-formed. *)
TypeOK ==
  /\ conn \in [Conns -> ConnType]
  /\ pcb \in [Pcbs -> PcbType]
  /\ th \in [Conns -> ThreadType]
  /\ failed \in BOOLEAN

(* NoAssertFails: no LWIP_ASSERT of api_msg.c fails, and no callback runs  *)
(* with a netconn that has been freed.                                     *)
NoAssertFails == ~failed

(* The pcb that a waiting call depends on, with the callbacks to end it.   *)
Serves(p, c) == p # NULL /\ pcb[p].st \in Active /\ pcb[p].arg = c /\ pcb[p].err /\ pcb[p].poll

(* ReaderIsServed: a thread that waits for an empty recvmbox has a pcb     *)
(* whose callbacks will post to it.                                        *)
ReaderIsServed ==
  \A c \in Conns : At(c, "recv") /\ conn[c].recvmbox.q = <<>> =>
     /\ conn[c].pcb # NULL
     /\ pcb[conn[c].pcb].recv /\ pcb[conn[c].pcb].err /\ pcb[conn[c].pcb].arg = c

(* WaiterIsServed: a thread that waits for op_completed either has been    *)
(* signalled, once, and then nobody holds its api_msg, or has a pcb whose  *)
(* callbacks lead back to it.  Nobody else is ever signalled, and readers  *)
(* are served, too.                                                        *)
WaiterIsServed ==
  /\ \A c \in Conns :
       IF th[c].pc \in Waits
       THEN \/ conn[c].sem = 1 /\ ~conn[c].msg
            \/ conn[c].sem = 0 /\ conn[c].msg /\ Serves(conn[c].pcb, c)
       ELSE conn[c].sem = 0 /\ ~conn[c].msg
  /\ ReaderIsServed

(* NoDanglingPcb: a netconn refers to no pcb that TCP has freed, and the   *)
(* pcb refers back to it: err_tcp is called before a pcb goes away.        *)
NoDanglingPcb ==
  \A c \in Conns : conn[c].pcb # NULL =>
     /\ pcb[conn[c].pcb].st # "free"
     /\ pcb[conn[c].pcb].arg = c

(* BacklogIsExact: accepts_pending of a listening pcb is the number of     *)
(* connections that are in their handshake or wait to be accepted.         *)
BacklogIsExact ==
  \A l \in Pcbs : pcb[l].st = "LISTEN" =>
     pcb[l].accepts_pending = Cardinality({p \in Pcbs : pcb[p].listener = l /\ pcb[p].pend})

Queued(n) == {c \in Conns : \E i \in DOMAIN conn[c].acceptmbox.q : conn[c].acceptmbox.q[i] = n}

(* ConnIsReachable: a netconn in use belongs to a thread, or waits in one  *)
(* acceptmbox, or is on its way to the application; a freed one does not.  *)
ConnIsReachable ==
  \A n \in Conns :
     LET holders == Queued(n) \cup {c \in Conns : th[c].item = n}
     IN  IF conn[n].used /\ th[n].pc = "none" THEN Cardinality(holders) = 1 ELSE holders = {}

Fetched(c) == IF At(c, "do_recv") /\ th[c].item = "data" THEN 1 ELSE 0

(* WindowIsReturned: while both sides are open, the window TCP has closed  *)
(* is data the application still has to read: none is lost.                *)
WindowIsReturned ==
  \A c \in Conns :
     LET p == conn[c].pcb
     IN  conn[c].recvmbox.valid /\ p # NULL /\ pcb[p].st \in Active =>
           pcb[p].unread = Fetched(c) + (IF pcb[p].refused = "none" THEN 0 ELSE 1)
             + DataIn(conn[c].recvmbox.q)

(* WriteIsCounted: when netconn_write_partly reports success, it reports   *)
(* as many bytes as this call handed to TCP, over all its attempts.        *)
WriteIsCounted ==
  \A c \in Conns : At(c, "written") /\ conn[c].api.err = "OK" =>
     conn[c].api.given = (IF conn[c].api.nb \/ conn[c].api.timeo THEN conn[c].api.len ELSE SIZE)

-----------------------------------------------------------------------------
(* Liveness.                                                               *)

(* Timers run: slowtmr polls, retries the SYN and gives up, and time       *)
(* passes.  A thread that can go on goes on.                               *)
Fairness ==
  /\ \A c \in Conns : WF_vars(Wake(c)) /\ WF_vars(Late(c))
  /\ \A p \in Pcbs : /\ WF_vars(\E mem, rte \in BOOLEAN : Poll(p, mem, rte))
                     /\ WF_vars(pcb[p].st = "SYN_SENT" /\ (SynAck(p) \/ PcbDies(p)))

FairSpec == Spec /\ Fairness

(* CallsReturn: connect, close and delete return, and so does a write with *)
(* a send timeout, whatever the peer does and however short memory is.     *)
CallsReturn ==
  \A c \in Conns :
     th[c].pc \in Waits /\ (At(c, "write") => conn[c].api.timeo) ~> th[c].pc \notin Waits
=============================================================================
