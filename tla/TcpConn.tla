------------------------------- MODULE TcpConn -------------------------------
(***************************************************************************)
(* One TCP connection between two lwIP hosts: an application that connects *)
(* ("client"), one that listens ("server"), their pcbs, and a network that *)
(* may lose, duplicate and reorder packets.  Every handler (tcp_input, the *)
(* timers, an API call) is one action: it runs in tcpip_thread or under    *)
(* the core lock.                                                          *)
(*                                                                         *)
(* The n-th data unit an application writes has the value n.               *)
(***************************************************************************)
EXTENDS TcpPcb

CONSTANTS
  TCP_MAXRTX, TCP_SYNMAXRTX,  \* retransmissions before a pcb is given up
  ISS,             \* ISS[h]: sequence number of h's SYN
  Budgets          \* bounds: each b \in Budgets allows b[f] faults f in Faults
                   \* and b[h] units of data written by h in Hosts

Hosts == {"client", "server"}
Peer(h) == IF h = "client" THEN "server" ELSE "client"

(* What may happen at most b[f] times: a packet is lost ("loss")           *)
(* or delivered again ("dup"); ip_output_if fails ("neterr"); the receive  *)
(* callback refuses new data ("refuse") or refused data again ("again");   *)
(* the application or its accept callback aborts ("abort"); a timeout      *)
(* happens while packets are still on their way ("late"); the application  *)
(* closes only its sending side ("shutdown") or writes without a           *)
(* tcp_output ("hold").                                                    *)
Faults == {"loss", "dup", "neterr", "refuse", "again", "abort", "late",
           "shutdown", "hold"}

ASSUME ConnAssumption ==
  /\ TCP_MAXRTX \in Nat /\ TCP_SYNMAXRTX \in Nat
  /\ ISS \in [Hosts -> Nat]
  /\ Budgets \subseteq [Faults \cup Hosts -> Nat]

VARIABLES
  pcb,       \* pcb[h]: the pcb of h's end, NoPcb when there is none
  app,       \* app[h]: what the application has done and seen
  net,       \* net[h]: packets on their way to h
  used,      \* the hosts that have used the one pcb they can get
  budget     \* faults that may still happen, and the units each host may write

vars == <<pcb, app, net, used, budget>>

(* open: the application holds the pcb; shut: it has closed its sending    *)
(* side; eof: its receive callback got NULL; err: what its error callback  *)
(* got.                                                                    *)
App == [open : BOOLEAN, wrote : Nat, rcvd : Seq(Nat), eof : BOOLEAN,
        shut : BOOLEAN, err : {"none", "ERR_RST", "ERR_ABRT", "ERR_CLSD"}]

(* The types of the variables.                                             *)
TypeOK ==
  /\ pcb \in [Hosts -> Pcb]
  /\ app \in [Hosts -> App]
  /\ net \in [Hosts -> SUBSET Packet]
  /\ used \subseteq Hosts
  /\ budget \in [Faults \cup Hosts -> Nat]

Init ==
  /\ pcb = [h \in Hosts |-> NoPcb]
  /\ app = [h \in Hosts |-> [open |-> FALSE, wrote |-> 0, rcvd |-> << >>,
                             eof |-> FALSE, shut |-> FALSE, err |-> "none"]]
  /\ net = [h \in Hosts |-> {}]
  /\ used = {}
  /\ budget \in Budgets

Spend(F) ==
  /\ \A f \in F : budget[f] > 0
  /\ budget' = [f \in Faults \cup Hosts |-> IF f \in F THEN budget[f] - 1 ELSE budget[f]]

May(F) == {f \in F : budget[f] > 0}

(* A timeout: free when nothing is on its way.                             *)
Timeout(F) == Spend(IF \A h \in Hosts : net[h] = {} THEN F ELSE F \cup {"late"})

Active(h) == pcb[h].state \notin {"CLOSED", "TIME_WAIT"}

(* Host h sends the packets out; a packet i it has received leaves the     *)
(* network unless it is to arrive once more.                               *)
Send(h, out) == net' = [net EXCEPT ![Peer(h)] = @ \cup out]
Reply(h, i, F, out) ==
  net' = [net EXCEPT ![Peer(h)] = @ \cup out,
                     ![h] = IF "dup" \in F THEN @ ELSE @ \ {i}]

Output(p, F) == IF "neterr" \in F THEN tcp_output_err(p) ELSE tcp_output(p)

Set(h, p) == pcb' = [pcb EXCEPT ![h] = p]
SetApp(h, a) == app' = [app EXCEPT ![h] = a]
Gone(h, err) ==
  /\ Set(h, NoPcb)
  /\ SetApp(h, [app[h] EXCEPT !.open = FALSE, !.err = err])

-----------------------------------------------------------------------------
(* API calls.                                                              *)

Connect ==
  /\ "client" \notin used
  /\ \E o \in tcp_output(tcp_connect(ISS["client"])) :
       Set("client", o.p) /\ Send("client", o.out)
  /\ SetApp("client", [app["client"] EXCEPT !.open = TRUE])
  /\ used' = used \cup {"client"}
  /\ UNCHANGED budget

(* tcp_write of n units, with or without a tcp_output.                     *)
Write(h, n, F) ==
  /\ app[h].open /\ tcp_write_ok(pcb[h])
  /\ app[h].wrote + n <= budget[h]
  /\ LET p == tcp_write(pcb[h], [j \in 1 .. n |-> app[h].wrote + j])
     IN \/ \E o \in Output(p, F) : Set(h, o.p) /\ Send(h, o.out) /\ Spend(F)
        \/ F = {} /\ Set(h, p) /\ Send(h, {}) /\ Spend({"hold"})
  /\ SetApp(h, [app[h] EXCEPT !.wrote = @ + n])
  /\ UNCHANGED used

(* tcp_recved for all that was delivered: when the window opens enough it  *)
(* is announced at once.                                                   *)
Recved(h, F) ==
  LET held == Len(pcb[h].refused) + (IF pcb[h].refusedfin THEN 1 ELSE 0)
      p    == [pcb[h] EXCEPT !.unread = held]
  IN /\ app[h].open /\ pcb[h] # NoPcb
     /\ pcb[h].unread > held
     /\ \/ F = {} /\ Set(h, p) /\ Send(h, {})
        \/ \E o \in Output(tcp_ack_now(p), F) : Set(h, o.p) /\ Send(h, o.out)
     /\ Spend(F)
     /\ UNCHANGED <<app, used>>

(* tcp_shutdown of the sending side.                                       *)
ShutdownTx(h, F) ==
  /\ app[h].open
  /\ pcb[h].state \in {"ESTABLISHED", "CLOSE_WAIT"}
  /\ \E o \in Output(SendFin(pcb[h]), F) : Set(h, o.p) /\ Send(h, o.out)
  /\ SetApp(h, [app[h] EXCEPT !.shut = TRUE])
  /\ Spend(F \cup {"shutdown"})
  /\ UNCHANGED used

(* tcp_close when data was not read: a RST instead of a FIN.               *)
CloseRst(h) ==
  LET p == pcb[h]
  IN /\ app[h].open /\ RstOnClose(p)
     /\ Send(h, {tcp_rst(p.snd_nxt, p.rcv_nxt)})
     /\ Set(h, IF p.state = "ESTABLISHED"
               THEN [tcp_pcb_purge(p) EXCEPT !.rxclosed = TRUE, !.state = "TIME_WAIT"]
               ELSE NoPcb)
     /\ SetApp(h, [app[h] EXCEPT !.open = FALSE])
     /\ UNCHANGED <<used, budget>>

(* tcp_close otherwise: by state, a FIN, nothing more, or no pcb.          *)
Close(h, F) ==
  LET p == [pcb[h] EXCEPT !.rxclosed = TRUE]
      fin == p.state \in {"ESTABLISHED", "CLOSE_WAIT"}
  IN /\ app[h].open /\ pcb[h] # NoPcb /\ ~RstOnClose(p)
     /\ IF p.state = "SYN_SENT" THEN Set(h, NoPcb) /\ Send(h, {}) /\ F = {}
        ELSE IF fin
        THEN \E o \in Output(SendFin(p), F) : Set(h, o.p) /\ Send(h, o.out)
        ELSE Set(h, p) /\ Send(h, {}) /\ F = {}
     /\ SetApp(h, [app[h] EXCEPT !.open = FALSE,
                                 !.shut = @ \/ fin \/ p.state = "SYN_SENT"])
     /\ Spend(F)
     /\ UNCHANGED used

(* tcp_abort: a delayed ACK is sent by tcp_pcb_remove before the RST.      *)
Abort(h) ==
  LET p == pcb[h]
  IN /\ app[h].open /\ p # NoPcb
     /\ Send(h, IF p.state = "TIME_WAIT" THEN {}
                ELSE {tcp_rst(p.snd_nxt, p.rcv_nxt)}
                       \cup (IF "DELAY" \in p.ack THEN {EmptyAck(p)} ELSE {}))
     /\ Gone(h, IF p.state = "TIME_WAIT" THEN "none" ELSE "ERR_ABRT")
     /\ Spend({"abort"})
     /\ UNCHANGED used

-----------------------------------------------------------------------------
(* tcp_input.                                                              *)

(* No pcb: a RST, except for a RST.  The server's listening pcb answers a  *)
(* packet with ACK the same way, and drops everything but a SYN.           *)
InputNoPcb(h, i, F) ==
  /\ pcb[h] = NoPcb /\ F \subseteq {"dup"}
  /\ ~(h = "server" /\ i.syn /\ ~i.ack /\ h \notin used)
  /\ Reply(h, i, F, IF ~i.rst /\ (h = "server" => i.ack) THEN {RstFor(i)} ELSE {})
  /\ UNCHANGED <<pcb, app, used>>

(* tcp_listen_input: a SYN makes a pcb in SYN_RCVD.                        *)
InputListen(h, i, F) ==
  /\ h = "server" /\ pcb[h] = NoPcb /\ h \notin used
  /\ i.syn /\ ~i.ack /\ ~i.rst
  /\ \E o \in Output(tcp_listen_input(ISS[h], i), F) :
       Set(h, o.p) /\ Reply(h, i, F, o.out)
  /\ used' = used \cup {h}
  /\ UNCHANGED app

(* tcp_timewait_input.                                                     *)
InputTimeWait(h, i, F) ==
  LET p == pcb[h]
  IN /\ p.state = "TIME_WAIT"
     /\ IF i.rst \/ (tcplen(i) = 0)
        THEN Set(h, p) /\ Reply(h, i, F, {})
        ELSE IF i.syn /\ i.seq >= p.rcv_nxt
        THEN Set(h, p) /\ Reply(h, i, F, {RstFor(i)})
        ELSE \E o \in Output(tcp_ack_now(p), F) : Set(h, o.p) /\ Reply(h, i, F, o.out)
     /\ UNCHANGED <<app, used>>

(* tcp_process_refused_data when the callback takes the data.              *)
Taken(p) ==
  [p EXCEPT !.refused = << >>, !.refusedfin = FALSE,
            !.unread = IF p.refusedfin /\ @ > 0 THEN @ - 1 ELSE @]
TakenApp(p, a) ==
  [a EXCEPT !.rcvd = @ \o p.refused, !.eof = @ \/ p.refusedfin]

Retries(p, F) == p.refused # << >> /\ "again" \notin F

(* A segment that occupies sequence space is dropped while data is         *)
(* refused.                                                                *)
InputRefused(h, i, F) ==
  /\ Active(h)
  /\ pcb[h].refused # << >> /\ "again" \in F
  /\ tcplen(i) > 0
  /\ Reply(h, i, F, {})
  /\ UNCHANGED <<pcb, app, used>>

(* The receive callback takes the data or refuses it; a FIN behind refused *)
(* data waits with it.                                                     *)
Delivered(r, F) ==
  LET refuse == r.data # << >> /\ "refuse" \in F
      fin    == r.fin /\ ~refuse
  IN [r.p EXCEPT !.refused = IF refuse THEN r.data ELSE @,
                 !.refusedfin = IF refuse THEN r.fin ELSE @,
                 !.unread = IF fin /\ @ > 0 THEN @ - 1 ELSE @]
(* Mutant: the end of the stream is signalled although data was refused.   *)
DeliveredApp_FinFirst(r, a, F) ==
  [a EXCEPT !.rcvd = IF "refuse" \in F THEN @ ELSE @ \o r.data, !.eof = @ \/ r.fin]

DeliveredApp(r, a, F) ==
  IF r.data # << >> /\ "refuse" \in F THEN a
  ELSE [a EXCEPT !.rcvd = @ \o r.data, !.eof = @ \/ r.fin]

(* What tcp_input does with the result r of tcp_process, a the application *)
(* before: callbacks, tcp_output, or the end of the pcb.                   *)
Processed(h, i, F, a, r) ==
  LET aborted == r.data # << >> /\ r.p.rxclosed
      Over(err) == Set(h, NoPcb) /\ SetApp(h, [a EXCEPT !.open = FALSE, !.err = err])
  IN /\ "neterr" \in F => r.ev = "none" /\ ~aborted
     /\ \/ /\ r.ev = "reset"
           /\ Over("ERR_RST") /\ Reply(h, i, F, r.out)
        \/ /\ r.ev = "closed"
           /\ Over(IF r.p.rxclosed THEN a.err ELSE "ERR_CLSD") /\ Reply(h, i, F, r.out)
        \/ /\ r.ev = "abort"
           /\ Over("ERR_ABRT") /\ Reply(h, i, F, r.out)
        \/ /\ r.ev = "none" /\ aborted
           /\ Over(IF r.p.state = "TIME_WAIT" THEN a.err ELSE "ERR_ABRT")
           /\ Reply(h, i, F, r.out \cup (IF r.p.state = "TIME_WAIT" THEN {}
                                         ELSE {tcp_rst(r.p.snd_nxt, r.p.rcv_nxt)}))
        \/ /\ r.ev = "none" /\ ~aborted
           /\ \E o \in Output(Delivered(r, F), F) :
                Set(h, o.p) /\ Reply(h, i, F, r.out \cup o.out)
           /\ SetApp(h, DeliveredApp(r, a, F))

(* The accept callback hands the pcb to the application.                   *)
AcceptedApp(p, r, a) ==
  IF p.state = "SYN_RCVD" /\ r.p.state # "SYN_RCVD" THEN [a EXCEPT !.open = TRUE] ELSE a

InputActive(h, i, F) ==
  LET p == IF Retries(pcb[h], F) THEN Taken(pcb[h]) ELSE pcb[h]
      a == IF Retries(pcb[h], F) THEN TakenApp(pcb[h], app[h]) ELSE app[h]
  IN /\ Active(h)
     /\ p.refused = << >> \/ tcplen(i) = 0
     /\ \E r \in {tcp_process(p, i, "abort" \in F)} :
          Processed(h, i, F, AcceptedApp(p, r, a), r)
     /\ UNCHANGED used

(* The choices that can matter for a packet.                               *)
InputFaults == {"dup", "neterr", "refuse", "again", "abort"}

tcp_input(h, i, F) ==
  /\ i \in net[h]
  /\ "refuse" \in F => i.data # << >>
  /\ "again" \in F => pcb[h].refused # << >>
  /\ "abort" \in F => pcb[h].state = "SYN_RCVD"
  /\ \/ InputNoPcb(h, i, F)
     \/ InputListen(h, i, F)
     \/ InputTimeWait(h, i, F)
     \/ InputRefused(h, i, F)
     \/ InputActive(h, i, F)
  /\ Spend(F)

-----------------------------------------------------------------------------
(* tcp_slowtmr, for one pcb: one action per thing a tick may find.         *)

GivenUp(p) ==
  \/ p.state = "SYN_SENT" /\ p.nrtx = TCP_SYNMAXRTX
  \/ p.nrtx = TCP_MAXRTX

(* nrtx has reached its maximum: the pcb is removed without a word.        *)
SlowGiveUp(h) ==
  /\ Active(h) /\ GivenUp(pcb[h])
  /\ Gone(h, "ERR_ABRT")
  /\ Timeout({})
  /\ UNCHANGED <<net, used>>

(* The retransmission timer has run out.                                   *)
SlowRexmit(h, F) ==
  /\ Active(h) /\ ~GivenUp(pcb[h])
  /\ pcb[h].rtime /\ pcb[h].unacked # << >>
  /\ \E o \in Output(tcp_rexmit_rto(pcb[h]), F) : Set(h, o.p) /\ Send(h, o.out)
  /\ Timeout(F)
  /\ UNCHANGED <<app, used>>

(* Mutant: FIN_WAIT_2 never times out.                                     *)
SlowExpire_NoFinWait(h) ==
  /\ pcb[h].state \in {"SYN_RCVD", "LAST_ACK"}
  /\ Gone(h, "ERR_ABRT")
  /\ Timeout({})
  /\ UNCHANGED <<net, used>>

(* tmr is too old in SYN_RCVD, LAST_ACK or a fully closed FIN_WAIT_2.      *)
SlowExpire(h) ==
  /\ \/ pcb[h].state \in {"SYN_RCVD", "LAST_ACK"}
     \/ pcb[h].state = "FIN_WAIT_2" /\ pcb[h].rxclosed
  /\ Gone(h, "ERR_ABRT")
  /\ Timeout({})
  /\ UNCHANGED <<net, used>>

(* Out-of-sequence data is too old.                                        *)
SlowOoseq(h) ==
  /\ Active(h) /\ pcb[h].ooseq # << >>
  /\ Set(h, [pcb[h] EXCEPT !.ooseq = << >>])
  /\ Timeout({})
  /\ UNCHANGED <<app, net, used>>

(* The poll interval: tcp_output.                                          *)
SlowPoll(h, F) ==
  /\ Active(h) /\ ~GivenUp(pcb[h])
  /\ pcb[h].unsent # << >> \/ "NOW" \in pcb[h].ack
  /\ \E o \in Output(pcb[h], F) : Set(h, o.p) /\ Send(h, o.out)
  /\ Spend(F)
  /\ UNCHANGED <<app, used>>

(* 2 MSL are over in TIME_WAIT: the pcb is freed without a callback.       *)
SlowTimeWait(h) ==
  /\ pcb[h].state = "TIME_WAIT"
  /\ Set(h, NoPcb)
  /\ Timeout({})
  /\ UNCHANGED <<app, net, used>>

tcp_slowtmr(h, F) ==
  \/ F = {} /\ (SlowGiveUp(h) \/ SlowExpire(h) \/ SlowOoseq(h) \/ SlowTimeWait(h))
  \/ SlowRexmit(h, F)
  \/ SlowPoll(h, F)

(* tcp_fasttmr: send a delayed ACK, and offer refused data once more.      *)
FastAck(h, F) ==
  /\ Active(h) /\ "DELAY" \in pcb[h].ack
  /\ \E o \in Output(tcp_ack_now(pcb[h]), F) :
       Set(h, [o.p EXCEPT !.ack = {}]) /\ Send(h, o.out)
  /\ Spend(F)
  /\ UNCHANGED <<app, used>>

FastRefused(h) ==
  /\ Active(h) /\ pcb[h].refused # << >>
  /\ Set(h, Taken(pcb[h]))
  /\ SetApp(h, TakenApp(pcb[h], app[h]))
  /\ UNCHANGED <<net, used, budget>>

tcp_fasttmr(h, F) == FastAck(h, F) \/ (F = {} /\ FastRefused(h))

(* The network loses a packet.                                             *)
Lose(h, i) ==
  /\ i \in net[h]
  /\ net' = [net EXCEPT ![h] = @ \ {i}]
  /\ Spend({"loss"})
  /\ UNCHANGED <<pcb, app, used>>

-----------------------------------------------------------------------------
Call(h, F) ==
  \/ \E n \in 1 .. TCP_MSS : Write(h, n, F)
  \/ Recved(h, F)
  \/ ShutdownTx(h, F)
  \/ Close(h, F)
  \/ F = {} /\ (CloseRst(h) \/ Abort(h))

Next ==
  \/ Connect
  \/ \E h \in Hosts :
       \/ \E F \in SUBSET May({"neterr"}) : Call(h, F) \/ tcp_slowtmr(h, F) \/ tcp_fasttmr(h, F)
       \/ \E i \in net[h] : Lose(h, i) \/ \E F \in SUBSET May(InputFaults) : tcp_input(h, i, F)

Spec == Init /\ [][Next]_vars

(* tcpip_thread serves packets and timers for ever: a packet that is not   *)
(* lost is handled, a timer that finds something to do does it, and output *)
(* errors do not last.  Nothing is assumed of the applications.  (Weak     *)
(* fairness of tcp_input is written out: it can handle whatever arrives.)  *)
Fairness ==
  \A h \in Hosts :
    /\ []<>(net[h] = {}) \/ []<><<\E i \in net[h] : tcp_input(h, i, {})>>_vars
    /\ WF_vars(tcp_slowtmr(h, {}))
    /\ WF_vars(tcp_fasttmr(h, {}))

FairSpec == Spec /\ Fairness

-----------------------------------------------------------------------------
(* Properties.                                                             *)

Synced(h) == pcb[h].state \notin {"CLOSED", "SYN_SENT", "SYN_RCVD"}

(* Every receive callback so far handed the application the peer's data in *)
(* order, without a gap, a repetition or anything the peer did not write.  *)
StreamIntegrity ==
  \A h \in Hosts :
    /\ app[h].rcvd = [n \in 1 .. Len(app[h].rcvd) |-> n]
    /\ Len(app[h].rcvd) <= app[Peer(h)].wrote

(* The NULL that ends the stream (TCP_EVENT_CLOSED) comes after all data   *)
(* and only when the peer's application closed its sending side.           *)
EofMeansAll ==
  \A h \in Hosts :
    app[h].eof => app[Peer(h)].shut /\ Len(app[h].rcvd) = app[Peer(h)].wrote

(* The sequence number after all that h has to send so far: its SYN, what  *)
(* was written, its FIN.                                                   *)
StreamEnd(h) == ISS[h] + 1 + app[h].wrote + (IF app[h].shut THEN 1 ELSE 0)

(* No byte, SYN or FIN that the peer still waits for has left the send     *)
(* queues: whatever acknowledgments, timeouts and fast retransmits did,    *)
(* unsent and unacked cover everything from the peer's rcv_nxt on.         *)
Queued(h, n) ==
  \E q \in {pcb[h].unacked, pcb[h].unsent} :
    \E j \in DOMAIN q : q[j].seq <= n /\ n < EndSeq(q[j])

NothingLost ==
  \A h \in Hosts :
    Active(h) /\ Synced(Peer(h)) =>
      \A n \in pcb[Peer(h)].rcv_nxt .. StreamEnd(h) - 1 : Queued(h, n)

(* Segments in flight always have the retransmission timer running: no     *)
(* path through an acknowledgment or a retransmission stops it early.      *)
RetransmitTimer ==
  \A h \in Hosts : Active(h) /\ pcb[h].unacked # << >> => pcb[h].rtime

(* A pcb waits for the peer's FIN only (FIN_WAIT_2), or is done after an   *)
(* orderly close (TIME_WAIT), when the peer has received this side's FIN.  *)
FinReceived ==
  \A h \in Hosts :
    /\ pcb[h].state = "FIN_WAIT_2" \/ (pcb[h].state = "TIME_WAIT" /\ app[h].shut)
    /\ Synced(Peer(h))
    => pcb[Peer(h)].rcv_nxt = StreamEnd(h)

(* The three-way handshake: the accept callback runs only for a client     *)
(* that has received the SYN|ACK, or is gone.                              *)
AcceptAfterHandshake ==
  Synced("server") => pcb["client"].state # "SYN_SENT"

(* What an end believes of the other one is true, whatever was lost,       *)
(* repeated or delayed: never is more acknowledged than the other end has  *)
(* received, nothing is received that the other has not sent, and the      *)
(* states that stand for an acknowledged SYN or FIN say so rightly.        *)
AcksAreTrue ==
  /\ \A h \in Hosts :
       Active(h) /\ Synced(Peer(h)) =>
         /\ pcb[h].lastack <= pcb[Peer(h)].rcv_nxt
         /\ pcb[Peer(h)].rcv_nxt <= pcb[h].snd_nxt
  /\ FinReceived
  /\ AcceptAfterHandshake

(* tcp_process's assertion "no segment to free": while a SYN is not        *)
(* acknowledged it is the first segment of unacked, or of unsent when      *)
(* nothing is outstanding.                                                 *)
SynIsFirst ==
  \A h \in Hosts :
    pcb[h].state \in {"SYN_SENT", "SYN_RCVD"} =>
      LET q == pcb[h].unacked \o pcb[h].unsent
      IN q # << >> /\ q[1].syn /\ \A j \in 2 .. Len(q) : ~q[j].syn

(* unacked and unsent are in order, no segment overlaps another one, and a *)
(* SYN comes first.                                                        *)
Disjoint(s, t) == EndSeq(s) <= t.seq \/ EndSeq(t) <= s.seq

QueuesInOrder ==
  /\ \A h \in Hosts :
       LET una == pcb[h].unacked
           uns == pcb[h].unsent
       IN /\ \A q \in {una, uns} :
               \A j, k \in DOMAIN q : j < k => EndSeq(q[j]) <= q[k].seq
          /\ \A j \in DOMAIN una, k \in DOMAIN uns : Disjoint(una[j], uns[k])
  /\ SynIsFirst

(* tcp_fasttmr offers refused data again every 250 ms: the pcb that keeps  *)
(* it must be among the active ones, the only ones tcp_fasttmr visits.     *)
RefusedIsOffered ==
  \A h \in Hosts : pcb[h].refused # << >> => Active(h)

(* opt.h: TCP_MAXRTX is the "Maximum number of retransmissions of data     *)
(* segments"; tcp_slowtmr also indexes tcp_backoff, which has              *)
(* TCP_MAXRTX + 1 entries, with nrtx.                                      *)
RetransmissionsBounded ==
  \A h \in Hosts : pcb[h].nrtx <= TCP_MAXRTX

(* A pcb whose application has closed it is freed in the end, whatever the *)
(* peer does: the timers see to it.                                        *)
ClosedIsFreed ==
  \A h \in Hosts :
    pcb[h] # NoPcb /\ ~app[h].open ~> pcb[h] = NoPcb \/ app[h].open

(* What an application writes reaches the other one, unless an end gave up *)
(* or was closed.                                                          *)
WrittenIsDelivered ==
  \A h \in Hosts : \A n \in UNION {1 .. b[h] : b \in Budgets} :
    app[h].wrote >= n ~>
      \/ Len(app[Peer(h)].rcvd) >= n
      \/ pcb[h] = NoPcb
      \/ ~Active(Peer(h)) \/ pcb[Peer(h)].rxclosed
=============================================================================
