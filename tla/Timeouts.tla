------------------------------- MODULE Timeouts -------------------------------
(***************************************************************************)
(* The timeout list of lwip/src/core/timeouts.c, the wait of tcpip_thread  *)
(* that drives it (sys_timeouts_mbox_fetch) and the threads that start the *)
(* TCP timer under the core lock.                                          *)
(*                                                                         *)
(* next_timeout is a list of timeouts in the order in which they expire.   *)
(* The time of each counts from the expiry of the one before it, the time  *)
(* of the first from timeouts_last_time.  sys_now() is a u32_t that wraps. *)
(*                                                                         *)
(* With LWIP_TCPIP_CORE_LOCKING an application thread holds the core lock  *)
(* while it registers a pcb and so starts the TCP timer.  tcpip_thread     *)
(* takes that lock around a handler but not in sys_check_timeouts itself,  *)
(* which is therefore a sequence of steps here.                            *)
(***************************************************************************)
EXTENDS Integers, SequencesExt

CONSTANTS
    Cyclic,      \* lwip_cyclic_timers[1..]: the timers that always run
    OneShot,     \* timeouts of callers of sys_timeout outside the core
    Interval,    \* the msecs with which each timer is started
    ClockRange,  \* 2^32: sys_now() and every u32_t count modulo this
    MaxLate,     \* ticks tcpip_thread may be delayed between two waits
    MaxCalls,    \* calls of sys_timeout from outside and of sys_restart_timeouts
    Races        \* application threads run during sys_check_timeouts

VARIABLES
    now,                     \* sys_now()
    next_timeout,            \* the list
    timeouts_last_time,
    tcpip_tcp_timer_active,
    pcbs,                    \* tcp_active_pcbs || tcp_tw_pcbs
    tcpip,                   \* tcpip_thread: where it is and its locals
    left,                    \* history: ticks until a timer may run
    calls                    \* MaxCalls so far

vars == <<now, next_timeout, timeouts_last_time, tcpip_tcp_timer_active, pcbs,
          tcpip, left, calls>>

Tcp == "tcp_tmr"
Timers == {Tcp} \cup ToSet(Cyclic) \cup OneShot

\* sys_timeout on an empty list in a handler moves timeouts_last_time while
\* sys_check_timeouts goes on with its old diff (see the README): with two
\* cyclic timers the list is not empty when a handler runs.
ASSUME TimeoutsAssumption ==
    /\ Len(Cyclic) >= 2 /\ OneShot \cap ToSet(Cyclic) = {}
    /\ Tcp \notin ToSet(Cyclic) \cup OneShot
    /\ Interval \in [Timers -> Nat \ {0}]
    /\ ClockRange \in Nat \ {0} /\ \A h \in Timers : Interval[h] < ClockRange
    /\ MaxLate \in Nat /\ MaxCalls \in Nat /\ Races \in BOOLEAN

None == "none"
Forever == ClockRange     \* the wait of sys_arch_mbox_fetch(mbox, msg, 0)

u32(n) == n % ClockRange

-------------------------------------------------------------------------------
(***************************************************************************)
(* The list.  s is a record with the fields list and last: what a call     *)
(* finds in next_timeout and timeouts_last_time.                           *)
(***************************************************************************)
Listed == [list |-> next_timeout, last |-> timeouts_last_time]

Pending(list) == {list[i].h : i \in DOMAIN list}

Position(list, h) == CHOOSE i \in DOMAIN list : list[i].h = h

\* The times of the first n timeouts of the list.
TimeOf(list, n) == FoldLeft(LAMBDA sum, t : sum + t.time, 0, SubSeq(list, 1, n))

NewTime(s, msecs) == u32(msecs + u32(now - s.last))

\* Put h behind the first n timeouts; the one after it counts from h now.
InsertAfter(list, n, h, time) ==
    LET rest == SubSeq(list, n + 1, Len(list))
    IN  SubSeq(list, 1, n) \o <<[h |-> h, time |-> time]>>
          \o (IF rest = <<>> THEN <<>> ELSE [rest EXCEPT ![1].time = u32(@ - time)])

\* The walk: behind the first timeout whose successor expires after the new one.
InsertInside(list, h, time, msecs) ==
    LET Rest(n)  == u32(time - TimeOf(list, n))
        Stops(n) == n = Len(list) \/ list[n + 1].time > Rest(n)
        n == CHOOSE k \in DOMAIN list : Stops(k) /\ \A j \in 1..(k - 1) : ~Stops(j)
        late == n = Len(list) /\ Rest(n) > msecs
    IN  InsertAfter(list, n, h, IF late THEN u32(msecs + list[1].time) ELSE Rest(n))

\* Mutant: the old first timeout keeps its time.
InsertHead_KeepNext(list, h, time, msecs) == <<[h |-> h, time |-> time]>> \o list

\* At the head only msecs is subtracted from the old first timeout, not the
\* time of the new one.
InsertHead(list, h, time, msecs) ==
    <<[h |-> h, time |-> time]>> \o [list EXCEPT ![1].time = u32(@ - msecs)]

sys_timeout(s, h, msecs) ==
    IF s.list = <<>>
    THEN [list |-> <<[h |-> h, time |-> msecs]>>, last |-> now]
    ELSE [s EXCEPT !.list = IF s.list[1].time > msecs
                            THEN InsertHead(s.list, h, NewTime(s, msecs), msecs)
                            ELSE InsertInside(s.list, h, NewTime(s, msecs), msecs)]

\* Mutant: the time of the removed timeout is lost to those behind it.
sys_untimeout_KeepNext(s, h) ==
    [s EXCEPT !.list = SelectSeq(s.list, LAMBDA t : t.h # h)]

sys_untimeout(s, h) ==
    IF h \notin Pending(s.list) THEN s
    ELSE LET i == Position(s.list, h)
             rest == SubSeq(s.list, i + 1, Len(s.list))
         IN  [s EXCEPT !.list = SubSeq(s.list, 1, i - 1)
                \o (IF rest = <<>> THEN <<>>
                    ELSE [rest EXCEPT ![1].time = u32(@ + s.list[i].time)])]

sys_timeouts_sleeptime ==
    LET diff == u32(now - timeouts_last_time)
    IN  IF next_timeout = <<>> THEN Forever
        ELSE IF diff > next_timeout[1].time THEN 0
        ELSE next_timeout[1].time - diff

Apply(s) == next_timeout' = s.list /\ timeouts_last_time' = s.last

\* A call starts h: the history counts its msecs from this moment.
Start(h) == Apply(sys_timeout(Listed, h, Interval[h]))
            /\ left' = [left EXCEPT ![h] = Interval[h]]

-------------------------------------------------------------------------------
sys_timeouts_init(time) ==
    [FoldLeft(LAMBDA s, h : sys_timeout(s, h, Interval[h]),
              [list |-> <<>>, last |-> time], Cyclic) EXCEPT !.last = time]

Init ==
    /\ now = 0
    /\ next_timeout = sys_timeouts_init(now).list
    /\ timeouts_last_time = sys_timeouts_init(now).last
    /\ tcpip_tcp_timer_active = FALSE /\ pcbs = FALSE
    /\ tcpip = [pc |-> "fetch", diff |-> 0, tmp |-> None, wait |-> 0, slack |-> MaxLate]
    /\ left = [h \in Timers |-> IF h \in ToSet(Cyclic) THEN Interval[h] ELSE 0]
    /\ calls = 0

At(pc) == tcpip.pc = pc

core == <<tcpip_tcp_timer_active, pcbs>>
list == <<next_timeout, timeouts_last_time, left>>

\* sys_check_timeouts reads the clock once for all that has expired.
sys_check_timeouts ==
    tcpip' = [tcpip EXCEPT !.pc = "loop", !.diff = u32(now - timeouts_last_time)]

\* sys_timeouts_mbox_fetch: wait for a message, or go straight to the timers.
Fetch ==
    /\ At("fetch")
    /\ IF sys_timeouts_sleeptime = 0 THEN sys_check_timeouts
       ELSE tcpip' = [tcpip EXCEPT !.pc = "sleep", !.wait = sys_timeouts_sleeptime,
                                   !.slack = MaxLate]
    /\ UNCHANGED <<now, list, core, calls>>

TimedOut ==
    /\ At("sleep") /\ tcpip.wait = 0
    /\ sys_check_timeouts
    /\ UNCHANGED <<now, list, core, calls>>

-------------------------------------------------------------------------------
(***************************************************************************)
(* The loop of sys_check_timeouts.                                         *)
(***************************************************************************)
HeadExpired == next_timeout # <<>> /\ next_timeout[1].time <= tcpip.diff

Expired ==
    /\ At("loop") /\ HeadExpired
    /\ tcpip' = [tcpip EXCEPT !.pc = "unlink", !.tmp = next_timeout[1].h]
    /\ UNCHANGED <<now, list, core, calls>>

\* Nothing more to run: back to the fetch.
NoneExpired ==
    /\ At("loop") /\ ~HeadExpired
    /\ tcpip' = [tcpip EXCEPT !.pc = "fetch", !.diff = 0]
    /\ UNCHANGED <<now, list, core, calls>>

\* next_timeout = tmptimeout->next, whatever is at the head by now.
Unlinked(i) ==
    [list |-> SubSeq(next_timeout, i + 1, Len(next_timeout)),
     last |-> u32(timeouts_last_time + next_timeout[i].time)]

Unlink ==
    /\ At("unlink")
    /\ LET i == Position(next_timeout, tcpip.tmp)
       IN  /\ Apply(Unlinked(i))
           /\ tcpip' = [tcpip EXCEPT !.pc = "run",
                                     !.diff = u32(@ - next_timeout[i].time)]
    /\ UNCHANGED <<now, left, core, calls>>

-------------------------------------------------------------------------------
(***************************************************************************)
(* The handlers, run with the core locked.                                 *)
(***************************************************************************)
Returned == tcpip' = [tcpip EXCEPT !.pc = "loop", !.tmp = None]

\* Mutant: the timer of a stack without pcbs stops but stays marked active.
Disable_StaysActive == UNCHANGED <<list, tcpip_tcp_timer_active>>

Disable == tcpip_tcp_timer_active' = FALSE /\ UNCHANGED list

\* tcp_tmr may free the last pcb; the timer goes on only while there is one.
tcpip_tcp_timer ==
    /\ At("run") /\ tcpip.tmp = Tcp
    /\ pcbs' \in {FALSE, pcbs}
    /\ IF pcbs' THEN Start(Tcp) /\ UNCHANGED tcpip_tcp_timer_active ELSE Disable
    /\ Returned
    /\ UNCHANGED <<now, calls>>

cyclic_timer ==
    /\ At("run") /\ tcpip.tmp \in ToSet(Cyclic)
    /\ Start(tcpip.tmp)
    /\ Returned
    /\ UNCHANGED <<now, core, calls>>

OneShotHandler ==
    /\ At("run") /\ tcpip.tmp \in OneShot
    /\ Returned
    /\ UNCHANGED <<now, list, core, calls>>

-------------------------------------------------------------------------------
(***************************************************************************)
(* What a message makes tcpip_thread do.                                   *)
(***************************************************************************)
\* Mutant: a timer that was not stopped yet is started a second time.
tcp_timer_needed_Always ==
    /\ Start(Tcp) /\ tcpip_tcp_timer_active' = TRUE

tcp_timer_needed ==
    IF ~tcpip_tcp_timer_active
    THEN Start(Tcp) /\ tcpip_tcp_timer_active' = TRUE
    ELSE UNCHANGED <<list, tcpip_tcp_timer_active>>

\* TCP_REG: a pcb enters tcp_active_pcbs or tcp_tw_pcbs.
TCP_REG == pcbs' = TRUE /\ tcp_timer_needed

\* A message is fetched and handled with the core locked.
Handled == At("sleep") /\ tcpip' = [tcpip EXCEPT !.pc = "fetch", !.wait = 0] /\ UNCHANGED now

HandleReg == Handled /\ TCP_REG /\ UNCHANGED calls

\* TCP_RMV of the last pcb does not touch the timer.
HandleRmv == Handled /\ pcbs' = FALSE /\ UNCHANGED <<list, tcpip_tcp_timer_active, calls>>

Called == calls < MaxCalls /\ calls' = calls + 1

HandleTimeout(h) ==
    /\ Handled /\ Called
    /\ h \notin Pending(next_timeout)
    /\ Start(h)
    /\ UNCHANGED core

HandleUntimeout(h) ==
    /\ Handled
    /\ Apply(sys_untimeout(Listed, h))
    /\ left' = [left EXCEPT ![h] = 0]
    /\ UNCHANGED <<core, calls>>

sys_restart_timeouts ==
    /\ Handled /\ Called
    /\ timeouts_last_time' = now
    /\ UNCHANGED <<next_timeout, left, core>>

-------------------------------------------------------------------------------
\* An application thread connects or listens: it holds the core lock, which
\* excludes messages and handlers but not the rest of sys_check_timeouts.
AppReg ==
    /\ At("sleep") \/ At("fetch") \/ (Races /\ \E pc \in {"loop", "unlink"} : At(pc))
    /\ TCP_REG
    /\ UNCHANGED <<now, tcpip, calls>>

\* A tick of sys_now().  tcpip_thread sleeps until its wait is over; awake,
\* or when it should be, it is delayed by MaxLate ticks at most: before it runs
\* (sleep) or in a handler (run).  A tick anywhere else has the effect of one there.
Tick ==
    /\ At("sleep") \/ At("run")
    /\ now' = u32(now + 1)
    /\ left' = [h \in Timers |-> IF left[h] = 0 THEN 0 ELSE left[h] - 1]
    /\ \/ /\ At("sleep") /\ tcpip.wait > 0
          /\ tcpip' = [tcpip EXCEPT !.wait = IF @ = Forever THEN @ ELSE @ - 1]
       \/ /\ ~(At("sleep") /\ tcpip.wait > 0) /\ tcpip.slack > 0
          /\ tcpip' = [tcpip EXCEPT !.slack = @ - 1]
    /\ UNCHANGED <<next_timeout, timeouts_last_time, core, calls>>

tcpip_thread ==
    \/ Fetch \/ TimedOut
    \/ Expired \/ NoneExpired \/ Unlink
    \/ tcpip_tcp_timer \/ cyclic_timer \/ OneShotHandler
    \/ HandleReg \/ HandleRmv \/ sys_restart_timeouts
    \/ \E h \in OneShot : HandleTimeout(h) \/ HandleUntimeout(h)

Next == tcpip_thread \/ AppReg \/ Tick

Spec == Init /\ [][Next]_vars

\* Windows runs tcpip_thread when it can run, and time goes on whatever the thread
\* does (Tick is never disabled for long: the thread cannot work for ever at once).
FairSpec == Spec /\ WF_vars(tcpip_thread) /\ SF_vars(Tick)

-------------------------------------------------------------------------------
PCs == {"fetch", "sleep", "loop", "unlink", "run"}

\* The types of the variables.
TypeOK ==
    /\ now \in 0..(ClockRange - 1) /\ timeouts_last_time \in 0..(ClockRange - 1)
    /\ Pending(next_timeout) \subseteq Timers
    /\ tcpip.pc \in PCs /\ tcpip.tmp \in Timers \cup {None}
    /\ tcpip.wait \in 0..Forever /\ tcpip.diff \in 0..(ClockRange - 1)
    /\ tcpip.slack \in 0..MaxLate
    /\ tcpip_tcp_timer_active \in BOOLEAN /\ pcbs \in BOOLEAN
    /\ left \in [Timers -> Nat] /\ calls \in 0..MaxCalls

\* The list holds a timer once.  No subtraction of one time from another went
\* below zero: the whole list adds up to less than the range of the clock.
ListIsSound ==
    /\ \A i, j \in DOMAIN next_timeout : next_timeout[i].h = next_timeout[j].h => i = j
    /\ TimeOf(next_timeout, Len(next_timeout)) < ClockRange

\* No handler is called before the msecs given to sys_timeout have passed,
\* whatever was inserted before it, removed or run meanwhile, and when
\* sys_now() wraps.  The exception the code allows itself: when everything in
\* the list is overdue, a new timeout counts from the overdue ones and is early
\* by no more than tcpip_thread was late.
NotEarly == ListIsSound /\ (tcpip.tmp # None => left[tcpip.tmp] <= MaxLate)

\* The TCP timer is marked active exactly while it is in the list or its handler
\* runs, and it is active while there are pcbs: retransmission, delayed ACKs
\* and TIME_WAIT depend on it.
TcpTimerScheduled ==
    /\ tcpip_tcp_timer_active <=> (Tcp \in Pending(next_timeout) \/ tcpip.tmp = Tcp)
    /\ pcbs => tcpip_tcp_timer_active

\* A timeout in the list is run or removed, whatever else is started
\* before it: it cannot be pushed back for ever.
TimersRun ==
    \A h \in Timers : h \in Pending(next_timeout) ~> h \notin Pending(next_timeout)

===============================================================================
