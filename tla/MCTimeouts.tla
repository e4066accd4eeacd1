------------------------------ MODULE MCTimeouts ------------------------------
(* Four timers of the win32 port: the TCP timer, two cyclic timers of equal  *)
(* length, as ip_reass_tmr and etharp_tmr are, and a longer timeout of an    *)
(* application.                                                              *)
EXTENDS Timeouts

CyclicTimers == <<"ip_reass_tmr", "etharp_tmr">>
Intervals == [tcp_tmr |-> 1, ip_reass_tmr |-> 2, etharp_tmr |-> 2, app |-> 3]
===============================================================================
