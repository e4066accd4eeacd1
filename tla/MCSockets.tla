------------------------------ MODULE MCSockets ------------------------------
(* Sockets for TLC: the listening socket 0, one slot for an accepted       *)
(* connection, two threads.                                                *)
EXTENDS Sockets

CONSTANTS t1, t2

MC_Interests ==
  [t \in Threads |-> IF t = t1 THEN {{<<0, "read">>, <<1, "read">>}}
                               ELSE {{<<1, "read">>, <<1, "write">>, <<1, "except">>}}]
=============================================================================
