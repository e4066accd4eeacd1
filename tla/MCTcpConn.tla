------------------------------ MODULE MCTcpConn ------------------------------
(***************************************************************************)
(* Instances of TcpConn for TLC: sequence numbers, and the budgets of      *)
(* faults and of data each side may write.  A behaviour has one budget.    *)
(***************************************************************************)
EXTENDS TcpConn

MC_ISS == [client |-> 10, server |-> 50]

(* Each fault in S once, c units written by the client and s by the server. *)
Scenario(S, c, s) ==
  [f \in Faults \cup Hosts |-> CASE f = "client" -> c
                                [] f = "server" -> s
                                [] OTHER -> IF f \in S THEN 1 ELSE 0]

OpenClose == Scenario({"loss", "dup", "late", "abort", "shutdown"}, 0, 0)
Data      == Scenario({"loss", "hold"}, 2, 0)
Errors    == Scenario({"neterr", "refuse", "again", "loss"}, 1, 0)

SafetyBudgets == {OpenClose, Data, Errors}
LiveBudgets   == {Scenario({"loss", "shutdown"}, 1, 0)}
NetError      == {Scenario({"neterr"}, 4, 0)}
LossError     == {Scenario({"neterr", "loss"}, 2, 0)}
RefuseFaults  == {Scenario({"shutdown", "refuse"}, 0, 1)}
=============================================================================
