------------------------------- MODULE MCEtharp -------------------------------
(***************************************************************************)
(* An instance of Etharp: a1 is the gateway of the remote destination, and *)
(* one of two machines takes its address.                                  *)
(***************************************************************************)
EXTENDS Etharp

CONSTANTS a1, a2, a3, remote, lost, m1, m2, m3, m4

Routes == [d \in Dests |-> CASE d = remote -> a1 [] d = lost -> NoRoute [] OTHER -> d]

Machines == [a \in Addrs |-> CASE a = a1 -> {m1, m2} [] a = a2 -> {m3} [] a = a3 -> {m4}]
===============================================================================
