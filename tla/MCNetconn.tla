------------------------------ MODULE MCNetconn ------------------------------
(* Instances of Netconn for TLC. *)
EXTENDS Netconn, TLC

CONSTANTS c1, c2, c3

(* c1 listens and the others are what it accepts. *)
ServerOps == [c \in Conns |-> IF c = c1 THEN {"listen"} ELSE {"recv"}]

(* Every netconn connects, reads, writes and shuts down. *)
ClientOps == [c \in Conns |-> {"connect", "write", "recv", "shutdown"}]

AcceptedAlike == Permutations({c2, c3})
=============================================================================
