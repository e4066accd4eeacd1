------------------------------ MODULE MCSysMbox ------------------------------
(* The mailbox for TLC: the cfg files give a ring of three or four slots   *)
(* (so it holds two or three messages), one or two posters, two fetchers   *)
(* and two message pointers.                                               *)
EXTENDS SysMbox
=============================================================================
