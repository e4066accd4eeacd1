------------------------------ MODULE MCIpReass ------------------------------
(***************************************************************************)
(* Instances of IpReass.                                                   *)
(***************************************************************************)
EXTENDS IpReass

CONSTANTS d1, d2, d3

\* One datagram of three fragments and two of two, one with a short last fragment.
ThreeDatagrams == (d1 :> 6) @@ (d2 :> 4) @@ (d3 :> 3)

FourFragments == d1 :> 8
===============================================================================
