----------------------------- MODULE MCAddrMan ------------------------------
(* Four hosts, one of them with a second port; the source decides the new  *)
(* bucket, and there is one tried bucket.  The hosts with one port can be  *)
(* exchanged.                                                              *)
EXTENDS AddrMan

CONSTANTS host, Plain, hostPort2, x, y

MCIPs      == Plain \cup {host}
MCServices == MCIPs \cup {hostPort2}
MCIP       == [s \in MCServices |-> IF s = hostPort2 THEN host ELSE s]
MCSources  == {x, y}
MCNew      == [p \in MCIPs \X MCSources |-> IF p[2] = x THEN 0 ELSE 1]
MCTried    == [s \in MCServices |-> 0]

Exchange   == Permutations(Plain)
=============================================================================
