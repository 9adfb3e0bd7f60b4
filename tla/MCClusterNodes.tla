--------------------------- MODULE MCClusterNodes ---------------------------
(***************************************************************************)
(* Instances of ClusterNodes for TLC: a node that runs all the VMs, and a  *)
(* second one that runs or is not yet a member.                            *)
(***************************************************************************)
EXTENDS ClusterNodes

CONSTANTS n1, n2, v1, v2, r1, r2

MCMem   == [v \in VMs |-> 4]
MCTotal == [n \in Nodes |-> IF n = n1 THEN 20 ELSE 5]
MCBase  == [n \in Nodes |-> IF n = n1 THEN 12 ELSE 0]

Start ==
  /\ Init
  /\ place = [v \in VMs |-> n1] /\ manual = {}

\* Who comes between the steps of an evacuation: a restoration or a change of maintenance;
\* of a removal or a drill: a restoration. (With Budget = 2, a failure meets one request.)
Meet       == {<<"restore", "evacuate">>, <<"maintenance", "evacuate">>,
               <<"restore", "remove">>, <<"restore", "chaos">>}
MCTogether == Meet \cup {<<p[2], p[1]>> : p \in Meet}

MCSpec == Start /\ [][Next]_vars
=============================================================================
