----------------------------- MODULE MCRebalance -----------------------------
(***************************************************************************)
(* Instances of ClusterNodes and Rebalance for TLC: the nodes and VMs of   *)
(* MCClusterNodes, where the first node is full enough for the advice to   *)
(* move its VMs.                                                           *)
(***************************************************************************)
EXTENDS MCClusterNodes, Rebalance

\* Either the scheduler knows of no member, or it has read them when the server started and
\* reads them again at any time; then one request or failure is all that happens besides.
AdviceStart ==
  /\ Start
  /\ CacheInit \/ \E answers \in SUBSET Joined : cache = Figures(answers)

Few == Cardinality(Asked) + faults <= 1

MCAdviceNext ==
  \/ Next /\ UNCHANGED cache /\ (cache # <<>> => Few')
  \/ Refresh /\ cache # <<>>

MCAdviceSpec == AdviceStart /\ [][MCAdviceNext]_<<vars, cache>> /\ Fairness
=============================================================================
