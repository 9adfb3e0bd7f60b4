------------------------------ MODULE Rebalance ------------------------------
(***************************************************************************)
(* The rebalancing advice of the portal: the scheduler keeps the figures   *)
(* of the members it last read, and the panel has Compute (Placement) plan *)
(* with them and with what Incus says of the members by then, while the    *)
(* nodes and the VMs of ClusterNodes go their way.                         *)
(***************************************************************************)
EXTENDS ClusterNodes, Placement

VARIABLE cache  \* what the scheduler knows of each member: its memory, and whether it ran

CacheInit == cache = <<>>

Joined == {n \in Nodes : member[n] # "absent"}

\* refreshCluster: the list of the members, then the resources of each; those of a member that
\* does not answer are 0. (The members are read in one step: the figures of any mixture of
\* moments are as good as those of a member that did not answer to the properties here.)
Figures(answers) ==
  [n \in Joined |->
     [total  |-> IF n \in answers THEN Total[n] ELSE 0,
      used   |-> IF n \in answers THEN Base[n] + SumFunctionOnSet(Mem, On(n)) ELSE 0,
      online |-> Runs(n)]]

\* The refresh loop comes round.
Refresh ==
  /\ \E answers \in SUBSET {n \in Joined : member[n] # "Offline"} : cache' = Figures(answers)
  /\ UNCHANGED vars

AdviceNext == Refresh \/ (Next /\ UNCHANGED cache)
AdviceSpec == Init /\ CacheInit /\ [][AdviceNext]_<<vars, cache>>

\* What the panel gives Compute: the cache, and the flags of the members, or no flags if they
\* cannot be read. A node is online if either says so.
Capacity(read) ==
  [n \in DOMAIN cache |->
     [total  |-> cache[n].total, used |-> cache[n].used,
      online |-> (read /\ Runs(n)) \/ cache[n].online,
      manual |-> read /\ n \in manual]]

\* The VMs are where their rows say they are.
Plan(read) == Compute(Capacity(read), Mem, node)
Receivers(moves) == {moves[i].to : i \in DOMAIN moves}

-----------------------------------------------------------------------------
(* Properties                                                              *)

\* Followed together, the migrations of a plan fit the figures it was made from, however old
\* they are: each receiver has room for all it is given, ran when the scheduler or the panel
\* looked, and is not in maintenance unless the flags could not be read, and no VM is moved
\* twice.
PlansFit ==
  \A read \in BOOLEAN :
    LET moves == Plan(read)
        To(n) == {i \in DOMAIN moves : moves[i].to = n} IN
    /\ \A i, j \in DOMAIN moves : moves[i].vm = moves[j].vm => i = j
    /\ \A n \in Receivers(moves) :
         /\ cache[n].online \/ (read /\ Runs(n))
         /\ read => n \notin manual
         /\ SumFunctionOnSet([i \in DOMAIN moves |-> Mem[moves[i].vm]], To(n))
              <= Free(Capacity(read)[n])
=============================================================================
