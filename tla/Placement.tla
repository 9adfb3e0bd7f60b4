------------------------------ MODULE Placement ------------------------------
(***************************************************************************)
(* The rebalancing advice of service/rebalance: from the memory of the     *)
(* nodes and the VMs on them, the migrations it proposes. Memory counts in *)
(* units, utilisation in whole percents.                                   *)
(*                                                                         *)
(* cap[n] is a node's NodeCapacity: total, used, online and manual, and    *)
(* mem[v] the memory of a VM.                                              *)
(***************************************************************************)
EXTENDS Integers, Sequences, FiniteSets, SequencesExt

MaxSuggestions     == 8    \* Options.MaxSuggestions
ImbalanceThreshold == 20   \* Options.ImbalanceThreshold
MinHotUtil         == 50   \* Options.MinHotUtil

Util(used, total) == (100 * used) \div total
Free(c)           == c.total - c.used

\* computeStats: the nodes with memory count, whatever their state.
Sized(cap) == {n \in DOMAIN cap : cap[n].total > 0}
UtilSum(cap)   == SumFunction([n \in Sized(cap) |-> Util(cap[n].used, cap[n].total)])
SquareSum(cap) == SumFunction([n \in Sized(cap) |-> Util(cap[n].used, cap[n].total)^2])

\* The standard deviation is above t; a single node has none.
Scattered(cap, t) ==
  LET N == Cardinality(Sized(cap)) IN
  N >= 2 /\ N * SquareSum(cap) - UtilSum(cap)^2 > (t * N)^2

\* The utilisation u is above the mean by more than the threshold.
Above(cap, u) ==
  LET N == Cardinality(Sized(cap)) IN N * u > UtilSum(cap) + ImbalanceThreshold * N

HotNodes(cap) == {n \in Sized(cap) : Util(cap[n].used, cap[n].total) >= MinHotUtil}
Hottest(cap) ==
  CHOOSE n \in HotNodes(cap) : \A k \in HotNodes(cap) :
    Util(cap[k].used, cap[k].total) <= Util(cap[n].used, cap[n].total)

\* The nodes that may receive, and the one of them with most room.
Cold(cap, hot)    == {n \in Sized(cap) \ {hot} : cap[n].online /\ ~cap[n].manual}
Coldest(cap, hot) ==
  CHOOSE n \in Cold(cap, hot) : \A k \in Cold(cap, hot) : Free(cap[k]) <= Free(cap[n])

\* What the receiver has left once it has been advised to take a VM.
NothingTaken(cap, to, size) == cap
Taken(cap, to, size)        == [cap EXCEPT ![to].used = @ + size]

\* One candidate: the advice so far is acc.moves, acc.cap what would be left of the nodes
\* with it, acc.left what the hot node would still use.
Advise(acc, v, hot, mem, cap) ==
  LET to == Coldest(acc.cap, hot) IN
  IF \/ acc.stop
     \/ Len(acc.moves) >= MaxSuggestions
     \/ ~Above(cap, Util(acc.left, cap[hot].total))
     \/ Free(acc.cap[to]) < mem[v]
  THEN [acc EXCEPT !.stop = TRUE]
  ELSE [acc EXCEPT !.moves = Append(@, [vm |-> v, to |-> to]),
                   !.left = @ - mem[v],
                   !.cap = Taken(@, to, mem[v])]

\* The VMs of the hot node, the largest first; sort.Slice leaves open which of two equals is.
Candidates(hot, mem, node) ==
  LET S == {v \in DOMAIN mem : node[v] = hot} IN
  CHOOSE c \in [1..Cardinality(S) -> S] :
    \A i, j \in 1..Cardinality(S) : i < j => c[i] # c[j] /\ mem[c[i]] >= mem[c[j]]

\* The advice after each number of the candidates c.
Advice(c, hot, mem, cap) ==
  LET advice[i \in 0..Len(c)] ==
        IF i = 0 THEN [moves |-> <<>>, left |-> cap[hot].used, cap |-> cap, stop |-> FALSE]
        ELSE Advise(advice[i - 1], c[i], hot, mem, cap) IN
  advice

\* Compute; node[v] is the node the row of v names.
Compute(cap, mem, node) ==
  IF ~Scattered(cap, ImbalanceThreshold) \/ HotNodes(cap) = {} THEN <<>>
  ELSE LET hot == Hottest(cap)
           c   == Candidates(hot, mem, node) IN
       IF Cold(cap, hot) = {} THEN <<>> ELSE Advice(c, hot, mem, cap)[Len(c)].moves
=============================================================================
