--------------------------- MODULE MCProvisioning ---------------------------
(***************************************************************************)
(* Instances of Provisioning for TLC: which order each request pays, and   *)
(* what the customer and the pool have to begin with.                      *)
(***************************************************************************)
EXTENDS Provisioning, TLC

CONSTANTS p1, p2, o1, i1, i2

\* Two clicks on the Pay button of one order.
SameOrder == p1 :> o1 @@ p2 :> o1
OneOrder  == p1 :> o1
CheapOne  == o1 :> 2

\* A balance for two charges and two free addresses, or enough for one and one that is free.
Taken == {i \in IPs : addr[i].status = "assigned"}
Beginning == Init /\ <<balance, Taken>> \in {<<4, {}>>, <<3, {i2}>>}

MCSpec == Beginning /\ [][Next]_vars /\ Fairness
=============================================================================
