--------------------------- MODULE MCAdminServer ---------------------------
(***************************************************************************)
(* Small installations: an administrator, a customer and a stranger; the   *)
(* cluster of the environment and one that is added. Each setup is about   *)
(* one part of the server.                                                 *)
(***************************************************************************)
EXTENDS AdminServer

CONSTANTS admin, customer, stranger, main, second, front, spare, a1, a2, b1

MCInPool == [p \in {front, spare} |-> IF p = front THEN <<a1, a2>> ELSE <<b1>>]
MCEnvPools == <<front, spare>>

Asks(op, by) ==
  [op |-> op, by |-> by, via |-> "proxy", users |-> <<>>, to |-> "customer", amount |-> 0,
   cluster |-> second, pool |-> spare]

ByToken(q) == [q EXCEPT !.via = "token"]
For(q, users, amount) == [q EXCEPT !.users = users, !.amount = amount]

Setup(queries, known, proven, held, vms, n) ==
  [asks |-> queries, known |-> known, proven |-> proven, tokens |-> held, vms |-> vms, faults |-> n]

Money == Setup(
  {For(Asks("topUp", admin), <<customer>>, 2), For(Asks("batchTopUp", admin), <<customer, stranger>>, 1),
   [For(Asks("batchRole", admin), <<customer, stranger>>, 0) EXCEPT !.to = "admin"],
   For(Asks("role", admin), <<admin>>, 0)},
  {admin, customer, stranger}, {admin}, <<>>, FALSE, 1)

Tokens == Setup(
  {ByToken(Asks("renewToken", customer)), Asks("renewToken", customer),
   Asks("createToken", customer), Asks("deleteToken", customer)},
  {customer}, {}, <<customer>>, FALSE, 1)

FirstVisits == Setup(
  {Asks("visit", stranger), Asks("stepUp", admin), Asks("callback", admin),
   For(Asks("topUp", admin), <<customer>>, 1)},
  {}, {}, <<>>, FALSE, 2)

Registry(vms) == Setup(
  {Asks("addCluster", admin), Asks("removeCluster", admin),
   [Asks("removeCluster", admin) EXCEPT !.cluster = main]},
  {admin}, {}, <<>>, vms, 3)

Allocation == Setup(
  {[Asks("allocate", customer) EXCEPT !.cluster = main],
   [Asks("addPool", admin) EXCEPT !.cluster = main],
   [Asks("removePool", admin) EXCEPT !.cluster = main]},
  {admin, customer}, {}, <<>>, FALSE, 2)

MCSetups == {Money, Tokens, FirstVisits, Registry(TRUE), Registry(FALSE), Allocation}
=============================================================================
