------------------------------ MODULE MCAlerts ------------------------------
(***************************************************************************)
(* Small installations: a rule on failed jobs, one on VMs of which two may *)
(* be down in one cluster, or the built-in one of imbalance.               *)
(***************************************************************************)
EXTENDS Alerts

CONSTANTS jobs, down, uneven, mail, chat, failed, vm1, vm2, cluster

MCSlot == [g \in {failed, vm1, vm2, cluster} |->
  CASE g = failed -> "job_failed" [] g = cluster -> "imbalance" [] OTHER -> "vm_down"]

MCGroupsOf == [r \in {jobs, down, uneven} |->
  CASE r = jobs -> {failed} [] r = down -> {vm1, vm2} [] OTHER -> {cluster}]

Row(on, critical, to) == [enabled |-> on, critical |-> critical, channels |-> to]
Only(r, row) == [q \in {jobs, down, uneven} |-> IF q = r THEN row ELSE Row(FALSE, FALSE, {})]

Setup(r, n) == [rule |-> Only(r, Row(TRUE, FALSE, {mail})), faults |-> n]
MCSetups == {Setup(jobs, 2), Setup(down, 1), Setup(uneven, 1)}

\* Imbalance alone, and nothing fails.
MCUneven == {Setup(uneven, 0)}

MCEdits == [r \in {jobs, down, uneven} |->
  IF r = jobs
  THEN {Row(FALSE, FALSE, {mail}), Row(TRUE, TRUE, {mail}), Row(TRUE, FALSE, {mail}),
        Row(TRUE, FALSE, {mail, chat})}
  ELSE {}]

\* Nobody edits, dismisses or cleans up anything: the conditions change, and the three
\* loops go on.
Undisturbed ==
  \/ Evaluate \/ Dispatch
  \/ \E g \in Watched : Watch(g)
  \/ \E k \in Keys : \E i \in DOMAIN rows[k] : Due(k, i)
  \/ \E r \in Rules, g \in Groups : Turn(r, g)
MCUndisturbed == Init /\ [][Undisturbed]_vars /\ Fairness
=============================================================================
