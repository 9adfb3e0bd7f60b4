------------------------- MODULE ProvisioningProofs -------------------------
(***************************************************************************)
(* What Provisioning.tla promises for every number of requests, orders,    *)
(* addresses and workers, every price and every bound on faults: types,    *)
(* the ledger, the exclusive use of addresses, and the statuses that stay. *)
(***************************************************************************)
EXTENDS Provisioning, SequenceTheorems, TLAPS

-----------------------------------------------------------------------------
(* The inductive invariant                                                 *)

\* A worker or the sweeper that is in the middle of a job knows which one.
BusyWithJob == \A a \in Agents : at[a] \notin {"idle", "next"} => on[a] \in Requests

\* Only a job whose row exists is queued, listed as stale, or worked on.
JobsExist ==
  /\ \A a \in Agents : on[a] \in Requests => job[on[a]] # "none"
  /\ \A i \in 1..Len(queue) : job[queue[i]] # "none"
  /\ \A p \in stale : job[p] # "none"

TypeInv == TypeOK /\ BusyWithJob

-----------------------------------------------------------------------------
(* Type correctness                                                        *)

\* Nothing is under way at the start, and every variable has its type.
LEMMA TypeInvInit == Init => TypeInv
  <1>1. ASSUME Init PROVE TypeOK
    BY <1>1, ProvisioningAssumption
    DEF Init, TypeOK, AddressRow, InstanceState, OrderStatus, VMStatus, JobStatus,
        HandlerStep, AgentStep
  <1>2. ASSUME Init PROVE BusyWithJob
    BY <1>2 DEF Init, BusyWithJob
  <1> QED BY <1>1, <1>2 DEF TypeInv

\* The names of the steps and statuses, so that the proofs below need not list them.
LEMMA Names ==
  /\ {"idle", "pay", "ip", "provisioning", "vmrow", "attach", "job", "send", "refund",
      "release", "cancel", "done"} \subseteq HandlerStep
  /\ {"idle", "fail", "next", "mark", "submit", "start", "vmrow", "activate", "succeed",
      "read", "delete", "release", "refund", "cancel", "vmerror"} \subseteq AgentStep
  /\ {"paid", "provisioning", "active", "cancelled"} \subseteq OrderStatus
  /\ {"creating", "running", "error"} \subseteq VMStatus
  /\ {"queued", "running", "succeeded", "failed", "partial"} \subseteq JobStatus
  BY DEF HandlerStep, AgentStep, RunStep, RollbackStep, OrderStatus, VMStatus, JobStatus

\* Each handler, worker, sweeper and administrator step keeps the types.
LEMMA TypeInvStep == TypeInv /\ [Next]_vars => TypeInv'
  <1> SUFFICES ASSUME TypeInv, [Next]_vars PROVE TypeInv'
    OBVIOUS
  <1> USE ProvisioningAssumption
  <1>order. order \in [Orders -> OrderStatus]
    BY DEF TypeInv, TypeOK
  <1>handler. handler \in [Requests -> HandlerStep]
    BY DEF TypeInv, TypeOK
  <1>refunds. refunds \in [Requests -> Nat]
    BY DEF TypeInv, TypeOK
  <1>ip. ip \in [Requests -> IPs \cup {None}]
    BY DEF TypeInv, TypeOK
  <1>addr. addr \in [IPs -> AddressRow]
    BY DEF TypeInv, TypeOK
  <1>vm. vm \in [Requests -> VMStatus]
    BY DEF TypeInv, TypeOK
  <1>job. job \in [Requests -> JobStatus]
    BY DEF TypeInv, TypeOK
  <1>inst. inst \in [Requests -> InstanceState]
    BY DEF TypeInv, TypeOK
  <1>on. on \in [Agents -> Requests \cup {None}]
    BY DEF TypeInv, TypeOK
  <1>at. at \in [Agents -> AgentStep]
    BY DEF TypeInv, TypeOK
  <1>busy. BusyWithJob
    BY DEF TypeInv
  <1>queue. queue \in Seq(Requests)
    BY DEF TypeInv, TypeOK
  <1>stale. stale \in SUBSET Requests
    BY DEF TypeInv, TypeOK
  <1>admin. admin \in {None} \cup (Orders \X OrderStatus)
    BY DEF TypeInv, TypeOK
  <1>balance. balance \in Nat
    BY DEF TypeInv, TypeOK
  <1>refundDone. refundDone \in SUBSET Requests
    BY DEF TypeInv, TypeOK
  <1>credit. \A p \in Requests : balance + Price[OrderOf[p]] \in Nat
    BY DEF TypeInv, TypeOK
  <1>1. ASSUME NEW p \in Requests, CheckQuota(p) PROVE TypeInv'
    <2>1. handler' \in [Requests -> HandlerStep]
      BY <1>handler, <1>1, Names DEF CheckQuota, Goto
    <2>2. BusyWithJob'
      BY <1>on, <1>at, <1>busy, <1>1 DEF BusyWithJob, CheckQuota, Agents, agents
    <2> QED
      BY <1>1, <2>1, <2>2, Names
      DEF TypeInv, TypeOK, CheckQuota, money, rows, memory, agents, budgets
  <1>2. ASSUME NEW p \in Requests, PayWithBalance(p) PROVE TypeInv'
    <2>1. order' \in [Orders -> OrderStatus]
      BY <1>order, <1>2, Names DEF PayWithBalance, SetOrder
    <2>2. handler' \in [Requests -> HandlerStep]
      BY <1>handler, <1>2, Names DEF PayWithBalance, Goto
    <2>3. BusyWithJob'
      BY <1>on, <1>at, <1>busy, <1>2 DEF BusyWithJob, PayWithBalance, Agents, agents
    <2> QED
      BY <1>2, <2>1, <2>2, <2>3, Names
      DEF TypeInv, TypeOK, PayWithBalance, Payable, money, rows, memory, agents, budgets
  <1>3. ASSUME NEW p \in Requests, NoProduct(p) PROVE TypeInv'
    <2>1. handler' \in [Requests -> HandlerStep]
      BY <1>handler, <1>3, Names DEF NoProduct, Goto
    <2>2. BusyWithJob'
      BY <1>on, <1>at, <1>busy, <1>3 DEF BusyWithJob, NoProduct, Agents, agents
    <2> QED
      BY <1>3, <2>1, <2>2, Names
      DEF TypeInv, TypeOK, NoProduct, Fault, money, rows, memory, agents, budgets
  <1>4. ASSUME NEW p \in Requests, AllocateIP(p) PROVE TypeInv'
    <2>1. addr' \in [IPs -> AddressRow]
      BY <1>addr, <1>4, Names DEF AllocateIP, AddressRow
    <2>2. ip' \in [Requests -> IPs \cup {None}]
      BY <1>ip, <1>4, Names DEF AllocateIP
    <2>3. handler' \in [Requests -> HandlerStep]
      BY <1>handler, <1>4, Names DEF AllocateIP, Goto
    <2>4. BusyWithJob'
      BY <1>on, <1>at, <1>busy, <1>4 DEF BusyWithJob, AllocateIP, Agents, agents
    <2> QED
      BY <1>4, <2>1, <2>2, <2>3, <2>4, Names
      DEF TypeInv, TypeOK, AllocateIP, Fault, NoFault, money, rows, memory, agents, budgets
  <1>5. ASSUME NEW p \in Requests, SetProvisioning(p) PROVE TypeInv'
    <2>1. order' \in [Orders -> OrderStatus]
      BY <1>order, <1>5, Names DEF SetProvisioning, SetOrder
    <2>2. handler' \in [Requests -> HandlerStep]
      BY <1>handler, <1>5, Names DEF SetProvisioning, Goto
    <2>3. BusyWithJob'
      BY <1>on, <1>at, <1>busy, <1>5 DEF BusyWithJob, SetProvisioning, Agents, agents
    <2> QED
      BY <1>5, <2>1, <2>2, <2>3, Names
      DEF TypeInv, TypeOK, SetProvisioning, Fault, NoFault, money, rows, memory, agents,
          budgets
  <1>6. ASSUME NEW p \in Requests, InsertVM(p) PROVE TypeInv'
    <2>1. vm' \in [Requests -> VMStatus]
      BY <1>vm, <1>6, Names DEF InsertVM
    <2>2. handler' \in [Requests -> HandlerStep]
      BY <1>handler, <1>6, Names DEF InsertVM, Goto
    <2>3. BusyWithJob'
      BY <1>on, <1>at, <1>busy, <1>6 DEF BusyWithJob, InsertVM, Agents, agents
    <2> QED
      BY <1>6, <2>1, <2>2, <2>3, Names
      DEF TypeInv, TypeOK, InsertVM, Fault, NoFault, money, rows, memory, agents, budgets
  <1>7. ASSUME NEW p \in Requests, AttachIP(p) PROVE TypeInv'
    <2>1. addr' \in [IPs -> AddressRow]
      <3>1. addr' = addr \/ addr' = [addr EXCEPT ![ip[p]].vm = p]
        BY <1>7 DEF AttachIP
      <3>2. \A i \in IPs : [addr[i] EXCEPT !.vm = p] \in AddressRow
        BY <1>addr, p \in Requests DEF AddressRow
      <3> QED BY ONLY <1>addr, <3>1, <3>2
    <2>2. handler' \in [Requests -> HandlerStep]
      BY <1>handler, <1>7, Names DEF AttachIP, Goto
    <2>3. BusyWithJob'
      BY <1>on, <1>at, <1>busy, <1>7 DEF BusyWithJob, AttachIP, Agents, agents
    <2>4. (Fault \/ NoFault) /\ UNCHANGED <<order, money, vm, ip, job, refundDone, aged, inst,
                                          memory, agents, admin>>
      BY <1>7 DEF AttachIP
    <2> QED
      BY <2>1, <2>2, <2>3, <2>4, Names
      DEF TypeInv, TypeOK, Fault, NoFault, money, rows, memory, agents, budgets
  <1>8. ASSUME NEW p \in Requests, InsertJob(p) PROVE TypeInv'
    <2>1. job' \in [Requests -> JobStatus]
      BY <1>job, <1>8, Names DEF InsertJob
    <2>2. handler' \in [Requests -> HandlerStep]
      BY <1>handler, <1>8, Names DEF InsertJob, Goto
    <2>3. BusyWithJob'
      BY <1>on, <1>at, <1>busy, <1>8 DEF BusyWithJob, InsertJob, Agents, agents
    <2> QED
      BY <1>8, <2>1, <2>2, <2>3, Names
      DEF TypeInv, TypeOK, InsertJob, Fault, NoFault, money, rows, memory, agents, budgets
  <1>9. ASSUME NEW p \in Requests, Enqueue(p) PROVE TypeInv'
    <2>1. handler' \in [Requests -> HandlerStep]
      BY <1>handler, <1>9, Names DEF Enqueue, Goto
    <2>2. BusyWithJob'
      BY <1>on, <1>at, <1>busy, <1>9 DEF BusyWithJob, Enqueue, Agents, agents
    <2> QED
      BY <1>9, <2>1, <2>2, Names
      DEF TypeInv, TypeOK, Enqueue, money, rows, memory, agents, budgets
  <1>10. ASSUME NEW p \in Requests, RefundPayment(p) PROVE TypeInv'
    <2>1. refunds' \in [Requests -> Nat]
      BY <1>refunds, <1>10, Names DEF RefundPayment, Credit, money
    <2>2. handler' \in [Requests -> HandlerStep]
      BY <1>handler, <1>10, Names DEF RefundPayment, Goto
    <2>3. BusyWithJob'
      BY <1>on, <1>at, <1>busy, <1>10 DEF BusyWithJob, RefundPayment, Agents, agents
    <2>4. balance' \in Nat
      BY <1>credit, <1>balance, <1>10, p \in Requests DEF RefundPayment, Credit, money
    <2>5. payments' = payments
      BY <1>10 DEF RefundPayment, Credit, money
    <2>6. faults' \in 0..MaxFaults /\ losses' \in 0..faults' /\ admins' \in 0..MaxAdmin
      BY <1>10 DEF TypeInv, TypeOK, RefundPayment, Fault, NoFault, budgets
    <2>7. UNCHANGED <<order, ip, addr, vm, job, refundDone, aged, inst, params, queue, on, at,
                      priced, stale, admin>>
      BY <1>10 DEF RefundPayment, rows, memory, agents
    <2> QED
      BY <2>1, <2>2, <2>3, <2>4, <2>5, <2>6, <2>7 DEF TypeInv, TypeOK
  <1>11. ASSUME NEW p \in Requests, ReleasePaid(p) PROVE TypeInv'
    <2>1. addr' \in [IPs -> AddressRow]
      BY <1>addr, <1>11, Names DEF ReleasePaid, Release, AddressRow
    <2>2. handler' \in [Requests -> HandlerStep]
      BY <1>handler, <1>11, Names DEF ReleasePaid, Goto
    <2>3. BusyWithJob'
      BY <1>on, <1>at, <1>busy, <1>11 DEF BusyWithJob, ReleasePaid, Agents, agents
    <2> QED
      BY <1>11, <2>1, <2>2, <2>3, Names
      DEF TypeInv, TypeOK, ReleasePaid, Fault, NoFault, money, rows, memory, agents, budgets
  <1>12. ASSUME NEW p \in Requests, CancelPaid(p) PROVE TypeInv'
    <2>1. order' \in [Orders -> OrderStatus]
      BY <1>order, <1>12, Names DEF CancelPaid, SetOrder
    <2>2. handler' \in [Requests -> HandlerStep]
      BY <1>handler, <1>12, Names DEF CancelPaid, Goto
    <2>3. BusyWithJob'
      BY <1>on, <1>at, <1>busy, <1>12 DEF BusyWithJob, CancelPaid, Agents, agents
    <2> QED
      BY <1>12, <2>1, <2>2, <2>3, Names
      DEF TypeInv, TypeOK, CancelPaid, Fault, NoFault, money, rows, memory, agents, budgets
  <1>13. ASSUME NEW p \in Requests, Disconnect(p) PROVE TypeInv'
    <2>1. handler' \in [Requests -> HandlerStep]
      BY <1>handler, <1>13, Names DEF Disconnect, Goto
    <2>2. BusyWithJob'
      BY <1>on, <1>at, <1>busy, <1>13 DEF BusyWithJob, Disconnect, Agents, agents
    <2> QED
      BY <1>13, <2>1, <2>2, Names
      DEF TypeInv, TypeOK, Disconnect, Fault, money, rows, memory, agents, budgets
  <1>14. ASSUME NEW p \in Requests, Age(p) PROVE TypeInv'
    <2>1. BusyWithJob'
      BY <1>on, <1>at, <1>busy, <1>14 DEF BusyWithJob, Age, Agents, agents
    <2> QED
      BY <1>14, <2>1, Names
      DEF TypeInv, TypeOK, Age, money, rows, memory, agents, budgets
  <1>15. ASSUME NEW w \in Workers, Take(w) PROVE TypeInv'
    <2>1. on' \in [Agents -> Requests \cup {None}]
      BY <1>on, <1>queue, <1>15, Names DEF Take, Agents
    <2>2. at' \in [Agents -> AgentStep]
      BY <1>at, <1>15, Names DEF Take, Agents
    <2>3. BusyWithJob'
      BY <1>on, <1>at, <1>busy, <1>queue, <1>15 DEF BusyWithJob, Take, Agents, agents
    <2> QED
      BY <1>15, <2>1, <2>2, <2>3, Names
      DEF TypeInv, TypeOK, Take, money, rows, memory, agents, budgets
  <1>16. ASSUME NEW w \in Workers, MarkRunning(w) PROVE TypeInv'
    <2>1. job' \in [Requests -> JobStatus]
      BY <1>job, <1>16, Names DEF MarkRunning
    <2>2. on' \in [Agents -> Requests \cup {None}]
      BY <1>on, <1>16, Names DEF MarkRunning, Move, Step, Leave, Agents
    <2>3. at' \in [Agents -> AgentStep]
      BY <1>at, <1>16, Names DEF MarkRunning, Move, Step, Leave, Agents
    <2>4. BusyWithJob'
      BY <1>on, <1>at, <1>busy, <1>16
      DEF BusyWithJob, MarkRunning, Agents, agents, Move, Step, Leave
    <2> QED
      BY <1>16, <2>1, <2>2, <2>3, <2>4, Names
      DEF TypeInv, TypeOK, MarkRunning, Move, Step, Leave, Fault, NoFault, money, rows, memory,
          agents, budgets
  <1>17. ASSUME NEW w \in Workers, Submit(w) PROVE TypeInv'
    <2>1. inst' \in [Requests -> InstanceState]
      BY <1>inst, <1>17, Names DEF Submit, InstanceState
    <2>2. at' \in [Agents -> AgentStep]
      BY <1>at, <1>17, Names DEF Submit, Move, Step, Compensate, Agents
    <2>3. BusyWithJob'
      BY <1>on, <1>at, <1>busy, <1>17
      DEF BusyWithJob, Submit, Agents, agents, Move, Step, Compensate
    <2> QED
      BY <1>17, <2>1, <2>2, <2>3, Names
      DEF TypeInv, TypeOK, Submit, Move, Step, Compensate, Fault, NoFault, money, rows, memory,
          agents, budgets
  <1>18. ASSUME NEW w \in Workers, Start(w) PROVE TypeInv'
    <2>1. inst' \in [Requests -> InstanceState]
      BY <1>inst, <1>18, Names DEF Start, InstanceState
    <2>2. at' \in [Agents -> AgentStep]
      BY <1>at, <1>18, Names DEF Start, Move, Step, Compensate, Agents
    <2>3. BusyWithJob'
      BY <1>on, <1>at, <1>busy, <1>18
      DEF BusyWithJob, Start, Agents, agents, Move, Step, Compensate
    <2> QED
      BY <1>18, <2>1, <2>2, <2>3, Names
      DEF TypeInv, TypeOK, Start, Move, Step, Compensate, Fault, NoFault, money, rows, memory,
          agents, budgets
  <1>19. ASSUME NEW w \in Workers, UpdateVM(w) PROVE TypeInv'
    <2>1. vm' \in [Requests -> VMStatus]
      BY <1>vm, <1>19, Names DEF UpdateVM, Provisioned, VMStatus
    <2>2. at' \in [Agents -> AgentStep]
      BY <1>at, <1>19, Names DEF UpdateVM, Move, Step, Compensate, Agents
    <2>3. BusyWithJob'
      BY <1>on, <1>at, <1>busy, <1>19
      DEF BusyWithJob, UpdateVM, Agents, agents, Move, Step, Compensate
    <2> QED
      BY <1>19, <2>1, <2>2, <2>3, Names
      DEF TypeInv, TypeOK, UpdateVM, Move, Step, Compensate, Fault, NoFault, money, rows, memory,
          agents, budgets
  <1>20. ASSUME NEW w \in Workers, Activate(w) PROVE TypeInv'
    <2>1. order' \in [Orders -> OrderStatus]
      BY <1>order, <1>20, Names DEF Activate, SetOrder
    <2>2. at' \in [Agents -> AgentStep]
      BY <1>at, <1>20, Names DEF Activate, Move, Step, Agents
    <2>3. BusyWithJob'
      BY <1>on, <1>at, <1>busy, <1>20 DEF BusyWithJob, Activate, Agents, agents, Move, Step
    <2> QED
      BY <1>20, <2>1, <2>2, <2>3, Names
      DEF TypeInv, TypeOK, Activate, Move, Step, Fault, NoFault, money, rows, memory, agents,
          budgets
  <1>21. ASSUME NEW w \in Workers, Finalize(w) PROVE TypeInv'
    <2>1. job' \in [Requests -> JobStatus]
      BY <1>job, <1>21, Names DEF Finalize, Finish
    <2>2. on' \in [Agents -> Requests \cup {None}]
      BY <1>on, <1>21, Names DEF Finalize, Leave, Agents
    <2>3. at' \in [Agents -> AgentStep]
      BY <1>at, <1>21, Names DEF Finalize, Leave, Agents
    <2>4. BusyWithJob'
      BY <1>on, <1>at, <1>busy, <1>21 DEF BusyWithJob, Finalize, Agents, agents, Leave
    <2> QED
      BY <1>21, <2>1, <2>2, <2>3, <2>4, Names
      DEF TypeInv, TypeOK, Finalize, Leave, Finish, Fault, NoFault, money, rows, memory,
          agents, budgets
  <1>22. ASSUME NEW w \in Workers, JobTimeout(w) PROVE TypeInv'
    <2>1. on' \in [Agents -> Requests \cup {None}]
      BY <1>on, <1>22, Names DEF JobTimeout, Leave, Agents
    <2>2. at' \in [Agents -> AgentStep]
      BY <1>at, <1>22, Names DEF JobTimeout, Leave, Agents
    <2>3. BusyWithJob'
      BY <1>on, <1>at, <1>busy, <1>22 DEF BusyWithJob, JobTimeout, Agents, agents, Leave
    <2> QED
      BY <1>22, <2>1, <2>2, <2>3, Names
      DEF TypeInv, TypeOK, JobTimeout, Leave, Fault, money, rows, memory, agents, budgets
  <1>23. ASSUME NEW a \in Agents, DeleteInstance(a) PROVE TypeInv'
    <2>1. inst' \in [Requests -> InstanceState]
      BY <1>inst, <1>23, Names DEF DeleteInstance, InstanceState
    <2>2. at' \in [Agents -> AgentStep]
      BY <1>at, <1>23, Names DEF DeleteInstance, Move, Step, Agents
    <2>3. BusyWithJob'
      BY <1>on, <1>at, <1>busy, <1>23 DEF BusyWithJob, DeleteInstance, Agents, agents, Move, Step
    <2> QED
      BY <1>23, <2>1, <2>2, <2>3, Names
      DEF TypeInv, TypeOK, DeleteInstance, Move, Step, Fault, NoFault, money, rows, memory,
          agents, budgets
  <1>36. ASSUME NEW a \in Agents, ReadAmount(a) PROVE TypeInv'
    <2>1. at' \in [Agents -> AgentStep]
      BY <1>at, <1>36, Names DEF ReadAmount, Step
    <2>2. BusyWithJob'
      BY <1>on, <1>at, <1>busy, <1>36 DEF BusyWithJob, ReadAmount, Step
    <2>3. faults' \in 0..MaxFaults /\ losses' \in 0..faults' /\ admins' \in 0..MaxAdmin
      BY <1>36 DEF TypeInv, TypeOK, ReadAmount, Loss, NoFault, budgets
    <2> QED
      BY <1>36, <2>1, <2>2, <2>3 DEF TypeInv, TypeOK, ReadAmount, Step, money, rows, memory
  <1>24. ASSUME NEW a \in Agents, ReleaseIP(a) PROVE TypeInv'
    <2>1. addr' \in [IPs -> AddressRow]
      BY <1>addr, <1>24, Names DEF ReleaseIP, Release, AddressRow
    <2>2. at' \in [Agents -> AgentStep]
      BY <1>at, <1>24, Names DEF ReleaseIP, Move, Step, Agents
    <2>3. BusyWithJob'
      BY <1>on, <1>at, <1>busy, <1>24 DEF BusyWithJob, ReleaseIP, Agents, agents, Move, Step
    <2> QED
      BY <1>24, <2>1, <2>2, <2>3, Names
      DEF TypeInv, TypeOK, ReleaseIP, Move, Step, Fault, NoFault, money, rows, memory, agents,
          budgets
  <1>25. ASSUME NEW a \in Agents, RefundOnce(a) PROVE TypeInv'
    <2>1. refunds' \in [Requests -> Nat]
      BY <1>refunds, <1>25, Names DEF RefundOnce, Credit, money
    <2>2. at' \in [Agents -> AgentStep]
      BY <1>at, <1>25, Names DEF RefundOnce, Move, Step, Agents
    <2>3. BusyWithJob'
      BY <1>on, <1>at, <1>busy, <1>25 DEF BusyWithJob, RefundOnce, Agents, agents, Move, Step
    <2>4. on[a] \in Requests
      BY <1>busy, <1>25 DEF BusyWithJob, RefundOnce
    <2>5. balance' \in Nat
      BY <1>credit, <1>balance, <2>4, <1>25 DEF RefundOnce, Credit, money
    <2>6. refundDone' \in SUBSET Requests
      BY <1>refundDone, <2>4, <1>25 DEF RefundOnce
    <2> QED
      BY <1>25, <2>1, <2>2, <2>3, <2>5, <2>6, Names
      DEF TypeInv, TypeOK, RefundOnce, Move, Step, Credit, Loss, NoFault, money, rows, memory,
          agents, budgets
  <1>26. ASSUME NEW a \in Agents, CancelOrder(a) PROVE TypeInv'
    <2>1. order' \in [Orders -> OrderStatus]
      BY <1>order, <1>26, Names DEF CancelOrder, SetOrder
    <2>2. at' \in [Agents -> AgentStep]
      BY <1>at, <1>26, Names DEF CancelOrder, Move, Step, Agents
    <2>3. BusyWithJob'
      BY <1>on, <1>at, <1>busy, <1>26 DEF BusyWithJob, CancelOrder, Agents, agents, Move, Step
    <2> QED
      BY <1>26, <2>1, <2>2, <2>3, Names
      DEF TypeInv, TypeOK, CancelOrder, Move, Step, Fault, NoFault, money, rows, memory, agents,
          budgets
  <1>27. ASSUME NEW a \in Agents, MarkError(a) PROVE TypeInv'
    <2>1. vm' \in [Requests -> VMStatus]
      BY <1>vm, <1>27, Names DEF MarkError
    <2>2. on' \in [Agents -> Requests \cup {None}]
      BY <1>on, <1>27, Names DEF MarkError, Agents
    <2>3. at' \in [Agents -> AgentStep]
      BY <1>at, <1>27, Names DEF MarkError, Agents
    <2>4. BusyWithJob'
      BY <1>on, <1>at, <1>busy, <1>27 DEF BusyWithJob, MarkError, Agents, agents
    <2> QED
      BY <1>27, <2>1, <2>2, <2>3, <2>4, Names
      DEF TypeInv, TypeOK, MarkError, Fault, NoFault, money, rows, memory, agents, budgets
  <1>28. ASSUME FindStale PROVE TypeInv'
    <2>1. at' \in [Agents -> AgentStep]
      BY <1>at, <1>28, Names DEF FindStale, Agents
    <2>2. BusyWithJob'
      BY <1>on, <1>at, <1>busy, <1>28 DEF BusyWithJob, FindStale, Agents, agents
    <2> QED
      BY <1>28, <2>1, <2>2, Names
      DEF TypeInv, TypeOK, FindStale, StaleJobs, money, rows, memory, agents, budgets
  <1>29. ASSUME Recover PROVE TypeInv'
    <2>1. job' \in [Requests -> JobStatus]
      BY <1>job, <1>29, Names DEF Recover
    <2>2. on' \in [Agents -> Requests \cup {None}]
      BY <1>on, <1>stale, <1>29, Names DEF Recover, Agents
    <2>3. at' \in [Agents -> AgentStep]
      BY <1>at, <1>29, Names DEF Recover, Agents
    <2>4. BusyWithJob'
      BY <1>on, <1>at, <1>busy, <1>stale, <1>29 DEF BusyWithJob, Recover, Agents, agents
    <2>5. /\ Fault \/ NoFault
          /\ stale' \subseteq stale
          /\ UNCHANGED <<order, money, handler, rows, refundDone, aged, inst, memory, priced,
                         admin>>
      BY <1>29 DEF Recover
    <2> QED
      BY <2>1, <2>2, <2>3, <2>4, <2>5, Names
      DEF TypeInv, TypeOK, Fault, NoFault, money, rows, memory, agents, budgets
  <1>30. ASSUME SweepEnds PROVE TypeInv'
    <2>1. at' \in [Agents -> AgentStep]
      BY <1>at, <1>30, Names DEF SweepEnds, Agents
    <2>2. BusyWithJob'
      BY <1>on, <1>at, <1>busy, <1>30 DEF BusyWithJob, SweepEnds, Agents, agents
    <2> QED
      BY <1>30, <2>1, <2>2, Names
      DEF TypeInv, TypeOK, SweepEnds, money, rows, memory, agents, budgets
  <1>31. ASSUME Crash PROVE TypeInv'
    <2>1. handler' \in [Requests -> HandlerStep]
      BY <1>handler, <1>31, Names DEF Crash
    <2>2. on' \in [Agents -> Requests \cup {None}]
      BY <1>on, <1>31, Names DEF Crash, Agents
    <2>3. at' \in [Agents -> AgentStep]
      BY <1>at, <1>31, Names DEF Crash, Agents
    <2>4. BusyWithJob'
      BY <1>on, <1>at, <1>busy, <1>31 DEF BusyWithJob, Crash, Agents, agents
    <2> QED
      BY <1>31, <2>1, <2>2, <2>3, <2>4, Names
      DEF TypeInv, TypeOK, Crash, Loss, money, rows, memory, agents, budgets
  <1>32. ASSUME NEW o \in Orders, CancelIfPending(o) PROVE TypeInv'
    <2>1. order' \in [Orders -> OrderStatus]
      BY <1>order, <1>32, Names DEF CancelIfPending
    <2>2. BusyWithJob'
      BY <1>on, <1>at, <1>busy, <1>32 DEF BusyWithJob, CancelIfPending, Agents, agents
    <2> QED
      BY <1>32, <2>1, <2>2, Names
      DEF TypeInv, TypeOK, CancelIfPending, money, rows, memory, agents, budgets
  <1>33. ASSUME NEW o \in Orders, NEW s \in OrderStatus, AdminCheck(o, s) PROVE TypeInv'
    <2>1. BusyWithJob'
      BY <1>on, <1>at, <1>busy, <1>33 DEF BusyWithJob, AdminCheck, Agents, agents
    <2> QED
      BY <1>33, <2>1, Names
      DEF TypeInv, TypeOK, AdminCheck, money, rows, memory, agents, budgets
  <1>34. ASSUME AdminWrite PROVE TypeInv'
    <2>1. order' \in [Orders -> OrderStatus]
      BY <1>order, <1>admin, <1>34, Names DEF AdminWrite
    <2>2. BusyWithJob'
      BY <1>on, <1>at, <1>busy, <1>34 DEF BusyWithJob, AdminWrite, Agents, agents
    <2> QED
      BY <1>34, <2>1, <2>2, Names
      DEF TypeInv, TypeOK, AdminWrite, money, rows, memory, agents, budgets
  <1>35. CASE UNCHANGED vars
    BY <1>35 DEF TypeInv, TypeOK, BusyWithJob, vars, money, rows, memory, agents, budgets
  <1> QED
    BY <1>1, <1>2, <1>3, <1>4, <1>5, <1>6, <1>7, <1>8, <1>9, <1>10, <1>11, <1>12, <1>13,
       <1>14, <1>15, <1>16, <1>17, <1>18, <1>19, <1>20, <1>21, <1>22, <1>23, <1>24, <1>25,
       <1>26, <1>27, <1>28, <1>29, <1>30, <1>31, <1>32, <1>33, <1>34, <1>35, <1>36
    DEF Next, PayStep, WorkerStep, RollbackStepOf, SweeperStep, Agents

-----------------------------------------------------------------------------
(* The saga of one request                                                 *)

\* Where the handler, the payment, the refund and the job of a request stand: until the
\* job's row exists only the handler may refund, and from then on only RefundOnce, which
\* marks the job.
SagaInv ==
  \A p \in Requests :
    /\ handler[p] \in {"idle", "pay"} => p \notin payments
    /\ handler[p] \in {"ip", "provisioning", "vmrow", "attach", "job", "refund"}
       => p \in payments /\ refunds[p] = 0
    /\ handler[p] \notin {"send", "done"} => job[p] = "none"
    /\ handler[p] = "send" => job[p] # "none"
    /\ p \notin payments => refunds[p] = 0 /\ job[p] = "none"
    /\ job[p] # "none" => refunds[p] = 0 \/ p \in refundDone
    /\ p \in refundDone => job[p] # "none"

\* An address that a request took is not available again, and no other request has it.
AddressInv ==
  /\ \A p \in Requests :
       /\ ip[p] # None => addr[ip[p]].status # "available"
       /\ handler[p] \in {"provisioning", "vmrow", "attach", "job", "send"} => ip[p] # None
       /\ handler[p] \in {"idle", "pay", "ip", "provisioning", "vmrow"} => vm[p] = "none"
       /\ vm[p] # "none" \/ job[p] # "none" => ip[p] # None
  /\ \A p, q \in Requests : p # q /\ ip[p] # None => ip[p] # ip[q]

\* The channel, the sweeper's list and the agents only ever hold jobs that were inserted.
LEMMA JobsExistStep == TypeInv /\ JobsExist /\ SagaInv /\ [Next]_vars => JobsExist'
  <1> SUFFICES ASSUME TypeInv, JobsExist, SagaInv, [Next]_vars PROVE JobsExist'
    OBVIOUS
  <1> USE ProvisioningAssumption DEF JobsExist, SagaInv
  <1>job. job \in [Requests -> JobStatus]
    BY DEF TypeInv, TypeOK
  <1>on. on \in [Agents -> Requests \cup {None}]
    BY DEF TypeInv, TypeOK
  <1>queue. queue \in Seq(Requests)
    BY DEF TypeInv, TypeOK
  <1>stale. stale \in SUBSET Requests
    BY DEF TypeInv, TypeOK
  <1>busy. BusyWithJob
    BY DEF TypeInv
  <1>1. ASSUME NEW p \in Requests, CheckQuota(p) PROVE JobsExist'
    BY <1>job, <1>on, <1>queue, <1>stale, <1>1 DEF CheckQuota, memory, agents
  <1>2. ASSUME NEW p \in Requests, PayWithBalance(p) PROVE JobsExist'
    BY <1>job, <1>on, <1>queue, <1>stale, <1>2 DEF PayWithBalance, memory, agents
  <1>3. ASSUME NEW p \in Requests, NoProduct(p) PROVE JobsExist'
    BY <1>job, <1>on, <1>queue, <1>stale, <1>3 DEF NoProduct, memory, agents
  <1>4. ASSUME NEW p \in Requests, AllocateIP(p) PROVE JobsExist'
    BY <1>job, <1>on, <1>queue, <1>stale, <1>4 DEF AllocateIP, memory, agents
  <1>5. ASSUME NEW p \in Requests, SetProvisioning(p) PROVE JobsExist'
    BY <1>job, <1>on, <1>queue, <1>stale, <1>5 DEF SetProvisioning, memory, agents
  <1>6. ASSUME NEW p \in Requests, InsertVM(p) PROVE JobsExist'
    BY <1>job, <1>on, <1>queue, <1>stale, <1>6 DEF InsertVM, memory, agents
  <1>7. ASSUME NEW p \in Requests, AttachIP(p) PROVE JobsExist'
    BY <1>job, <1>on, <1>queue, <1>stale, <1>7 DEF AttachIP, memory, agents
  <1>8. ASSUME NEW p \in Requests, InsertJob(p) PROVE JobsExist'
    BY <1>job, <1>on, <1>queue, <1>stale, <1>8 DEF InsertJob, agents
  <1>9. ASSUME NEW p \in Requests, Enqueue(p) PROVE JobsExist'
    <2>1. job[p] # "none" /\ queue' = Append(queue, p)
      BY <1>9 DEF Enqueue
    <2>2. /\ Len(queue) \in Nat /\ Len(queue') = Len(queue) + 1
          /\ \A i \in 1..Len(queue) : queue'[i] = queue[i]
          /\ queue'[Len(queue) + 1] = p
      BY <1>queue, <2>1, AppendProperties
    <2>3. \A i \in 1..Len(queue') : i \in 1..Len(queue) \/ i = Len(queue) + 1
      BY <2>2
    <2> QED
      BY <2>1, <2>2, <2>3, <1>9 DEF Enqueue, agents
  <1>10. ASSUME NEW p \in Requests, RefundPayment(p) PROVE JobsExist'
    BY <1>job, <1>on, <1>queue, <1>stale, <1>10 DEF RefundPayment, memory, agents
  <1>11. ASSUME NEW p \in Requests, ReleasePaid(p) PROVE JobsExist'
    BY <1>job, <1>on, <1>queue, <1>stale, <1>11 DEF ReleasePaid, memory, agents
  <1>12. ASSUME NEW p \in Requests, CancelPaid(p) PROVE JobsExist'
    BY <1>job, <1>on, <1>queue, <1>stale, <1>12 DEF CancelPaid, memory, agents
  <1>13. ASSUME NEW p \in Requests, Disconnect(p) PROVE JobsExist'
    BY <1>job, <1>on, <1>queue, <1>stale, <1>13 DEF Disconnect, agents
  <1>14. ASSUME NEW p \in Requests, Age(p) PROVE JobsExist'
    BY <1>job, <1>on, <1>queue, <1>stale, <1>14 DEF Age, memory, agents
  <1>15. ASSUME NEW w \in Workers, Take(w) PROVE JobsExist'
    <2>1. /\ queue # <<>> /\ queue' = Tail(queue)
          /\ UNCHANGED <<job, stale>>
      BY <1>15 DEF Take
    <2>2. /\ Len(queue) \in Nat \ {0} /\ Len(queue') = Len(queue) - 1
          /\ Head(queue) = queue[1]
          /\ \A i \in 1..(Len(queue) - 1) : queue'[i] = queue[i + 1]
      BY <1>queue, <2>1, HeadTailProperties
    <2>3. \A i \in 1..Len(queue') : i + 1 \in 1..Len(queue)
      BY <2>2
    <2>4. \A a \in Agents : on'[a] = on[a] \/ on'[a] = queue[1]
      BY <1>on, <2>2, <1>15 DEF Take
    <2>5. job[queue[1]] # "none"
      BY <2>2
    <2>6. \A a \in Agents : on'[a] \in Requests => job'[on'[a]] # "none"
      BY <2>1, <2>4, <2>5
    <2>7. \A i \in 1..Len(queue') : queue'[i] = queue[i + 1]
      BY <2>2
    <2>8. \A i \in 1..Len(queue') : job'[queue'[i]] # "none"
      BY <2>1, <2>3, <2>7
    <2>9. \A p \in stale' : job'[p] # "none"
      BY <2>1
    <2> QED
      BY <2>6, <2>8, <2>9
  <1>16. ASSUME NEW w \in Workers, MarkRunning(w) PROVE JobsExist'
    <2>1. UNCHANGED <<queue, stale>>
      BY <1>16 DEF MarkRunning, Leave, Move, Step, memory
    <2>2. \A q \in Requests : job[q] # "none" => job'[q] # "none"
      BY <1>job, <1>16 DEF MarkRunning
    <2>3. \A a \in Agents : on'[a] = on[a] \/ on'[a] \notin Requests
      BY <1>on, <1>16 DEF MarkRunning, Leave, Move, Step
    <2>4. \A i \in 1..Len(queue) : queue[i] \in Requests
      BY <1>queue
    <2> QED
      BY <1>stale, <2>1, <2>2, <2>3, <2>4
  <1>17. ASSUME NEW w \in Workers, Submit(w) PROVE JobsExist'
    BY <1>job, <1>on, <1>queue, <1>stale, <1>17 DEF Submit, Compensate, Move, Step, memory
  <1>18. ASSUME NEW w \in Workers, Start(w) PROVE JobsExist'
    BY <1>job, <1>on, <1>queue, <1>stale, <1>18 DEF Start, Compensate, Move, Step, memory
  <1>19. ASSUME NEW w \in Workers, UpdateVM(w) PROVE JobsExist'
    BY <1>job, <1>on, <1>queue, <1>stale, <1>19 DEF UpdateVM, Compensate, Move, Step, memory
  <1>20. ASSUME NEW w \in Workers, Activate(w) PROVE JobsExist'
    BY <1>job, <1>on, <1>queue, <1>stale, <1>20 DEF Activate, Move, Step
  <1>21. ASSUME NEW w \in Workers, Finalize(w) PROVE JobsExist'
    <2>1. UNCHANGED <<queue, stale>>
      BY <1>21 DEF Finalize
    <2>2. \A q \in Requests : job[q] # "none" => job'[q] # "none"
      BY <1>job, <1>21 DEF Finalize, Finish
    <2>3. \A a \in Agents : on'[a] = on[a] \/ on'[a] \notin Requests
      BY <1>on, <1>21 DEF Finalize, Leave
    <2>4. \A i \in 1..Len(queue) : queue[i] \in Requests
      BY <1>queue
    <2> QED
      BY <1>stale, <2>1, <2>2, <2>3, <2>4
  <1>22. ASSUME NEW w \in Workers, JobTimeout(w) PROVE JobsExist'
    BY <1>job, <1>on, <1>queue, <1>stale, <1>22 DEF JobTimeout, Leave
  <1>23. ASSUME NEW a \in Agents, DeleteInstance(a) PROVE JobsExist'
    BY <1>job, <1>on, <1>queue, <1>stale, <1>23 DEF DeleteInstance, Move, Step, memory
  <1>36. ASSUME NEW a \in Agents, ReadAmount(a) PROVE JobsExist'
    BY <1>job, <1>on, <1>queue, <1>stale, <1>36 DEF ReadAmount, Step, memory
  <1>24. ASSUME NEW a \in Agents, ReleaseIP(a) PROVE JobsExist'
    BY <1>job, <1>on, <1>queue, <1>stale, <1>24 DEF ReleaseIP, Move, Step, memory
  <1>25. ASSUME NEW a \in Agents, RefundOnce(a) PROVE JobsExist'
    BY <1>job, <1>on, <1>queue, <1>stale, <1>25 DEF RefundOnce, Move, Step, memory
  <1>26. ASSUME NEW a \in Agents, CancelOrder(a) PROVE JobsExist'
    BY <1>job, <1>on, <1>queue, <1>stale, <1>26 DEF CancelOrder, Move, Step, memory
  <1>27. ASSUME NEW a \in Agents, MarkError(a) PROVE JobsExist'
    BY <1>job, <1>on, <1>queue, <1>stale, <1>27 DEF MarkError
  <1>28. ASSUME FindStale PROVE JobsExist'
    BY <1>job, <1>on, <1>queue, <1>stale, <1>28 DEF FindStale, memory, StaleJobs
  <1>29. ASSUME Recover PROVE JobsExist'
    <2>1. UNCHANGED queue /\ stale' \subseteq stale
      BY <1>29 DEF Recover, memory
    <2>2. \A q \in Requests : job[q] # "none" => job'[q] # "none"
      BY <1>job, <1>29 DEF Recover
    <2>3. \A a \in Agents : on'[a] = on[a] \/ on'[a] \in stale
      BY <1>on, <1>29 DEF Recover
    <2>4. \A i \in 1..Len(queue) : queue[i] \in Requests
      BY <1>queue
    <2> QED
      BY <1>stale, <2>1, <2>2, <2>3, <2>4
  <1>30. ASSUME SweepEnds PROVE JobsExist'
    BY <1>job, <1>on, <1>queue, <1>stale, <1>30 DEF SweepEnds, memory
  <1>31. ASSUME Crash PROVE JobsExist'
    BY <1>job, <1>on, <1>queue, <1>stale, <1>31 DEF Crash
  <1>32. ASSUME NEW o \in Orders, CancelIfPending(o) PROVE JobsExist'
    BY <1>job, <1>on, <1>queue, <1>stale, <1>32 DEF CancelIfPending, memory, agents
  <1>33. ASSUME NEW o \in Orders, NEW s \in OrderStatus, AdminCheck(o, s) PROVE JobsExist'
    BY <1>job, <1>on, <1>queue, <1>stale, <1>33 DEF AdminCheck, memory, agents
  <1>34. ASSUME AdminWrite PROVE JobsExist'
    BY <1>job, <1>on, <1>queue, <1>stale, <1>34 DEF AdminWrite, memory, agents
  <1>35. CASE UNCHANGED vars
    BY <1>35 DEF vars, money, rows, memory, agents
  <1> QED
    BY <1>1, <1>2, <1>3, <1>4, <1>5, <1>6, <1>7, <1>8, <1>9, <1>10, <1>11, <1>12, <1>13,
       <1>14, <1>15, <1>16, <1>17, <1>18, <1>19, <1>20, <1>21, <1>22, <1>23, <1>24, <1>25,
       <1>26, <1>27, <1>28, <1>29, <1>30, <1>31, <1>32, <1>33, <1>34, <1>35, <1>36
    DEF Next, PayStep, WorkerStep, RollbackStepOf, SweeperStep, Agents

\* No step pays, inserts a job or refunds out of the order of the saga.
LEMMA SagaInvStep == TypeInv /\ SagaInv /\ JobsExist /\ [Next]_vars => SagaInv'
  <1> SUFFICES ASSUME TypeInv, SagaInv, JobsExist, [Next]_vars PROVE SagaInv'
    OBVIOUS
  <1> USE ProvisioningAssumption DEF SagaInv, JobsExist
  <1>handler. handler \in [Requests -> HandlerStep]
    BY DEF TypeInv, TypeOK
  <1>refunds. refunds \in [Requests -> Nat]
    BY DEF TypeInv, TypeOK
  <1>job. job \in [Requests -> JobStatus]
    BY DEF TypeInv, TypeOK
  <1>on. on \in [Agents -> Requests \cup {None}]
    BY DEF TypeInv, TypeOK
  <1>at. at \in [Agents -> AgentStep]
    BY DEF TypeInv, TypeOK
  <1>busy. BusyWithJob
    BY DEF TypeInv
  <1>1. ASSUME NEW p \in Requests, CheckQuota(p) PROVE SagaInv'
    BY <1>handler, <1>refunds, <1>job, <1>1 DEF CheckQuota, Goto, money
  <1>2. ASSUME NEW p \in Requests, PayWithBalance(p) PROVE SagaInv'
    BY <1>handler, <1>refunds, <1>job, <1>2 DEF PayWithBalance, Goto
  <1>3. ASSUME NEW p \in Requests, NoProduct(p) PROVE SagaInv'
    BY <1>handler, <1>refunds, <1>job, <1>3 DEF NoProduct, Goto, money
  <1>4. ASSUME NEW p \in Requests, AllocateIP(p) PROVE SagaInv'
    BY <1>handler, <1>refunds, <1>job, <1>4 DEF AllocateIP, Goto, money
  <1>5. ASSUME NEW p \in Requests, SetProvisioning(p) PROVE SagaInv'
    BY <1>handler, <1>refunds, <1>job, <1>5 DEF SetProvisioning, Goto, money
  <1>6. ASSUME NEW p \in Requests, InsertVM(p) PROVE SagaInv'
    BY <1>handler, <1>refunds, <1>job, <1>6 DEF InsertVM, Goto, money
  <1>7. ASSUME NEW p \in Requests, AttachIP(p) PROVE SagaInv'
    BY <1>handler, <1>refunds, <1>job, <1>7 DEF AttachIP, Goto, money
  <1>8. ASSUME NEW p \in Requests, InsertJob(p) PROVE SagaInv'
    BY <1>handler, <1>refunds, <1>job, <1>8 DEF InsertJob, Goto, money
  <1>9. ASSUME NEW p \in Requests, Enqueue(p) PROVE SagaInv'
    BY <1>handler, <1>refunds, <1>job, <1>9 DEF Enqueue, Goto, money
  <1>10. ASSUME NEW p \in Requests, RefundPayment(p) PROVE SagaInv'
    BY <1>handler, <1>refunds, <1>job, <1>10 DEF RefundPayment, Credit, Goto, money
  <1>11. ASSUME NEW p \in Requests, ReleasePaid(p) PROVE SagaInv'
    BY <1>handler, <1>refunds, <1>job, <1>11 DEF ReleasePaid, Goto, money
  <1>12. ASSUME NEW p \in Requests, CancelPaid(p) PROVE SagaInv'
    BY <1>handler, <1>refunds, <1>job, <1>12 DEF CancelPaid, Goto, money
  <1>13. ASSUME NEW p \in Requests, Disconnect(p) PROVE SagaInv'
    BY <1>handler, <1>refunds, <1>job, <1>13 DEF Disconnect, Goto, money
  <1>14. ASSUME NEW p \in Requests, Age(p) PROVE SagaInv'
    BY <1>handler, <1>refunds, <1>job, <1>14 DEF Age, money
  <1>15. ASSUME NEW w \in Workers, Take(w) PROVE SagaInv'
    BY <1>handler, <1>refunds, <1>job, <1>15 DEF Take, money
  <1>16. ASSUME NEW w \in Workers, MarkRunning(w) PROVE SagaInv'
    BY <1>handler, <1>refunds, <1>job, <1>on, <1>at, <1>busy, <1>16
    DEF MarkRunning, money, BusyWithJob, Agents, Claimable
  <1>17. ASSUME NEW w \in Workers, Submit(w) PROVE SagaInv'
    BY <1>handler, <1>refunds, <1>job, <1>17 DEF Submit, money
  <1>18. ASSUME NEW w \in Workers, Start(w) PROVE SagaInv'
    BY <1>handler, <1>refunds, <1>job, <1>18 DEF Start, money
  <1>19. ASSUME NEW w \in Workers, UpdateVM(w) PROVE SagaInv'
    BY <1>handler, <1>refunds, <1>job, <1>on, <1>at, <1>busy, <1>19
    DEF UpdateVM, money, BusyWithJob, Agents
  <1>20. ASSUME NEW w \in Workers, Activate(w) PROVE SagaInv'
    BY <1>handler, <1>refunds, <1>job, <1>20 DEF Activate, money
  <1>21. ASSUME NEW w \in Workers, Finalize(w) PROVE SagaInv'
    BY <1>handler, <1>refunds, <1>job, <1>on, <1>at, <1>busy, <1>21
    DEF Finalize, Finish, money, BusyWithJob, Agents
  <1>22. ASSUME NEW w \in Workers, JobTimeout(w) PROVE SagaInv'
    BY <1>handler, <1>refunds, <1>job, <1>22 DEF JobTimeout, money
  <1>23. ASSUME NEW a \in Agents, DeleteInstance(a) PROVE SagaInv'
    BY <1>handler, <1>refunds, <1>job, <1>23 DEF DeleteInstance, money
  <1>36. ASSUME NEW a \in Agents, ReadAmount(a) PROVE SagaInv'
    BY <1>handler, <1>refunds, <1>job, <1>36 DEF ReadAmount, money
  <1>24. ASSUME NEW a \in Agents, ReleaseIP(a) PROVE SagaInv'
    BY <1>handler, <1>refunds, <1>job, <1>24 DEF ReleaseIP, money
  <1>25. ASSUME NEW a \in Agents, RefundOnce(a) PROVE SagaInv'
    BY <1>handler, <1>refunds, <1>job, <1>on, <1>at, <1>busy, <1>25
    DEF RefundOnce, Credit, money, BusyWithJob, Agents, RefundDue
  <1>26. ASSUME NEW a \in Agents, CancelOrder(a) PROVE SagaInv'
    BY <1>handler, <1>refunds, <1>job, <1>26 DEF CancelOrder, money
  <1>27. ASSUME NEW a \in Agents, MarkError(a) PROVE SagaInv'
    BY <1>handler, <1>refunds, <1>job, <1>on, <1>at, <1>busy, <1>27
    DEF MarkError, money, BusyWithJob, Agents
  <1>28. ASSUME FindStale PROVE SagaInv'
    BY <1>handler, <1>refunds, <1>job, <1>28 DEF FindStale, money
  <1>29. ASSUME Recover PROVE SagaInv'
    BY <1>handler, <1>refunds, <1>job, <1>29 DEF Recover, money
  <1>30. ASSUME SweepEnds PROVE SagaInv'
    BY <1>handler, <1>refunds, <1>job, <1>30 DEF SweepEnds, money
  <1>31. ASSUME Crash PROVE SagaInv'
    BY <1>handler, <1>refunds, <1>job, <1>31 DEF Crash, money
  <1>32. ASSUME NEW o \in Orders, CancelIfPending(o) PROVE SagaInv'
    BY <1>handler, <1>refunds, <1>job, <1>32 DEF CancelIfPending, money
  <1>33. ASSUME NEW o \in Orders, NEW s \in OrderStatus, AdminCheck(o, s) PROVE SagaInv'
    BY <1>handler, <1>refunds, <1>job, <1>33 DEF AdminCheck, money
  <1>34. ASSUME AdminWrite PROVE SagaInv'
    BY <1>handler, <1>refunds, <1>job, <1>34 DEF AdminWrite, money
  <1>35. CASE UNCHANGED vars
    BY <1>35 DEF vars, money, rows, memory, agents
  <1> QED
    BY <1>1, <1>2, <1>3, <1>4, <1>5, <1>6, <1>7, <1>8, <1>9, <1>10, <1>11, <1>12, <1>13,
       <1>14, <1>15, <1>16, <1>17, <1>18, <1>19, <1>20, <1>21, <1>22, <1>23, <1>24, <1>25,
       <1>26, <1>27, <1>28, <1>29, <1>30, <1>31, <1>32, <1>33, <1>34, <1>35, <1>36
    DEF Next, PayStep, WorkerStep, RollbackStepOf, SweeperStep, Agents

\* AllocateNext takes free addresses only, and nobody makes one free again.
LEMMA AddressInvStep == TypeInv /\ AddressInv /\ SagaInv /\ JobsExist /\ [Next]_vars =>
   AddressInv'
  <1> SUFFICES ASSUME TypeInv, AddressInv, SagaInv, JobsExist, [Next]_vars PROVE AddressInv'
    OBVIOUS
  <1> USE ProvisioningAssumption DEF AddressInv, SagaInv, JobsExist
  <1>ip. ip \in [Requests -> IPs \cup {None}]
    BY DEF TypeInv, TypeOK
  <1>addr. addr \in [IPs -> AddressRow]
    BY DEF TypeInv, TypeOK
  <1>vm. vm \in [Requests -> VMStatus]
    BY DEF TypeInv, TypeOK
  <1>handler. handler \in [Requests -> HandlerStep]
    BY DEF TypeInv, TypeOK
  <1>job. job \in [Requests -> JobStatus]
    BY DEF TypeInv, TypeOK
  <1>on. on \in [Agents -> Requests \cup {None}]
    BY DEF TypeInv, TypeOK
  <1>at. at \in [Agents -> AgentStep]
    BY DEF TypeInv, TypeOK
  <1>busy. BusyWithJob
    BY DEF TypeInv
  <1>1. ASSUME NEW p \in Requests, CheckQuota(p) PROVE AddressInv'
    BY <1>ip, <1>addr, <1>vm, <1>handler, <1>job, <1>1 DEF CheckQuota, Goto, rows
  <1>2. ASSUME NEW p \in Requests, PayWithBalance(p) PROVE AddressInv'
    BY <1>ip, <1>addr, <1>vm, <1>handler, <1>job, <1>2 DEF PayWithBalance, Goto, rows
  <1>3. ASSUME NEW p \in Requests, NoProduct(p) PROVE AddressInv'
    BY <1>ip, <1>addr, <1>vm, <1>handler, <1>job, <1>3 DEF NoProduct, Goto, rows
  <1>4. ASSUME NEW p \in Requests, AllocateIP(p) PROVE AddressInv'
    <2>1. CASE Goto(p, "refund") /\ UNCHANGED <<addr, ip>>
      BY <1>handler, <2>1, <1>4 DEF AllocateIP, Goto
    <2>2. ASSUME NEW i \in IPs, Free(i),
                 addr' = [addr EXCEPT ![i] = [status |-> "assigned", vm |-> None]],
                 ip' = [ip EXCEPT ![p] = i], Goto(p, "provisioning")
          PROVE  AddressInv'
      <3>0. \A q \in Requests : ip[q] \in IPs \cup {None}
        BY <1>ip
      <3>1. \A q \in Requests : ip[q] # i
        BY <2>2 DEF Free
      <3>2. \A q \in Requests : ip'[q] = IF q = p THEN i ELSE ip[q]
        BY <1>ip, <2>2
      <3>3. \A j \in IPs : addr'[j].status # "available" <=> j = i \/ addr[j].status #
         "available"
        BY <1>addr, <2>2 DEF Free
      <3>4. UNCHANGED <<vm, job>>
        BY <1>4 DEF AllocateIP
      <3>5. \A q \in Requests : handler'[q] = IF q = p THEN "provisioning" ELSE handler[q]
        BY <1>handler, <2>2 DEF Goto
      <3>6. \A q \in Requests : ip'[q] # None => addr'[ip'[q]].status # "available"
        <4> SUFFICES ASSUME NEW q \in Requests, ip'[q] # None
                     PROVE  addr'[ip'[q]].status # "available"
          OBVIOUS
        <4>1. CASE q = p
          BY <2>2, <3>2, <3>3, <4>1
        <4>2. CASE q # p
          <5>1. ip'[q] = ip[q] /\ ip[q] \in IPs /\ ip[q] # None
            BY <3>0, <3>2, <4>2
          <5>2. addr[ip[q]].status # "available"
            BY <5>1 DEF AddressInv
          <5> QED BY <3>3, <5>1, <5>2
        <4> QED BY <4>1, <4>2
      <3>7. \A q, r \in Requests : q # r /\ ip'[q] # None => ip'[q] # ip'[r]
        BY <1>ip, <3>1, <3>2
      <3> QED
        BY <3>2, <3>4, <3>5, <3>6, <3>7, <1>4 DEF AllocateIP
    <2> QED
      BY <2>1, <2>2, <1>4 DEF AllocateIP
  <1>5. ASSUME NEW p \in Requests, SetProvisioning(p) PROVE AddressInv'
    BY <1>ip, <1>addr, <1>vm, <1>handler, <1>job, <1>5 DEF SetProvisioning, Goto, rows
  <1>6. ASSUME NEW p \in Requests, InsertVM(p) PROVE AddressInv'
    BY <1>ip, <1>addr, <1>vm, <1>handler, <1>job, <1>6 DEF InsertVM, Goto
  <1>7. ASSUME NEW p \in Requests, AttachIP(p) PROVE AddressInv'
    <2>1. \A i \in IPs : addr'[i].status = addr[i].status
      BY <1>addr, <1>7 DEF AttachIP, AddressRow
    <2> QED
      BY <1>ip, <1>handler, <2>1, <1>7 DEF AttachIP, Goto
  <1>8. ASSUME NEW p \in Requests, InsertJob(p) PROVE AddressInv'
    BY <1>ip, <1>addr, <1>vm, <1>handler, <1>job, <1>8 DEF InsertJob, Goto, rows
  <1>9. ASSUME NEW p \in Requests, Enqueue(p) PROVE AddressInv'
    BY <1>ip, <1>addr, <1>vm, <1>handler, <1>job, <1>9 DEF Enqueue, Goto, rows
  <1>10. ASSUME NEW p \in Requests, RefundPayment(p) PROVE AddressInv'
    BY <1>ip, <1>addr, <1>vm, <1>handler, <1>job, <1>10 DEF RefundPayment, Goto, rows
  <1>11. ASSUME NEW p \in Requests, ReleasePaid(p) PROVE AddressInv'
    BY <1>ip, <1>addr, <1>vm, <1>handler, <1>job, <1>11
    DEF ReleasePaid, Goto, Release, AddressRow
  <1>12. ASSUME NEW p \in Requests, CancelPaid(p) PROVE AddressInv'
    BY <1>ip, <1>addr, <1>vm, <1>handler, <1>job, <1>12 DEF CancelPaid, Goto, rows
  <1>13. ASSUME NEW p \in Requests, Disconnect(p) PROVE AddressInv'
    BY <1>ip, <1>addr, <1>vm, <1>handler, <1>job, <1>13 DEF Disconnect, Goto, rows
  <1>14. ASSUME NEW p \in Requests, Age(p) PROVE AddressInv'
    BY <1>ip, <1>addr, <1>vm, <1>handler, <1>job, <1>14 DEF Age, rows
  <1>15. ASSUME NEW w \in Workers, Take(w) PROVE AddressInv'
    BY <1>ip, <1>addr, <1>vm, <1>handler, <1>job, <1>15 DEF Take, rows
  <1>16. ASSUME NEW w \in Workers, MarkRunning(w) PROVE AddressInv'
    BY <1>ip, <1>addr, <1>vm, <1>handler, <1>job, <1>on, <1>at, <1>busy, <1>16
    DEF MarkRunning, rows, BusyWithJob, Agents
  <1>17. ASSUME NEW w \in Workers, Submit(w) PROVE AddressInv'
    BY <1>ip, <1>addr, <1>vm, <1>handler, <1>job, <1>17 DEF Submit, rows
  <1>18. ASSUME NEW w \in Workers, Start(w) PROVE AddressInv'
    BY <1>ip, <1>addr, <1>vm, <1>handler, <1>job, <1>18 DEF Start, rows
  <1>19. ASSUME NEW w \in Workers, UpdateVM(w) PROVE AddressInv'
    BY <1>ip, <1>addr, <1>vm, <1>handler, <1>job, <1>on, <1>at, <1>busy, <1>19
    DEF UpdateVM, BusyWithJob, Agents
  <1>20. ASSUME NEW w \in Workers, Activate(w) PROVE AddressInv'
    BY <1>ip, <1>addr, <1>vm, <1>handler, <1>job, <1>20 DEF Activate, rows
  <1>21. ASSUME NEW w \in Workers, Finalize(w) PROVE AddressInv'
    BY <1>ip, <1>addr, <1>vm, <1>handler, <1>job, <1>on, <1>at, <1>busy, <1>21
    DEF Finalize, Finish, rows, BusyWithJob, Agents
  <1>22. ASSUME NEW w \in Workers, JobTimeout(w) PROVE AddressInv'
    BY <1>ip, <1>addr, <1>vm, <1>handler, <1>job, <1>22 DEF JobTimeout, rows
  <1>23. ASSUME NEW a \in Agents, DeleteInstance(a) PROVE AddressInv'
    BY <1>ip, <1>addr, <1>vm, <1>handler, <1>job, <1>23 DEF DeleteInstance, rows
  <1>36. ASSUME NEW a \in Agents, ReadAmount(a) PROVE AddressInv'
    BY <1>ip, <1>addr, <1>vm, <1>handler, <1>job, <1>36 DEF ReadAmount, rows
  <1>24. ASSUME NEW a \in Agents, ReleaseIP(a) PROVE AddressInv'
    BY <1>ip, <1>addr, <1>vm, <1>handler, <1>job, <1>24 DEF ReleaseIP, Release, AddressRow
  <1>25. ASSUME NEW a \in Agents, RefundOnce(a) PROVE AddressInv'
    BY <1>ip, <1>addr, <1>vm, <1>handler, <1>job, <1>on, <1>at, <1>busy, <1>25
    DEF RefundOnce, rows, BusyWithJob, Agents
  <1>26. ASSUME NEW a \in Agents, CancelOrder(a) PROVE AddressInv'
    BY <1>ip, <1>addr, <1>vm, <1>handler, <1>job, <1>26 DEF CancelOrder, rows
  <1>27. ASSUME NEW a \in Agents, MarkError(a) PROVE AddressInv'
    BY <1>ip, <1>addr, <1>vm, <1>handler, <1>job, <1>on, <1>at, <1>busy, <1>27
    DEF MarkError, BusyWithJob, Agents
  <1>28. ASSUME FindStale PROVE AddressInv'
    BY <1>ip, <1>addr, <1>vm, <1>handler, <1>job, <1>28 DEF FindStale, rows
  <1>29. ASSUME Recover PROVE AddressInv'
    BY <1>ip, <1>addr, <1>vm, <1>handler, <1>job, <1>29 DEF Recover, rows
  <1>30. ASSUME SweepEnds PROVE AddressInv'
    BY <1>ip, <1>addr, <1>vm, <1>handler, <1>job, <1>30 DEF SweepEnds, rows
  <1>31. ASSUME Crash PROVE AddressInv'
    BY <1>ip, <1>addr, <1>vm, <1>handler, <1>job, <1>31 DEF Crash, rows
  <1>32. ASSUME NEW o \in Orders, CancelIfPending(o) PROVE AddressInv'
    BY <1>ip, <1>addr, <1>vm, <1>handler, <1>job, <1>32 DEF CancelIfPending, rows
  <1>33. ASSUME NEW o \in Orders, NEW s \in OrderStatus, AdminCheck(o, s) PROVE AddressInv'
    BY <1>ip, <1>addr, <1>vm, <1>handler, <1>job, <1>33 DEF AdminCheck, rows
  <1>34. ASSUME AdminWrite PROVE AddressInv'
    BY <1>ip, <1>addr, <1>vm, <1>handler, <1>job, <1>34 DEF AdminWrite, rows
  <1>35. CASE UNCHANGED vars
    BY <1>35 DEF vars, money, rows, memory, agents
  <1> QED
    BY <1>1, <1>2, <1>3, <1>4, <1>5, <1>6, <1>7, <1>8, <1>9, <1>10, <1>11, <1>12, <1>13,
       <1>14, <1>15, <1>16, <1>17, <1>18, <1>19, <1>20, <1>21, <1>22, <1>23, <1>24, <1>25,
       <1>26, <1>27, <1>28, <1>29, <1>30, <1>31, <1>32, <1>33, <1>34, <1>35, <1>36
    DEF Next, PayStep, WorkerStep, RollbackStepOf, SweeperStep, Agents

-----------------------------------------------------------------------------
(* The invariant and the safety properties                                 *)

IInv == TypeInv /\ JobsExist /\ SagaInv /\ AddressInv

\* The invariant holds at the start.
LEMMA IInvInit == Init => IInv
  <1> SUFFICES ASSUME Init PROVE IInv
    OBVIOUS
  <1>1. TypeInv
    BY TypeInvInit
  <1>2. JobsExist
    BY ProvisioningAssumption DEF Init, JobsExist
  <1>3. SagaInv
    BY DEF Init, SagaInv
  <1>4. AddressInv
    BY DEF Init, AddressInv
  <1> QED BY <1>1, <1>2, <1>3, <1>4 DEF IInv

\* Each step keeps the invariant.
LEMMA IInvStep == IInv /\ [Next]_vars => IInv'
  BY TypeInvStep, JobsExistStep, SagaInvStep, AddressInvStep DEF IInv

\* The invariant holds of every reachable state.
THEOREM IInvHolds == Spec => []IInv
  BY IInvInit, IInvStep, PTL DEF Spec

\* Every variable keeps its type: in particular the balance of a user who pays from
\* several requests at a time never becomes negative.
THEOREM TypeCorrect == Spec => []TypeOK
  <1>1. IInv => TypeOK
    BY DEF IInv, TypeInv
  <1> QED BY <1>1, IInvHolds, PTL

\* Two VMs that are being made or run never have the same address.
THEOREM AddressesExclusive == Spec => []AddressExclusive
  <1>1. IInv => AddressExclusive
    BY DEF IInv, AddressInv, AddressExclusive
  <1> QED BY <1>1, IInvHolds, PTL

\* What a step may do to a finished job and to a row that a rollback has marked.
FinishedStays ==
  \A p \in Requests : job[p] \in Terminal => job'[p] \notin {"queued", "running"}
ErrorStays == \A p \in Requests : vm[p] = "error" => vm'[p] = "error"

\* Only MarkRunning starts a job, and its WHERE clause asks for a queued one.
LEMMA FinishedStaysStep == IInv /\ [Next]_vars => FinishedStays
  <1> SUFFICES ASSUME IInv, [Next]_vars PROVE FinishedStays
    OBVIOUS
  <1> USE ProvisioningAssumption DEF FinishedStays
  <1>job. job \in [Requests -> JobStatus]
    BY DEF IInv, TypeInv, TypeOK
  <1>vm. vm \in [Requests -> VMStatus]
    BY DEF IInv, TypeInv, TypeOK
  <1>1. ASSUME NEW p \in Requests, CheckQuota(p) PROVE FinishedStays
    BY <1>1 DEF CheckQuota, Terminal
  <1>2. ASSUME NEW p \in Requests, PayWithBalance(p) PROVE FinishedStays
    BY <1>2 DEF PayWithBalance, Terminal
  <1>3. ASSUME NEW p \in Requests, NoProduct(p) PROVE FinishedStays
    BY <1>3 DEF NoProduct, Terminal
  <1>4. ASSUME NEW p \in Requests, AllocateIP(p) PROVE FinishedStays
    BY <1>4 DEF AllocateIP, Terminal
  <1>5. ASSUME NEW p \in Requests, SetProvisioning(p) PROVE FinishedStays
    BY <1>5 DEF SetProvisioning, Terminal
  <1>6. ASSUME NEW p \in Requests, InsertVM(p) PROVE FinishedStays
    BY <1>6 DEF InsertVM, Terminal
  <1>7. ASSUME NEW p \in Requests, AttachIP(p) PROVE FinishedStays
    BY <1>7 DEF AttachIP, Terminal
  <1>8. ASSUME NEW p \in Requests, InsertJob(p) PROVE FinishedStays
    BY <1>job, <1>8 DEF IInv, SagaInv, InsertJob, Terminal
  <1>9. ASSUME NEW p \in Requests, Enqueue(p) PROVE FinishedStays
    BY <1>9 DEF Enqueue, Terminal
  <1>10. ASSUME NEW p \in Requests, RefundPayment(p) PROVE FinishedStays
    BY <1>10 DEF RefundPayment, Terminal
  <1>11. ASSUME NEW p \in Requests, ReleasePaid(p) PROVE FinishedStays
    BY <1>11 DEF ReleasePaid, Terminal
  <1>12. ASSUME NEW p \in Requests, CancelPaid(p) PROVE FinishedStays
    BY <1>12 DEF CancelPaid, Terminal
  <1>13. ASSUME NEW p \in Requests, Disconnect(p) PROVE FinishedStays
    BY <1>13 DEF Disconnect, Terminal
  <1>14. ASSUME NEW p \in Requests, Age(p) PROVE FinishedStays
    BY <1>14 DEF Age, Terminal
  <1>15. ASSUME NEW w \in Workers, Take(w) PROVE FinishedStays
    BY <1>15 DEF Take, Terminal
  <1>16. ASSUME NEW w \in Workers, MarkRunning(w) PROVE FinishedStays
    BY <1>job, <1>16 DEF MarkRunning, Claimable, Terminal
  <1>17. ASSUME NEW w \in Workers, Submit(w) PROVE FinishedStays
    BY <1>17 DEF Submit, Terminal
  <1>18. ASSUME NEW w \in Workers, Start(w) PROVE FinishedStays
    BY <1>18 DEF Start, Terminal
  <1>19. ASSUME NEW w \in Workers, UpdateVM(w) PROVE FinishedStays
    BY <1>19 DEF UpdateVM, Terminal
  <1>20. ASSUME NEW w \in Workers, Activate(w) PROVE FinishedStays
    BY <1>20 DEF Activate, Terminal
  <1>21. ASSUME NEW w \in Workers, Finalize(w) PROVE FinishedStays
    BY <1>job, <1>21 DEF Finalize, Finish, Terminal
  <1>22. ASSUME NEW w \in Workers, JobTimeout(w) PROVE FinishedStays
    BY <1>22 DEF JobTimeout, Terminal
  <1>23. ASSUME NEW a \in Agents, DeleteInstance(a) PROVE FinishedStays
    BY <1>23 DEF DeleteInstance, Terminal
  <1>36. ASSUME NEW a \in Agents, ReadAmount(a) PROVE FinishedStays
    BY <1>36 DEF ReadAmount, Terminal
  <1>24. ASSUME NEW a \in Agents, ReleaseIP(a) PROVE FinishedStays
    BY <1>24 DEF ReleaseIP, Terminal
  <1>25. ASSUME NEW a \in Agents, RefundOnce(a) PROVE FinishedStays
    BY <1>25 DEF RefundOnce, Terminal
  <1>26. ASSUME NEW a \in Agents, CancelOrder(a) PROVE FinishedStays
    BY <1>26 DEF CancelOrder, Terminal
  <1>27. ASSUME NEW a \in Agents, MarkError(a) PROVE FinishedStays
    BY <1>27 DEF MarkError, Terminal
  <1>28. ASSUME FindStale PROVE FinishedStays
    BY <1>28 DEF FindStale, Terminal
  <1>29. ASSUME Recover PROVE FinishedStays
    BY <1>job, <1>29 DEF Recover, Terminal
  <1>30. ASSUME SweepEnds PROVE FinishedStays
    BY <1>30 DEF SweepEnds, Terminal
  <1>31. ASSUME Crash PROVE FinishedStays
    BY <1>31 DEF Crash, Terminal
  <1>32. ASSUME NEW o \in Orders, CancelIfPending(o) PROVE FinishedStays
    BY <1>32 DEF CancelIfPending, Terminal
  <1>33. ASSUME NEW o \in Orders, NEW s \in OrderStatus, AdminCheck(o, s) PROVE
     FinishedStays
    BY <1>33 DEF AdminCheck, Terminal
  <1>34. ASSUME AdminWrite PROVE FinishedStays
    BY <1>34 DEF AdminWrite, Terminal
  <1>35. CASE UNCHANGED vars
    BY <1>35 DEF vars, Terminal
  <1> QED
    BY <1>1, <1>2, <1>3, <1>4, <1>5, <1>6, <1>7, <1>8, <1>9, <1>10, <1>11, <1>12, <1>13,
       <1>14, <1>15, <1>16, <1>17, <1>18, <1>19, <1>20, <1>21, <1>22, <1>23, <1>24, <1>25,
       <1>26, <1>27, <1>28, <1>29, <1>30, <1>31, <1>32, <1>33, <1>34, <1>35, <1>36
    DEF Next, PayStep, WorkerStep, RollbackStepOf, SweeperStep, Agents

\* Only InsertVM and UpdateAfterProvision write another status than error: the one to a
\* row that does not exist yet, the other not over error.
LEMMA ErrorStaysStep == IInv /\ [Next]_vars => ErrorStays
  <1> SUFFICES ASSUME IInv, [Next]_vars PROVE ErrorStays
    OBVIOUS
  <1> USE ProvisioningAssumption DEF ErrorStays
  <1>job. job \in [Requests -> JobStatus]
    BY DEF IInv, TypeInv, TypeOK
  <1>vm. vm \in [Requests -> VMStatus]
    BY DEF IInv, TypeInv, TypeOK
  <1>1. ASSUME NEW p \in Requests, CheckQuota(p) PROVE ErrorStays
    BY <1>1 DEF CheckQuota, rows
  <1>2. ASSUME NEW p \in Requests, PayWithBalance(p) PROVE ErrorStays
    BY <1>2 DEF PayWithBalance, rows
  <1>3. ASSUME NEW p \in Requests, NoProduct(p) PROVE ErrorStays
    BY <1>3 DEF NoProduct, rows
  <1>4. ASSUME NEW p \in Requests, AllocateIP(p) PROVE ErrorStays
    BY <1>4 DEF AllocateIP, rows
  <1>5. ASSUME NEW p \in Requests, SetProvisioning(p) PROVE ErrorStays
    BY <1>5 DEF SetProvisioning, rows
  <1>6. ASSUME NEW p \in Requests, InsertVM(p) PROVE ErrorStays
    BY <1>vm, <1>6 DEF IInv, AddressInv, InsertVM
  <1>7. ASSUME NEW p \in Requests, AttachIP(p) PROVE ErrorStays
    BY <1>7 DEF AttachIP, rows
  <1>8. ASSUME NEW p \in Requests, InsertJob(p) PROVE ErrorStays
    BY <1>8 DEF InsertJob, rows
  <1>9. ASSUME NEW p \in Requests, Enqueue(p) PROVE ErrorStays
    BY <1>9 DEF Enqueue, rows
  <1>10. ASSUME NEW p \in Requests, RefundPayment(p) PROVE ErrorStays
    BY <1>10 DEF RefundPayment, rows
  <1>11. ASSUME NEW p \in Requests, ReleasePaid(p) PROVE ErrorStays
    BY <1>11 DEF ReleasePaid, rows
  <1>12. ASSUME NEW p \in Requests, CancelPaid(p) PROVE ErrorStays
    BY <1>12 DEF CancelPaid, rows
  <1>13. ASSUME NEW p \in Requests, Disconnect(p) PROVE ErrorStays
    BY <1>13 DEF Disconnect, rows
  <1>14. ASSUME NEW p \in Requests, Age(p) PROVE ErrorStays
    BY <1>14 DEF Age, rows
  <1>15. ASSUME NEW w \in Workers, Take(w) PROVE ErrorStays
    BY <1>15 DEF Take, rows
  <1>16. ASSUME NEW w \in Workers, MarkRunning(w) PROVE ErrorStays
    BY <1>16 DEF MarkRunning, rows
  <1>17. ASSUME NEW w \in Workers, Submit(w) PROVE ErrorStays
    BY <1>17 DEF Submit, rows
  <1>18. ASSUME NEW w \in Workers, Start(w) PROVE ErrorStays
    BY <1>18 DEF Start, rows
  <1>19. ASSUME NEW w \in Workers, UpdateVM(w) PROVE ErrorStays
    BY <1>vm, <1>19 DEF UpdateVM, Provisioned
  <1>20. ASSUME NEW w \in Workers, Activate(w) PROVE ErrorStays
    BY <1>20 DEF Activate, rows
  <1>21. ASSUME NEW w \in Workers, Finalize(w) PROVE ErrorStays
    BY <1>21 DEF Finalize, rows
  <1>22. ASSUME NEW w \in Workers, JobTimeout(w) PROVE ErrorStays
    BY <1>22 DEF JobTimeout, rows
  <1>23. ASSUME NEW a \in Agents, DeleteInstance(a) PROVE ErrorStays
    BY <1>23 DEF DeleteInstance, rows
  <1>36. ASSUME NEW a \in Agents, ReadAmount(a) PROVE ErrorStays
    BY <1>36 DEF ReadAmount, rows
  <1>24. ASSUME NEW a \in Agents, ReleaseIP(a) PROVE ErrorStays
    BY <1>24 DEF ReleaseIP, rows
  <1>25. ASSUME NEW a \in Agents, RefundOnce(a) PROVE ErrorStays
    BY <1>25 DEF RefundOnce, rows
  <1>26. ASSUME NEW a \in Agents, CancelOrder(a) PROVE ErrorStays
    BY <1>26 DEF CancelOrder, rows
  <1>27. ASSUME NEW a \in Agents, MarkError(a) PROVE ErrorStays
    BY <1>vm, <1>27 DEF MarkError
  <1>28. ASSUME FindStale PROVE ErrorStays
    BY <1>28 DEF FindStale, rows
  <1>29. ASSUME Recover PROVE ErrorStays
    BY <1>29 DEF Recover, rows
  <1>30. ASSUME SweepEnds PROVE ErrorStays
    BY <1>30 DEF SweepEnds, rows
  <1>31. ASSUME Crash PROVE ErrorStays
    BY <1>31 DEF Crash, rows
  <1>32. ASSUME NEW o \in Orders, CancelIfPending(o) PROVE ErrorStays
    BY <1>32 DEF CancelIfPending, rows
  <1>33. ASSUME NEW o \in Orders, NEW s \in OrderStatus, AdminCheck(o, s) PROVE ErrorStays
    BY <1>33 DEF AdminCheck, rows
  <1>34. ASSUME AdminWrite PROVE ErrorStays
    BY <1>34 DEF AdminWrite, rows
  <1>35. CASE UNCHANGED vars
    BY <1>35 DEF vars, rows
  <1> QED
    BY <1>1, <1>2, <1>3, <1>4, <1>5, <1>6, <1>7, <1>8, <1>9, <1>10, <1>11, <1>12, <1>13,
       <1>14, <1>15, <1>16, <1>17, <1>18, <1>19, <1>20, <1>21, <1>22, <1>23, <1>24, <1>25,
       <1>26, <1>27, <1>28, <1>29, <1>30, <1>31, <1>32, <1>33, <1>34, <1>35, <1>36
    DEF Next, PayStep, WorkerStep, RollbackStepOf, SweeperStep, Agents

\* A job that has reached a final status is never started again, whoever finished it and
\* wherever it still waits.
THEOREM FinishedJobsStay == Spec => FinishedNeverRuns
  <1>1. IInv /\ [Next]_vars => [FinishedStays]_vars
    BY FinishedStaysStep
  <1> QED BY <1>1, IInvHolds, PTL DEF Spec, FinishedNeverRuns, FinishedStays

\* A row marked by a rollback is never turned back to running.
THEOREM ErrorRowsStay == Spec => ErrorRowSticks
  <1>1. IInv /\ [Next]_vars => [ErrorStays]_vars
    BY ErrorStaysStep
  <1> QED BY <1>1, IInvHolds, PTL DEF Spec, ErrorRowSticks, ErrorStays

-----------------------------------------------------------------------------
(* Provisioning implements Ledger                                          *)

\* The ledger starts where the orders start.
LEMMA LedgerInitMaps == Init => Billing!LedgerInit
  BY DEF Init, Billing!LedgerInit, chargeState

\* The bookkeeping of a request decides what the ledger says of it.
LEMMA ChargeOf ==
  ASSUME IInv, NEW p \in Requests
  PROVE  /\ chargeState[p] = IF p \notin payments THEN "none"
                             ELSE IF refunds[p] = 0 THEN "charged" ELSE "refunded"
         /\ p \notin payments => refunds[p] = 0
  BY DEF IInv, SagaInv, chargeState

\* A refund by the handler or by RefundOnce is the ledger's.
LEMMA CreditMaps ==
  ASSUME IInv, NEW p \in Requests, p \in payments, refunds[p] = 0, Credit(p)
  PROVE  Billing!GiveBack(p)
  <1>1. refunds \in [Requests -> Nat]
    BY DEF IInv, TypeInv, TypeOK
  <1>2. \A q \in Requests : refunds'[q] = IF q = p THEN 1 ELSE refunds[q]
    BY <1>1 DEF Credit
  <1>3. chargeState' = [chargeState EXCEPT ![p] = "refunded"]
    <2>1. \A q \in Requests : chargeState'[q] = IF q = p THEN "refunded" ELSE chargeState[q]
      BY <1>2 DEF Credit, chargeState
    <2> QED BY <2>1 DEF chargeState
  <1>4. chargeState[p] = "charged"
    BY ChargeOf
  <1> QED
    BY <1>3, <1>4 DEF Credit, Billing!GiveBack

\* Each step is a step of the ledger or leaves it alone.
LEMMA LedgerStepMaps == IInv /\ [Next]_vars => [Billing!LedgerNext]_(Billing!ledgerVars)
  <1> SUFFICES ASSUME IInv, [Next]_vars PROVE [Billing!LedgerNext]_(Billing!ledgerVars)
    OBVIOUS
  <1> DEFINE Kept == UNCHANGED <<balance, payments, refunds>>
  <1>kept. ASSUME Kept PROVE UNCHANGED Billing!ledgerVars
    BY <1>kept DEF Billing!ledgerVars, chargeState
  <1>1. ASSUME NEW p \in Requests, PayWithBalance(p) PROVE
     [Billing!LedgerNext]_(Billing!ledgerVars)
    <2>1. CASE Payable(p)
      <3>1. /\ p \notin payments /\ payments' = payments \cup {p} /\ UNCHANGED refunds
            /\ balance' = balance - Price[OrderOf[p]] /\ balance >= Price[OrderOf[p]]
        BY <1>1, <2>1 DEF IInv, SagaInv, PayWithBalance, Payable
      <3>2. refunds[p] = 0 /\ chargeState[p] = "none"
        BY <3>1, ChargeOf
      <3>3. chargeState' = [chargeState EXCEPT ![p] = "charged"]
        BY <3>1, <3>2 DEF chargeState
      <3>4. Billing!Debit(p)
        BY <3>1, <3>2, <3>3 DEF Billing!Debit
      <3> QED BY <3>4 DEF Billing!LedgerNext
    <2>2. CASE ~Payable(p)
      BY <1>1, <1>kept, <2>2 DEF PayWithBalance
    <2> QED BY <2>1, <2>2
  <1>2. ASSUME NEW p \in Requests, RefundPayment(p) PROVE
     [Billing!LedgerNext]_(Billing!ledgerVars)
    <2>1. p \in payments /\ refunds[p] = 0
      BY <1>2 DEF IInv, SagaInv, RefundPayment
    <2>2. CASE Credit(p)
      BY <2>1, <2>2, CreditMaps DEF Billing!LedgerNext
    <2>3. CASE UNCHANGED money
      BY <2>3, <1>kept DEF money
    <2> QED BY <1>2, <2>2, <2>3 DEF RefundPayment
  <1>3. ASSUME NEW a \in Agents, RefundOnce(a) PROVE
     [Billing!LedgerNext]_(Billing!ledgerVars)
    <2>1. on[a] \in Requests /\ job[on[a]] # "none"
      BY <1>3 DEF IInv, TypeInv, BusyWithJob, JobsExist, RefundOnce
    <2>2. CASE RefundDue(a) /\ Credit(on[a])
      <3>1. on[a] \in payments /\ refunds[on[a]] = 0
        BY <2>1, <2>2 DEF IInv, SagaInv, RefundDue
      <3> QED BY <2>1, <2>2, <3>1, CreditMaps DEF Billing!LedgerNext
    <2>3. CASE UNCHANGED money
      BY <2>3, <1>kept DEF money
    <2> QED BY <1>3, <2>2, <2>3 DEF RefundOnce
  <1>4. ASSUME NEW p \in Requests, CheckQuota(p) PROVE Kept
    BY <1>4 DEF CheckQuota, money
  <1>5. ASSUME NEW p \in Requests, NoProduct(p) PROVE Kept
    BY <1>5 DEF NoProduct, money
  <1>6. ASSUME NEW p \in Requests, AllocateIP(p) PROVE Kept
    BY <1>6 DEF AllocateIP, money
  <1>7. ASSUME NEW p \in Requests, SetProvisioning(p) PROVE Kept
    BY <1>7 DEF SetProvisioning, money
  <1>8. ASSUME NEW p \in Requests, InsertVM(p) PROVE Kept
    BY <1>8 DEF InsertVM, money
  <1>9. ASSUME NEW p \in Requests, AttachIP(p) PROVE Kept
    BY <1>9 DEF AttachIP, money
  <1>10. ASSUME NEW p \in Requests, InsertJob(p) PROVE Kept
    BY <1>10 DEF InsertJob, money
  <1>11. ASSUME NEW p \in Requests, Enqueue(p) PROVE Kept
    BY <1>11 DEF Enqueue, money
  <1>12. ASSUME NEW p \in Requests, ReleasePaid(p) PROVE Kept
    BY <1>12 DEF ReleasePaid, money
  <1>13. ASSUME NEW p \in Requests, CancelPaid(p) PROVE Kept
    BY <1>13 DEF CancelPaid, money
  <1>14. ASSUME NEW p \in Requests, Disconnect(p) PROVE Kept
    BY <1>14 DEF Disconnect, money
  <1>15. ASSUME NEW p \in Requests, Age(p) PROVE Kept
    BY <1>15 DEF Age, money
  <1>16. ASSUME NEW w \in Workers, Take(w) PROVE Kept
    BY <1>16 DEF Take, money
  <1>17. ASSUME NEW w \in Workers, MarkRunning(w) PROVE Kept
    BY <1>17 DEF MarkRunning, money
  <1>18. ASSUME NEW w \in Workers, Submit(w) PROVE Kept
    BY <1>18 DEF Submit, money
  <1>19. ASSUME NEW w \in Workers, Start(w) PROVE Kept
    BY <1>19 DEF Start, money
  <1>20. ASSUME NEW w \in Workers, UpdateVM(w) PROVE Kept
    BY <1>20 DEF UpdateVM, money
  <1>21. ASSUME NEW w \in Workers, Activate(w) PROVE Kept
    BY <1>21 DEF Activate, money
  <1>22. ASSUME NEW w \in Workers, Finalize(w) PROVE Kept
    BY <1>22 DEF Finalize, money
  <1>23. ASSUME NEW w \in Workers, JobTimeout(w) PROVE Kept
    BY <1>23 DEF JobTimeout, money
  <1>24. ASSUME NEW a \in Agents, DeleteInstance(a) PROVE Kept
    BY <1>24 DEF DeleteInstance, money
  <1>36. ASSUME NEW a \in Agents, ReadAmount(a) PROVE Kept
    BY <1>36 DEF ReadAmount, money
  <1>25. ASSUME NEW a \in Agents, ReleaseIP(a) PROVE Kept
    BY <1>25 DEF ReleaseIP, money
  <1>26. ASSUME NEW a \in Agents, CancelOrder(a) PROVE Kept
    BY <1>26 DEF CancelOrder, money
  <1>27. ASSUME NEW a \in Agents, MarkError(a) PROVE Kept
    BY <1>27 DEF MarkError, money
  <1>28. ASSUME FindStale PROVE Kept
    BY <1>28 DEF FindStale, money
  <1>29. ASSUME Recover PROVE Kept
    BY <1>29 DEF Recover, money
  <1>30. ASSUME SweepEnds PROVE Kept
    BY <1>30 DEF SweepEnds, money
  <1>31. ASSUME Crash PROVE Kept
    BY <1>31 DEF Crash, money
  <1>32. ASSUME NEW o \in Orders, CancelIfPending(o) PROVE Kept
    BY <1>32 DEF CancelIfPending, money
  <1>33. ASSUME NEW o \in Orders, NEW s \in OrderStatus, AdminCheck(o, s) PROVE Kept
    BY <1>33 DEF AdminCheck, money
  <1>34. ASSUME AdminWrite PROVE Kept
    BY <1>34 DEF AdminWrite, money
  <1>35. CASE UNCHANGED vars
    BY <1>35, <1>kept DEF vars, money
  <1> HIDE DEF Kept
  <1> QED
    BY <1>kept, <1>1, <1>2, <1>3, <1>4, <1>5, <1>6, <1>7, <1>8, <1>9, <1>10, <1>11, <1>12,
       <1>13, <1>14, <1>15, <1>16, <1>17, <1>18, <1>19, <1>20, <1>21, <1>22, <1>23, <1>24,
       <1>25, <1>26, <1>27, <1>28, <1>29, <1>30, <1>31, <1>32, <1>33, <1>34, <1>35, <1>36
    DEF Next, PayStep, WorkerStep, RollbackStepOf, SweeperStep, Agents

\* The handlers, the workers and the sweeper together are a Ledger: nobody is charged twice
\* by one request, and no charge is given back twice.
THEOREM ImplementsLedger == Spec => LedgerKept
  BY LedgerInitMaps, LedgerStepMaps, IInvHolds, PTL DEF Spec, LedgerKept, Billing!LedgerSpec
=============================================================================
