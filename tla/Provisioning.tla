---------------------------- MODULE Provisioning ----------------------------
(***************************************************************************)
(* The purchase saga of incus-admin: an order is paid from the balance, an *)
(* address and a vms row are taken for it, and a vm.create job is queued   *)
(* for a pool of workers that talk to Incus. Whatever goes wrong on the    *)
(* way is compensated by the handler (rollbackPayment), by the worker that *)
(* runs the job, or by the sweeper that recovers stale jobs.               *)
(*                                                                         *)
(* Every database statement or transaction is one step, since any other    *)
(* goroutine may run between two of them. A Pay request creates at most    *)
(* one vms row and one job, so the request names them all.                 *)
(***************************************************************************)
EXTENDS Integers, Sequences, FiniteSets

CONSTANTS
  Requests,     \* calls of OrderHandler.Pay, and the rows and job of each
  Orders,       \* orders of one user
  OrderOf,      \* the order a request pays
  Price,        \* orders.amount
  Openings,     \* what the user's balance may be at the start
  MaxVMs,       \* quotas.max_vms of the user, 0 for no limit
  IPs,          \* addresses of the cluster's pools
  Workers,      \* goroutines of the pool (PoolSize)
  Sweeper,      \* the goroutine that recovers stale jobs
  QueueSize,    \* capacity of the job channel
  None,         \* no request, no address
  MaxFaults,    \* bound on the failures of a behaviour
  MaxAdmin      \* bound on the status changes an administrator makes

ASSUME ProvisioningAssumption ==
  /\ OrderOf \in [Requests -> Orders]
  /\ Price \in [Orders -> Nat]
  /\ Openings \subseteq Nat /\ MaxVMs \in Nat /\ QueueSize \in Nat
  /\ MaxFaults \in Nat /\ MaxAdmin \in Nat
  /\ Sweeper \notin Workers
  /\ None \notin Requests /\ None \notin IPs /\ None \notin Orders

VARIABLES
  order,       \* orders.status
  balance,     \* users.balance
  payments,    \* requests with a row of type payment in transactions
  refunds,     \* how many rows of type refund each request has there
  handler,     \* where the handler of a request is
  ip,          \* the address a request took (vms.ip once the row exists)
  addr,        \* ip_addresses: status and vm_id
  vm,          \* vms.status
  job,         \* provisioning_jobs.status
  refundDone,  \* jobs whose refund_done_at is set
  aged,        \* jobs whose created_at is more than 30 minutes ago
  inst,        \* the instance in Incus
  params,      \* jobs whose parameters are in the runtime's memory
  queue,       \* the channel between the handlers and the workers
  on,          \* the job a worker or the sweeper is at
  at,          \* and the step it is at
  priced,      \* of those that roll back, who knows the amount to refund
  stale,       \* what is left of the list the sweeper read
  admin,       \* a status change whose check passed and whose write is to come
  faults,      \* failures so far
  losses,      \* those of them that hit a refund, the reading of its amount, or the process
  admins       \* administrator's changes so far

money   == <<balance, payments, refunds>>
rows    == <<vm, ip, addr>>
memory  == <<params, queue>>
agents  == <<on, at, priced, stale>>
budgets == <<faults, losses, admins>>
vars == <<order, money, handler, rows, job, refundDone, aged, inst,
          memory, agents, admin, budgets>>

Agents == Workers \cup {Sweeper}

OrderStatus == {"pending", "paid", "provisioning", "active", "expired", "cancelled"}
VMStatus    == {"none", "creating", "running", "error"}
JobStatus   == {"none", "queued", "running", "succeeded", "failed", "partial"}
Terminal    == {"succeeded", "failed", "partial"}
InstanceState == {"none", "created", "running"}
AddressRow  == [status : {"available", "assigned", "cooldown"}, vm : Requests \cup {None}]

\* Where a Pay handler is: the call it makes next.
HandlerStep == {"idle", "pay", "ip", "provisioning", "vmrow", "attach", "job", "send",
                "refund", "release", "cancel", "done"}
InFlight    == HandlerStep \ {"idle", "done"}

\* Where a worker or the sweeper is: the call it makes next.
RunStep      == {"mark", "submit", "start", "vmrow", "activate", "succeed"}
RollbackStep == {"read", "delete", "release", "refund", "cancel", "vmerror"}
AgentStep    == {"idle", "fail", "next"} \cup RunStep \cup RollbackStep

TypeOK ==
  /\ order \in [Orders -> OrderStatus]
  /\ balance \in Nat
  /\ payments \in SUBSET Requests
  /\ refunds \in [Requests -> Nat]
  /\ handler \in [Requests -> HandlerStep]
  /\ ip \in [Requests -> IPs \cup {None}]
  /\ addr \in [IPs -> AddressRow]
  /\ vm \in [Requests -> VMStatus]
  /\ job \in [Requests -> JobStatus]
  /\ refundDone \in SUBSET Requests
  /\ aged \in SUBSET Requests
  /\ inst \in [Requests -> InstanceState]
  /\ params \in SUBSET Requests
  /\ queue \in Seq(Requests)
  /\ on \in [Agents -> Requests \cup {None}]
  /\ at \in [Agents -> AgentStep]
  /\ priced \in SUBSET Agents
  /\ stale \in SUBSET Requests
  /\ admin \in {None} \cup (Orders \X OrderStatus)
  /\ faults \in 0..MaxFaults
  /\ losses \in 0..faults
  /\ admins \in 0..MaxAdmin

\* Nothing is under way; some addresses belong to VMs made before.
Init ==
  /\ order = [o \in Orders |-> "pending"]
  /\ balance \in Openings
  /\ payments = {}
  /\ refunds = [p \in Requests |-> 0]
  /\ handler = [p \in Requests |-> "idle"]
  /\ ip = [p \in Requests |-> None]
  /\ addr \in [IPs -> [status : {"available", "assigned"}, vm : {None}]]
  /\ vm = [p \in Requests |-> "none"]
  /\ job = [p \in Requests |-> "none"]
  /\ refundDone = {}
  /\ aged = {}
  /\ inst = [p \in Requests |-> "none"]
  /\ params = {}
  /\ queue = <<>>
  /\ on = [a \in Agents |-> None]
  /\ at = [a \in Agents |-> "idle"]
  /\ priced = {}
  /\ stale = {}
  /\ admin = None
  /\ faults = 0
  /\ losses = 0
  /\ admins = 0

-----------------------------------------------------------------------------
(* What the handlers, the workers and the sweeper share.                   *)

\* A call to the database or to Incus fails.
Fault == faults < MaxFaults /\ faults' = faults + 1 /\ UNCHANGED <<losses, admins>>
Loss == faults < MaxFaults /\ faults' = faults + 1 /\ losses' = losses + 1 /\ UNCHANGED admins
NoFault == UNCHANGED budgets

SetOrder(p, s) == order' = [order EXCEPT ![OrderOf[p]] = s]

\* UPDATE ip_addresses SET vm_id = NULL, status = 'cooldown': whatever it was.
Release(i) ==
  addr' = IF i = None THEN addr
          ELSE [addr EXCEPT ![i] = [status |-> "cooldown", vm |-> None]]

\* The amount goes back to the balance with a row in transactions.
Credit(p) ==
  /\ balance' = balance + Price[OrderOf[p]]
  /\ refunds' = [refunds EXCEPT ![p] = @ + 1]
  /\ UNCHANGED payments

Goto(p, s) == handler' = [handler EXCEPT ![p] = s]

Step(a, s) == at' = [at EXCEPT ![a] = s] /\ UNCHANGED <<on, stale>>
Move(a, s) == Step(a, s) /\ UNCHANGED priced

-----------------------------------------------------------------------------
(* OrderHandler.Pay                                                        *)

\* ListByUser: what counts against the quota.
LiveVMs == {p \in Requests : vm[p] # "none"}

\* GetByID and checkQuota, before anything is charged.
CheckQuota(p) ==
  /\ handler[p] = "idle"
  /\ Goto(p, IF MaxVMs = 0 \/ Cardinality(LiveVMs) + 1 <= MaxVMs THEN "pay" ELSE "done")
  /\ UNCHANGED <<order, money, rows, job, refundDone, aged, inst, memory, agents, admin,
                 budgets>>

\* Under the locks on the order's row and the user's. The forms with one check only are
\* mistakes that TypeOK and ChargedOncePerOrder exclude.
PayableUnpaid(p) == order[OrderOf[p]] = "pending"
PayableCovered(p) == balance >= Price[OrderOf[p]]
Payable(p) == order[OrderOf[p]] = "pending" /\ balance >= Price[OrderOf[p]]

\* One transaction: the check, the debit, the status and the row in transactions.
PayWithBalance(p) ==
  /\ handler[p] = "pay"
  /\ \/ /\ Payable(p)
        /\ balance' = balance - Price[OrderOf[p]]
        /\ payments' = payments \cup {p}
        /\ SetOrder(p, "paid")
        /\ Goto(p, "ip")
     \/ /\ ~Payable(p)
        /\ Goto(p, "done")
        /\ UNCHANGED <<order, balance, payments>>
  /\ UNCHANGED <<refunds, rows, job, refundDone, aged, inst, memory, agents, admin, budgets>>

\* The product or every cluster is gone: answered as "paid", nothing undone.
NoProduct(p) ==
  /\ handler[p] = "ip"
  /\ Fault
  /\ Goto(p, "done")
  /\ UNCHANGED <<order, money, rows, job, refundDone, aged, inst, memory, agents, admin>>

\* What AllocateNext selects from: one that cools down is not free (as the mistaken form
\* FreeNotAssigned has it).
FreeNotAssigned(i) == addr[i].status # "assigned"
Free(i) == addr[i].status = "available"

\* allocateIP: one free address of some pool, locked and taken.
AllocateIP(p) ==
  /\ handler[p] = "ip"
  /\ \/ \E i \in IPs :
          /\ Free(i)
          /\ addr' = [addr EXCEPT ![i] = [status |-> "assigned", vm |-> None]]
          /\ ip' = [ip EXCEPT ![p] = i]
          /\ Goto(p, "provisioning")
          /\ NoFault
     \/ /\ \/ Fault
           \/ NoFault /\ ~\E i \in IPs : Free(i)
        /\ Goto(p, "refund")
        /\ UNCHANGED <<addr, ip>>
  /\ UNCHANGED <<order, money, vm, job, refundDone, aged, inst, memory, agents, admin>>

\* UpdateStatus(provisioning), whatever the status is by now.
SetProvisioning(p) ==
  /\ handler[p] = "provisioning"
  /\ \/ NoFault /\ SetOrder(p, "provisioning") /\ Goto(p, "vmrow")
     \/ Fault /\ Goto(p, "refund") /\ UNCHANGED order
  /\ UNCHANGED <<money, rows, job, refundDone, aged, inst, memory, agents, admin>>

InsertVM(p) ==
  /\ handler[p] = "vmrow"
  /\ \/ NoFault /\ vm' = [vm EXCEPT ![p] = "creating"] /\ Goto(p, "attach")
     \/ Fault /\ Goto(p, "refund") /\ UNCHANGED vm
  /\ UNCHANGED <<order, money, ip, addr, job, refundDone, aged, inst, memory, agents, admin>>

\* A failure to attach is logged and the purchase goes on.
AttachIP(p) ==
  /\ handler[p] = "attach"
  /\ \/ NoFault /\ addr' = [addr EXCEPT ![ip[p]].vm = p]
     \/ Fault /\ UNCHANGED addr
  /\ Goto(p, "job")
  /\ UNCHANGED <<order, money, vm, ip, job, refundDone, aged, inst, memory, agents, admin>>

\* The job's row, then Enqueue's setParams.
InsertJob(p) ==
  /\ handler[p] = "job"
  /\ \/ /\ NoFault
        /\ job' = [job EXCEPT ![p] = "queued"]
        /\ params' = params \cup {p}
        /\ Goto(p, "send")
     \/ Fault /\ Goto(p, "refund") /\ UNCHANGED <<job, params>>
  /\ UNCHANGED <<order, money, rows, refundDone, aged, inst, queue, agents, admin>>

\* Enqueue blocks while the channel is full.
Enqueue(p) ==
  /\ handler[p] = "send"
  /\ Len(queue) < QueueSize
  /\ queue' = Append(queue, p)
  /\ Goto(p, "done")
  /\ UNCHANGED <<order, money, rows, job, refundDone, aged, inst, params, agents, admin,
                 budgets>>

\* The client goes away. Every later call of the handler uses the request's cancelled
\* context and fails, those of rollbackPayment and of a refused Enqueue too.
Disconnect(p) ==
  /\ handler[p] \in InFlight
  /\ Fault
  /\ Goto(p, "done")
  /\ params' = IF handler[p] = "send" THEN params \ {p} ELSE params
  /\ UNCHANGED <<order, money, rows, job, refundDone, aged, inst, queue, agents, admin>>

\* rollbackPayment: a failed call is logged and the next one made.
RefundPayment(p) ==
  /\ handler[p] = "refund"
  /\ \/ NoFault /\ Credit(p)
     \/ Fault /\ UNCHANGED money
  /\ Goto(p, "release")
  /\ UNCHANGED <<order, rows, job, refundDone, aged, inst, memory, agents, admin>>

ReleasePaid(p) ==
  /\ handler[p] = "release"
  /\ \/ NoFault /\ Release(ip[p])
     \/ Fault /\ UNCHANGED addr
  /\ Goto(p, "cancel")
  /\ UNCHANGED <<order, money, vm, ip, job, refundDone, aged, inst, memory, agents, admin>>

CancelPaid(p) ==
  /\ handler[p] = "cancel"
  /\ \/ NoFault /\ SetOrder(p, "cancelled")
     \/ Fault /\ UNCHANGED order
  /\ Goto(p, "done")
  /\ UNCHANGED <<money, rows, job, refundDone, aged, inst, memory, agents, admin>>

PayStep(p) ==
  \/ CheckQuota(p) \/ PayWithBalance(p) \/ NoProduct(p) \/ AllocateIP(p)
  \/ SetProvisioning(p) \/ InsertVM(p) \/ AttachIP(p) \/ InsertJob(p) \/ Enqueue(p)
  \/ RefundPayment(p) \/ ReleasePaid(p) \/ CancelPaid(p)

-----------------------------------------------------------------------------
(* Runtime.worker and vmCreateExecutor.Run                                 *)

Leave(a) == on' = [on EXCEPT ![a] = None] /\ at' = [at EXCEPT ![a] = "idle"]

Take(w) ==
  /\ at[w] = "idle" /\ queue # <<>>
  /\ on' = [on EXCEPT ![w] = Head(queue)]
  /\ at' = [at EXCEPT ![w] = "mark"]
  /\ queue' = Tail(queue)
  /\ UNCHANGED <<order, money, handler, rows, job, refundDone, aged, inst, params, priced,
                 stale, admin, budgets>>

\* UPDATE ... WHERE status = 'queued'; mistaken: any job that does not run.
ClaimableAny(p) == job[p] # "running"
Claimable(p) == job[p] = "queued"

\* A job that the sweeper has finished meanwhile is dropped.
MarkRunning(w) ==
  /\ at[w] = "mark"
  /\ \/ /\ NoFault /\ Claimable(on[w])
        /\ job' = [job EXCEPT ![on[w]] = "running"]
        /\ Move(w, "submit")
     \/ /\ \/ Fault
           \/ NoFault /\ ~Claimable(on[w])
        /\ Leave(w)
        /\ UNCHANGED <<job, priced, stale>>
  /\ UNCHANGED <<order, money, handler, rows, refundDone, aged, inst, memory, admin>>

\* A Run that fails is rolled back before its job is finished; mistaken: finished only.
CompensateNever(w) == Move(w, "fail")
Compensate(w) == Move(w, "read")

\* submit_instance and wait_create: a failure may leave the instance behind. A job
\* whose parameters are gone fails at once.
Submit(w) ==
  LET p == on[w] IN
  /\ at[w] = "submit"
  /\ \/ /\ NoFault /\ p \in params /\ inst[p] = "none"
        /\ inst' = [inst EXCEPT ![p] = "created"]
        /\ Move(w, "start")
     \/ /\ NoFault /\ (p \notin params \/ inst[p] # "none")
        /\ Compensate(w)
        /\ UNCHANGED inst
     \/ /\ Fault /\ p \in params
        /\ inst' \in {inst, [inst EXCEPT ![p] = "created"]}
        /\ Compensate(w)
  /\ UNCHANGED <<order, money, handler, rows, job, refundDone, aged, memory, admin>>

\* start_instance and wait_start: fails if the instance is not there any more.
Start(w) ==
  LET p == on[w]
      started == [inst EXCEPT ![p] = IF @ = "none" THEN "none" ELSE "running"]
  IN
  /\ at[w] = "start"
  /\ \/ NoFault /\ inst[p] # "none" /\ inst' = started /\ Move(w, "vmrow")
     \/ NoFault /\ inst[p] = "none" /\ Compensate(w) /\ UNCHANGED inst
     \/ Fault /\ inst' \in {inst, started} /\ Compensate(w)
  /\ UNCHANGED <<order, money, handler, rows, job, refundDone, aged, memory, admin>>

\* UpdateAfterProvision, for a row in status s: its WHERE clause protects other statuses;
\* mistaken: no such clause.
ProvisionedAlways(s) == "running"
Provisioned(s) == IF s \in {"creating", "running"} THEN "running" ELSE s

\* No row matching is no error.
UpdateVM(w) ==
  LET p == on[w] IN
  /\ at[w] = "vmrow"
  /\ \/ /\ NoFault
        /\ vm' = [vm EXCEPT ![p] = Provisioned(@)]
        /\ Move(w, "activate")
     \/ Fault /\ Compensate(w) /\ UNCHANGED vm
  /\ UNCHANGED <<order, money, handler, ip, addr, job, refundDone, aged, inst, memory, admin>>

\* UpdateStatus(active), whatever the status is by now; a failure is logged.
Activate(w) ==
  /\ at[w] = "activate"
  /\ \/ NoFault /\ SetOrder(on[w], "active")
     \/ Fault /\ UNCHANGED order
  /\ params' = params \ {on[w]}
  /\ Move(w, "succeed")
  /\ UNCHANGED <<money, handler, rows, job, refundDone, aged, inst, queue, admin>>

\* finalize: Finish writes the final status over whatever is there. A failure is logged.
Finish(p, s) ==
  \/ NoFault /\ job' = [job EXCEPT ![p] = s]
  \/ Fault /\ UNCHANGED job

Finalize(w) ==
  /\ \/ at[w] = "succeed" /\ Finish(on[w], "succeeded")
     \/ at[w] = "fail" /\ Finish(on[w], "failed")
  /\ params' = params \ {on[w]}
  /\ Leave(w)
  /\ UNCHANGED <<order, money, handler, rows, refundDone, aged, inst, queue, priced, stale,
                 admin>>

\* The job's own context expires 30 minutes after it started: whatever Run or Rollback
\* still has to call fails, and so does the Finish after it.
JobTimeout(w) ==
  /\ at[w] \notin {"idle", "mark"} /\ on[w] \in aged
  /\ Fault
  /\ params' = params \ {on[w]}
  /\ priced' = priced \ {w}
  /\ Leave(w)
  /\ UNCHANGED <<order, money, handler, rows, job, refundDone, aged, inst, queue, stale,
                 admin>>

-----------------------------------------------------------------------------
(* vmCreateExecutor.Rollback, run by a worker whose Run failed and by the  *)
(* sweeper. A failed call is logged and the next one made.                 *)

\* The amount is that of the parameters, or else that of the order's row. The row's error is
\* dropped: the rollback goes on with the amount 0. (So is that of the row of the VM, read
\* here for its address: ReleaseIP fails then.)
ReadAmount(a) ==
  /\ at[a] = "read"
  /\ \/ NoFault /\ priced' = priced \cup {a}
     \/ on[a] \notin params /\ Loss /\ UNCHANGED priced
  /\ Step(a, "delete")
  /\ UNCHANGED <<order, money, handler, rows, job, refundDone, aged, inst, memory, admin>>

DeleteInstance(a) ==
  /\ at[a] = "delete"
  /\ \/ NoFault /\ inst' = [inst EXCEPT ![on[a]] = "none"]
     \/ Fault /\ UNCHANGED inst
  /\ Move(a, "release")
  /\ UNCHANGED <<order, money, handler, rows, job, refundDone, aged, memory, admin>>

ReleaseIP(a) ==
  /\ at[a] = "release"
  /\ \/ NoFault /\ Release(ip[on[a]])
     \/ Fault /\ UNCHANGED addr
  /\ Move(a, "refund")
  /\ UNCHANGED <<order, money, handler, vm, ip, job, refundDone, aged, inst, memory, admin>>

\* An amount above zero, and refund_done_at IS NULL; mistaken: the amount alone.
RefundDueAgain(a) == a \in priced /\ Price[OrderOf[on[a]]] > 0
RefundDue(a) == a \in priced /\ Price[OrderOf[on[a]]] > 0 /\ on[a] \notin refundDone

\* One transaction: the mark on the job, the balance and the row in transactions. An amount
\* that is not known is 0, and nothing is called.
RefundOnce(a) ==
  /\ at[a] = "refund"
  /\ \/ /\ NoFault /\ RefundDue(a)
        /\ refundDone' = refundDone \cup {on[a]}
        /\ Credit(on[a])
     \/ /\ \/ a \in priced /\ Loss
           \/ NoFault /\ ~RefundDue(a)
        /\ UNCHANGED <<refundDone, money>>
  /\ priced' = priced \ {a}
  /\ Step(a, "cancel")
  /\ UNCHANGED <<order, handler, rows, job, aged, inst, memory, admin>>

CancelOrder(a) ==
  /\ at[a] = "cancel"
  /\ \/ NoFault /\ SetOrder(on[a], "cancelled")
     \/ Fault /\ UNCHANGED order
  /\ Move(a, "vmerror")
  /\ UNCHANGED <<money, handler, rows, job, refundDone, aged, inst, memory, admin>>

MarkError(a) ==
  /\ at[a] = "vmerror"
  /\ \/ NoFault /\ vm' = [vm EXCEPT ![on[a]] = "error"]
     \/ Fault /\ UNCHANGED vm
  /\ params' = params \ {on[a]}
  /\ IF a = Sweeper
     THEN at' = [at EXCEPT ![a] = "next"] /\ on' = [on EXCEPT ![a] = None]
     ELSE at' = [at EXCEPT ![a] = "fail"] /\ UNCHANGED on
  /\ UNCHANGED <<order, money, handler, ip, addr, job, refundDone, aged, inst, queue, priced,
                 stale, admin>>

RollbackStepOf(a) ==
  \/ ReadAmount(a) \/ DeleteInstance(a) \/ ReleaseIP(a)
  \/ RefundOnce(a) \/ CancelOrder(a) \/ MarkError(a)

WorkerStep(w) ==
  \/ Take(w) \/ MarkRunning(w) \/ Submit(w) \/ Start(w) \/ UpdateVM(w) \/ Activate(w)
  \/ Finalize(w) \/ RollbackStepOf(w)

-----------------------------------------------------------------------------
(* Runtime.recoverStale, at the start and every five minutes               *)

\* FindStaleRunning goes by created_at: neither the start of the job nor its worker
\* is asked for. Mistaken: a job that was never started is left out.
StaleRunning == {p \in aged : job[p] = "running"}
StaleJobs == {p \in aged : job[p] \in {"queued", "running"}}

FindStale ==
  /\ at[Sweeper] = "idle" /\ StaleJobs # {}
  /\ stale' = StaleJobs
  /\ at' = [at EXCEPT ![Sweeper] = "next"]
  /\ UNCHANGED <<order, money, handler, rows, job, refundDone, aged, inst, memory, on, priced,
                 admin, budgets>>

\* The job is made partial, as the list said it was stale, before it is rolled back.
Recover ==
  /\ at[Sweeper] = "next"
  /\ \E p \in stale :
       /\ stale' = stale \ {p}
       /\ \/ /\ NoFault
             /\ job' = [job EXCEPT ![p] = "partial"]
             /\ on' = [on EXCEPT ![Sweeper] = p]
             /\ at' = [at EXCEPT ![Sweeper] = "read"]
          \/ Fault /\ UNCHANGED <<job, on, at>>
  /\ UNCHANGED <<order, money, handler, rows, refundDone, aged, inst, memory, priced, admin>>

SweepEnds ==
  /\ at[Sweeper] = "next" /\ stale = {}
  /\ at' = [at EXCEPT ![Sweeper] = "idle"]
  /\ UNCHANGED <<order, money, handler, rows, job, refundDone, aged, inst, memory, on, priced,
                 stale, admin, budgets>>

SweeperStep == FindStale \/ Recover \/ SweepEnds \/ RollbackStepOf(Sweeper)

\* Thirty minutes pass for a job that is not finished.
Age(p) ==
  /\ p \notin aged /\ job[p] \in {"queued", "running"}
  /\ aged' = aged \cup {p}
  /\ UNCHANGED <<order, money, handler, rows, job, refundDone, inst, memory, agents, admin,
                 budgets>>

-----------------------------------------------------------------------------
(* The rest of the world                                                   *)

\* The process dies and is started again: what is in memory is gone.
Crash ==
  /\ Loss
  /\ handler' = [p \in Requests |-> IF handler[p] \in InFlight THEN "done" ELSE handler[p]]
  /\ params' = {} /\ queue' = <<>> /\ priced' = {} /\ stale' = {} /\ admin' = None
  /\ on' = [a \in Agents |-> None]
  /\ at' = [a \in Agents |-> "idle"]
  /\ UNCHANGED <<order, money, rows, job, refundDone, aged, inst>>

\* OrderHandler.Cancel: the conditional UPDATE decides.
CancelIfPending(o) ==
  /\ order[o] = "pending"
  /\ order' = [order EXCEPT ![o] = "cancelled"]
  /\ UNCHANGED <<money, handler, rows, job, refundDone, aged, inst, memory, agents, admin,
                 budgets>>

orderTransitions ==
  [pending      |-> {"paid", "cancelled", "expired"},
   paid         |-> {"provisioning", "active", "cancelled", "pending"},
   provisioning |-> {"active", "cancelled", "paid"},
   active       |-> {"expired", "cancelled"},
   expired      |-> {},
   cancelled    |-> {}]

\* OrderHandler.UpdateStatus checks the status it reads, and writes later.
AdminCheck(o, s) ==
  /\ admin = None /\ admins < MaxAdmin
  /\ s \in orderTransitions[order[o]]
  /\ admin' = <<o, s>>
  /\ admins' = admins + 1
  /\ UNCHANGED <<order, money, handler, rows, job, refundDone, aged, inst, memory, agents,
                 faults, losses>>

AdminWrite ==
  /\ admin # None
  /\ order' = [order EXCEPT ![admin[1]] = admin[2]]
  /\ admin' = None
  /\ UNCHANGED <<money, handler, rows, job, refundDone, aged, inst, memory, agents, budgets>>

Next ==
  \/ \E p \in Requests : PayStep(p) \/ Disconnect(p) \/ Age(p)
  \/ \E w \in Workers : WorkerStep(w) \/ JobTimeout(w)
  \/ SweeperStep
  \/ Crash
  \/ \E o \in Orders : CancelIfPending(o) \/ \E s \in OrderStatus : AdminCheck(o, s)
  \/ AdminWrite

Spec == Init /\ [][Next]_vars

\* The goroutines run, and time passes. Nothing obliges a client to pay, the client
\* or the process to fail, or an administrator to act.
Fairness ==
  /\ \A p \in Requests : WF_vars(Enqueue(p)) /\ WF_vars(Age(p))
  /\ \A w \in Workers : WF_vars(WorkerStep(w))
  /\ WF_vars(SweeperStep)

FairSpec == Spec /\ Fairness

-----------------------------------------------------------------------------
(* Properties                                                              *)

\* Money: the handlers, workers and the sweeper together are a Ledger. Each request
\* debits once, RefundOnce and rollbackPayment between them give a debit back at most
\* once, whoever runs a rollback and however often, and no other step moves money.
chargeState ==
  [p \in Requests |-> IF p \notin payments THEN "none"
                      ELSE IF refunds[p] = 0 THEN "charged" ELSE "refunded"]

Billing == INSTANCE Ledger WITH
             Charges <- Requests,
             Amount <- [p \in Requests |-> Price[OrderOf[p]]],
             charge <- chargeState

LedgerKept == Billing!LedgerSpec

\* Clicking Pay twice, or cancelling meanwhile, does not charge an order twice: only an
\* administrator who moves it back to pending makes a second charge possible.
ChargedOncePerOrder ==
  \A o \in Orders : Cardinality({p \in payments : OrderOf[p] = o}) <= 1 + admins

\* Two VMs that are being made or run never have the same address, although an address
\* is released by the handler, the worker and the sweeper without looking whose it is.
AddressExclusive ==
  \A p, q \in Requests :
    /\ p # q
    /\ vm[p] \in {"creating", "running"} /\ vm[q] \in {"creating", "running"}
    => ip[p] # ip[q]

\* A customer is left without the VM and the refund only if the refund itself failed, or the
\* reading of its amount by a rollback that has no parameters any more, or if the process
\* died: every other failure, of Incus, of the database, of a client, or of a job's context
\* that expires in the middle of a rollback, ends in a refund by the worker or by the
\* sweeper, and each loss costs at most one.
AtRest(p) == \A a \in Agents : on[a] # p
Unrefunded == {p \in Requests : /\ job[p] \in {"failed", "partial"} /\ AtRest(p)
                                /\ p \notin refundDone /\ Price[OrderOf[p]] > 0}
OneLossCostsOneRefund == Cardinality(Unrefunded) <= losses

\* A job the sweeper has finished while it waited in the channel is never started: it
\* would build a VM for an order that has been refunded.
FinishedNeverRuns ==
  [][\A p \in Requests : job[p] \in Terminal => job'[p] \notin {"queued", "running"}]_vars

\* A row that a rollback has marked stays so: a worker that the sweeper overtook does
\* not turn it back to running (the WHERE clause of UpdateAfterProvision).
ErrorRowSticks == [][\A p \in Requests : vm[p] = "error" => vm'[p] = "error"]_vars

\* Every job reaches a final status: by its worker, or after a crash, a lost channel or a
\* failed Finish by the sweeper, and keeps it.
JobsFinish == <>[](\A p \in Requests : job[p] \in Terminal \cup {"none"})

\* The state table of the orders: expired and cancelled are dead.
DeadOrdersStayDead ==
  [][\A o \in Orders : order[o] \in {"expired", "cancelled"} => order'[o] = order[o]]_vars

=============================================================================
