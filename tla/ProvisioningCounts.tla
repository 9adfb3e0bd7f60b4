------------------------- MODULE ProvisioningCounts -------------------------
(***************************************************************************)
(* The two promises of Provisioning.tla that count: how often an order is  *)
(* charged, and how many customers are left without VM and refund.         *)
(***************************************************************************)
EXTENDS ProvisioningProofs, FiniteSetTheorems

-----------------------------------------------------------------------------
(* Counting                                                                *)

\* A set that gains at most one element grows by at most one.
LEMMA OneMore ==
  ASSUME NEW S, IsFiniteSet(S), NEW T, NEW x, T \subseteq S \cup {x}
  PROVE  IsFiniteSet(T) /\ Cardinality(T) \in Nat /\ Cardinality(S) \in Nat
         /\ Cardinality(T) <= Cardinality(S) + 1
  <1>1. IsFiniteSet(S \cup {x}) /\ Cardinality(S \cup {x}) \in Nat /\ Cardinality(S) \in Nat
        /\ Cardinality(S \cup {x}) <= Cardinality(S) + 1
    BY FS_AddElement, FS_CardinalityType
  <1>2. IsFiniteSet(T) /\ Cardinality(T) <= Cardinality(S \cup {x})
    BY <1>1, FS_Subset
  <1>3. Cardinality(T) \in Nat
    BY <1>2, FS_CardinalityType
  <1> QED BY <1>1, <1>2, <1>3

\* A subset is no larger.
LEMMA NoMore ==
  ASSUME NEW S, IsFiniteSet(S), NEW T, T \subseteq S
  PROVE  IsFiniteSet(T) /\ Cardinality(T) \in Nat /\ Cardinality(S) \in Nat
         /\ Cardinality(T) <= Cardinality(S)
  BY FS_Subset, FS_CardinalityType

-----------------------------------------------------------------------------
(* Refunds that are lost                                                   *)

\* An agent that is on its way to the refund knows its amount, or has yet to read it; one that
\* did not learn it is as good as past the refund.
ToRefund == {"delete", "release", "refund"}
BeforeRefund(p) ==
  /\ on[Sweeper] = p
  /\ at[Sweeper] = "read" \/ (at[Sweeper] \in ToRefund /\ Sweeper \in priced)
PastRefund(p) ==
  \E w \in Workers :
    /\ on[w] = p
    /\ at[w] \in {"cancel", "vmerror", "fail"} \/ (at[w] \in ToRefund /\ w \notin priced)

\* Without refund, and nobody will make one: the job has ended and the sweeper is not about
\* to refund it, or its worker is past the refund.
Lost == {p \in Requests :
           /\ p \notin refundDone /\ Price[OrderOf[p]] > 0
           /\ (job[p] \in {"failed", "partial"} /\ ~ BeforeRefund(p)) \/ PastRefund(p)}

LostInv == IsFiniteSet(Lost) /\ Cardinality(Lost) <= losses

\* Nothing is lost at the start.
LEMMA LostInvInit == Init => LostInv
  <1> SUFFICES ASSUME Init PROVE LostInv
    OBVIOUS
  <1>1. \A p \in Requests : job[p] = "none"
    BY DEF Init
  <1>2. \A w \in Workers : at[w] = "idle"
    BY DEF Init, Agents
  <1>3. Lost = {}
    BY <1>1, <1>2 DEF Lost, PastRefund, ToRefund
  <1> QED BY <1>3, FS_EmptySet DEF LostInv, Init

\* What a step can lose: nothing, or one refund for one failure that counts as a loss.
Loses == \/ Lost' \subseteq Lost /\ losses' = losses
         \/ losses' = losses + 1 /\ \E x : Lost' \subseteq Lost \cup {x}

\* A step that leaves the jobs and the agents alone loses nothing.
LEMMA LostFrame ==
  ASSUME UNCHANGED <<job, refundDone, on, at, priced, losses>>
  PROVE  Loses
  BY DEF Loses, Lost, BeforeRefund, PastRefund, ToRefund

\* RefundOnce, the reading of its amount and a crash can lose one refund, no other step can.
LEMMA LosesStep == IInv /\ [Next]_vars => Loses
  <1> SUFFICES ASSUME IInv, [Next]_vars PROVE Loses
    OBVIOUS
  <1> USE ProvisioningAssumption
  <1>0. /\ on \in [Agents -> Requests \cup {None}] /\ at \in [Agents -> AgentStep]
        /\ job \in [Requests -> JobStatus]
        /\ \A a \in Agents : at[a] \notin {"idle", "next"} => on[a] \in Requests
    BY DEF IInv, TypeInv, TypeOK, BusyWithJob
  <1>1. ASSUME NEW p \in Requests, PayStep(p) \/ Disconnect(p) \/ Age(p) PROVE Loses
    <2>1. CASE InsertJob(p)
      <3>1. /\ UNCHANGED <<refundDone, on, at, priced, losses>>
            /\ \A q \in Requests : job'[q] \in {"failed", "partial"} => job'[q] = job[q]
        BY <1>0, <2>1 DEF InsertJob, NoFault, Fault, agents, budgets
      <3> QED BY <3>1 DEF Loses, Lost, BeforeRefund, PastRefund, ToRefund
    <2>2. CASE ~ InsertJob(p)
      <3>1. UNCHANGED <<job, refundDone, on, at, priced, losses>>
        BY <1>1, <2>2
        DEF PayStep, CheckQuota, PayWithBalance, NoProduct, AllocateIP, SetProvisioning, InsertVM,
            AttachIP, Enqueue, RefundPayment, ReleasePaid, CancelPaid, Disconnect, Age, NoFault,
            Fault, agents, budgets
      <3> QED BY <3>1, LostFrame
    <2> QED BY <2>1, <2>2
  <1>2. ASSUME NEW w \in Workers, WorkerStep(w) \/ JobTimeout(w), ~ RollbackStepOf(w) PROVE Loses
    <2>0. w \in Agents /\ w # Sweeper
      BY DEF Agents
    <2>1. CASE Take(w) \/ JobTimeout(w)
      <3>1. /\ UNCHANGED <<job, refundDone, losses>>
            /\ \A a \in Agents \ {w} : on'[a] = on[a] /\ at'[a] = at[a]
            /\ \A a \in Agents \ {w} : a \in priced' <=> a \in priced
            /\ at'[w] \in {"idle", "mark"}
        BY <1>0, <2>0, <2>1 DEF Take, JobTimeout, Leave, Fault, budgets
      <3> QED BY <2>0, <3>1 DEF Loses, Lost, BeforeRefund, PastRefund, ToRefund, Agents
    <2>2. CASE MarkRunning(w)
      <3>1. /\ UNCHANGED <<refundDone, priced, losses>>
            /\ \A a \in Agents \ {w} : on'[a] = on[a] /\ at'[a] = at[a]
            /\ at'[w] \in {"idle", "submit"}
            /\ \A q \in Requests : job'[q] \in {"failed", "partial"} => job'[q] = job[q]
        BY <1>0, <2>0, <2>2 DEF MarkRunning, Leave, Move, Step, NoFault, Fault, budgets
      <3> QED BY <2>0, <3>1 DEF Loses, Lost, BeforeRefund, PastRefund, ToRefund, Agents
    <2>3. CASE Submit(w) \/ Start(w) \/ UpdateVM(w) \/ Activate(w)
      <3>1. /\ UNCHANGED <<job, refundDone, priced, losses>>
            /\ \A a \in Agents \ {w} : on'[a] = on[a] /\ at'[a] = at[a]
            /\ at'[w] \in {"read", "start", "vmrow", "activate", "succeed"}
        BY <1>0, <2>0, <2>3
        DEF Submit, Start, UpdateVM, Activate, Compensate, Move, Step, NoFault, Fault, budgets
      <3> QED BY <2>0, <3>1 DEF Loses, Lost, BeforeRefund, PastRefund, ToRefund, Agents
    <2>4. CASE Finalize(w)
      <3>1. /\ UNCHANGED <<refundDone, priced, losses>>
            /\ \A a \in Agents \ {w} : on'[a] = on[a] /\ at'[a] = at[a]
            /\ at'[w] = "idle"
        BY <1>0, <2>0, <2>4 DEF Finalize, Finish, Leave, NoFault, Fault, budgets
      <3>2. \A q \in Requests : job'[q] \in {"failed", "partial"} =>
              job'[q] = job[q] \/ PastRefund(q)
        BY <1>0, <2>0, <2>4 DEF Finalize, Finish, PastRefund
      <3> QED BY <2>0, <3>1, <3>2 DEF Loses, Lost, BeforeRefund, PastRefund, ToRefund, Agents
    <2> QED BY <1>2, <2>1, <2>2, <2>3, <2>4 DEF WorkerStep
  <1>3. ASSUME NEW a \in Agents, RollbackStepOf(a) PROVE Loses
    <2>0. at[a] \notin {"idle", "next"} => on[a] \in Requests
      BY <1>0
    <2>1. CASE RefundOnce(a)
      <3>1. /\ job' = job /\ on' = on /\ at[a] = "refund" /\ on[a] \in Requests
            /\ \A b \in Agents \ {a} : at'[b] = at[b] /\ (b \in priced' <=> b \in priced)
            /\ at'[a] = "cancel" /\ refundDone \subseteq refundDone'
        BY <1>0, <2>1 DEF RefundOnce, Step
      <3>2. \A q \in Requests \ {on[a]} : q \in Lost' => q \in Lost
        BY <3>1 DEF Lost, BeforeRefund, PastRefund, ToRefund, Agents
      <3>3. Lost' \subseteq Lost \cup {on[a]}
        BY <3>2 DEF Lost
      <3>4. CASE Loss
        BY <3>3, <3>4 DEF Loses, Loss
      <3>5. CASE ~ Loss /\ a \in priced
        <4>1. losses' = losses /\ (on[a] \in refundDone' \/ ~ (Price[OrderOf[on[a]]] > 0))
          BY <2>1, <3>5 DEF RefundOnce, RefundDue, NoFault, budgets
        <4>2. on[a] \notin Lost'
          BY <4>1 DEF Lost
        <4> QED BY <3>3, <4>1, <4>2 DEF Loses
      <3>6. CASE ~ Loss /\ a \notin priced
        <4>1. losses' = losses /\ refundDone' = refundDone
          BY <2>1, <3>6 DEF RefundOnce, RefundDue, NoFault, budgets
        <4>2. on[a] \in Lost' => on[a] \in Lost
          BY <3>1, <3>6, <4>1 DEF Lost, BeforeRefund, PastRefund, ToRefund, Agents
        <4> QED BY <3>3, <4>1, <4>2 DEF Loses
      <3> QED BY <3>4, <3>5, <3>6
    <2>2. CASE DeleteInstance(a) \/ ReleaseIP(a)
      <3>1. /\ UNCHANGED <<job, refundDone, on, priced, losses>>
            /\ at[a] \in {"delete", "release"}
            /\ \A b \in Agents \ {a} : at'[b] = at[b]
            /\ at'[a] \in {"release", "refund"}
        BY <1>0, <2>2 DEF DeleteInstance, ReleaseIP, Move, Step, NoFault, Fault, budgets
      <3> QED BY <3>1 DEF Loses, Lost, BeforeRefund, PastRefund, ToRefund, Agents
    <2>5. CASE ReadAmount(a)
      <3>1. /\ UNCHANGED <<job, refundDone, on>> /\ at[a] = "read" /\ at'[a] = "delete"
            /\ on[a] \in Requests
            /\ \A b \in Agents \ {a} : at'[b] = at[b] /\ (b \in priced' <=> b \in priced)
        BY <1>0, <2>5 DEF ReadAmount, Step
      <3>2. CASE NoFault /\ priced' = priced \cup {a}
        <4>1. losses' = losses /\ a \in priced'
          BY <3>2 DEF NoFault, budgets
        <4>2. Lost' \subseteq Lost
          BY <3>1, <4>1 DEF Lost, BeforeRefund, PastRefund, ToRefund, Agents
        <4> QED BY <4>1, <4>2 DEF Loses
      <3>3. CASE Loss
        <4>1. \A q \in Requests \ {on[a]} : q \in Lost' => q \in Lost
          BY <3>1 DEF Lost, BeforeRefund, PastRefund, ToRefund, Agents
        <4>2. Lost' \subseteq Lost \cup {on[a]}
          BY <4>1 DEF Lost
        <4> QED BY <3>3, <4>2 DEF Loses, Loss
      <3> QED BY <2>5, <3>2, <3>3 DEF ReadAmount
    <2>3. CASE CancelOrder(a)
      <3>1. /\ UNCHANGED <<job, refundDone, on, priced, losses>> /\ at[a] = "cancel"
            /\ \A b \in Agents \ {a} : at'[b] = at[b]
            /\ at'[a] = "vmerror"
        BY <1>0, <2>3 DEF CancelOrder, Move, Step, NoFault, Fault, budgets
      <3> QED BY <3>1 DEF Loses, Lost, BeforeRefund, PastRefund, ToRefund, Agents
    <2>4. CASE MarkError(a)
      <3>1. /\ UNCHANGED <<job, refundDone, priced, losses>> /\ at[a] = "vmerror"
            /\ \A b \in Agents \ {a} : at'[b] = at[b] /\ on'[b] = on[b]
            /\ at'[a] = IF a = Sweeper THEN "next" ELSE "fail"
            /\ a # Sweeper => on'[a] = on[a]
        BY <1>0, <2>4 DEF MarkError, NoFault, Fault, budgets
      <3> QED BY <3>1 DEF Loses, Lost, BeforeRefund, PastRefund, ToRefund, Agents
    <2> QED BY <1>3, <2>1, <2>2, <2>3, <2>4, <2>5 DEF RollbackStepOf
  <1>4. CASE FindStale \/ SweepEnds
    <2>1. /\ UNCHANGED <<job, refundDone, on, priced, losses>> /\ at[Sweeper] \in {"idle", "next"}
          /\ \A w \in Workers : at'[w] = at[w]
          /\ at'[Sweeper] \in {"idle", "next"}
      BY <1>0, <1>4 DEF FindStale, SweepEnds, Agents, budgets
    <2> QED BY <2>1 DEF Loses, Lost, BeforeRefund, PastRefund, ToRefund
  <1>5. CASE Recover
    <2>1. /\ UNCHANGED <<refundDone, priced, losses>> /\ at[Sweeper] = "next"
          /\ \A w \in Workers : at'[w] = at[w] /\ on'[w] = on[w]
          /\ \A q \in Requests : job'[q] = job[q] \/ BeforeRefund(q)'
      BY <1>0, <1>5 DEF Recover, Agents, BeforeRefund, NoFault, Fault, budgets
    <2> QED BY <2>1 DEF Loses, Lost, BeforeRefund, PastRefund, ToRefund
  <1>6. CASE Crash
    <2>1. /\ UNCHANGED <<job, refundDone>> /\ losses' = losses + 1
          /\ \A w \in Workers : at'[w] = "idle"
      BY <1>6 DEF Crash, Loss, Agents
    <2>2. Lost' \subseteq Lost \cup {on[Sweeper]}
      BY <2>1 DEF Lost, BeforeRefund, PastRefund, ToRefund
    <2> QED BY <2>1, <2>2 DEF Loses
  <1>7. CASE \/ \E o \in Orders : CancelIfPending(o) \/ \E s \in OrderStatus : AdminCheck(o, s)
             \/ AdminWrite \/ UNCHANGED vars
    <2>1. UNCHANGED <<job, refundDone, on, at, priced, losses>>
      BY <1>7 DEF CancelIfPending, AdminCheck, AdminWrite, vars, agents, budgets
    <2> QED BY <2>1, LostFrame
  <1> QED
    BY <1>1, <1>2, <1>3, <1>4, <1>5, <1>6, <1>7
    DEF Next, SweeperStep, WorkerStep, Agents

\* The lost refunds are no more than the failures that cost one.
LEMMA LostInvStep == IInv /\ LostInv /\ [Next]_vars => LostInv'
  <1> SUFFICES ASSUME IInv, LostInv, [Next]_vars PROVE LostInv'
    OBVIOUS
  <1>1. Loses
    BY LosesStep
  <1>2. losses \in Nat
    BY ProvisioningAssumption DEF IInv, TypeInv, TypeOK
  <1>3. CASE Lost' \subseteq Lost /\ losses' = losses
    BY <1>3, <1>2, NoMore DEF LostInv
  <1>4. CASE losses' = losses + 1 /\ \E x : Lost' \subseteq Lost \cup {x}
    BY <1>4, <1>2, OneMore DEF LostInv
  <1> QED BY <1>1, <1>3, <1>4 DEF Loses

\* However handlers, workers, the sweeper and crashes interleave, a refund is missing only
\* where its own transaction failed, or the reading of its amount, or the process died, and each
\* costs at most one.
THEOREM LossesAreCounted == Spec => []OneLossCostsOneRefund
  <1>1. IInv /\ LostInv => OneLossCostsOneRefund
    <2> SUFFICES ASSUME IInv, LostInv PROVE OneLossCostsOneRefund
      OBVIOUS
    <2>1. Unrefunded \subseteq Lost
      BY DEF Unrefunded, AtRest, Lost, BeforeRefund, Agents
    <2>2. losses \in Nat
      BY ProvisioningAssumption DEF IInv, TypeInv, TypeOK
    <2> QED BY <2>1, <2>2, NoMore DEF LostInv, OneLossCostsOneRefund
  <1> QED BY <1>1, IInvHolds, LostInvInit, LostInvStep, PTL DEF Spec

-----------------------------------------------------------------------------
(* Charges                                                                 *)

PaidFor(o) == {p \in payments : OrderOf[p] = o}

\* What an order may still be charged: once while it is pending, and once more if an
\* administrator is about to make it pending.
Chances(o) ==
  (IF order[o] = "pending" THEN 1 ELSE 0)
  + (IF admin # None /\ admin = <<o, "pending">> THEN 1 ELSE 0)

ChargeInv ==
  \A o \in Orders :
    IsFiniteSet(PaidFor(o)) /\ Cardinality(PaidFor(o)) + Chances(o) <= 1 + admins

\* Nothing is paid for at the start.
LEMMA ChargeInvInit == Init => ChargeInv
  <1> SUFFICES ASSUME Init, NEW o \in Orders
               PROVE  IsFiniteSet(PaidFor(o)) /\ Cardinality(PaidFor(o)) + Chances(o) <= 1 + admins
    BY DEF ChargeInv
  <1>1. PaidFor(o) = {}
    BY DEF Init, PaidFor
  <1>2. Chances(o) = 1 /\ admins = 0
    BY ProvisioningAssumption DEF Init, Chances
  <1> QED BY <1>1, <1>2, FS_EmptySet

\* Who pays, and what becomes of the chances of an order in a step.
ChargeStep(o) ==
  \/ PaidFor(o)' \subseteq PaidFor(o) /\ Chances(o)' - Chances(o) <= admins' - admins
  \/ /\ \E p : PaidFor(o)' \subseteq PaidFor(o) \cup {p}
     /\ Chances(o)' + 1 <= Chances(o) /\ admins' = admins

\* A step that leaves payments, the administrator and pending orders alone.
LEMMA ChargeFrame ==
  ASSUME NEW o \in Orders, admins \in Nat, UNCHANGED <<payments, admin, admins>>,
         order'[o] = "pending" => order[o] = "pending"
  PROVE  ChargeStep(o)
  <1>1. PaidFor(o)' = PaidFor(o)
    BY DEF PaidFor
  <1>2. Chances(o)' \in Int /\ Chances(o) \in Int /\ Chances(o)' <= Chances(o)
    BY DEF Chances
  <1> QED BY <1>1, <1>2 DEF ChargeStep

\* Only PayWithBalance charges, and it takes the order out of pending.
LEMMA ChargeSteps ==
  ASSUME IInv, [Next]_vars, NEW o \in Orders
  PROVE  ChargeStep(o)
  <1> USE ProvisioningAssumption
  <1>0. admins \in Nat /\ order \in [Orders -> OrderStatus]
        /\ admin \in {None} \cup (Orders \X OrderStatus)
    BY DEF IInv, TypeInv, TypeOK
  <1>1. ASSUME NEW p \in Requests, PayWithBalance(p) PROVE ChargeStep(o)
    <2>1. UNCHANGED <<admin, admins>>
      BY <1>1 DEF PayWithBalance, budgets
    <2>2. CASE ~ Payable(p)
      BY <1>0, <1>1, <2>1, <2>2, ChargeFrame DEF PayWithBalance, Payable
    <2>3. CASE Payable(p) /\ OrderOf[p] = o
      <3>1. payments' = payments \cup {p} /\ order[o] = "pending" /\ order'[o] = "paid"
        BY <1>0, <1>1, <2>3 DEF PayWithBalance, Payable, SetOrder
      <3>2. PaidFor(o)' \subseteq PaidFor(o) \cup {p}
        BY <3>1 DEF PaidFor
      <3>3. Chances(o)' + 1 <= Chances(o)
        BY <2>1, <3>1 DEF Chances
      <3> QED BY <2>1, <3>2, <3>3 DEF ChargeStep
    <2>4. CASE Payable(p) /\ OrderOf[p] # o
      <3>1. payments' = payments \cup {p} /\ order'[o] = order[o]
        BY <1>0, <1>1, <2>4 DEF PayWithBalance, Payable, SetOrder
      <3>2. PaidFor(o)' = PaidFor(o)
        BY <2>4, <3>1 DEF PaidFor
      <3>3. Chances(o)' = Chances(o) /\ Chances(o) \in Int
        BY <2>1, <3>1 DEF Chances
      <3> QED BY <1>0, <2>1, <3>2, <3>3 DEF ChargeStep
    <2> QED BY <2>2, <2>3, <2>4
  <1>2. ASSUME NEW p \in Requests, PayStep(p) \/ Disconnect(p) \/ Age(p), ~ PayWithBalance(p)
        PROVE  ChargeStep(o)
    <2>1. /\ UNCHANGED <<payments, admin, admins>>
          /\ \A q \in Orders : order'[q] = "pending" => order[q] = "pending"
      BY <1>0, <1>2
      DEF PayStep, CheckQuota, NoProduct, AllocateIP, SetProvisioning, InsertVM, AttachIP,
          InsertJob, Enqueue, RefundPayment, ReleasePaid, CancelPaid, Disconnect, Age, SetOrder,
          Credit, NoFault, Fault, money, budgets
    <2> QED BY <1>0, <2>1, ChargeFrame
  <1>3. ASSUME NEW w \in Workers, WorkerStep(w) \/ JobTimeout(w), ~ RollbackStepOf(w)
        PROVE  ChargeStep(o)
    <2>1. /\ UNCHANGED <<payments, admin, admins>>
          /\ \A q \in Orders : order'[q] = "pending" => order[q] = "pending"
      BY <1>0, <1>3
      DEF WorkerStep, Take, MarkRunning, Submit, Start, UpdateVM, Activate, Finalize, Finish,
          JobTimeout, SetOrder, NoFault, Fault, money, budgets
    <2> QED BY <1>0, <2>1, ChargeFrame
  <1>4. ASSUME NEW a \in Agents, RollbackStepOf(a) PROVE ChargeStep(o)
    <2>1. /\ UNCHANGED <<payments, admin, admins>>
          /\ \A q \in Orders : order'[q] = "pending" => order[q] = "pending"
      BY <1>0, <1>4
      DEF RollbackStepOf, ReadAmount, DeleteInstance, ReleaseIP, RefundOnce, CancelOrder,
          MarkError, SetOrder, Credit, NoFault, Fault, Loss, money, budgets
    <2> QED BY <1>0, <2>1, ChargeFrame
  <1>5. CASE FindStale \/ Recover \/ SweepEnds \/ UNCHANGED vars
    <2>1. UNCHANGED <<payments, admin, admins, order>>
      BY <1>5 DEF FindStale, Recover, SweepEnds, NoFault, Fault, vars, money, budgets
    <2> QED BY <1>0, <2>1, ChargeFrame
  <1>6. CASE Crash
    <2>1. UNCHANGED <<payments, admins, order>> /\ admin' = None
      BY <1>6 DEF Crash, Loss, money
    <2>2. PaidFor(o)' = PaidFor(o)
      BY <2>1 DEF PaidFor
    <2>3. Chances(o)' <= Chances(o) /\ Chances(o)' \in Int /\ Chances(o) \in Int
      BY <2>1 DEF Chances
    <2> QED BY <1>0, <2>1, <2>2, <2>3 DEF ChargeStep
  <1>7. ASSUME NEW q \in Orders, CancelIfPending(q) PROVE ChargeStep(o)
    <2>1. UNCHANGED <<payments, admin, admins>> /\ (order'[o] = "pending" => order[o] = "pending")
      BY <1>0, <1>7 DEF CancelIfPending, money, budgets
    <2> QED BY <1>0, <2>1, ChargeFrame
  <1>8. ASSUME NEW q \in Orders, NEW s \in OrderStatus, AdminCheck(q, s) PROVE ChargeStep(o)
    <2>1. UNCHANGED <<payments, order>> /\ admin = None /\ admin' = <<q, s>> /\ admins' = admins + 1
      BY <1>8 DEF AdminCheck, money
    <2>2. PaidFor(o)' = PaidFor(o)
      BY <2>1 DEF PaidFor
    <2>3. Chances(o)' <= Chances(o) + 1 /\ Chances(o)' \in Int /\ Chances(o) \in Int
      BY <2>1 DEF Chances
    <2> QED BY <1>0, <2>1, <2>2, <2>3 DEF ChargeStep
  <1>9. CASE AdminWrite
    <2>1. /\ UNCHANGED <<payments, admins>> /\ admin \in Orders \X OrderStatus /\ admin' = None
          /\ order' = [order EXCEPT ![admin[1]] = admin[2]]
      BY <1>0, <1>9 DEF AdminWrite, money, budgets
    <2>2. PaidFor(o)' = PaidFor(o)
      BY <2>1 DEF PaidFor
    <2>3. order'[o] = "pending" => order[o] = "pending" \/ admin = <<o, "pending">>
      BY <1>0, <2>1
    <2>4. Chances(o)' <= Chances(o) /\ Chances(o)' \in Int /\ Chances(o) \in Int
      BY <1>9, <2>1, <2>3 DEF Chances, AdminWrite
    <2> QED BY <1>0, <2>1, <2>2, <2>4 DEF ChargeStep
  <1> QED
    BY <1>1, <1>2, <1>3, <1>4, <1>5, <1>6, <1>7, <1>8, <1>9
    DEF Next, SweeperStep, WorkerStep, Agents

\* The charges and the chances of an order do not outgrow the administrator's changes.
LEMMA ChargeInvStep == IInv /\ ChargeInv /\ [Next]_vars => ChargeInv'
  <1> SUFFICES ASSUME IInv, ChargeInv, [Next]_vars, NEW o \in Orders
               PROVE  IsFiniteSet(PaidFor(o)') /\ Cardinality(PaidFor(o)') + Chances(o)' <= 1 + admins'
    BY DEF ChargeInv
  <1>1. ChargeStep(o)
    BY ChargeSteps
  <1>2. admins \in Nat /\ admins' \in Nat
    BY IInvStep, ProvisioningAssumption DEF IInv, TypeInv, TypeOK
  <1>3. IsFiniteSet(PaidFor(o)) /\ Cardinality(PaidFor(o)) + Chances(o) <= 1 + admins
    BY DEF ChargeInv
  <1>4. Chances(o) \in Int /\ Chances(o)' \in Int
    BY DEF Chances
  <1>5. CASE PaidFor(o)' \subseteq PaidFor(o) /\ Chances(o)' - Chances(o) <= admins' - admins
    <2>1. /\ IsFiniteSet(PaidFor(o)') /\ Cardinality(PaidFor(o)') \in Nat
          /\ Cardinality(PaidFor(o)) \in Nat
          /\ Cardinality(PaidFor(o)') <= Cardinality(PaidFor(o))
      BY <1>3, <1>5, NoMore
    <2> QED BY <1>2, <1>3, <1>4, <1>5, <2>1
  <1>6. CASE /\ \E p : PaidFor(o)' \subseteq PaidFor(o) \cup {p}
             /\ Chances(o)' + 1 <= Chances(o) /\ admins' = admins
    <2>1. /\ IsFiniteSet(PaidFor(o)') /\ Cardinality(PaidFor(o)') \in Nat
          /\ Cardinality(PaidFor(o)) \in Nat
          /\ Cardinality(PaidFor(o)') <= Cardinality(PaidFor(o)) + 1
      BY <1>3, <1>6, OneMore
    <2> QED BY <1>2, <1>3, <1>4, <1>6, <2>1
  <1> QED BY <1>1, <1>5, <1>6 DEF ChargeStep

\* Clicking Pay twice, cancelling meanwhile and every failure do not charge an order twice;
\* each change by an administrator can make one more charge possible.
THEOREM OrdersChargedOnce == Spec => []ChargedOncePerOrder
  <1>1. IInv /\ ChargeInv => ChargedOncePerOrder
    <2> SUFFICES ASSUME IInv, ChargeInv, NEW o \in Orders
                 PROVE  Cardinality({p \in payments : OrderOf[p] = o}) <= 1 + admins
      BY DEF ChargedOncePerOrder
    <2>1. Cardinality(PaidFor(o)) \in Nat /\ Cardinality(PaidFor(o)) + Chances(o) <= 1 + admins
      BY FS_CardinalityType DEF ChargeInv
    <2>2. Chances(o) \in Nat
      BY DEF Chances
    <2>3. admins \in Nat
      BY ProvisioningAssumption DEF IInv, TypeInv, TypeOK
    <2> QED BY <2>1, <2>2, <2>3 DEF PaidFor
  <1> QED BY <1>1, IInvHolds, ChargeInvInit, ChargeInvStep, PTL DEF Spec
=============================================================================
