----------------------------- MODULE VMLifecycle -----------------------------
(***************************************************************************)
(* The life of a VM's row and of its instance in Incus, which nothing      *)
(* keeps in step but the handlers and workers modelled here: the portal's  *)
(* and the administrator's handlers, the trash purger, the reconciler, the *)
(* event listener and the vm.create and vm.reinstall jobs.                 *)
(*                                                                         *)
(* A handler or a job is a program: the sequence of the statements and     *)
(* Incus calls it makes. Each of them is a step, so that programs of       *)
(* several requests, the background loops and Incus interleave; a failure  *)
(* of a step decides what is left of the program. A name stands for one    *)
(* row: the names of new VMs are random.                                   *)
(***************************************************************************)
EXTENDS Integers, Sequences, FiniteSets

CONSTANTS
  VMs,         \* rows of vms, and the instances they name
  Requests,    \* calls to the handlers, with the jobs they start, numbered as they come
  Projects,    \* the Incus projects of VMs, "customers" and the cluster's default
  Purger,      \* RunVMTrashPurger
  Reconciler,  \* RunVMReconciler
  Listener,    \* RunEventListener, which reconciles once when it was cut off
  MaxFaults,   \* bound on failures, crashes and deletions behind the portal's back
  MaxEvents,   \* bound on undelivered instance-deleted events of a VM
  None         \* no VM

ASSUME VMLifecycleAssumption ==
  /\ MaxFaults \in Nat /\ MaxEvents \in Nat \ {0}
  /\ None \notin VMs
  /\ Projects \subseteq {"customers", "default"}
  /\ Requests \subseteq Nat /\ Purger \notin Requests /\ Reconciler # Listener

VARIABLES
  status,   \* vms.status
  trash,    \* vms.trashed_at: not set, within the window, or older
  rescue,   \* the VMs with rescue_state 'rescue'
  addr,     \* the address of the row: assigned, or cooling down for others
  young,    \* rows made less than CreateBuffer ago
  inst,     \* the instance in Incus
  home,     \* the Incus project it is in
  dying,    \* instances whose deletion Incus has accepted and not done
  snap,     \* VMs whose rescue snapshot exists
  kind,     \* how each request answers to a failure, see Rest
  on,       \* the VM it is about
  todo,     \* the steps it has left
  swept,    \* requests whose job the sweeper has rolled back
  due,      \* rows the purger has listed
  at,       \* where each reconciliation pass is
  names,    \* the instances it found
  cand,     \* the rows it has to mark
  cur,      \* the row whose address it has to release
  link,     \* whether the listener hears Incus
  events,   \* instance-deleted events on their way to it
  remade,   \* VMs whose instance a reinstall has made again
  late,     \* VMs whose instance was made after a pass could miss it
  stuck,    \* VMs whose deletion Incus gave up
  bare,     \* VMs whose rescue snapshot Incus did not complete or a user deleted
  faults    \* failures so far

rows      == <<status, trash, rescue, addr>>
incus     == <<inst, dying, snap>>
requests  == <<kind, on, todo, swept>>
passes    == <<at, names, cand, cur>>
stream    == <<link, events>>
history   == <<remade, late, stuck, bare>>
vars == <<rows, young, incus, home, requests, due, passes, stream, history, faults>>

Active    == {"creating", "running", "stopped", "migrating"}
VMStatus  == Active \cup {"error", "gone", "deleted"}
Processes == Requests \cup {Purger}
Passes    == {Reconciler, Listener}

-----------------------------------------------------------------------------
(* State                                                                   *)

Steps ==
  {"take", "halt", "stop", "start", "restart", "delete", "await", "create", "patch", "move",
   "snapshot", "dropSnapshot", "undo",
   "markTrashed", "unmarkTrashed", "deleteRow", "deleteNamed", "release", "setRunning",
   "setStopped", "syncRunning", "syncStopped", "setRescue", "clearRescue", "setError",
   "provisioned"}
Jobs  == {"create", "reinstall"}
Kinds == {"new", "call", "portalTrash", "change", "purge", "over"} \cup Jobs

TypeOK ==
  /\ status \in [VMs -> VMStatus]
  /\ trash \in [VMs -> {"no", "window", "expired"}]
  /\ rescue \subseteq VMs
  /\ addr \in [VMs -> {"assigned", "cooldown"}]
  /\ young \subseteq VMs
  /\ inst \in [VMs -> {"none", "stopped", "running"}]
  /\ home \in [VMs -> Projects]
  /\ dying \subseteq {v \in VMs : inst[v] # "none"}
  /\ snap \subseteq {v \in VMs : inst[v] # "none"}
  /\ kind \in [Processes -> Kinds]
  /\ on \in [Processes -> VMs \cup {None}]
  /\ \A p \in Processes : todo[p] \in Seq(Steps)
  /\ swept \subseteq Requests
  /\ due \subseteq VMs
  /\ at \in [Passes -> {"idle", "list", "mark", "release"}]
  /\ names \in [Passes -> SUBSET VMs] /\ cand \in [Passes -> SUBSET VMs]
  /\ cur \in [Passes -> VMs \cup {None}]
  /\ link \in {"up", "down"}
  /\ events \in [VMs -> 0..MaxEvents]
  /\ remade \subseteq VMs /\ late \subseteq VMs /\ stuck \subseteq VMs
  /\ bare \subseteq VMs
  /\ faults \in 0..MaxFaults

\* A request comes after those with smaller numbers.
Arrived(r) == \A q \in Requests : q < r => kind[q] # "new"

CreateVM == <<"take", "create", "start", "provisioned">>

\* Some of the VMs run; a job is about to create the others, whose rows are new.
Init ==
  \E job \in [VMs -> Requests \cup {None}] :
    LET new == {v \in VMs : job[v] # None} IN
    /\ \A v, w \in new : v # w => job[v] # job[w]
    /\ status = [v \in VMs |-> IF v \in new THEN "creating" ELSE "running"]
    /\ inst = [v \in VMs |-> IF v \in new THEN "none" ELSE "running"]
    /\ young = new
    /\ home \in [VMs -> Projects]
    /\ kind = [p \in Processes |-> IF \E v \in new : job[v] = p THEN "create" ELSE "new"]
    /\ \A r \in Requests : kind[r] # "new" => Arrived(r)
    /\ on = [p \in Processes |-> IF \E v \in new : job[v] = p
                                 THEN CHOOSE v \in new : job[v] = p ELSE None]
    /\ todo = [p \in Processes |-> IF kind[p] = "create" THEN CreateVM ELSE <<>>]
    /\ trash = [v \in VMs |-> "no"] /\ rescue = {} /\ addr = [v \in VMs |-> "assigned"]
    /\ dying = {} /\ snap = {} /\ swept = {} /\ due = {}
    /\ at = [p \in Passes |-> "idle"] /\ names = [p \in Passes |-> {}]
    /\ cand = [p \in Passes |-> {}] /\ cur = [p \in Passes |-> None]
    /\ link = "up" /\ events = [v \in VMs |-> 0]
    /\ remade = {} /\ late = {} /\ stuck = {} /\ bare = {} /\ faults = 0

Fault == faults < MaxFaults /\ faults' = faults + 1
NoFault == UNCHANGED faults

-----------------------------------------------------------------------------
(* Handlers: what is asked of a VM, and what has to hold when its row is   *)
(* read                                                                    *)

\* GetByName and GetByNameIncludingTrashed; GetByID finds every row.
Named(v)    == status[v] # "deleted" /\ trash[v] = "no"
Findable(v) == status[v] # "deleted"

Accept(r, v, k, program) ==
  /\ kind[r] = "new" /\ Arrived(r)
  /\ kind' = [kind EXCEPT ![r] = k]
  /\ on' = [on EXCEPT ![r] = v]
  /\ todo' = [todo EXCEPT ![r] = program]
  /\ UNCHANGED <<rows, young, incus, home, swept, due, passes, stream, history, faults>>

TrashVM == <<"halt", "markTrashed">>
TrashService(r, v) == Accept(r, v, "portalTrash", TrashVM)
DeleteVM(r, v) == Named(v) /\ Accept(r, v, "call", TrashVM)

RestoreService(r, v) == trash[v] # "no" /\ Accept(r, v, "call", <<"unmarkTrashed">>)
RestoreVM(r, v) == Findable(v) /\ RestoreService(r, v)

PurgeTrashed == <<"halt", "delete", "deleteRow">>
PurgeVM(r, v) == Findable(v) /\ trash[v] # "no" /\ Accept(r, v, "call", PurgeTrashed)

\* Mistaken: the status is not looked at.
AnyMayBeForced(v) == TRUE
MayBeForced(v) == status[v] = "gone"
ForceDeleteGone(r, v) == MayBeForced(v) /\ Accept(r, v, "call", <<"deleteRow", "release">>)

\* VMAction knows the row; ChangeVMState and BatchVMs look for it by name afterwards.
VMAction(r, v) ==
  \E program \in {<<"start", "setRunning">>, <<"restart", "setRunning">>, <<"stop", "setStopped">>} :
    Accept(r, v, "call", program)
ChangeVMState(r, v) ==
  \E program \in {<<"start", "syncRunning">>, <<"restart", "syncRunning">>, <<"stop", "syncStopped">>} :
    Accept(r, v, "call", program)
BatchVMs(r, v) ==
  ChangeVMState(r, v) \/ Accept(r, v, "call", <<"halt", "delete", "deleteNamed">>)

\* The job of a reinstall. The image was probed and pulled before it is queued, none of which
\* changes anything. The administrator's job knows no row if the VM is not found by name.
ReinstallJob == <<"take", "halt", "delete", "await", "create", "start">>
Reinstall(r, v) == Accept(r, v, "reinstall", ReinstallJob)
ReinstallVM(r, v) == Accept(r, v, IF Named(v) THEN "reinstall" ELSE "call", ReinstallJob)

\* Without the guest's help; with it nothing changes but the guest.
OfflineReset == <<"halt", "patch", "start">>
ResetPassword(r, v) == Accept(r, v, "call", OfflineReset)
\* A cold migration and the change to stateful stop an instance that runs, and only that; a
\* live migration stops none.
Restarting(v, change) ==
  IF inst[v] = "running" THEN <<"stop", change, "start">> ELSE <<change>>
MigrateVM(r, v) == Accept(r, v, "change", Restarting(v, "move"))
EnableStateful(r, v) == Accept(r, v, "change", Restarting(v, "patch"))

\* Mistaken: the row is marked before there is a snapshot.
EnterRescueEarly == <<"setRescue", "snapshot", "stop">>
EnterRescue == <<"snapshot", "stop", "setRescue">>
Enter(r, v) == v \notin rescue /\ Accept(r, v, "call", EnterRescue)
\* The snapshot that is restored or dropped on the way out is the one the row names; it is
\* dropped when the row names it no more.
ExitRescue == <<"start", "clearRescue">>
Exit(r, v) == v \in rescue /\ Accept(r, v, "call", ExitRescue)
\* The user's own list of snapshots has the rescue snapshot, too.
DeleteSnapshot(r, v) == Accept(r, v, "call", <<"dropSnapshot">>)

Handler(r, v) ==
  \/ TrashService(r, v) \/ DeleteVM(r, v) \/ RestoreService(r, v) \/ RestoreVM(r, v)
  \/ PurgeVM(r, v) \/ ForceDeleteGone(r, v) \/ VMAction(r, v) \/ BatchVMs(r, v)
  \/ Reinstall(r, v) \/ ReinstallVM(r, v) \/ ResetPassword(r, v)
  \/ MigrateVM(r, v) \/ EnableStateful(r, v)
  \/ Enter(r, v) \/ Exit(r, v) \/ DeleteSnapshot(r, v)

-----------------------------------------------------------------------------
(* Programs: the next step of a process, and what a failure leaves of it   *)

At(p, step) == todo[p] # <<>> /\ Head(todo[p]) = step

Become(p, rest) ==
  /\ todo' = [todo EXCEPT ![p] = rest]
  /\ kind' = [kind EXCEPT ![p] = IF rest # <<>> THEN @ ELSE IF p = Purger THEN "new" ELSE "over"]
  /\ on' = [on EXCEPT ![p] = IF rest # <<>> THEN @ ELSE None]
  /\ UNCHANGED swept

Advance(p) == Become(p, Tail(todo[p]))

\* vmCreateExecutor.Rollback and vmReinstallExecutor.Rollback; mistaken: the address is given
\* up before the instance.
AddressFirst(k) == IF k = "create" THEN <<"release", "undo", "setError">> ELSE <<"setError">>
Rollback(k) == IF k = "create" THEN <<"undo", "release", "setError">> ELSE <<"setError">>

\* Errors that are only logged: of the stop before a delete or a change of the password, of
\* the release of an address, of the statements that follow a call that succeeded.
BestEffort == {"halt", "release", "undo", "setRunning", "setStopped", "syncRunning",
               "syncStopped", "deleteNamed", "setError"}

\* What a process does after its step has failed. A change that failed is followed by the
\* start that gives a stopped VM back.
Rest(p) ==
  CASE Head(todo[p]) \in BestEffort -> Tail(todo[p])
    [] kind[p] \in Jobs -> Rollback(kind[p])
    [] kind[p] = "change" /\ Head(todo[p]) \in {"move", "patch"} -> Tail(todo[p])
    [] OTHER -> <<>>
Fail(p) == Become(p, Rest(p))

Others(p) == UNCHANGED <<young, home, due, passes, stream>>

-----------------------------------------------------------------------------
(* Calls to Incus                                                          *)

\* The trash handler of the portal and the purger take every VM to be in "customers".
Reaches(p, v) == kind[p] \in {"portalTrash", "purge"} => home[v] = "customers"
There(p, v) == inst[v] # "none" /\ Reaches(p, v)
Able(p, v)  == There(p, v) /\ v \notin dying

Legal(step) == IF step = "start" THEN "stopped" ELSE "running"
After(step) == IF step \in {"start", "restart"} THEN "running" ELSE "stopped"

\* ChangeState, with its wait for the operation: the answer may be lost when it is done.
Power(p) ==
  \E step \in {"halt", "stop", "start", "restart"} : LET v == on[p] IN
    /\ At(p, step)
    /\ \/ /\ NoFault /\ Able(p, v) /\ inst[v] = Legal(step)
          /\ inst' = [inst EXCEPT ![v] = After(step)]
          /\ Advance(p)
       \/ /\ NoFault /\ ~(Able(p, v) /\ inst[v] = Legal(step))
          /\ UNCHANGED inst /\ Fail(p)
       \/ /\ Fault /\ Able(p, v) /\ inst[v] = Legal(step)
          /\ \/ UNCHANGED inst
             \/ inst' = [inst EXCEPT ![v] = After(step)]
          /\ Fail(p)
    /\ UNCHANGED <<rows, dying, snap, history>> /\ Others(p)

\* isAlreadyGoneErr: to the purger a VM that is not found is purged. Mistaken: so is any other
\* it cannot delete.
AnyErrorIsGone(p, v) == kind[p] = "purge"
AlreadyGone(p, v) == kind[p] = "purge" /\ ~There(p, v)

\* The delete is asked for and, but for a reinstall, not waited for.
Delete(p) ==
  LET v == on[p] IN
  /\ At(p, "delete")
  /\ \/ /\ NoFault /\ Able(p, v) /\ inst[v] = "stopped"
        /\ dying' = dying \cup {v}
        /\ Advance(p)
     \/ /\ \/ NoFault /\ ~(Able(p, v) /\ inst[v] = "stopped")
           \/ Fault /\ Able(p, v) /\ inst[v] = "stopped"
        /\ UNCHANGED dying
        /\ IF AlreadyGone(p, v) THEN Advance(p) ELSE Fail(p)
  /\ UNCHANGED <<rows, inst, snap, history>> /\ Others(p)

Await(p) ==
  /\ At(p, "await") /\ on[p] \notin dying
  /\ IF inst[on[p]] = "none" THEN Advance(p) ELSE Fail(p)
  /\ UNCHANGED <<rows, incus, history, faults>> /\ Others(p)

\* The row of a VM that is yet to be made is given up, or may be: nothing tells its job.
GivenUp(v) ==
  \/ v \notin young \/ status[v] = "deleted"
  \/ \E q \in Passes : at[q] # "idle"
  \/ on[Purger] = v

Create(p) ==
  LET v == on[p] IN
  /\ At(p, "create")
  /\ \/ /\ NoFault /\ inst[v] = "none"
        /\ inst' = [inst EXCEPT ![v] = "stopped"]
        /\ remade' = IF kind[p] # "create" THEN remade \cup {v} ELSE remade
        /\ late' = IF kind[p] = "create" /\ GivenUp(v) THEN late \cup {v} ELSE late
        /\ Advance(p)
     \/ /\ \/ NoFault /\ inst[v] # "none"
           \/ Fault /\ inst[v] = "none"
        /\ UNCHANGED <<inst, remade, late>> /\ Fail(p)
  /\ UNCHANGED <<rows, dying, snap, stuck, bare>> /\ Others(p)

\* The change of an instance's configuration or of its node.
Change(p) ==
  /\ At(p, "patch") \/ At(p, "move")
  /\ \/ NoFault /\ IF Able(p, on[p]) THEN Advance(p) ELSE Fail(p)
     \/ Fault /\ Able(p, on[p]) /\ Fail(p)
  /\ UNCHANGED <<rows, incus, history>> /\ Others(p)

\* EnterRescue does not insist that the snapshot was completed.
Snapshot(p) ==
  LET v == on[p] IN
  /\ At(p, "snapshot")
  /\ \/ NoFault /\ Able(p, v) /\ snap' = snap \cup {v} /\ UNCHANGED bare /\ Advance(p)
     \/ Fault /\ Able(p, v) /\ UNCHANGED snap /\ bare' = bare \cup {v} /\ Advance(p)
     \/ /\ \/ NoFault /\ ~Able(p, v)
           \/ Fault /\ Able(p, v)
        /\ UNCHANGED <<snap, bare>> /\ Fail(p)
  /\ UNCHANGED <<rows, inst, dying, remade, late, stuck>> /\ Others(p)

DropSnapshot(p) ==
  /\ At(p, "dropSnapshot")
  /\ IF Able(p, on[p])
     THEN snap' = snap \ {on[p]} /\ bare' = bare \cup {on[p]} /\ Advance(p)
     ELSE UNCHANGED <<snap, bare>> /\ Fail(p)
  /\ UNCHANGED <<rows, inst, dying, remade, late, stuck, faults>> /\ Others(p)

\* bestEffortDeleteInstance of a vm.create that failed.
Undo(p) ==
  LET v == on[p] IN
  /\ At(p, "undo")
  /\ \/ NoFault /\ Able(p, v) /\ dying' = dying \cup {v} /\ UNCHANGED stuck
     \/ NoFault /\ ~Able(p, v) /\ UNCHANGED <<dying, stuck>>
     \/ Fault /\ Able(p, v) /\ UNCHANGED dying /\ stuck' = stuck \cup {v}
  /\ Advance(p)
  /\ UNCHANGED <<rows, inst, snap, remade, late, bare>> /\ Others(p)

IncusStep(p) ==
  Power(p) \/ Delete(p) \/ Await(p) \/ Create(p) \/ Change(p) \/ Snapshot(p) \/ DropSnapshot(p)
  \/ Undo(p)

-----------------------------------------------------------------------------
(* Statements                                                              *)

\* MarkTrashed and UnmarkTrashed; the caller is told whether a row matched.
MarkTrashed(v) ==
  /\ trash' = IF trash[v] = "no" /\ status[v] \notin {"deleted", "gone"}
              THEN [trash EXCEPT ![v] = "window"] ELSE trash
  /\ UNCHANGED <<status, rescue, addr>>
UnmarkTrashed(v) == trash' = [trash EXCEPT ![v] = "no"] /\ UNCHANGED <<status, rescue, addr>>

UpdateStatus(v, s) == status' = [status EXCEPT ![v] = s] /\ UNCHANGED <<trash, rescue, addr>>
Release(v) == addr' = [addr EXCEPT ![v] = "cooldown"] /\ UNCHANGED <<status, trash, rescue>>
SetRescueState(v) == rescue' = rescue \cup {v} /\ UNCHANGED <<status, trash, addr>>
ClearRescueState(v) == rescue' = rescue \ {v} /\ UNCHANGED <<status, trash, addr>>

Write(step, v) ==
  CASE step = "markTrashed"   -> MarkTrashed(v)
    [] step = "unmarkTrashed" -> UnmarkTrashed(v)
    [] step = "deleteRow"     -> UpdateStatus(v, "deleted")
    [] step = "deleteNamed"   -> IF Named(v) THEN UpdateStatus(v, "deleted") ELSE UNCHANGED rows
    [] step = "setRunning"    -> UpdateStatus(v, "running")
    [] step = "setStopped"    -> UpdateStatus(v, "stopped")
    [] step = "syncRunning"   -> IF Named(v) THEN UpdateStatus(v, "running") ELSE UNCHANGED rows
    [] step = "syncStopped"   -> IF Named(v) THEN UpdateStatus(v, "stopped") ELSE UNCHANGED rows
    [] step = "setError"      -> UpdateStatus(v, "error")
    [] step = "provisioned"   -> IF status[v] \in {"creating", "running"}
                                 THEN UpdateStatus(v, "running") ELSE UNCHANGED rows
    [] step = "release"       -> Release(v)
    [] step = "setRescue"     -> SetRescueState(v)
    [] step = "clearRescue"   -> ClearRescueState(v)

Statements ==
  {"markTrashed", "unmarkTrashed", "deleteRow", "deleteNamed", "release", "setRunning",
   "setStopped", "syncRunning", "syncStopped", "setRescue", "clearRescue", "setError",
   "provisioned"}

Statement(p) ==
  \E step \in Statements :
    /\ At(p, step)
    /\ \/ NoFault /\ Write(step, on[p]) /\ Advance(p)
       \/ Fault /\ UNCHANGED rows /\ Fail(p)
    /\ UNCHANGED <<incus, history>> /\ Others(p)

\* A worker marks the job running, unless the sweeper was faster.
Take(p) ==
  /\ At(p, "take")
  /\ IF p \in swept THEN Become(p, <<>>) ELSE Advance(p)
  /\ UNCHANGED <<rows, incus, history, faults>> /\ Others(p)

ProcessStep(p) == IncusStep(p) \/ Statement(p) \/ Take(p)

\* The sweeper finds a reinstall older than thirty minutes, waiting or at work, and rolls it
\* back; the one at work goes on. (That of a vm.create is in Provisioning.)
Recover(r) ==
  /\ kind[r] = "reinstall" /\ r \notin swept
  /\ swept' = swept \cup {r}
  /\ UpdateStatus(on[r], "error")
  /\ UNCHANGED <<kind, on, todo, young, incus, home, due, passes, stream, history, faults>>

-----------------------------------------------------------------------------
(* RunVMTrashPurger                                                        *)

\* ListTrashedBefore; mistaken: only rows that were running.
OnlyRunning == {v \in VMs : trash[v] = "expired" /\ status[v] = "running"}
Expired == {v \in VMs : trash[v] = "expired" /\ status[v] # "deleted"}

ListTrashedBefore ==
  /\ kind[Purger] = "new" /\ due = {} /\ Expired # {}
  /\ due' = Expired
  /\ UNCHANGED <<rows, young, incus, home, requests, passes, stream, history, faults>>

Purge(v) ==
  /\ kind[Purger] = "new" /\ v \in due
  /\ due' = due \ {v}
  /\ kind' = [kind EXCEPT ![Purger] = "purge"]
  /\ on' = [on EXCEPT ![Purger] = v]
  /\ todo' = [todo EXCEPT ![Purger] = PurgeTrashed]
  /\ UNCHANGED <<rows, young, incus, home, swept, passes, stream, history, faults>>

PurgerStep == ListTrashedBefore \/ ProcessStep(Purger) \/ \E v \in VMs : Purge(v)

-----------------------------------------------------------------------------
(* The reconciler, on its timer and for the listener                       *)

\* Only one project is asked for; a cluster that cannot be reached is skipped.
ReadNames(p) ==
  /\ at[p] = "idle"
  /\ p = Listener => link = "down"
  /\ names' = [names EXCEPT ![p] = {v \in VMs : inst[v] # "none" /\ home[v] = "customers"}]
  /\ at' = [at EXCEPT ![p] = "list"]
  /\ UNCHANGED <<rows, young, incus, home, requests, due, cand, cur, stream, history, faults>>

\* ListActiveForReconcile; mistaken: without the cutoff, or only of VMs that should run.
ListedRunning == {v \in VMs : status[v] = "running" /\ trash[v] = "no" /\ v \notin young}
ListedYoung == {v \in VMs : status[v] \in Active /\ trash[v] = "no"}
Listed == {v \in VMs : status[v] \in Active /\ trash[v] = "no" /\ v \notin young}

\* A pass is over when nothing is left to mark; the listener connects again then.
PassOver(p) ==
  /\ at' = [at EXCEPT ![p] = "idle"]
  /\ names' = [names EXCEPT ![p] = {}]
  /\ link' = IF p = Listener THEN "up" ELSE link
  /\ UNCHANGED <<events, cur>>

ListActive(p) ==
  /\ at[p] = "list"
  /\ cand' = [cand EXCEPT ![p] = Listed \ names[p]]
  /\ IF cand'[p] = {} THEN PassOver(p)
     ELSE at' = [at EXCEPT ![p] = "mark"] /\ UNCHANGED <<names, cur, stream>>
  /\ UNCHANGED <<rows, young, incus, home, requests, due, history, faults>>

Retired == {"gone", "deleted"}

\* MarkGone answers with success when no row matched, too.
MarkGone(p) ==
  /\ at[p] = "mark"
  /\ IF cand[p] = {} THEN PassOver(p) /\ UNCHANGED <<rows, cand, faults>>
     ELSE \E v \in cand[p] :
       /\ cand' = [cand EXCEPT ![p] = @ \ {v}]
       /\ UNCHANGED <<names, stream>>
       /\ \/ /\ NoFault
             /\ IF status[v] \in Retired THEN UNCHANGED rows ELSE UpdateStatus(v, "gone")
             /\ at' = [at EXCEPT ![p] = "release"] /\ cur' = [cur EXCEPT ![p] = v]
          \/ Fault /\ UNCHANGED <<rows, at, cur>>
  /\ UNCHANGED <<young, incus, home, requests, due, history>>

ReleaseIP(p) ==
  /\ at[p] = "release"
  /\ \/ NoFault /\ Release(cur[p])
     \/ Fault /\ UNCHANGED rows
  /\ at' = [at EXCEPT ![p] = "mark"] /\ cur' = [cur EXCEPT ![p] = None]
  /\ UNCHANGED <<young, incus, home, requests, due, names, cand, stream, history>>

PassStep(p) == ReadNames(p) \/ ListActive(p) \/ MarkGone(p) \/ ReleaseIP(p)

-----------------------------------------------------------------------------
(* The event listener                                                      *)

\* handleLifecycle, instance-deleted: MarkGoneByName.
HandleDeleted(v) ==
  /\ link = "up" /\ events[v] > 0
  /\ events' = [events EXCEPT ![v] = @ - 1]
  /\ \/ /\ NoFault
        /\ IF status[v] \in Active /\ trash[v] = "no"
           THEN UpdateStatus(v, "gone") ELSE UNCHANGED rows
     \/ Fault /\ UNCHANGED rows
  /\ UNCHANGED <<young, incus, home, requests, due, passes, link, history>>

\* The stream breaks, and what was on its way is lost.
Disconnect ==
  /\ link = "up" /\ Fault
  /\ link' = "down" /\ events' = [v \in VMs |-> 0]
  /\ UNCHANGED <<rows, young, incus, home, requests, due, passes, history>>

-----------------------------------------------------------------------------
(* Incus, time and crashes                                                 *)

\* Told of a deletion, the listener hears of it later; cut off, never.
Tell(v) == events' = IF link = "up" /\ events[v] < MaxEvents
                     THEN [events EXCEPT ![v] = @ + 1] ELSE events

\* The instance goes with its snapshots; mistaken: without them.
VanishAlone(v) ==
  /\ inst' = [inst EXCEPT ![v] = "none"]
  /\ dying' = dying \ {v} /\ UNCHANGED snap
  /\ Tell(v)
Vanish(v) ==
  /\ inst' = [inst EXCEPT ![v] = "none"]
  /\ dying' = dying \ {v} /\ snap' = snap \ {v}
  /\ Tell(v)

IncusDeletes(v) ==
  /\ v \in dying
  /\ \/ NoFault /\ Vanish(v) /\ UNCHANGED stuck
     \/ Fault /\ dying' = dying \ {v} /\ stuck' = stuck \cup {v} /\ UNCHANGED <<inst, snap, events>>
  /\ UNCHANGED <<rows, young, home, requests, due, passes, link, remade, late, bare>>

\* Someone deletes the instance with Incus' own tools.
DeletedOutOfBand(v) ==
  /\ inst[v] # "none" /\ v \notin dying
  /\ Fault /\ Vanish(v)
  /\ UNCHANGED <<rows, young, home, requests, due, passes, link, history>>

\* The window of the trash passes; the row is no longer new.
Expire(v) ==
  /\ trash[v] = "window" /\ trash' = [trash EXCEPT ![v] = "expired"]
  /\ UNCHANGED <<status, rescue, addr, young, incus, home, requests, due, passes, stream,
                 history, faults>>
Age(v) ==
  /\ v \in young /\ young' = young \ {v}
  /\ UNCHANGED <<rows, incus, home, requests, due, passes, stream, history, faults>>

\* The process dies with the programs it runs, the parameters of jobs among them; the jobs'
\* rows are left to the sweeper of the next one.
Crash ==
  /\ Fault
  /\ LET left == {p \in Requests \ swept : kind[p] \in Jobs} IN
     /\ todo' = [p \in Processes |-> IF p \in left THEN Rollback(kind[p]) ELSE <<>>]
     /\ kind' = [p \in Processes |-> IF p = Purger THEN "new"
                                     ELSE IF p \in left \/ kind[p] = "new" THEN kind[p] ELSE "over"]
     /\ on' = [p \in Processes |-> IF p \in left THEN on[p] ELSE None]
  /\ due' = {}
  /\ at' = [p \in Passes |-> "idle"] /\ names' = [p \in Passes |-> {}]
  /\ cand' = [p \in Passes |-> {}] /\ cur' = [p \in Passes |-> None]
  /\ events' = [v \in VMs |-> 0] /\ link' = "up"
  /\ UNCHANGED <<rows, young, incus, home, swept, history>>

Next ==
  \/ \E r \in Requests : ProcessStep(r) \/ Recover(r) \/ \E v \in VMs : Handler(r, v)
  \/ PurgerStep
  \/ \E p \in Passes : PassStep(p)
  \/ \E v \in VMs : HandleDeleted(v) \/ IncusDeletes(v) \/ DeletedOutOfBand(v) \/ Expire(v) \/ Age(v)
  \/ Disconnect \/ Crash

Spec == Init /\ [][Next]_vars

\* Programs run on, Incus ends its operations and time passes; of that there is only so much,
\* so that it need not be fair to each of them. The tickers of the purger and of the
\* reconciler tick. Nothing says that anybody asks for anything.
Progress ==
  \/ \E r \in Requests : ProcessStep(r)
  \/ \E v \in VMs : IncusDeletes(v) \/ Expire(v) \/ Age(v)

Fairness == WF_vars(Progress) /\ WF_vars(PurgerStep) /\ \A p \in Passes : WF_vars(PassStep(p))

FairSpec == Spec /\ Fairness
-----------------------------------------------------------------------------
(* Properties                                                              *)

Living(v) == inst[v] # "none" /\ v \notin dying

\* Why a living instance may have a row that was given up: a reinstall made it again, its
\* vm.create came late, Incus did not delete it, or it is in a project nobody looks at.
Excused(v) == v \in remade \cup late \cup stuck \/ home[v] # "customers"

\* What is marked gone has vanished: a VM that lives is never shown as gone, whatever its
\* requests, the passes of the reconciler and delayed or lost events do to each other, but for
\* the excuses (ListActiveForReconcile's cutoff, MarkGone, MarkGoneByName).
LivingNotGone == \A v \in VMs : status[v] = "gone" /\ Living(v) => Excused(v)

\* The address of a living VM is not given to another: with the same excuses it never cools
\* down (reconcileCluster and ForceDeleteGone release addresses).
LivingKeepAddress == \A v \in VMs : addr[v] = "cooldown" /\ Living(v) => Excused(v)

\* No instance is left running behind a deleted row: a purge that failed, of the worker, of the
\* administrator or of a batch, leaves the row for the next attempt.
DeletedAreDestroyed == \A v \in VMs : status[v] = "deleted" /\ Living(v) => Excused(v)

\* A VM in rescue mode can be taken back to where it was: its instance has the snapshot,
\* unless a reinstall replaced it, Incus lost the snapshot or the user deleted it.
RescueCanBeUndone ==
  \A v \in rescue : Living(v) => v \in snap \/ v \in remade \cup bare

\* What is thrown away is destroyed in the end, or restored: the purger comes back to a row
\* whose instance it could not delete, and does not stumble over one whose instance is gone.
TrashEmptied ==
  \A v \in VMs : (trash[v] = "expired" /\ status[v] # "deleted")
                   ~> (trash[v] = "no" \/ status[v] = "deleted")

\* A VM that vanished does not stay on its owner's list as if it were there: with the events
\* lost, a crash at any step and calls that race, a pass of the reconciler finds it, unless
\* its row is trashed or repaired before.
Vanished(v) == status[v] \in Active /\ trash[v] = "no" /\ inst[v] = "none"
VanishedNoticed == \A v \in VMs : Vanished(v) ~> ~Vanished(v)

\* Instances deleted by the portal's own doing do not make their row gone, only those deleted
\* behind its back do (handleLifecycle's comment): a VM that was reinstalled is not gone.
ReinstalledNotGone == \A v \in remade : Living(v) => status[v] # "gone"

=============================================================================
