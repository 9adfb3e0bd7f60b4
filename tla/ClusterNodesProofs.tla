------------------------- MODULE ClusterNodesProofs -------------------------
(***************************************************************************)
(* What ClusterNodes.tla and Rebalance.tla promise for every number of     *)
(* nodes, VMs, requests and failures: every variable keeps its type, a     *)
(* node never has two automatic healing rows in progress, and what the     *)
(* rebalancing advice moves to a node fits the figures it is planned with. *)
(***************************************************************************)
EXTENDS Rebalance, FiniteSetTheorems, SequenceTheorems, WellFoundedInduction, TLAPS

-----------------------------------------------------------------------------
(* The inductive invariant                                                 *)

ReqType == [kind : Kinds \cup {"none"}, node : Nodes \cup {None}, pc : Points, id : Nat,
            res : {"none", "success", "failure"}, back : BOOLEAN, dead : BOOLEAN,
            status : JobStatus, old : BOOLEAN, ok : BOOLEAN, params : BOOLEAN, swept : BOOLEAN]
OpType  == [do : {"none", "evacuate", "restore"}, by : Requests \cup {None}]
ItemType == [st : {"off", "global", "source", "moving", "ok", "failed"},
             src : Nodes \cup {None}, to : Nodes \cup {None}]
EventType == [vm : VMs \cup {None}, node : Nodes,
              what : {"online", "offline", "evacuated", "moved"}, here : BOOLEAN]

\* A move is one of a VM.
EventTrue(e) == e \in EventType /\ (e.what = "moved" => e.vm \in VMs)

\* The listener at rest, about to insert a row for a node, to write the row of a VM, to look for
\* the row of the node it left, or to note it there.
EarType == [pc : {"idle"}] \cup [pc : {"create"}, node : Nodes]
             \cup [pc : {"update", "track"}, vm : VMs, from : Nodes, to : Nodes]
             \cup [pc : {"append"}, vm : VMs, to : Nodes, id : Nat \ {0}]

Members ==
  /\ member \in [Nodes -> {"absent", "Online", "Offline", "Evacuated"}]
  /\ manual \subseteq Nodes
  /\ place \in [VMs -> Nodes] /\ node \in [VMs -> Nodes]
  /\ op \in [Nodes -> OpType]
  /\ faults \in 0..Budget

\* An item of the batch has a receiver.
Items ==
  /\ batch \in [VMs -> ItemType]
  /\ \A v \in VMs : batch[v].st # "off" => batch[v].to \in Nodes

Hearing ==
  /\ link \in {"up", "down"} /\ lost \subseteq VMs
  /\ events \in Seq(EventType) /\ Len(events) <= MaxEvents
  /\ \A i \in 1..Len(events) : EventTrue(events[i])
  /\ ear \in EarType

\* A handler that still makes a row or asks Incus knows its node.
Asking ==
  /\ req \in [Requests -> ReqType]
  /\ \A r \in Requests : req[r].pc \in {"create", "post", "wait", "sleep"} => req[r].node \in Nodes

\* Rows are only added; who remembers one, remembers one that is there.
Remembered ==
  /\ healing \in Seq(Rows)
  /\ \A r \in Requests : req[r].id <= Len(healing)
  /\ ear.pc = "append" => ear.id <= Len(healing)

\* A node has one automatic row in progress at most, and none when the listener is about to
\* insert one: nobody else makes automatic rows, and the listener takes one event at a time.
AutoRows ==
  /\ \A n \in Nodes : \A i, j \in Automatic(n) : i = j
  /\ ear.pc = "create" => Automatic(ear.node) = {}

IInv == Members /\ Items /\ Hearing /\ Asking /\ Remembered /\ AutoRows

-----------------------------------------------------------------------------
(* Requests                                                                *)

LEMMA ReqIs ==
  ASSUME NEW q \in ReqType
  PROVE  /\ DOMAIN q = {"kind", "node", "pc", "id", "res", "back", "dead", "status", "old", "ok",
                        "params", "swept"}
         /\ q.kind \in Kinds \cup {"none"} /\ q.node \in Nodes \cup {None} /\ q.pc \in Points
         /\ q.id \in Nat /\ q.res \in {"none", "success", "failure"} /\ q.status \in JobStatus
         /\ q.back \in BOOLEAN /\ q.dead \in BOOLEAN /\ q.old \in BOOLEAN /\ q.ok \in BOOLEAN
         /\ q.params \in BOOLEAN /\ q.swept \in BOOLEAN
  BY DEF ReqType

\* A record some of whose fields are set keeps its type when what is set has it.
LEMMA SetFields ==
  ASSUME NEW q \in ReqType, NEW f,
         "kind" \in DOMAIN f => f["kind"] \in Kinds \cup {"none"},
         "node" \in DOMAIN f => f["node"] \in Nodes \cup {None},
         "pc" \in DOMAIN f => f["pc"] \in Points,
         "id" \in DOMAIN f => f["id"] \in Nat,
         "res" \in DOMAIN f => f["res"] \in {"none", "success", "failure"},
         "back" \in DOMAIN f => f["back"] \in BOOLEAN,
         "dead" \in DOMAIN f => f["dead"] \in BOOLEAN,
         "status" \in DOMAIN f => f["status"] \in JobStatus,
         "old" \in DOMAIN f => f["old"] \in BOOLEAN,
         "ok" \in DOMAIN f => f["ok"] \in BOOLEAN,
         "params" \in DOMAIN f => f["params"] \in BOOLEAN,
         "swept" \in DOMAIN f => f["swept"] \in BOOLEAN
  PROVE  /\ Updated(q, f) \in ReqType
         /\ Updated(q, f).pc = IF "pc" \in DOMAIN f THEN f["pc"] ELSE q.pc
         /\ Updated(q, f).node = IF "node" \in DOMAIN f THEN f["node"] ELSE q.node
         /\ Updated(q, f).id = IF "id" \in DOMAIN f THEN f["id"] ELSE q.id
  <1> DEFINE u == Updated(q, f)
             F == {"kind", "node", "pc", "id", "res", "back", "dead", "status", "old", "ok",
                   "params", "swept"}
  <1>1. DOMAIN q = F /\ \A k \in F : q[k] = q[k]
    BY ReqIs
  <1>2. u = [k \in F |-> u[k]] /\ \A k \in F : u[k] = IF k \in DOMAIN f THEN f[k] ELSE q[k]
    BY <1>1 DEF Updated
  <1> HIDE DEF u
  <1>3. /\ u["kind"] \in Kinds \cup {"none"} /\ u["node"] \in Nodes \cup {None}
        /\ u["pc"] \in Points /\ u["id"] \in Nat /\ u["res"] \in {"none", "success", "failure"}
        /\ u["status"] \in JobStatus /\ u["back"] \in BOOLEAN /\ u["dead"] \in BOOLEAN
        /\ u["old"] \in BOOLEAN /\ u["ok"] \in BOOLEAN
        /\ u["params"] \in BOOLEAN /\ u["swept"] \in BOOLEAN
    BY <1>2, ReqIs
  <1>4. u = [kind |-> u["kind"], node |-> u["node"], pc |-> u["pc"], id |-> u["id"],
             res |-> u["res"], back |-> u["back"], dead |-> u["dead"], status |-> u["status"],
             old |-> u["old"], ok |-> u["ok"], params |-> u["params"], swept |-> u["swept"]]
    BY <1>2
  <1>5. u \in ReqType
    BY <1>3, <1>4 DEF ReqType
  <1> QED BY <1>2, <1>5 DEF u

Asks == {"create", "post", "wait", "sleep"}

\* A request's record becomes another one that remembers the same row.
Changed(r) ==
  \E u \in ReqType : /\ req' = [req EXCEPT ![r] = u] /\ u.id = req[r].id
                     /\ u.pc \in Asks => u.node \in Nodes

LEMMA ChangedIf ==
  ASSUME Asking, NEW r \in Requests, NEW f, Set(r, f),
         "kind" \in DOMAIN f => f["kind"] \in Kinds \cup {"none"},
         "node" \in DOMAIN f => f["node"] \in Nodes \cup {None},
         "pc" \in DOMAIN f => f["pc"] \in Points,
         "id" \notin DOMAIN f,
         "res" \in DOMAIN f => f["res"] \in {"none", "success", "failure"},
         "back" \in DOMAIN f => f["back"] \in BOOLEAN,
         "dead" \in DOMAIN f => f["dead"] \in BOOLEAN,
         "status" \in DOMAIN f => f["status"] \in JobStatus,
         "old" \in DOMAIN f => f["old"] \in BOOLEAN,
         "ok" \in DOMAIN f => f["ok"] \in BOOLEAN,
         "params" \in DOMAIN f => f["params"] \in BOOLEAN,
         "swept" \in DOMAIN f => f["swept"] \in BOOLEAN,
         "node" \in DOMAIN f => f["node"] \in Nodes \/ ("pc" \in DOMAIN f /\ f["pc"] \notin Asks),
         "pc" \in DOMAIN f /\ "node" \notin DOMAIN f => f["pc"] \notin Asks \/ req[r].pc \in Asks
  PROVE  Changed(r)
  <1> DEFINE u == Updated(req[r], f)
  <1>1. req[r] \in ReqType /\ (req[r].pc \in Asks => req[r].node \in Nodes)
    BY DEF Asking, Asks
  <1>2. u \in ReqType /\ u.id = req[r].id
    BY <1>1, SetFields
  <1>3. /\ u.pc = IF "pc" \in DOMAIN f THEN f["pc"] ELSE req[r].pc
        /\ u.node = IF "node" \in DOMAIN f THEN f["node"] ELSE req[r].node
    BY <1>1, SetFields
  <1>4. req' = [req EXCEPT ![r] = u]
    BY DEF Set
  <1> HIDE DEF u
  <1>5. u.pc \in Asks => u.node \in Nodes
    BY <1>1, <1>3
  <1> QED BY <1>2, <1>4, <1>5 DEF Changed

\* What Set does in each of the ways it is used.
LEMMA ChangedTo ==
  ASSUME Asking, NEW r \in Requests, NEW pc \in Points, Set(r, [pc |-> pc]),
         pc \notin Asks \/ req[r].pc \in Asks
  PROVE  Changed(r)
  BY ChangedIf

LEMMA ChangedOver ==
  ASSUME Asking, NEW r \in Requests, NEW pc \in Points, Set(r, Over(pc)),
         pc \notin Asks \/ req[r].pc \in Asks
  PROVE  Changed(r)
  <1>1. CASE pc = "done"
    <2>1. Set(r, [pc |-> pc, node |-> None, res |-> "none", back |-> FALSE, dead |-> FALSE])
      BY <1>1 DEF Over
    <2>2. pc \notin Asks
      BY <1>1 DEF Asks
    <2> QED BY <2>1, <2>2, ChangedIf
  <1>2. CASE pc # "done"
    <2>1. Set(r, [pc |-> pc])
      BY <1>2 DEF Over
    <2> QED BY <2>1, ChangedTo
  <1> QED BY <1>1, <1>2

\* Handlers.
LEMMA HandlerChanges ==
  ASSUME Asking, NEW r \in Requests, HandlerStep(r) \/ ContextEnds(r)
  PROVE  \/ Changed(r)
         \/ /\ Set(r, [pc |-> "post", id |-> Len(healing) + 1]) /\ req[r].pc = "create"
            /\ healing' = Append(healing, NewRow(req[r].node, IF Drills(r) THEN "chaos" ELSE "manual"))
  <1>p. \A pc \in {"create", "post", "wait", "sleep", "refused", "failed", "complete", "done"} :
          pc \in Points
    BY DEF Points
  <1>1. CASE CreateRow(r)
    <2>1. req[r].pc = "create"
      BY <1>1 DEF CreateRow
    <2>2. CASE Set(r, [pc |-> "post"])
      BY <1>p, <2>1, <2>2, ChangedTo DEF Asks
    <2> QED BY <1>1, <2>1, <2>2 DEF CreateRow
  <1>2. CASE PostState(r)
    <2>1. req[r].pc = "post"
      BY <1>2 DEF PostState
    <2>2. CASE Set(r, [pc |-> "wait", res |-> "none"])
      BY <1>p, <2>1, <2>2, ChangedIf DEF Asks
    <2>3. CASE \E pc \in {"done", "refused"} : Set(r, Over(pc))
      BY <1>p, <2>1, <2>3, ChangedOver DEF Asks
    <2> QED BY <1>2, <2>2, <2>3 DEF PostState
  <1>3. CASE WaitTooLong(r) \/ ContextEnds(r)
    <2>1. Set(r, [dead |-> TRUE])
      BY <1>3 DEF WaitTooLong, ContextEnds, Dies
    <2> QED BY <2>1, ChangedIf
  <1>4. CASE Waited(r)
    <2>1. req[r].pc = "wait"
      BY <1>4 DEF Waited
    <2>2. \E pc \in {"done", "failed", "sleep", "complete"} : Set(r, Over(pc))
      BY <1>4 DEF Waited
    <2> QED BY <1>p, <2>1, <2>2, ChangedOver DEF Asks
  <1>5. CASE Sleep(r)
    <2>1. req[r].pc = "sleep"
      BY <1>5 DEF Sleep
    <2>2. Set(r, [pc |-> "failed"]) \/ Set(r, [pc |-> "post", back |-> TRUE])
      BY <1>5 DEF Sleep
    <2>3. CASE Set(r, [pc |-> "failed"])
      BY <1>p, <2>3, <2>1, ChangedTo DEF Asks
    <2>4. CASE Set(r, [pc |-> "post", back |-> TRUE])
      BY <1>p, <2>1, <2>4, ChangedIf DEF Asks
    <2> QED BY <2>2, <2>3, <2>4
  <1>6. CASE FailRow(r) \/ CompleteRow(r)
    <2>1. \E pc \in {"complete", "done"} : Set(r, Over(pc))
      BY <1>6 DEF FailRow, CompleteRow
    <2> QED BY <1>p, <2>1, ChangedOver DEF Asks
  <1> QED BY <1>1, <1>2, <1>3, <1>4, <1>5, <1>6 DEF HandlerStep

\* Those that come.
LEMMA ComingChanges ==
  ASSUME Asking, NEW r \in Requests, NEW n \in Nodes, NEW kind,
         \/ SetMaintenance(r, n)
         \/ kind \in {"evacuate", "chaos", "restore"} /\ Ask(r, kind, n)
         \/ kind \in {"add", "remove"} /\ SubmitNodeJob(r, kind, n)
  PROVE  Changed(r)
  <1>p. {"done", "create", "post", "queued"} \subseteq Points
    BY DEF Points
  <1>1. CASE SetMaintenance(r, n)
    <2>1. Set(r, [kind |-> "maintenance", pc |-> "done"])
      BY <1>1 DEF SetMaintenance
    <2> QED BY <1>p, <2>1, ChangedIf DEF Kinds, Asks
  <1>2. CASE kind \in {"evacuate", "chaos", "restore"} /\ Ask(r, kind, n)
    <2>1. \E pc \in {"create", "post"} : Set(r, [kind |-> kind, node |-> n, pc |-> pc])
      BY <1>2 DEF Ask
    <2>2. PICK pc \in {"create", "post"} : Set(r, [kind |-> kind, node |-> n, pc |-> pc])
      BY <2>1
    <2>3. kind \in Kinds /\ pc \in Points
      BY <1>p, <1>2 DEF Kinds
    <2> QED BY <2>2, <2>3, ChangedIf
  <1>3. CASE kind \in {"add", "remove"} /\ SubmitNodeJob(r, kind, n)
    <2>1. Set(r, [kind |-> kind, node |-> n, pc |-> "queued", status |-> "queued", params |-> TRUE])
      BY <1>3 DEF SubmitNodeJob, Submitted
    <2>2. kind \in Kinds /\ "queued" \in JobStatus
      BY <1>3 DEF Kinds, JobKinds, JobStatus
    <2> QED BY <1>p, <2>1, <2>2, ChangedIf
  <1> QED BY <1>1, <1>2, <1>3

\* Workers and the sweeper.
LEMMA WorkerChanges ==
  ASSUME Asking, NEW r \in Requests, WorkerStep(r) \/ AgeJob(r) \/ Sweep(r) \/ SweepUndo(r)
  PROVE  Changed(r)
  <1> DEFINE Jobs == {"token", "upload", "script", "joined", "await", "evacuating", "leave", "run",
                      "undo", "finish", "done"}
  <1>p. \A pc \in Jobs : pc \in Points /\ pc \notin Asks
    BY DEF Points, Asks
  <1>s. {"running", "partial", "succeeded", "failed"} \subseteq JobStatus
    BY DEF JobStatus
  <1>q. req[r].status \in JobStatus
    BY ReqIs DEF Asking
  <1> HIDE DEF Jobs
  <1>1. ASSUME \E pc \in Jobs : Set(r, [pc |-> pc]) PROVE Changed(r)
    BY <1>p, <1>1, ChangedTo
  <1>2. CASE TakeJob(r)
    <2>1. \/ \E pc \in Jobs : Set(r, [status |-> "running", pc |-> pc])
          \/ \E pc \in Jobs : Set(r, [pc |-> pc])
      BY <1>2 DEF TakeJob, Jobs
    <2>2. CASE \E pc \in Jobs : Set(r, [status |-> "running", pc |-> pc])
      BY <1>p, <1>s, <2>2, ChangedIf
    <2> QED BY <1>1, <2>1, <2>2
  <1>3. CASE Token(r) \/ UploadScripts(r) \/ Join(r)
    <2>1. \E pc \in Jobs : Set(r, [pc |-> pc])
      BY <1>3 DEF Token, UploadScripts, Join, Jobs
    <2> QED BY <1>1, <2>1
  <1>4. CASE AddScriptEnds(r) \/ RemoveScriptEnds(r)
    <2>1. \E pc \in Jobs : Set(r, [pc |-> pc, ok |-> TRUE]) \/ Set(r, [pc |-> pc])
      BY <1>4 DEF AddScriptEnds, RemoveScriptEnds, Jobs
    <2>2. CASE \E pc \in Jobs : Set(r, [pc |-> pc, ok |-> TRUE])
      BY <1>p, <2>2, ChangedIf
    <2> QED BY <1>1, <2>1, <2>2
  <1>5. CASE RemoveEvacuates(r)
    <2>1. \E pc \in Jobs : Set(r, [pc |-> pc, res |-> "none"])
      BY <1>5 DEF RemoveEvacuates, Jobs
    <2> QED BY <1>p, <2>1, ChangedIf
  <1>6. CASE RemoveLeaves(r)
    <2>1. \E pc \in Jobs : Set(r, [pc |-> pc])
      BY <1>6 DEF RemoveLeaves, Jobs
    <2> QED BY <1>1, <2>1
  <1>7. CASE BatchEnds(r)
    <2>1. \E pc \in Jobs : Set(r, [pc |-> pc, ok |-> TRUE, params |-> FALSE]) \/ Set(r, [pc |-> pc])
      BY <1>7 DEF BatchEnds, Jobs
    <2>2. CASE \E pc \in Jobs : Set(r, [pc |-> pc, ok |-> TRUE, params |-> FALSE])
      BY <1>p, <2>2, ChangedIf
    <2> QED BY <1>1, <2>1, <2>2
  <1>8. CASE Undo(r)
    <2>1. \E pc \in Jobs : Set(r, [pc |-> pc, params |-> FALSE])
      BY <1>8 DEF Undo, Jobs
    <2> QED BY <1>p, <2>1, ChangedIf
  <1>9. CASE Finish(r)
    <2>1. \E pc \in Jobs, st \in JobStatus :
            Set(r, [pc |-> pc, node |-> None, res |-> "none", back |-> FALSE, dead |-> FALSE,
                    params |-> FALSE, status |-> st])
      <3>1. \E st \in JobStatus :
              Set(r, [pc |-> "done", node |-> None, res |-> "none", back |-> FALSE, dead |-> FALSE,
                      params |-> FALSE, status |-> st])
        BY <1>9, <1>q, <1>s DEF Finish
      <3> QED BY <3>1 DEF Jobs
    <2> QED BY <1>p, <2>1, ChangedIf
  <1>10. CASE AgeJob(r)
    <2>1. Set(r, [old |-> TRUE])
      BY <1>10 DEF AgeJob
    <2> QED BY <2>1, ChangedIf
  <1>11. CASE Sweep(r)
    <2>1. Set(r, [status |-> "partial", swept |-> TRUE])
      BY <1>11 DEF Sweep
    <2> QED BY <1>s, <2>1, ChangedIf
  <1>12. CASE SweepUndo(r)
    <2>1. Set(r, [swept |-> FALSE, params |-> FALSE])
      BY <1>12 DEF SweepUndo
    <2> QED BY <2>1, ChangedIf
  <1> QED BY <1>2, <1>3, <1>4, <1>5, <1>6, <1>7, <1>8, <1>9, <1>10, <1>11, <1>12 DEF WorkerStep

\* The end of an operation is told to the one who asked for it.
LEMMA AnswerChanges ==
  ASSUME Asking, NEW n, NEW res \in {"success", "failure"}, Answer(n, res)
  PROVE  UNCHANGED req \/ \E r \in Requests : Changed(r)
  <1> DEFINE r == op[n].by
             u == [req[r] EXCEPT !.res = res]
  <1>1. CASE UNCHANGED req
    BY <1>1
  <1>2. CASE req' = [req EXCEPT ![r].res = res] /\ r \in Requests
    <2>1. req[r] \in ReqType /\ (req[r].pc \in Asks => req[r].node \in Nodes)
      BY <1>2 DEF Asking, Asks
    <2>2. u \in ReqType /\ u.id = req[r].id /\ u.pc = req[r].pc /\ u.node = req[r].node
      BY <2>1 DEF ReqType
    <2>3. req' = [req EXCEPT ![r] = u]
      BY <1>2
    <2> HIDE DEF u, r
    <2> QED BY <1>2, <2>1, <2>2, <2>3 DEF Changed
  <1>3. CASE req' = [req EXCEPT ![r].res = res] /\ r \notin Requests
    BY <1>3 DEF Asking
  <1> QED BY <1>1, <1>2, <1>3 DEF Answer

\* A handler inserts its row.
Inserts(r) ==
  /\ Set(r, [pc |-> "post", id |-> Len(healing) + 1]) /\ req[r].pc = "create"
  /\ healing' = Append(healing, NewRow(req[r].node, IF Drills(r) THEN "chaos" ELSE "manual"))
  /\ UNCHANGED ear

\* Whatever a step does to the requests' records.
LEMMA RequestMoves ==
  ASSUME Asking, [Next]_vars
  PROVE  \/ UNCHANGED req
         \/ \E r \in Requests : Changed(r) \/ Inserts(r)
  <1>1. CASE Disconnect \/ Reconnect \/ StatementFails \/ ExpireStale
    BY <1>1 DEF Disconnect, Reconnect, StatementFails, ExpireStale, ListenerOnly
  <1>2. CASE ListenerStep
    BY <1>2 DEF ListenerStep, MemberDown, CreateAuto, MemberUp, InstanceUpdated, UpdateNodeByName,
                TrackMovement, AppendEvacuatedVM, ListenerOnly
  <1>3. CASE IncusStep
    <2>1. ASSUME NEW v \in VMs, NEW to \in Nodes, Relocate(v, to) PROVE UNCHANGED req
      BY <2>1 DEF Relocate
    <2>2. ASSUME NEW n \in Nodes, OperationEnds(n) \/ OperationFails(n)
          PROVE  UNCHANGED req \/ \E r \in Requests : Changed(r)
      BY <2>2, AnswerChanges DEF OperationEnds, OperationFails
    <2>3. ASSUME NEW n \in Nodes, NodeFails(n) \/ NodeReturns(n) PROVE UNCHANGED req
      BY <2>3 DEF NodeFails, NodeReturns
    <2> QED BY <1>3, <2>1, <2>2, <2>3 DEF IncusStep
  <1>4. ASSUME NEW i \in DOMAIN healing, Age(i) PROVE UNCHANGED req
    BY <1>4 DEF Age
  <1>5. ASSUME NEW r \in Requests, RequestStep(r) PROVE Changed(r) \/ Inserts(r)
    <2>1. CASE HandlerStep(r) \/ ContextEnds(r)
      <3>1. UNCHANGED ear
        BY <2>1 DEF HandlerStep, CreateRow, PostState, WaitTooLong, Waited, Sleep, FailRow,
                    CompleteRow, ContextEnds, Dies, HandlerOnly
      <3> QED BY <2>1, <3>1, HandlerChanges DEF Inserts
    <2>2. CASE WorkerStep(r) \/ AgeJob(r) \/ Sweep(r) \/ SweepUndo(r)
      BY <2>2, WorkerChanges
    <2>3. CASE ~(HandlerStep(r) \/ ContextEnds(r) \/ WorkerStep(r) \/ AgeJob(r) \/ Sweep(r) \/ SweepUndo(r))
      <3>1. CASE SubmitBatch(r)
        <4>1. Set(r, [kind |-> "batch", node |-> None, pc |-> "queued", status |-> "queued", params |-> TRUE])
          BY <3>1 DEF SubmitBatch, Submitted
        <4>2. "batch" \in Kinds /\ "queued" \in JobStatus /\ "queued" \in Points
          BY DEF Kinds, JobKinds, JobStatus, Points
        <4> QED BY <4>1, <4>2, ChangedIf DEF Asks
      <3>2. CASE \E n \in Nodes :
                   \/ SetMaintenance(r, n)
                   \/ \E kind \in {"evacuate", "chaos", "restore"} : Ask(r, kind, n)
                   \/ \E kind \in {"add", "remove"} : SubmitNodeJob(r, kind, n)
        BY <3>2, ComingChanges
      <3> QED BY <1>5, <2>3, <3>1, <3>2 DEF RequestStep
    <2> QED BY <2>1, <2>2, <2>3
  <1>6. ASSUME NEW v \in VMs, ItemStep(v) PROVE UNCHANGED req
    BY <1>6 DEF ItemStep, TakeGlobal, TakeSource, MigrateItem, CancelItem, ItemOnly
  <1>7. CASE UNCHANGED vars
    BY <1>7 DEF vars
  <1> QED BY <1>1, <1>2, <1>3, <1>4, <1>5, <1>6, <1>7 DEF Next

LEMMA InsertedIs ==
  ASSUME Asking, NEW r \in Requests, Inserts(r), Len(healing) \in Nat
  PROVE  /\ req[r].node \in Nodes
         /\ \E u \in ReqType : /\ req' = [req EXCEPT ![r] = u] /\ u.id = Len(healing) + 1
                               /\ u.node \in Nodes
  <1> DEFINE f == [pc |-> "post", id |-> Len(healing) + 1]
             u == Updated(req[r], f)
  <1>1. req[r] \in ReqType /\ req[r].node \in Nodes
    BY DEF Asking, Inserts
  <1>2. "post" \in Points /\ Len(healing) + 1 \in Nat
    BY DEF Points
  <1>3. u \in ReqType /\ u.id = Len(healing) + 1 /\ u.node = req[r].node
    BY <1>1, <1>2, SetFields
  <1>4. req' = [req EXCEPT ![r] = u]
    BY DEF Inserts, Set
  <1> HIDE DEF u
  <1> QED BY <1>1, <1>3, <1>4

LEMMA AskingStep == Asking /\ healing \in Seq(Rows) /\ [Next]_vars => Asking'
  <1> SUFFICES ASSUME Asking, healing \in Seq(Rows), [Next]_vars PROVE Asking'
    OBVIOUS
  <1>1. CASE UNCHANGED req
    BY <1>1 DEF Asking
  <1>2. ASSUME NEW r \in Requests, Changed(r) PROVE Asking'
    BY <1>2 DEF Changed, Asking, Asks
  <1>3. ASSUME NEW r \in Requests, Inserts(r) PROVE Asking'
    <2>1. PICK u \in ReqType : req' = [req EXCEPT ![r] = u] /\ u.node \in Nodes
      BY <1>3, InsertedIs
    <2> QED BY <2>1 DEF Asking
  <1> QED BY <1>1, <1>2, <1>3, RequestMoves

-----------------------------------------------------------------------------
(* Healing rows                                                            *)

\* Rows stay, with their nodes and triggers; none is opened again.
Touched ==
  /\ healing' \in Seq(Rows) /\ Len(healing') = Len(healing)
  /\ \A n : Automatic(n)' \subseteq Automatic(n)

LEMMA AutoIs ==
  ASSUME healing \in Seq(Rows), NEW n, NEW i
  PROVE  i \in Automatic(n) <=> /\ i \in 1..Len(healing) /\ healing[i].status = "in_progress"
                                /\ healing[i].node = n /\ healing[i].trigger = "auto"
  BY DEF Automatic, OpenOf, Open

LEMMA TouchedIf ==
  ASSUME healing \in Seq(Rows), NEW h, healing' = h, DOMAIN h = DOMAIN healing,
         h = [i \in DOMAIN healing |-> h[i]],
         \A i \in 1..Len(healing) :
           /\ h[i] \in Rows /\ h[i].node = healing[i].node /\ h[i].trigger = healing[i].trigger
           /\ h[i].status = "in_progress" => healing[i].status = "in_progress"
  PROVE  Touched
  <1>1. Len(healing) \in Nat /\ DOMAIN healing = 1..Len(healing)
    OBVIOUS
  <1>2. h \in [1..Len(healing) -> Rows]
    BY <1>1
  <1>3. h \in Seq(Rows) /\ Len(h) = Len(healing)
    BY <1>1, <1>2, SeqDef, LenProperties
  <1>4. \A n, i : i \in Automatic(n)' <=> /\ i \in 1..Len(h) /\ h[i].status = "in_progress"
                                          /\ h[i].node = n /\ h[i].trigger = "auto"
    BY <1>3 DEF Automatic, OpenOf, Open
  <1>5. ASSUME NEW n, NEW i, i \in Automatic(n)' PROVE i \in Automatic(n)
    <2>1. i \in 1..Len(healing) /\ h[i].status = "in_progress" /\ h[i].node = n /\ h[i].trigger = "auto"
      BY <1>3, <1>4, <1>5
    <2>2. healing[i].status = "in_progress" /\ healing[i].node = n /\ healing[i].trigger = "auto"
      BY <2>1
    <2> QED BY <2>1, <2>2, AutoIs
  <1> QED BY <1>3, <1>5 DEF Touched

LEMMA SettleTouches ==
  ASSUME healing \in Seq(Rows), NEW S, NEW status \in {"completed", "failed", "partial"},
         Settle(S, status)
  PROVE  Touched
  <1>0. \A i \in 1..Len(healing) : healing[i] \in Rows
    OBVIOUS
  <1>1. PICK h : /\ h = healing'
                 /\ h = [i \in DOMAIN healing |->
                           IF i \in S THEN [healing[i] EXCEPT !.status = status, !.old = FALSE]
                           ELSE healing[i]]
    BY DEF Settle
  <1>2. ASSUME NEW i \in 1..Len(healing)
        PROVE  /\ h[i] \in Rows /\ h[i].node = healing[i].node /\ h[i].trigger = healing[i].trigger
               /\ h[i].status = "in_progress" => healing[i].status = "in_progress"
    <2>1. status \in HealingStatus /\ status # "in_progress"
      BY DEF HealingStatus
    <2>2. i \in DOMAIN healing /\ healing[i] \in Rows
      BY <1>0
    <2>3. CASE i \in S
      <3> DEFINE d == [healing[i] EXCEPT !.status = status, !.old = FALSE]
      <3>1. d \in Rows /\ d.node = healing[i].node /\ d.trigger = healing[i].trigger /\ d.status = status
        BY <2>1, <2>2 DEF Rows
      <3>2. h[i] = d
        BY <1>1, <2>2, <2>3
      <3> HIDE DEF d
      <3> QED BY <2>1, <3>1, <3>2
    <2>4. CASE i \notin S
      <3>1. h[i] = healing[i]
        BY <1>1, <2>2, <2>4
      <3> QED BY <2>2, <3>1
    <2> QED BY <2>3, <2>4
  <1>3. DOMAIN h = DOMAIN healing /\ h = [i \in DOMAIN healing |-> h[i]]
    BY <1>1
  <1> QED BY <1>1, <1>2, <1>3, TouchedIf

LEMMA OneTouches ==
  ASSUME healing \in Seq(Rows), NEW i \in 1..Len(healing), NEW d \in Rows,
         healing' = [healing EXCEPT ![i] = d],
         d.node = healing[i].node, d.trigger = healing[i].trigger, d.status = healing[i].status
  PROVE  Touched
  <1>1. PICK h : h = healing'
    OBVIOUS
  <1>2. \A j \in 1..Len(healing) : h[j] = IF j = i THEN d ELSE healing[j]
    BY <1>1
  <1>3. DOMAIN h = DOMAIN healing /\ h = [j \in DOMAIN healing |-> h[j]]
    BY <1>1
  <1> QED BY <1>1, <1>2, <1>3, TouchedIf

LEMMA SameTouches == healing \in Seq(Rows) /\ UNCHANGED healing => Touched
  BY DEF Touched, Automatic, OpenOf, Open

\* The listener inserts its row.
InsertsAuto ==
  /\ ear.pc = "create" /\ ear' = [pc |-> "idle"] /\ UNCHANGED req
  /\ healing' = Append(healing, NewRow(ear.node, "auto"))

\* Whatever a step does to the rows.
LEMMA RowMoves ==
  ASSUME Asking, Hearing, Remembered, [Next]_vars
  PROVE  Touched \/ InsertsAuto \/ \E r \in Requests : Inserts(r)
  <1>h. healing \in Seq(Rows) /\ \A i \in 1..Len(healing) : healing[i] \in Rows
    BY DEF Remembered
  <1>1. CASE Disconnect \/ Reconnect \/ StatementFails
    BY <1>1, <1>h, SameTouches DEF Disconnect, Reconnect, StatementFails
  <1>2. CASE ExpireStale
    <2>1. Settle(Stale, "partial")
      BY <1>2 DEF ExpireStale
    <2> QED BY <1>h, <2>1, SettleTouches
  <1>3. CASE ListenerStep
    <2>1. CASE MemberDown \/ InstanceUpdated \/ UpdateNodeByName \/ TrackMovement
      BY <1>h, <2>1, SameTouches DEF MemberDown, InstanceUpdated, UpdateNodeByName, TrackMovement
    <2>2. CASE CreateAuto
      BY <2>2 DEF CreateAuto, InsertsAuto, ListenerOnly
    <2>3. CASE MemberUp
      <3>1. Settle(Automatic(Head(events).node), "completed")
        BY <2>3 DEF MemberUp
      <3> QED BY <1>h, <3>1, SettleTouches
    <2>4. CASE AppendEvacuatedVM
      <3>1. CASE UNCHANGED healing
        BY <1>h, <3>1, SameTouches
      <3>2. CASE /\ healing' = [healing EXCEPT ![ear.id].moved = @ \cup {<<ear.vm, ear.to>>}]
                 /\ ear.pc = "append"
        <4> DEFINE i == ear.id
                   d == [healing[i] EXCEPT !.moved = @ \cup {<<ear.vm, ear.to>>}]
        <4>1. ear.vm \in VMs /\ ear.to \in Nodes /\ i \in 1..Len(healing)
          <5>1. ear \in [pc : {"append"}, vm : VMs, to : Nodes, id : Nat \ {0}]
            BY <3>2 DEF Hearing, EarType
          <5> QED BY <3>2, <5>1 DEF Remembered
        <4>2. healing[i] \in Rows
          BY <1>h, <4>1
        <4>3. /\ d \in Rows /\ d.node = healing[i].node /\ d.trigger = healing[i].trigger
              /\ d.status = healing[i].status
          BY <4>1, <4>2 DEF Rows
        <4>4. healing' = [healing EXCEPT ![i] = d]
          BY <3>2
        <4> HIDE DEF i, d
        <4> QED BY <1>h, <4>1, <4>3, <4>4, OneTouches
      <3> QED BY <2>4, <3>1, <3>2 DEF AppendEvacuatedVM
    <2> QED BY <1>3, <2>1, <2>2, <2>3, <2>4 DEF ListenerStep
  <1>4. CASE IncusStep
    BY <1>4, <1>h, SameTouches
    DEF IncusStep, Relocate, OperationEnds, OperationFails, NodeFails, NodeReturns, IncusOnly
  <1>5. ASSUME NEW i \in DOMAIN healing, Age(i) PROVE Touched
    <2> DEFINE d == [healing[i] EXCEPT !.old = TRUE]
    <2>1. i \in 1..Len(healing) /\ healing[i] \in Rows
      BY <1>h
    <2>2. /\ d \in Rows /\ d.node = healing[i].node /\ d.trigger = healing[i].trigger
          /\ d.status = healing[i].status
      BY <2>1 DEF Rows
    <2>3. healing' = [healing EXCEPT ![i] = d]
      BY <1>5 DEF Age
    <2> HIDE DEF d
    <2> QED BY <1>h, <2>1, <2>2, <2>3, OneTouches
  <1>6. ASSUME NEW r \in Requests, HandlerStep(r) \/ ContextEnds(r) PROVE Touched \/ Inserts(r)
    <2>1. CASE CreateRow(r)
      <3>1. UNCHANGED healing \/ Inserts(r)
        BY <2>1 DEF CreateRow, Inserts, HandlerOnly
      <3> QED BY <1>h, <3>1, SameTouches
    <2>2. CASE PostState(r) \/ WaitTooLong(r) \/ Waited(r) \/ Sleep(r) \/ ContextEnds(r)
      BY <1>h, <2>2, SameTouches DEF PostState, WaitTooLong, Waited, Sleep, ContextEnds, Dies
    <2>3. CASE FailRow(r) \/ CompleteRow(r)
      <3>1. UNCHANGED healing \/ Close(r, "failed") \/ Close(r, "completed")
        BY <2>3 DEF FailRow, CompleteRow
      <3>2. UNCHANGED healing \/ Settle({req[r].id}, "failed") \/ Settle({req[r].id}, "completed")
        BY <3>1 DEF Close
      <3> QED BY <1>h, <3>2, SettleTouches, SameTouches
    <2> QED BY <1>6, <2>1, <2>2, <2>3 DEF HandlerStep
  <1>7. ASSUME NEW r \in Requests, RequestStep(r), ~(HandlerStep(r) \/ ContextEnds(r))
        PROVE  Touched
    <2>1. CASE WorkerStep(r)
      BY <1>h, <2>1, SameTouches
      DEF WorkerStep, TakeJob, Token, UploadScripts, Join, AddScriptEnds, RemoveEvacuates,
          RemoveLeaves, RemoveScriptEnds, BatchEnds, Undo, Finish, WorkerOnly, JobOnly
    <2>2. CASE AgeJob(r) \/ Sweep(r) \/ SweepUndo(r) \/ SubmitBatch(r)
      BY <1>h, <2>2, SameTouches DEF AgeJob, Sweep, SweepUndo, SubmitBatch, WorkerOnly, JobOnly
    <2>3. ASSUME NEW n \in Nodes,
                 \/ SetMaintenance(r, n)
                 \/ \E kind \in {"evacuate", "chaos", "restore"} : Ask(r, kind, n)
                 \/ \E kind \in {"add", "remove"} : SubmitNodeJob(r, kind, n)
          PROVE Touched
      BY <1>h, <2>3, SameTouches DEF SetMaintenance, Ask, SubmitNodeJob, WorkerOnly, JobOnly
    <2> QED BY <1>7, <2>1, <2>2, <2>3 DEF RequestStep
  <1>8. ASSUME NEW v \in VMs, ItemStep(v) PROVE Touched
    BY <1>8, <1>h, SameTouches
    DEF ItemStep, TakeGlobal, TakeSource, MigrateItem, CancelItem, ItemOnly, JobOnly
  <1>9. CASE UNCHANGED vars
    BY <1>9, <1>h, SameTouches DEF vars
  <1> QED BY <1>1, <1>2, <1>3, <1>4, <1>5, <1>6, <1>7, <1>8, <1>9 DEF Next

\* A set of numbers has a least one.
LEMMA Least ==
  ASSUME NEW T \in SUBSET Nat, T # {}
  PROVE  \E m \in T : \A k \in T : m <= k
  <1> DEFINE R == OpToRel(<, Nat)
  <1>1. IsWellFoundedOn(R, Nat)
    BY NatLessThanWellFounded
  <1>2. \A x, y \in Nat : x < y => <<x, y>> \in R
    BY DEF OpToRel
  <1> HIDE DEF R
  <1>3. PICK m \in T : \A y \in T : ~ (<<y, m>> \in R)
    BY <1>1, WFMin
  <1>4. \A k \in T : m <= k
    <2> TAKE k \in T
    <2>1. m \in Nat /\ k \in Nat
      OBVIOUS
    <2>2. ~(k < m)
      BY <1>2, <1>3, <2>1
    <2> QED BY <2>1, <2>2
  <1> QED BY <1>4

\* The newest of the open rows of a node is one of them.
LEMMA TrackedIs ==
  ASSUME healing \in Seq(Rows), NEW n, Tracked(n) # 0
  PROVE  Tracked(n) \in 1..Len(healing)
  <1> DEFINE N == Len(healing)
             T == {k \in Nat : N - k \in OpenOf(n)}
  <1>1. N \in Nat /\ OpenOf(n) \subseteq 1..N
    BY DEF OpenOf
  <1>2. OpenOf(n) # {} /\ Tracked(n) = Max(OpenOf(n))
    BY DEF Tracked
  <1> HIDE DEF N
  <1>3. T # {}
    <2>1. PICK i \in OpenOf(n) : TRUE
      BY <1>2
    <2>2. i \in 1..N /\ N - i \in Nat /\ N - (N - i) = i
      BY <1>1, <2>1
    <2> QED BY <2>1, <2>2
  <1>4. PICK m \in T : \A k \in T : m <= k
    BY <1>3, Least
  <1>5. N - m \in OpenOf(n) /\ \A j \in OpenOf(n) : N - m >= j
    <2>1. ASSUME NEW j \in OpenOf(n) PROVE N - m >= j
      <3>1. j \in 1..N /\ N - j \in Nat /\ N - (N - j) = j
        BY <1>1
      <3>2. N - j \in T
        BY <3>1
      <3> QED BY <1>1, <1>4, <3>1, <3>2
    <2> QED BY <2>1
  <1>6. Max(OpenOf(n)) \in OpenOf(n)
    BY <1>5 DEF Max
  <1> QED BY <1>1, <1>2, <1>6 DEF N

\* Whatever a step does to the listener.
LEMMA EarMoves ==
  ASSUME [Next]_vars
  PROVE  \/ UNCHANGED ear
         \/ /\ ear' = [pc |-> "create", node |-> Head(events).node]
            /\ NoAuto(Head(events).node) /\ UNCHANGED healing /\ Hears({"offline", "evacuated"})
         \/ /\ ear.pc = "track" /\ Tracked(ear.from) # 0 /\ UNCHANGED healing
            /\ ear' = [pc |-> "append", vm |-> ear.vm, to |-> ear.to, id |-> Tracked(ear.from)]
         \/ ear' = [pc |-> "idle"]
         \/ /\ ear.pc = "update" /\ ear' = [ear EXCEPT !.pc = "track"]
         \/ /\ Hears({"moved"})
            /\ \E from \in {node[Head(events).vm], Head(events).node} :
                 ear' = [pc |-> "update", vm |-> Head(events).vm, from |-> from, to |-> Head(events).node]
  <1>1. CASE Disconnect \/ Reconnect \/ ExpireStale
    BY <1>1 DEF Disconnect, Reconnect, ExpireStale
  <1>2. CASE StatementFails
    BY <1>2 DEF StatementFails
  <1>3. CASE MemberDown \/ MemberUp
    BY <1>3 DEF MemberDown, MemberUp
  <1>4. CASE CreateAuto \/ AppendEvacuatedVM
    BY <1>4 DEF CreateAuto, AppendEvacuatedVM
  <1>5. CASE InstanceUpdated
    BY <1>5 DEF InstanceUpdated
  <1>6. CASE UpdateNodeByName
    BY <1>6 DEF UpdateNodeByName
  <1>7. CASE TrackMovement
    BY <1>7 DEF TrackMovement
  <1>8. CASE IncusStep
    BY <1>8 DEF IncusStep, Relocate, OperationEnds, OperationFails, NodeFails, NodeReturns, IncusOnly
  <1>9. ASSUME NEW i \in DOMAIN healing, Age(i) PROVE UNCHANGED ear
    BY <1>9 DEF Age
  <1>10. ASSUME NEW r \in Requests, RequestStep(r) PROVE UNCHANGED ear
    <2>1. CASE HandlerStep(r) \/ ContextEnds(r)
      BY <2>1 DEF HandlerStep, CreateRow, PostState, WaitTooLong, Waited, Sleep, FailRow,
                  CompleteRow, ContextEnds, Dies, HandlerOnly
    <2>2. CASE WorkerStep(r)
      BY <2>2 DEF WorkerStep, TakeJob, Token, UploadScripts, Join, AddScriptEnds,
                  RemoveEvacuates, RemoveLeaves, RemoveScriptEnds, BatchEnds, Undo, Finish,
                  WorkerOnly, JobOnly
    <2>3. CASE AgeJob(r) \/ Sweep(r) \/ SweepUndo(r) \/ SubmitBatch(r)
      BY <2>3 DEF AgeJob, Sweep, SweepUndo, SubmitBatch, WorkerOnly, JobOnly
    <2>4. ASSUME NEW n \in Nodes,
                 \/ SetMaintenance(r, n)
                 \/ \E kind \in {"evacuate", "chaos", "restore"} : Ask(r, kind, n)
                 \/ \E kind \in {"add", "remove"} : SubmitNodeJob(r, kind, n)
          PROVE UNCHANGED ear
      BY <2>4 DEF SetMaintenance, Ask, SubmitNodeJob, HandlerOnly, WorkerOnly, JobOnly
    <2> QED BY <1>10, <2>1, <2>2, <2>3, <2>4 DEF RequestStep
  <1>11. ASSUME NEW v \in VMs, ItemStep(v) PROVE UNCHANGED ear
    BY <1>11 DEF ItemStep, TakeGlobal, TakeSource, MigrateItem, CancelItem, ItemOnly, JobOnly
  <1>12. CASE UNCHANGED vars
    BY <1>12 DEF vars
  <1> QED BY <1>1, <1>2, <1>3, <1>4, <1>5, <1>6, <1>7, <1>8, <1>9, <1>10, <1>11, <1>12
          DEF Next, ListenerStep

LEMMA AutoAppended ==
  ASSUME healing \in Seq(Rows), NEW m \in Nodes, NEW t \in {"auto", "manual", "chaos"},
         healing' = Append(healing, NewRow(m, t))
  PROVE  /\ healing' \in Seq(Rows) /\ Len(healing') = Len(healing) + 1
         /\ \A n : Automatic(n)' = IF n = m /\ t = "auto" THEN Automatic(n) \cup {Len(healing) + 1}
                                   ELSE Automatic(n)
  <1> DEFINE d == NewRow(m, t)
             N == Len(healing)
  <1>1. /\ d \in Rows /\ d.node = m /\ d.trigger = t /\ d.status = "in_progress"
    BY DEF NewRow, Rows, HealingStatus
  <1>2. PICK h : h = healing'
    OBVIOUS
  <1>3. /\ h = Append(healing, d) /\ N \in Nat
    BY <1>2
  <1> HIDE DEF d
  <1>4. /\ h \in Seq(Rows) /\ Len(h) = N + 1 /\ h[N + 1] = d /\ \A i \in 1..N : h[i] = healing[i]
    BY <1>1, <1>3
  <1>5. \A n, i : i \in Automatic(n)' <=> /\ i \in 1..Len(h) /\ h[i].status = "in_progress"
                                          /\ h[i].node = n /\ h[i].trigger = "auto"
    BY <1>2, <1>4 DEF Automatic, OpenOf, Open
  <1>6. ASSUME NEW n, NEW i
        PROVE i \in Automatic(n)' <=> \/ i \in Automatic(n)
                                      \/ n = m /\ t = "auto" /\ i = N + 1
    <2>1. CASE i = N + 1
      <3>1. i \notin Automatic(n)
        BY <1>3, <2>1, AutoIs
      <3> QED BY <1>1, <1>3, <1>4, <1>5, <2>1, <3>1
    <2>2. CASE i # N + 1
      <3>1. i \in 1..(N + 1) <=> i \in 1..N
        BY <1>3, <2>2
      <3> QED BY <1>4, <1>5, <2>2, <3>1, AutoIs
    <2> QED BY <2>1, <2>2
  <1>7. ASSUME NEW n, n = m /\ t = "auto" PROVE Automatic(n)' = Automatic(n) \cup {N + 1}
    BY <1>6, <1>7
  <1>8. ASSUME NEW n, ~(n = m /\ t = "auto") PROVE Automatic(n)' = Automatic(n)
    <2>1. \A i : i \in Automatic(n)' <=> i \in Automatic(n)
      BY <1>6, <1>8
    <2> QED BY ONLY <2>1
  <1> QED BY <1>2, <1>4, <1>7, <1>8

\* What every step keeps of the rows' types and of those who remember them.
LEMMA RememberedStep == Asking /\ Hearing /\ Remembered /\ [Next]_vars => Remembered'
  <1> SUFFICES ASSUME Asking, Hearing, Remembered, [Next]_vars PROVE Remembered'
    OBVIOUS
  <1>1. healing \in Seq(Rows) /\ Len(healing) \in Nat
    BY DEF Remembered
  <1>2. ASSUME NEW r \in Requests, Inserts(r)
        PROVE healing' \in Seq(Rows) /\ Len(healing') = Len(healing) + 1
    <2>1. req[r].node \in Nodes
      BY <1>1, <1>2, InsertedIs
    <2>2. \E t \in {"auto", "manual", "chaos"} : healing' = Append(healing, NewRow(req[r].node, t))
      BY <1>2 DEF Inserts
    <2> QED BY <1>1, <2>1, <2>2, AutoAppended
  <1>3. healing' \in Seq(Rows) /\ Len(healing') \in Nat /\ Len(healing') >= Len(healing)
    <2>1. CASE Touched
      BY <1>1, <2>1 DEF Touched
    <2>2. CASE InsertsAuto
      <3>1. ear.node \in Nodes
        BY <2>2 DEF InsertsAuto, Hearing, EarType
      <3> QED BY <1>1, <2>2, <3>1, AutoAppended DEF InsertsAuto
    <2> QED BY <1>1, <1>2, <2>1, <2>2, RowMoves
  <1>4. ASSUME NEW s \in Requests PROVE req'[s].id <= Len(healing')
    <2>1. req[s] \in ReqType /\ req[s].id \in Nat /\ req[s].id <= Len(healing)
      BY ReqIs DEF Remembered, Asking
    <2>2. CASE UNCHANGED req
      BY <1>1, <1>3, <2>1, <2>2
    <2>3. ASSUME NEW r \in Requests, Changed(r) PROVE req'[s].id <= Len(healing')
      <3>1. req'[s].id = req[s].id
        BY <2>3 DEF Changed, Asking
      <3> QED BY <1>1, <1>3, <2>1, <3>1
    <2>4. ASSUME NEW r \in Requests, Inserts(r) PROVE req'[s].id <= Len(healing')
      <3>1. PICK u \in ReqType : req' = [req EXCEPT ![r] = u] /\ u.id = Len(healing) + 1
        BY <1>1, <2>4, InsertedIs
      <3>2. req'[s].id = Len(healing) + 1 \/ req'[s].id = req[s].id
        BY <3>1 DEF Asking
      <3> QED BY <1>1, <1>2, <1>3, <2>1, <2>4, <3>2
    <2> QED BY <2>2, <2>3, <2>4, RequestMoves
  <1>5. ASSUME ear'.pc = "append" PROVE ear'.id <= Len(healing')
    <2>1. CASE UNCHANGED ear
      <3>1. ear.id \in Nat /\ ear.id <= Len(healing)
        BY <1>5, <2>1 DEF Hearing, EarType, Remembered
      <3> QED BY <1>1, <1>3, <2>1, <3>1
    <2>2. CASE /\ ear' = [pc |-> "append", vm |-> ear.vm, to |-> ear.to, id |-> Tracked(ear.from)]
               /\ Tracked(ear.from) # 0 /\ UNCHANGED healing
      BY <1>1, <2>2, TrackedIs
    <2>3. ear.pc = "update" /\ ear' = [ear EXCEPT !.pc = "track"] => ear'.pc = "track"
      BY DEF Hearing, EarType
    <2> QED BY <1>5, <2>1, <2>2, <2>3, EarMoves
  <1> QED BY <1>3, <1>4, <1>5 DEF Remembered

LEMMA AutoRowsStep == Asking /\ Hearing /\ Remembered /\ AutoRows /\ [Next]_vars => AutoRows'
  <1> SUFFICES ASSUME Asking, Hearing, Remembered, AutoRows, [Next]_vars PROVE AutoRows'
    OBVIOUS
  <1>1. healing \in Seq(Rows) /\ Len(healing) \in Nat
    BY DEF Remembered
  <1>u. ear.pc = "update" /\ ear' = [ear EXCEPT !.pc = "track"] => ear'.pc = "track"
    BY DEF Hearing, EarType
  <1>n. \A n : NoAuto(n) => Automatic(n) = {}
    BY DEF NoAuto, Automatic
  <1>2. CASE Touched
    <2>1. ASSUME ear'.pc = "create" PROVE \E n : n = ear'.node /\ Automatic(n)' = {}
      <3>1. PICK n : n = ear'.node
        OBVIOUS
      <3>2. Automatic(n) = {}
        BY <1>u, <1>n, <2>1, <3>1, EarMoves DEF AutoRows
      <3> QED BY <1>2, <3>1, <3>2 DEF Touched
    <2>2. \A n \in Nodes : \A i, j \in Automatic(n)' : i = j
      BY <1>2 DEF Touched, AutoRows
    <2>3. ear'.pc = "create" => Automatic(ear.node)' = {}
      BY <2>1 DEF Automatic, OpenOf, Open
    <2> QED BY <2>2, <2>3 DEF AutoRows
  <1>3. CASE InsertsAuto
    <2>1. ear.node \in Nodes /\ Automatic(ear.node) = {}
      BY <1>3 DEF InsertsAuto, Hearing, EarType, AutoRows
    <2>2. \A n : Automatic(n)' = IF n = ear.node THEN Automatic(n) \cup {Len(healing) + 1} ELSE Automatic(n)
      BY <1>1, <1>3, <2>1, AutoAppended DEF InsertsAuto
    <2>3. ear'.pc # "create"
      BY <1>3 DEF InsertsAuto
    <2> QED BY <2>1, <2>2, <2>3 DEF AutoRows
  <1>4. ASSUME NEW r \in Requests, Inserts(r) PROVE AutoRows'
    <2>1. req[r].node \in Nodes
      BY <1>1, <1>4, InsertedIs
    <2>2. \A n : Automatic(n)' = Automatic(n)
      <3>1. PICK t \in {"manual", "chaos"} : healing' = Append(healing, NewRow(req[r].node, t))
        BY <1>4 DEF Inserts
      <3> QED BY <1>1, <2>1, <3>1, AutoAppended
    <2>3. UNCHANGED ear
      BY <1>4 DEF Inserts
    <2> QED BY <2>2, <2>3 DEF AutoRows
  <1> QED BY <1>2, <1>3, <1>4, RowMoves

-----------------------------------------------------------------------------
(* The event stream                                                        *)

Heard ==
  /\ link \in {"up", "down"} /\ lost \subseteq VMs
  /\ events \in Seq(EventType) /\ Len(events) <= MaxEvents
  /\ \A i \in 1..Len(events) : EventTrue(events[i])

LEMMA TellHeard ==
  ASSUME Heard, NEW e, EventTrue(e), Tell(e)
  PROVE  Heard'
  <1>0. MaxEvents \in Nat
    BY ClusterNodesAssumption
  <1>1. e \in EventType /\ e.vm \in VMs \cup {None}
    BY DEF EventTrue, EventType
  <1>2. CASE link = "up"
    <2>1. /\ Len(events) < MaxEvents /\ events' = Append(events, e) /\ UNCHANGED <<link, lost>>
      BY <1>2 DEF Tell
    <2>2. PICK s : s = events'
      OBVIOUS
    <2>3. /\ s \in Seq(EventType) /\ Len(s) = Len(events) + 1 /\ s[Len(events) + 1] = e
          /\ Len(events) \in Nat /\ \A i \in 1..Len(events) : s[i] = events[i]
      BY <1>1, <2>1, <2>2 DEF Heard
    <2>4. \A i \in 1..Len(s) : EventTrue(s[i])
      <3> TAKE i \in 1..Len(s)
      <3>1. i \in 1..Len(events) \/ i = Len(events) + 1
        BY <2>3
      <3> QED BY <2>3, <3>1 DEF Heard
    <2>5. Len(s) <= MaxEvents
      BY <1>0, <2>1, <2>3
    <2> QED BY <2>1, <2>2, <2>3, <2>4, <2>5 DEF Heard
  <1>3. CASE link # "up"
    BY <1>1, <1>3 DEF Tell, Heard
  <1> QED BY <1>2, <1>3

LEMMA MemberTold ==
  ASSUME Heard, NEW n \in Nodes, NEW what \in {"online", "offline", "evacuated"},
         Tell(MemberEvent(n, what))
  PROVE  Heard'
  <1> DEFINE e == MemberEvent(n, what)
  <1>1. EventTrue(e)
    BY DEF MemberEvent, EventTrue, EventType
  <1> HIDE DEF e
  <1> QED BY <1>1, TellHeard DEF e

LEMMA MoveTold ==
  ASSUME Heard, NEW v \in VMs, NEW to \in Nodes, TellMove(v, to)
  PROVE  Heard'
  <1>1. EventTrue(MoveEvent(v, to, TRUE)) /\ EventTrue(MoveEvent(v, to, FALSE))
    BY DEF MoveEvent, EventTrue, EventType
  <1> QED BY <1>1, TellHeard DEF TellMove

\* The event the listener takes is a true one, and the rest are.
LEMMA HeadHeard ==
  ASSUME Heard, events # <<>>
  PROVE  /\ EventTrue(Head(events))
         /\ Tail(events) \in Seq(EventType) /\ Len(Tail(events)) <= MaxEvents
         /\ \A i \in 1..Len(Tail(events)) : EventTrue(Tail(events)[i])
  <1>0. MaxEvents \in Nat
    BY ClusterNodesAssumption
  <1>1. events \in Seq(EventType) /\ Len(events) \in Nat /\ Len(events) > 0
    BY DEF Heard
  <1>2. Head(events) = events[1] /\ 1 \in 1..Len(events)
    BY <1>1
  <1>3. /\ Tail(events) \in Seq(EventType) /\ Len(Tail(events)) = Len(events) - 1
        /\ \A i \in 1..Len(Tail(events)) : Tail(events)[i] = events[i + 1]
    BY <1>1
  <1>4. \A i \in 1..Len(Tail(events)) : i + 1 \in 1..Len(events)
    BY <1>1, <1>3
  <1> QED BY <1>0, <1>1, <1>2, <1>3, <1>4 DEF Heard

LEMMA TailHeard ==
  ASSUME Heard, events # <<>>, events' = Tail(events), link' = link, lost' \subseteq VMs
  PROVE  Heard'
  <1>1. PICK s : s = events'
    OBVIOUS
  <1>2. s \in Seq(EventType) /\ Len(s) <= MaxEvents /\ \A i \in 1..Len(s) : EventTrue(s[i])
    BY <1>1, HeadHeard
  <1> QED BY <1>1, <1>2 DEF Heard

LEMMA SameHeard == Heard /\ UNCHANGED stream => Heard'
  BY DEF Heard, stream

\* What the listener does to the stream.
LEMMA ListenerHeard ==
  ASSUME Heard, ear \in EarType, ListenerStep \/ StatementFails \/ Disconnect \/ Reconnect
  PROVE  Heard'
  <1>0. lost \subseteq VMs
    BY DEF Heard
  <1>1. CASE MemberDown \/ MemberUp
    <2>1. events # <<>> /\ events' = Tail(events) /\ UNCHANGED <<link, lost>>
      BY <1>1 DEF MemberDown, MemberUp, Hears, Consume
    <2> QED BY <1>0, <2>1, TailHeard
  <1>2. CASE InstanceUpdated
    <2>1. events # <<>> /\ events' = Tail(events) /\ link' = link /\ Head(events).what = "moved"
      BY <1>2 DEF InstanceUpdated, Hears, Consume
    <2>2. Head(events).vm \in VMs
      BY <2>1, HeadHeard DEF EventTrue
    <2>3. lost' \subseteq VMs
      BY <1>0, <1>2, <2>2 DEF InstanceUpdated
    <2> QED BY <2>1, <2>3, TailHeard
  <1>3. CASE CreateAuto \/ UpdateNodeByName \/ TrackMovement \/ AppendEvacuatedVM
    BY <1>3, SameHeard DEF CreateAuto, UpdateNodeByName, TrackMovement, AppendEvacuatedVM
  <1>4. CASE StatementFails
    <2>1. CASE ear.pc # "idle" /\ UNCHANGED events /\ lost' = IF ear.pc = "update" THEN lost \cup {ear.vm} ELSE lost
      <3>1. ear.pc = "update" => ear.vm \in VMs
        BY DEF EarType
      <3>2. lost' \subseteq VMs /\ UNCHANGED <<link, events>>
        BY <1>0, <1>4, <2>1, <3>1 DEF StatementFails
      <3> QED BY <3>2 DEF Heard
    <2>2. CASE events # <<>> /\ events' = Tail(events) /\ UNCHANGED lost
      <3>1. link' = link
        BY <1>4 DEF StatementFails
      <3> QED BY <1>0, <2>2, <3>1, TailHeard
    <2> QED BY <1>4, <2>1, <2>2 DEF StatementFails, Hears
  <1>5. CASE Disconnect
    <2>1. events' = <<>> /\ link' = "down"
      BY <1>5 DEF Disconnect
    <2>2. lost' \subseteq VMs
      <3>1. \A i \in DOMAIN events : events[i].vm \in VMs \cup {None}
        <4>1. \A i \in DOMAIN events : events[i] \in EventType
          BY DEF Heard
        <4>2. \A e \in EventType : e.vm \in VMs \cup {None}
          BY DEF EventType
        <4> QED BY <4>1, <4>2
      <3>2. lost' = (lost \cup {events[i].vm : i \in DOMAIN events}) \ {None}
        BY <1>5 DEF Disconnect
      <3> QED BY <1>0, <3>1, <3>2
    <2>3. MaxEvents \in Nat
      BY ClusterNodesAssumption
    <2> QED BY <2>1, <2>2, <2>3 DEF Heard
  <1>6. CASE Reconnect
    BY <1>6 DEF Reconnect, Heard
  <1> QED BY <1>1, <1>2, <1>3, <1>4, <1>5, <1>6 DEF ListenerStep

LEMMA IncusHeard ==
  ASSUME Heard, IncusStep
  PROVE  Heard'
  <1>1. ASSUME NEW v \in VMs, NEW to \in Nodes, Relocate(v, to) PROVE Heard'
    BY <1>1, MoveTold DEF Relocate
  <1>2. ASSUME NEW n \in Nodes, OperationEnds(n) \/ NodeFails(n) \/ NodeReturns(n) PROVE Heard'
    <2>1. \E what \in {"online", "offline", "evacuated"} : Tell(MemberEvent(n, what))
      BY <1>2 DEF OperationEnds, NodeFails, NodeReturns
    <2> QED BY <2>1, MemberTold
  <1>3. ASSUME NEW n \in Nodes, OperationFails(n) PROVE Heard'
    BY <1>3, SameHeard DEF OperationFails
  <1> QED BY <1>1, <1>2, <1>3 DEF IncusStep

LEMMA HearingStep == Members /\ Items /\ Hearing /\ Remembered /\ [Next]_vars => Hearing'
  <1> SUFFICES ASSUME Members, Items, Hearing, Remembered, [Next]_vars PROVE Hearing'
    OBVIOUS
  <1>0. Heard /\ ear \in EarType
    BY DEF Hearing, Heard
  <1>1. Heard'
    <2>1. CASE ListenerStep \/ StatementFails \/ Disconnect \/ Reconnect
      BY <1>0, <2>1, ListenerHeard
    <2>2. CASE IncusStep
      BY <1>0, <2>2, IncusHeard
    <2>3. CASE ExpireStale \/ \E i \in DOMAIN healing : Age(i)
      BY <1>0, <2>3, SameHeard DEF ExpireStale, Age
    <2>4. ASSUME NEW r \in Requests, RequestStep(r) PROVE Heard'
      <3>1. CASE HandlerStep(r) \/ ContextEnds(r)
        BY <1>0, <3>1, SameHeard DEF HandlerStep, CreateRow, PostState, WaitTooLong, Waited, Sleep,
             FailRow, CompleteRow, ContextEnds, Dies, HandlerOnly
      <3>2. CASE WorkerStep(r)
        BY <1>0, <3>2, SameHeard DEF WorkerStep, TakeJob, Token, UploadScripts, Join,
             AddScriptEnds, RemoveEvacuates, RemoveLeaves, RemoveScriptEnds, BatchEnds, Undo, Finish,
             WorkerOnly, JobOnly
      <3>3. CASE AgeJob(r) \/ Sweep(r) \/ SweepUndo(r) \/ SubmitBatch(r)
        BY <1>0, <3>3, SameHeard DEF AgeJob, Sweep, SweepUndo, SubmitBatch, WorkerOnly, JobOnly
      <3>4. ASSUME NEW n \in Nodes,
                   \/ \E kind \in {"evacuate", "chaos", "restore"} : Ask(r, kind, n)
                   \/ \E kind \in {"add", "remove"} : SubmitNodeJob(r, kind, n)
            PROVE Heard'
        BY <1>0, <3>4, SameHeard DEF Ask, SubmitNodeJob, HandlerOnly, WorkerOnly, JobOnly
      <3>5. ASSUME NEW n \in Nodes, SetMaintenance(r, n) PROVE Heard'
        <4>1. Status(n) \in {"online", "offline", "evacuated"} /\ Tell(MemberEvent(n, Status(n)))
          BY <3>5 DEF SetMaintenance, Status
        <4> QED BY <1>0, <4>1, MemberTold
      <3> QED BY <2>4, <3>1, <3>2, <3>3, <3>4, <3>5 DEF RequestStep
    <2>5. ASSUME NEW v \in VMs, ItemStep(v) PROVE Heard'
      <3>1. CASE TakeGlobal(v) \/ TakeSource(v) \/ CancelItem(v)
        BY <1>0, <3>1, SameHeard DEF TakeGlobal, TakeSource, CancelItem
      <3>2. CASE MigrateItem(v)
        <4>1. batch[v].to \in Nodes
          BY <3>2 DEF MigrateItem, Items
        <4>2. TellMove(v, batch[v].to) \/ UNCHANGED stream
          BY <3>2 DEF MigrateItem
        <4> QED BY <1>0, <4>1, <4>2, SameHeard, MoveTold
      <3> QED BY <2>5, <3>1, <3>2 DEF ItemStep
    <2>6. CASE UNCHANGED vars
      BY <1>0, <2>6, SameHeard DEF vars
    <2> QED BY <2>1, <2>2, <2>3, <2>4, <2>5, <2>6 DEF Next
  <1>2. ear' \in EarType
    <2>1. \A what : Hears(what) => EventTrue(Head(events)) /\ Head(events).node \in Nodes
      BY <1>0, HeadHeard DEF Hears, EventTrue, EventType
    <2>2. Hears({"moved"}) => Head(events).vm \in VMs /\ node[Head(events).vm] \in Nodes
      BY <2>1 DEF Hears, EventTrue, Members
    <2>3. CASE Hears({"offline", "evacuated"}) /\ ear' = [pc |-> "create", node |-> Head(events).node]
      BY <2>1, <2>3 DEF EarType
    <2>4. CASE /\ ear.pc = "track" /\ Tracked(ear.from) # 0
               /\ ear' = [pc |-> "append", vm |-> ear.vm, to |-> ear.to, id |-> Tracked(ear.from)]
      <3>1. healing \in Seq(Rows) /\ Len(healing) \in Nat
        BY DEF Remembered
      <3>2. Tracked(ear.from) \in Nat \ {0}
        BY <2>4, <3>1, TrackedIs
      <3>3. ear.vm \in VMs /\ ear.to \in Nodes
        BY <1>0, <2>4 DEF EarType
      <3> QED BY <2>4, <3>2, <3>3 DEF EarType
    <2>5. CASE ear.pc = "update" /\ ear' = [ear EXCEPT !.pc = "track"]
      BY <1>0, <2>5 DEF EarType
    <2>6. ASSUME NEW from \in {node[Head(events).vm], Head(events).node}, Hears({"moved"}),
                 ear' = [pc |-> "update", vm |-> Head(events).vm, from |-> from, to |-> Head(events).node]
          PROVE ear' \in EarType
      <3>1. Head(events).vm \in VMs /\ Head(events).node \in Nodes /\ from \in Nodes
        BY <2>1, <2>2, <2>6
      <3> QED BY <2>6, <3>1 DEF EarType
    <2>7. ear' = [pc |-> "idle"] => ear' \in EarType
      BY DEF EarType
    <2> QED BY <1>0, <2>3, <2>4, <2>5, <2>6, <2>7, EarMoves
  <1> QED BY <1>1, <1>2 DEF Hearing, Heard

-----------------------------------------------------------------------------
(* Nodes, VMs and items                                                    *)

\* There is room for a failure only below the bound.
LEMMA FaultCounts ==
  ASSUME Members, Fault
  PROVE  faults' \in 0..Budget
  <1>1. Asked \subseteq Requests /\ IsFiniteSet(Requests) /\ Budget \in Nat
    BY ClusterNodesAssumption DEF Asked
  <1>2. IsFiniteSet(Asked)
    BY <1>1, FS_Subset
  <1>3. Cardinality(Asked) \in Nat
    BY <1>2, FS_CardinalityType
  <1>4. Cardinality(Asked) + faults < Budget /\ faults' = faults + 1 /\ faults \in 0..Budget
    BY DEF Fault, Room, Members
  <1> HIDE DEF Asked
  <1> QED BY <1>1, <1>3, <1>4

LEMMA FaultsStep ==
  ASSUME Members, [Next]_vars
  PROVE  faults' \in 0..Budget
  <1>0. Fault \/ UNCHANGED faults
    <2>1. CASE Disconnect \/ Reconnect \/ StatementFails \/ ExpireStale
      BY <2>1 DEF Disconnect, Reconnect, StatementFails, ExpireStale
    <2>2. CASE ListenerStep
      BY <2>2 DEF ListenerStep, MemberDown, CreateAuto, MemberUp, InstanceUpdated, UpdateNodeByName,
                  TrackMovement, AppendEvacuatedVM
    <2>3. CASE IncusStep
      BY <2>3 DEF IncusStep, Relocate, TellMove, OperationEnds, OperationFails, NodeFails, NodeReturns
    <2>4. ASSUME NEW i \in DOMAIN healing, Age(i) PROVE UNCHANGED faults
      BY <2>4 DEF Age
    <2>5. ASSUME NEW r \in Requests, RequestStep(r) PROVE Fault \/ UNCHANGED faults
      <3>1. CASE HandlerStep(r) \/ ContextEnds(r)
        BY <3>1 DEF HandlerStep, CreateRow, PostState, WaitTooLong, Waited, Sleep, FailRow,
                    CompleteRow, ContextEnds, NoFault
      <3>2. CASE WorkerStep(r)
        BY <3>2 DEF WorkerStep, TakeJob, Token, UploadScripts, Join, AddScriptEnds, RemoveEvacuates,
                    RemoveLeaves, RemoveScriptEnds, BatchEnds, Undo, Finish, NoFault
      <3>3. CASE AgeJob(r) \/ Sweep(r) \/ SweepUndo(r) \/ SubmitBatch(r)
        BY <3>3 DEF AgeJob, Sweep, SweepUndo, SubmitBatch
      <3>4. ASSUME NEW n \in Nodes,
                   \/ SetMaintenance(r, n)
                   \/ \E kind \in {"evacuate", "chaos", "restore"} : Ask(r, kind, n)
                   \/ \E kind \in {"add", "remove"} : SubmitNodeJob(r, kind, n)
            PROVE UNCHANGED faults
        BY <3>4 DEF SetMaintenance, Ask, SubmitNodeJob
      <3> QED BY <2>5, <3>1, <3>2, <3>3, <3>4 DEF RequestStep
    <2>6. ASSUME NEW v \in VMs, ItemStep(v) PROVE Fault \/ UNCHANGED faults
      BY <2>6 DEF ItemStep, TakeGlobal, TakeSource, MigrateItem, CancelItem, TellMove, NoFault
    <2>7. CASE UNCHANGED vars
      BY <2>7 DEF vars
    <2> QED BY <2>1, <2>2, <2>3, <2>4, <2>5, <2>6, <2>7 DEF Next
  <1> QED BY <1>0, FaultCounts DEF Members

\* The rest of Members.
Places ==
  /\ member \in [Nodes -> {"absent", "Online", "Offline", "Evacuated"}]
  /\ manual \subseteq Nodes
  /\ place \in [VMs -> Nodes] /\ node \in [VMs -> Nodes]
  /\ op \in [Nodes -> OpType]

LEMMA SamePlaces == Places /\ UNCHANGED <<incus, manual, node>> => Places'
  BY DEF Places, incus

\* An operation Incus begins or ends, whoever asked for it.
LEMMA OpIs ==
  ASSUME Places, NEW n, NEW o \in OpType
  PROVE  [op EXCEPT ![n] = o] \in [Nodes -> OpType]
  BY DEF Places

LEMMA OpsAre ==
  /\ NoOp \in OpType
  /\ \A do \in {"evacuate", "restore"}, r \in Requests : [do |-> do, by |-> r] \in OpType
  BY DEF NoOp, OpType

LEMMA ListenerPlaces ==
  ASSUME Places, ear \in EarType, ListenerStep \/ StatementFails
  PROVE  Places'
  <1>1. CASE UpdateNodeByName
    <2>1. ear.vm \in VMs /\ ear.to \in Nodes /\ node' = [node EXCEPT ![ear.vm] = ear.to]
      BY <1>1 DEF UpdateNodeByName, EarType
    <2>2. node' \in [VMs -> Nodes]
      BY <2>1 DEF Places
    <2> QED BY <1>1, <2>2 DEF UpdateNodeByName, ListenerOnly, incus, Places
  <1>2. CASE ~UpdateNodeByName
    <2>1. UNCHANGED <<incus, manual, node>>
      BY <1>2 DEF ListenerStep, MemberDown, CreateAuto, MemberUp, InstanceUpdated, TrackMovement,
                  AppendEvacuatedVM, StatementFails, ListenerOnly
    <2> QED BY <2>1, SamePlaces
  <1> QED BY <1>1, <1>2

LEMMA IncusPlaces ==
  ASSUME Places, IncusStep
  PROVE  Places'
  <1>1. ASSUME NEW v \in VMs, NEW to \in Nodes, Relocate(v, to) PROVE Places'
    BY <1>1 DEF Relocate, IncusOnly, Places
  <1>2. ASSUME NEW n \in Nodes, OperationEnds(n) PROVE Places'
    <2>1. op' \in [Nodes -> OpType]
      BY <1>2, OpIs, OpsAre DEF OperationEnds
    <2>2. \E s \in {"Online", "Evacuated"} : member' = [member EXCEPT ![n] = s]
      BY <1>2 DEF OperationEnds
    <2> QED BY <1>2, <2>1, <2>2 DEF OperationEnds, IncusOnly, Places
  <1>3. ASSUME NEW n \in Nodes, OperationFails(n) PROVE Places'
    <2>1. op' \in [Nodes -> OpType]
      BY <1>3, OpIs, OpsAre DEF OperationFails
    <2> QED BY <1>3, <2>1 DEF OperationFails, IncusOnly, Places
  <1>4. ASSUME NEW n \in Nodes, NodeFails(n) \/ NodeReturns(n) PROVE Places'
    BY <1>4 DEF NodeFails, NodeReturns, IncusOnly, Places
  <1> QED BY <1>1, <1>2, <1>3, <1>4 DEF IncusStep

LEMMA UndonePlaces ==
  ASSUME Places, NEW r, Undone(r) \/ UNCHANGED <<member, op, manual>>, UNCHANGED <<place, node>>
  PROVE  Places'
  <1>1. CASE UNCHANGED <<member, op, manual>>
    BY <1>1 DEF Places
  <1>2. CASE ~UNCHANGED <<member, op, manual>>
    <2>1. PICK n : /\ member' = [member EXCEPT ![n] = "absent"] /\ op' = [op EXCEPT ![n] = NoOp]
                   /\ manual' = manual \ {n}
      BY <1>2 DEF Undone
    <2>2. op' \in [Nodes -> OpType]
      BY <2>1, OpIs, OpsAre
    <2> QED BY <2>1, <2>2 DEF Places
  <1> QED BY <1>1, <1>2

LEMMA RequestPlaces ==
  ASSUME Places, NEW r \in Requests, RequestStep(r)
  PROVE  Places'
  <1>1. CASE PostState(r)
    <2>1. Wanted(r) \in {"evacuate", "restore"}
      BY DEF Wanted
    <2>2. op' \in [Nodes -> OpType]
      BY <1>1, <2>1, OpIs, OpsAre DEF PostState, Places
    <2> QED BY <1>1, <2>2 DEF PostState, HandlerOnly, Places
  <1>2. CASE (HandlerStep(r) /\ ~PostState(r)) \/ ContextEnds(r)
    <2>1. UNCHANGED <<incus, manual, node>>
      BY <1>2 DEF HandlerStep, CreateRow, WaitTooLong, Waited, Sleep, FailRow,
                  CompleteRow, ContextEnds, Dies, HandlerOnly, incus
    <2> QED BY <2>1, SamePlaces
  <1>3. CASE Join(r)
    BY <1>3 DEF Join, JobOnly, Places
  <1>4. CASE RemoveEvacuates(r)
    <2>1. op' \in [Nodes -> OpType]
      BY <1>4, OpIs, OpsAre DEF RemoveEvacuates
    <2> QED BY <1>4, <2>1 DEF RemoveEvacuates, JobOnly, Places
  <1>5. CASE RemoveLeaves(r)
    BY <1>5 DEF RemoveLeaves, Places
  <1>6. CASE Undo(r) \/ SweepUndo(r)
    BY <1>6, UndonePlaces DEF Undo, SweepUndo
  <1>7. CASE TakeJob(r) \/ Token(r) \/ UploadScripts(r) \/ AddScriptEnds(r)
             \/ RemoveScriptEnds(r) \/ BatchEnds(r) \/ Finish(r)
    BY <1>7, SamePlaces DEF TakeJob, Token, UploadScripts, AddScriptEnds, RemoveScriptEnds, BatchEnds,
                            Finish, WorkerOnly, JobOnly
  <1>8. CASE AgeJob(r) \/ Sweep(r) \/ SubmitBatch(r)
    BY <1>8, SamePlaces DEF AgeJob, Sweep, SubmitBatch, WorkerOnly, JobOnly
  <1>9. ASSUME NEW n \in Nodes, SetMaintenance(r, n) PROVE Places'
    BY <1>9 DEF SetMaintenance, incus, Places
  <1>10. ASSUME NEW n \in Nodes,
                \/ \E kind \in {"evacuate", "chaos", "restore"} : Ask(r, kind, n)
                \/ \E kind \in {"add", "remove"} : SubmitNodeJob(r, kind, n)
         PROVE Places'
    BY <1>10, SamePlaces DEF Ask, SubmitNodeJob, HandlerOnly, WorkerOnly, JobOnly, incus
  <1> QED BY <1>1, <1>2, <1>3, <1>4, <1>5, <1>6, <1>7, <1>8, <1>9, <1>10 DEF RequestStep, WorkerStep

LEMMA MembersStep == Members /\ Items /\ Hearing /\ [Next]_vars => Members'
  <1> SUFFICES ASSUME Members, Items, Hearing, [Next]_vars PROVE Members'
    OBVIOUS
  <1>0. Places /\ ear \in EarType
    BY DEF Members, Places, Hearing
  <1>1. Places'
    <2>1. CASE ListenerStep \/ StatementFails
      BY <1>0, <2>1, ListenerPlaces
    <2>2. CASE IncusStep
      BY <1>0, <2>2, IncusPlaces
    <2>3. CASE Disconnect \/ Reconnect \/ ExpireStale \/ \E i \in DOMAIN healing : Age(i)
      BY <1>0, <2>3, SamePlaces DEF Disconnect, Reconnect, ExpireStale, Age
    <2>4. ASSUME NEW r \in Requests, RequestStep(r) PROVE Places'
      BY <1>0, <2>4, RequestPlaces
    <2>5. ASSUME NEW v \in VMs, ItemStep(v) PROVE Places'
      <3>1. batch[v].st # "off" => batch[v].to \in Nodes
        BY DEF Items
      <3>2. CASE MigrateItem(v)
        <4>1. place' \in [VMs -> Nodes]
          BY <1>0, <3>1, <3>2 DEF MigrateItem, incus, Places
        <4> QED BY <1>0, <3>2, <4>1 DEF MigrateItem, ItemOnly, JobOnly, incus, Places
      <3>3. CASE ~MigrateItem(v)
        BY <1>0, <2>5, <3>3, SamePlaces DEF ItemStep, TakeGlobal, TakeSource, CancelItem, ItemOnly, JobOnly
      <3> QED BY <3>2, <3>3
    <2>6. CASE UNCHANGED vars
      BY <1>0, <2>6, SamePlaces DEF vars
    <2> QED BY <2>1, <2>2, <2>3, <2>4, <2>5, <2>6 DEF Next
  <1>2. faults' \in 0..Budget
    BY FaultsStep
  <1> QED BY <1>1, <1>2 DEF Members, Places

LEMMA ItemsStep == Members /\ Items /\ [Next]_vars => Items'
  <1> SUFFICES ASSUME Members, Items, [Next]_vars PROVE Items'
    OBVIOUS
  <1>1. CASE UNCHANGED batch
    BY <1>1 DEF Items
  <1>2. ASSUME NEW v \in VMs, NEW st \in {"source", "moving", "ok", "failed"}, Item(v, st),
               batch[v].st # "off"
        PROVE Items'
    <2> DEFINE b == [batch[v] EXCEPT !.st = st]
    <2>1. batch[v] \in ItemType /\ batch[v].to \in Nodes
      BY <1>2 DEF Items
    <2>2. b \in ItemType /\ b.to \in Nodes
      BY <2>1 DEF ItemType
    <2>3. batch' = [batch EXCEPT ![v] = b]
      BY <1>2 DEF Item
    <2> HIDE DEF b
    <2> QED BY <2>2, <2>3 DEF Items
  <1>3. ASSUME NEW v \in VMs, ItemStep(v) PROVE Items'
    <2>1. batch[v].st # "off" /\ \E st \in {"source", "moving", "ok", "failed"} : Item(v, st)
      BY <1>3 DEF ItemStep, TakeGlobal, TakeSource, MigrateItem, CancelItem
    <2> QED BY <1>2, <2>1
  <1>4. ASSUME NEW r \in Requests, SubmitBatch(r) PROVE Items'
    <2>0. PICK items \in SUBSET VMs, known \in BOOLEAN : \E to \in [items -> Nodes] :
            batch' = [v \in VMs |->
                       IF v \in items THEN [st |-> "global", to |-> to[v],
                                           src |-> IF known THEN node[v] ELSE None]
                       ELSE batch[v]]
      BY <1>4 DEF SubmitBatch
    <2>1. PICK to \in [items -> Nodes] :
            batch' = [v \in VMs |->
                       IF v \in items THEN [st |-> "global", to |-> to[v],
                                           src |-> IF known THEN node[v] ELSE None]
                       ELSE batch[v]]
      BY <2>0
    <2>2. ASSUME NEW v \in VMs
          PROVE batch'[v] \in ItemType /\ (batch'[v].st # "off" => batch'[v].to \in Nodes)
      <3>1. CASE v \in items
        <4>1. /\ to[v] \in Nodes /\ node[v] \in Nodes
              /\ batch'[v] = [st |-> "global", to |-> to[v], src |-> IF known THEN node[v] ELSE None]
          BY <2>1, <3>1 DEF Members
        <4> QED BY <4>1 DEF ItemType
      <3>2. CASE v \notin items
        <4>1. batch'[v] = batch[v]
          BY <2>1, <3>2
        <4> QED BY <4>1 DEF Items
      <3> QED BY <3>1, <3>2
    <2>3. batch' = [v \in VMs |-> batch'[v]]
      BY <2>1
    <2> QED BY <2>2, <2>3 DEF Items
  <1>5. CASE ~UNCHANGED batch
    <2>1. ~(Disconnect \/ Reconnect \/ StatementFails \/ ExpireStale \/ ListenerStep)
      BY <1>5 DEF Disconnect, Reconnect, StatementFails, ExpireStale, ListenerStep, MemberDown,
                  CreateAuto, MemberUp, InstanceUpdated, UpdateNodeByName, TrackMovement,
                  AppendEvacuatedVM, ListenerOnly
    <2>2. ~IncusStep
      BY <1>5 DEF IncusStep, Relocate, OperationEnds, OperationFails, NodeFails, NodeReturns, IncusOnly
    <2>3. ~\E i \in DOMAIN healing : Age(i)
      BY <1>5 DEF Age
    <2>4. ASSUME NEW r \in Requests, RequestStep(r) PROVE SubmitBatch(r)
      <3>1. ~(HandlerStep(r) \/ ContextEnds(r))
        BY <1>5 DEF HandlerStep, CreateRow, PostState, WaitTooLong, Waited, Sleep, FailRow,
                    CompleteRow, ContextEnds, Dies, HandlerOnly
      <3>2. ~WorkerStep(r)
        BY <1>5 DEF WorkerStep, TakeJob, Token, UploadScripts, Join, AddScriptEnds, RemoveEvacuates,
                    RemoveLeaves, RemoveScriptEnds, BatchEnds, Undo, Finish
      <3>3. ~(AgeJob(r) \/ Sweep(r) \/ SweepUndo(r))
        BY <1>5 DEF AgeJob, Sweep, SweepUndo
      <3>4. ASSUME NEW n \in Nodes
            PROVE  /\ ~SetMaintenance(r, n)
                   /\ \A kind : ~Ask(r, kind, n) /\ ~SubmitNodeJob(r, kind, n)
        BY <1>5 DEF SetMaintenance, Ask, SubmitNodeJob, HandlerOnly
      <3> QED BY <2>4, <3>1, <3>2, <3>3, <3>4 DEF RequestStep
    <2>5. ~UNCHANGED vars
      BY <1>5 DEF vars
    <2> QED BY <1>3, <1>4, <2>1, <2>2, <2>3, <2>4, <2>5 DEF Next
  <1> QED BY <1>1, <1>5

-----------------------------------------------------------------------------
(* The theorems                                                            *)

LEMMA InitIInv == Init => IInv
  <1> SUFFICES ASSUME Init PROVE IInv
    OBVIOUS
  <1>0. Budget \in Nat /\ MaxEvents \in Nat
    BY ClusterNodesAssumption
  <1>1. Members
    <2>1. op \in [Nodes -> OpType]
      BY OpsAre DEF Init
    <2>2. /\ member \in [Nodes -> {"absent", "Online", "Offline", "Evacuated"}] /\ manual \subseteq Nodes
          /\ place \in [VMs -> Nodes] /\ node \in [VMs -> Nodes] /\ faults = 0
      BY DEF Init
    <2> QED BY <1>0, <2>1, <2>2 DEF Members
  <1>2. Items
    <2>1. \A v \in VMs : batch[v] \in ItemType /\ batch[v].st = "off"
      BY DEF Init, ItemType
    <2> QED BY <2>1 DEF Init, Items
  <1>3. Hearing
    BY <1>0 DEF Init, Hearing, EarType
  <1>4. NewRequest \in ReqType /\ NewRequest.pc = "idle" /\ NewRequest.id = 0
    BY DEF NewRequest, ReqType, Points, Kinds, JobStatus
  <1>5. Asking
    BY <1>4 DEF Init, Asking
  <1>6. Remembered
    BY <1>4 DEF Init, Remembered
  <1>7. AutoRows
    <2>1. healing = <<>> /\ ear.pc = "idle"
      BY DEF Init
    <2>2. \A n : Automatic(n) = {}
      BY <2>1 DEF Automatic, OpenOf
    <2> QED BY <2>1, <2>2 DEF AutoRows
  <1> QED BY <1>1, <1>2, <1>3, <1>5, <1>6, <1>7 DEF IInv

\* The inductive invariant holds for all nodes, VMs, requests and failures.
THEOREM NodesInv == Spec => []IInv
  <1>1. IInv /\ [Next]_vars => IInv'
    BY MembersStep, ItemsStep, HearingStep, AskingStep, RememberedStep, AutoRowsStep
    DEF IInv, Remembered
  <1> QED BY <1>1, InitIInv, PTL DEF Spec

\* Every variable of the cluster keeps its type; a request that remembers a row of
\* healing_events remembers one that is there.
THEOREM NodesTypeCorrect == Spec => []TypeOK
  <1>1. IInv => TypeOK
    <2> SUFFICES ASSUME IInv PROVE TypeOK
      OBVIOUS
    <2>1. Members /\ Items /\ Hearing /\ Asking /\ Remembered
      BY DEF IInv
    <2>2. ear.pc \in {"idle", "create", "update", "track", "append"}
      BY <2>1 DEF Hearing, EarType
    <2>3. ASSUME NEW r \in Requests
          PROVE  /\ req[r].kind \in Kinds \cup {"none"} /\ req[r].node \in Nodes \cup {None}
                 /\ req[r].id \in 0..Len(healing) /\ req[r].status \in JobStatus
                 /\ req[r].pc \in Points
      <3>1. Len(healing) \in Nat /\ req[r].id <= Len(healing) /\ req[r] \in ReqType
        BY <2>1 DEF Remembered, Asking
      <3> QED BY <3>1, ReqIs
    <2> QED BY <2>1, <2>2, <2>3 DEF Members, Items, Hearing, Remembered, OpType, ItemType, TypeOK
  <1> QED BY <1>1, NodesInv, PTL

\* FindInProgressByNode and Create are two statements, Incus tells both "offline" and "evacuated"
\* of a node, and handlers insert rows of their own between them: still a node has at most one
\* automatic row in progress.
THEOREM OneAutoRow == Spec => []OneOpenAutoRow
  <1>1. IInv => OneOpenAutoRow
    <2> SUFFICES ASSUME IInv, NEW n \in Nodes
                 PROVE  Cardinality({i \in OpenOf(n) : healing[i].trigger = "auto"}) <= 1
      BY DEF OneOpenAutoRow
    <2>1. \A i, j \in Automatic(n) : i = j
      BY DEF IInv, AutoRows
    <2>2. Cardinality(Automatic(n)) <= 1
      <3>1. CASE Automatic(n) = {}
        BY <3>1, FS_EmptySet
      <3>2. CASE Automatic(n) # {}
        <4>1. PICK i : i \in Automatic(n)
          BY <3>2
        <4>2. Automatic(n) = {i}
          BY <2>1, <4>1
        <4>3. Cardinality(Automatic(n)) = 1
          BY <4>2, FS_Singleton
        <4> QED BY <4>3
      <3> QED BY <3>1, <3>2
    <2> QED BY <2>2 DEF Automatic
  <1> QED BY <1>1, NodesInv, PTL

-----------------------------------------------------------------------------
(* Sums over finite sets                                                   *)

\* What holds of 0, and of every next number up to n, holds up to n.
LEMMA UpTo ==
  ASSUME NEW n \in Nat, NEW S, 0 \in S, \A k \in 1..n : k - 1 \in S => k \in S
  PROVE  \A k \in 0..n : k \in S
  <1> DEFINE T == {k \in 0..n : k \notin S}
  <1> SUFFICES ASSUME T # {} PROVE FALSE
    OBVIOUS
  <1>0. T \in SUBSET Nat
    OBVIOUS
  <1>1. PICK m \in T : \A k \in T : m <= k
    <2> HIDE DEF T
    <2> QED BY <1>0, Least
  <1>2. m \in 1..n /\ m - 1 \in 0..n /\ ~ (m <= m - 1)
    BY <1>1
  <1>3. m - 1 \in S
    BY <1>1, <1>2
  <1> QED BY <1>1, <1>2, <1>3

\* What holds of a subset of a finite set whenever it holds of those with one element less, holds
\* of all its subsets.
LEMMA AllSubsets ==
  ASSUME NEW S, IsFiniteSet(S), NEW P,
         \A U \in SUBSET S : (\A x \in U : U \ {x} \in P) => U \in P
  PROVE  \A U \in SUBSET S : U \in P
  <1> DEFINE n == Cardinality(S)
             K == {k \in 0..n : \A U \in SUBSET S : Cardinality(U) = k => U \in P}
  <1>1. /\ n \in Nat
        /\ \A U \in SUBSET S : IsFiniteSet(U) /\ Cardinality(U) \in 0..n
    BY FS_CardinalityType, FS_Subset
  <1>2. 0 \in K
    <2>1. \A U \in SUBSET S : Cardinality(U) = 0 => U = {}
      BY <1>1, FS_EmptySet
    <2>2. {} \in SUBSET S /\ (\A x \in {} : {} \ {x} \in P)
      OBVIOUS
    <2>3. {} \in P
      BY <2>2
    <2>4. 0 \in 0..n
      BY <1>1
    <2> QED BY <2>1, <2>3, <2>4
  <1>3. ASSUME NEW k \in 1..n, k - 1 \in K
        PROVE  k \in K
    <2>1. ASSUME NEW U \in SUBSET S, Cardinality(U) = k
          PROVE  U \in P
      <3>1. ASSUME NEW x \in U
            PROVE  U \ {x} \in P
        <4>1. U \ {x} \in SUBSET S /\ IsFiniteSet(U)
          BY <1>1
        <4>2. Cardinality(U \ {x}) = Cardinality(U) - 1
          BY <4>1, FS_RemoveElement
        <4>3. Cardinality(U \ {x}) = k - 1
          BY <4>2, <2>1
        <4> QED BY <4>1, <4>3, <1>3
      <3> QED BY <3>1
    <2>2. k \in 0..n
      BY <1>1
    <2> QED BY <2>1, <2>2
  <1>4. \A k \in 0..n : k \in K
    <2> HIDE DEF K
    <2> QED BY <1>1, <1>2, <1>3, UpTo
  <1> QED BY <1>1, <1>4

\* What the fold of SumFunctionOnSet is defined by.
AnyOf(s) == CHOOSE x \in s : TRUE
SumsOf(g, f, S) ==
  g = [s \in SUBSET S |-> IF s = {} THEN 0 ELSE f[AnyOf(s)] + g[s \ {AnyOf(s)}]]

LEMMA SumIs ==
  ASSUME NEW f, NEW S
  PROVE  SumFunctionOnSet(f, S) = (CHOOSE g : SumsOf(g, f, S))[S]
  BY DEF SumFunctionOnSet, FoldFunctionOnSet, MapThenFoldSet, SumsOf, AnyOf

LEMMA AnyIs ==
  ASSUME NEW s, s # {}
  PROVE  AnyOf(s) \in s
  BY DEF AnyOf

\* Two functions with that definition agree.
LEMMA SumsAgree ==
  ASSUME NEW S, IsFiniteSet(S), NEW T \in SUBSET S, NEW g, NEW h, NEW e, NEW f,
         SumsOf(g, e, S), SumsOf(h, f, T), \A x \in T : e[x] = f[x]
  PROVE  g[T] = h[T]
  <1> DEFINE P == {s \in SUBSET T : g[s] = h[s]}
  <1>1. ASSUME NEW U \in SUBSET T, \A x \in U : U \ {x} \in P
        PROVE  U \in P
    <2>1. g[U] = IF U = {} THEN 0 ELSE e[AnyOf(U)] + g[U \ {AnyOf(U)}]
      BY DEF SumsOf
    <2>2. h[U] = IF U = {} THEN 0 ELSE f[AnyOf(U)] + h[U \ {AnyOf(U)}]
      BY DEF SumsOf
    <2>3. CASE U = {}
      BY <2>1, <2>2, <2>3
    <2>4. CASE U # {}
      <3>1. AnyOf(U) \in U
        BY <2>4, AnyIs
      <3>2. g[U \ {AnyOf(U)}] = h[U \ {AnyOf(U)}] /\ e[AnyOf(U)] = f[AnyOf(U)]
        BY <1>1, <3>1
      <3> QED BY <2>1, <2>2, <2>4, <3>2
    <2> QED BY <2>3, <2>4
  <1>2. IsFiniteSet(T)
    BY FS_Subset
  <1>3. \A U \in SUBSET T : U \in P
    <2> HIDE DEF P
    <2> QED BY <1>1, <1>2, AllSubsets
  <1> QED BY <1>3

\* There is such a function.
LEMMA SumsExist ==
  ASSUME NEW S, IsFiniteSet(S), NEW f
  PROVE  \E g : SumsOf(g, f, S)
  <1> DEFINE n == Cardinality(S)
             Upto(k) == {s \in SUBSET S : Cardinality(s) <= k}
             Sums(g, k) ==
               g = [s \in Upto(k) |-> IF s = {} THEN 0 ELSE f[AnyOf(s)] + g[s \ {AnyOf(s)}]]
             K == {k \in 0..n : \E g : Sums(g, k)}
  <1>1. /\ n \in Nat
        /\ \A U \in SUBSET S : IsFiniteSet(U) /\ Cardinality(U) \in 0..n
    BY FS_CardinalityType, FS_Subset
  <1>2. 0 \in K
    <2> DEFINE g == [s \in Upto(0) |-> 0]
    <2>1. \A s \in Upto(0) : s = {}
      BY <1>1, FS_EmptySet
    <2>2. Sums(g, 0)
      BY <2>1
    <2>3. 0 \in 0..n
      BY <1>1
    <2> QED BY <2>2, <2>3
  <1>3. ASSUME NEW k \in 1..n, k - 1 \in K
        PROVE  k \in K
    <2>1. PICK g : Sums(g, k - 1)
      BY <1>3
    <2> DEFINE h == [s \in Upto(k) |-> IF s = {} THEN 0 ELSE f[AnyOf(s)] + g[s \ {AnyOf(s)}]]
    <2>2. ASSUME NEW s \in Upto(k), s # {}
          PROVE  s \ {AnyOf(s)} \in Upto(k - 1)
      <3>1. AnyOf(s) \in s /\ s \in SUBSET S /\ Cardinality(s) <= k
        BY <2>2, AnyIs
      <3>2. IsFiniteSet(s) /\ Cardinality(s) \in 0..n /\ s \ {AnyOf(s)} \in SUBSET S
        BY <1>1, <3>1
      <3>3. Cardinality(s \ {AnyOf(s)}) = Cardinality(s) - 1
        BY <3>1, <3>2, FS_RemoveElement
      <3> QED BY <3>1, <3>2, <3>3, <1>1
    <2>3. ASSUME NEW s \in Upto(k - 1)
          PROVE  h[s] = g[s]
      <3>1. s \in Upto(k)
        BY <1>1
      <3>2. g[s] = IF s = {} THEN 0 ELSE f[AnyOf(s)] + g[s \ {AnyOf(s)}]
        BY <2>1
      <3> QED BY <3>1, <3>2
    <2>4. h = [s \in Upto(k) |-> IF s = {} THEN 0 ELSE f[AnyOf(s)] + h[s \ {AnyOf(s)}]]
      <3>1. \A s \in Upto(k) : s # {} => h[s \ {AnyOf(s)}] = g[s \ {AnyOf(s)}]
        BY <2>2, <2>3
      <3> HIDE DEF Upto
      <3> QED BY <3>1
    <2>5. k \in 0..n
      BY <1>1
    <2> HIDE DEF h
    <2>6. Sums(h, k)
      BY ONLY <2>4
    <2> QED BY <2>5, <2>6
  <1>4. \A k \in 0..n : k \in K
    <2> HIDE DEF K
    <2> QED BY <1>1, <1>2, <1>3, UpTo
  <1>5. n \in 0..n
    BY <1>1
  <1>6. PICK g : Sums(g, n)
    BY <1>4, <1>5
  <1>7. Upto(n) = SUBSET S
    BY <1>1
  <1>8. SumsOf(g, f, S)
    BY <1>6, <1>7 DEF SumsOf
  <1> QED BY <1>8

\* The sum over a subset is what such a function says.
LEMMA SumOfSubset ==
  ASSUME NEW S, IsFiniteSet(S), NEW T \in SUBSET S, NEW e, NEW f, NEW g, SumsOf(g, e, S),
         \A x \in T : e[x] = f[x]
  PROVE  SumFunctionOnSet(f, T) = g[T]
  <1>1. IsFiniteSet(T)
    BY FS_Subset
  <1>2. \E h : SumsOf(h, f, T)
    BY <1>1, SumsExist
  <1>3. SumsOf(CHOOSE h : SumsOf(h, f, T), f, T)
    BY <1>2
  <1>4. g[T] = (CHOOSE h : SumsOf(h, f, T))[T]
    BY <1>3, SumsAgree
  <1> QED BY <1>4, SumIs

\* Functions that agree have one sum.
LEMMA SumSame ==
  ASSUME NEW S, IsFiniteSet(S), NEW e, NEW f, \A x \in S : e[x] = f[x]
  PROVE  SumFunctionOnSet(e, S) = SumFunctionOnSet(f, S)
  <1>1. PICK g : SumsOf(g, e, S)
    BY SumsExist
  <1>2. SumFunctionOnSet(e, S) = g[S]
    BY <1>1, SumOfSubset
  <1>3. SumFunctionOnSet(f, S) = g[S]
    BY <1>1, SumOfSubset
  <1> QED BY <1>2, <1>3

LEMMA SumEmpty ==
  ASSUME NEW f
  PROVE  SumFunctionOnSet(f, {}) = 0
  <1>1. IsFiniteSet({})
    BY FS_EmptySet
  <1>2. PICK g : SumsOf(g, f, {})
    BY <1>1, SumsExist
  <1>3. SumFunctionOnSet(f, {}) = g[{}]
    BY <1>1, <1>2, SumOfSubset
  <1>4. g[{}] = 0
    BY <1>2 DEF SumsOf
  <1> QED BY <1>3, <1>4

\* A sum is a sum less one element, the one the fold takes, and that one.
LEMMA SumUnfold ==
  ASSUME NEW S, IsFiniteSet(S), NEW f, S # {}
  PROVE  SumFunctionOnSet(f, S) = f[AnyOf(S)] + SumFunctionOnSet(f, S \ {AnyOf(S)})
  <1>1. PICK g : SumsOf(g, f, S)
    BY SumsExist
  <1>2. SumFunctionOnSet(f, S) = g[S]
    BY <1>1, SumOfSubset
  <1>3. SumFunctionOnSet(f, S \ {AnyOf(S)}) = g[S \ {AnyOf(S)}]
    BY <1>1, SumOfSubset
  <1>4. g[S] = f[AnyOf(S)] + g[S \ {AnyOf(S)}]
    BY <1>1 DEF SumsOf
  <1> QED BY <1>2, <1>3, <1>4

LEMMA SumType ==
  ASSUME NEW S, IsFiniteSet(S), NEW f, \A x \in S : f[x] \in Nat
  PROVE  SumFunctionOnSet(f, S) \in Nat
  <1> DEFINE P == {U \in SUBSET S : SumFunctionOnSet(f, U) \in Nat}
  <1>1. ASSUME NEW U \in SUBSET S, \A x \in U : U \ {x} \in P
        PROVE  U \in P
    <2>1. CASE U = {}
      BY <2>1, SumEmpty
    <2>2. CASE U # {}
      <3>1. AnyOf(U) \in U /\ IsFiniteSet(U)
        BY <2>2, AnyIs, FS_Subset
      <3>2. SumFunctionOnSet(f, U) = f[AnyOf(U)] + SumFunctionOnSet(f, U \ {AnyOf(U)})
        BY <2>2, <3>1, SumUnfold
      <3>3. SumFunctionOnSet(f, U \ {AnyOf(U)}) \in Nat /\ f[AnyOf(U)] \in Nat
        BY <1>1, <3>1
      <3> QED BY <3>2, <3>3
    <2> QED BY <2>1, <2>2
  <1>2. \A U \in SUBSET S : U \in P
    <2> HIDE DEF P
    <2> QED BY <1>1, AllSubsets
  <1> QED BY <1>2

\* Any element may be taken out.
LEMMA SumSplit ==
  ASSUME NEW S, IsFiniteSet(S), NEW f, \A x \in S : f[x] \in Nat, NEW z \in S
  PROVE  SumFunctionOnSet(f, S) = f[z] + SumFunctionOnSet(f, S \ {z})
  <1> DEFINE SumOver(U) == SumFunctionOnSet(f, U)
             P == {U \in SUBSET S : \A x \in U : SumOver(U) = f[x] + SumOver(U \ {x})}
  <1>0. ASSUME NEW U \in SUBSET S
        PROVE  IsFiniteSet(U) /\ SumOver(U) \in Nat
    <2>1. IsFiniteSet(U)
      BY FS_Subset
    <2> QED BY <2>1, SumType
  <1>1. ASSUME NEW U \in SUBSET S, \A x \in U : U \ {x} \in P
        PROVE  U \in P
    <2> SUFFICES ASSUME NEW x \in U PROVE SumOver(U) = f[x] + SumOver(U \ {x})
      OBVIOUS
    <2> DEFINE y == AnyOf(U)
    <2>1. y \in U
      BY AnyIs
    <2>2. SumOver(U) = f[y] + SumOver(U \ {y})
      BY <1>0, SumUnfold
    <2>3. CASE x = y
      BY <2>2, <2>3
    <2>4. CASE x # y
      <3>1. SumOver(U \ {y}) = f[x] + SumOver((U \ {y}) \ {x})
        BY <1>1, <2>1, <2>4
      <3>2. SumOver(U \ {x}) = f[y] + SumOver((U \ {x}) \ {y})
        BY <1>1, <2>1, <2>4
      <3>3. (U \ {y}) \ {x} = (U \ {x}) \ {y}
        OBVIOUS
      <3>4. SumOver((U \ {x}) \ {y}) \in Nat /\ f[x] \in Nat /\ f[y] \in Nat
        BY <1>0, <2>1
      <3> HIDE DEF SumOver, y
      <3>5. SumOver(U) = f[y] + (f[x] + SumOver((U \ {x}) \ {y}))
        BY <2>2, <3>1, <3>3
      <3> QED BY <3>2, <3>4, <3>5
    <2> QED BY <2>3, <2>4
  <1>2. \A U \in SUBSET S : U \in P
    <2> HIDE DEF P
    <2> QED BY <1>1, AllSubsets
  <1>3. S \in P
    BY <1>2
  <1> QED BY <1>3

-----------------------------------------------------------------------------
(* The advice of Placement                                                 *)

\* Of finitely many there is one with the most.
LEMMA MostExists ==
  ASSUME NEW S, IsFiniteSet(S), S # {}, NEW f, \A x \in S : f[x] \in Int
  PROVE  \E m \in S : \A x \in S : f[x] <= f[m]
  <1> DEFINE P == {U \in SUBSET S : U = {} \/ \E m \in U : \A x \in U : f[x] <= f[m]}
  <1>1. ASSUME NEW U \in SUBSET S, \A x \in U : U \ {x} \in P
        PROVE  U \in P
    <2>1. CASE U = {}
      BY <2>1
    <2>2. CASE U # {}
      <3>1. PICK y : y \in U
        BY <2>2
      <3>2. U \ {y} \in P
        BY <1>1, <3>1
      <3>3. CASE U \ {y} = {}
        BY <3>1, <3>3
      <3>4. CASE U \ {y} # {}
        <4>1. PICK m \in U \ {y} : \A x \in U \ {y} : f[x] <= f[m]
          BY <3>2, <3>4
        <4>2. f[m] \in Int /\ f[y] \in Int /\ m \in U
          BY <3>1, <4>1
        <4>3. CASE f[y] <= f[m]
          BY <4>1, <4>2, <4>3
        <4>4. CASE ~ (f[y] <= f[m])
          <5>1. \A x \in U : f[x] <= f[y]
            BY <4>1, <4>2, <4>4
          <5> QED BY <3>1, <5>1
        <4> QED BY <4>3, <4>4
      <3> QED BY <3>3, <3>4
    <2> QED BY <2>1, <2>2
  <1>2. \A U \in SUBSET S : U \in P
    <2> HIDE DEF P
    <2> QED BY <1>1, AllSubsets
  <1>3. S \in P
    BY <1>2
  <1> QED BY <1>3

\* c lists the elements of S, those with more first.
Sorted(c, S, f) ==
  \A i, j \in 1..Cardinality(S) : i < j => c[i] # c[j] /\ f[c[i]] >= f[c[j]]

LEMMA SortedExists ==
  ASSUME NEW S, IsFiniteSet(S), NEW f, \A x \in S : f[x] \in Int
  PROVE  \E c \in [1..Cardinality(S) -> S] : Sorted(c, S, f)
  <1> DEFINE P == {U \in SUBSET S : \E c \in [1..Cardinality(U) -> U] : Sorted(c, U, f)}
  <1>1. ASSUME NEW U \in SUBSET S, \A x \in U : U \ {x} \in P
        PROVE  U \in P
    <2> DEFINE n == Cardinality(U)
    <2>0. IsFiniteSet(U) /\ n \in Nat
      BY FS_Subset, FS_CardinalityType
    <2>1. CASE U = {}
      <3>1. n = 0
        BY <2>1, FS_EmptySet
      <3> DEFINE c == [i \in 1..n |-> i]
      <3>2. c \in [1..n -> U] /\ Sorted(c, U, f)
        BY <3>1 DEF Sorted
      <3> QED BY <3>2
    <2>2. CASE U # {}
      <3>1. PICK m \in U : \A x \in U : f[m] <= f[x]
        <4> DEFINE h == [x \in U |-> -f[x]]
        <4>1. \A x \in U : h[x] \in Int /\ f[x] \in Int
          OBVIOUS
        <4> HIDE DEF h
        <4>2. PICK m \in U : \A x \in U : h[x] <= h[m]
          BY <2>0, <2>2, <4>1, MostExists
        <4>3. \A x \in U : f[m] <= f[x]
          BY <4>1, <4>2 DEF h
        <4> QED BY <4>3
      <3>2. Cardinality(U \ {m}) = n - 1
        BY <2>0, FS_RemoveElement
      <3>3. PICK c \in [1..(n - 1) -> U \ {m}] : Sorted(c, U \ {m}, f)
        BY <1>1, <3>2
      <3> DEFINE d == [i \in 1..n |-> IF i < n THEN c[i] ELSE m]
      <3>4. \A i \in 1..n : IF i < n THEN i \in 1..(n - 1) /\ d[i] = c[i] /\ d[i] \in U \ {m}
                            ELSE i = n /\ d[i] = m
        BY <2>0, <3>3
      <3>5. d \in [1..n -> U]
        BY <3>4
      <3>6. ASSUME NEW i \in 1..n, NEW j \in 1..n, i < j
            PROVE  d[i] # d[j] /\ f[d[i]] >= f[d[j]]
        <4>0. i < n /\ i \in 1..(n - 1) /\ d[i] = c[i] /\ d[i] \in U \ {m}
          BY <2>0, <3>4, <3>6
        <4>1. CASE j < n
          <5>1. j \in 1..(n - 1) /\ d[j] = c[j]
            BY <3>4, <4>1
          <5>2. c[i] # c[j] /\ f[c[i]] >= f[c[j]]
            BY <3>2, <3>3, <3>6, <4>0, <5>1 DEF Sorted
          <5> QED BY <4>0, <5>1, <5>2
        <4>2. CASE ~ (j < n)
          <5>1. d[j] = m
            BY <3>4, <4>2
          <5>2. f[m] <= f[d[i]] /\ f[m] \in Int /\ f[d[i]] \in Int
            BY <3>1, <4>0
          <5> QED BY <4>0, <5>1, <5>2
        <4> QED BY <4>1, <4>2
      <3> HIDE DEF d
      <3>7. Sorted(d, U, f)
        BY <3>6 DEF Sorted
      <3> QED BY <3>5, <3>7
    <2> QED BY <2>1, <2>2
  <1>2. \A U \in SUBSET S : U \in P
    <2> HIDE DEF P
    <2> QED BY <1>1, AllSubsets
  <1>3. S \in P
    BY <1>2
  <1> QED BY <1>3

\* The candidates are VMs, each once.
LEMMA CandidatesAre ==
  ASSUME NEW mem, IsFiniteSet(DOMAIN mem), \A v \in DOMAIN mem : mem[v] \in Nat,
         NEW hot, NEW at
  PROVE  /\ Candidates(hot, mem, at) \in Seq(DOMAIN mem)
         /\ \A i, j \in 1..Len(Candidates(hot, mem, at)) :
              Candidates(hot, mem, at)[i] = Candidates(hot, mem, at)[j] => i = j
  <1> DEFINE S == {v \in DOMAIN mem : at[v] = hot}
             n == Cardinality(S)
             c == CHOOSE s \in [1..n -> S] : Sorted(s, S, mem)
  <1>1. IsFiniteSet(S) /\ n \in Nat
    <2>1. IsFiniteSet(S)
      BY FS_Subset
    <2> QED BY <2>1, FS_CardinalityType
  <1>2. Candidates(hot, mem, at) = c
    BY DEF Candidates, Sorted
  <1>3. c \in [1..n -> S] /\ Sorted(c, S, mem)
    <2>1. \A v \in S : mem[v] \in Int
      OBVIOUS
    <2> HIDE DEF S
    <2>2. \E s \in [1..n -> S] : Sorted(s, S, mem)
      BY <1>1, <2>1, SortedExists
    <2> QED BY <2>2
  <1> HIDE DEF c
  <1>4. c \in [1..n -> DOMAIN mem]
    BY <1>3
  <1>5. c \in Seq(DOMAIN mem) /\ Len(c) = n
    <2> HIDE DEF n
    <2>1. c \in Seq(DOMAIN mem)
      BY <1>1, <1>4, SeqDef
    <2>2. DOMAIN c = 1..n
      BY <1>4
    <2> QED BY <1>1, <2>1, <2>2, LenProperties
  <1>6. ASSUME NEW i \in 1..n, NEW j \in 1..n, i # j
        PROVE  c[i] # c[j]
    <2>1. i < j \/ j < i
      BY <1>1, <1>6
    <2> QED BY <1>3, <2>1 DEF Sorted
  <1> QED BY <1>2, <1>5, <1>6

\* The advice is a function of the number of candidates looked at.
Advised(g, c, hot, mem, cap) ==
  g = [i \in 0..Len(c) |->
         IF i = 0 THEN [moves |-> <<>>, left |-> cap[hot].used, cap |-> cap, stop |-> FALSE]
         ELSE Advise(g[i - 1], c[i], hot, mem, cap)]

LEMMA AdviceIs ==
  ASSUME NEW T, NEW c \in Seq(T), NEW hot, NEW mem, NEW cap
  PROVE  Advised(Advice(c, hot, mem, cap), c, hot, mem, cap)
  <1> DEFINE n == Len(c)
             begin == [moves |-> <<>>, left |-> cap[hot].used, cap |-> cap, stop |-> FALSE]
             Up(g, k) ==
               g = [i \in 0..k |-> IF i = 0 THEN begin ELSE Advise(g[i - 1], c[i], hot, mem, cap)]
             K == {k \in 0..n : \E g : Up(g, k)}
  <1>1. n \in Nat
    OBVIOUS
  <1> HIDE DEF begin
  <1>2. 0 \in K
    <2> DEFINE g == [i \in 0..0 |-> begin]
    <2>1. Up(g, 0)
      OBVIOUS
    <2>2. 0 \in 0..n
      BY <1>1
    <2> HIDE DEF Up, g
    <2> QED BY <2>1, <2>2
  <1>3. ASSUME NEW k \in 1..n, k - 1 \in K
        PROVE  k \in K
    <2>1. PICK g : Up(g, k - 1)
      BY <1>3
    <2> DEFINE h == [i \in 0..k |->
                       IF i = 0 THEN begin ELSE Advise(g[i - 1], c[i], hot, mem, cap)]
    <2>2. ASSUME NEW i \in 0..(k - 1)
          PROVE  h[i] = g[i]
      <3>1. i \in 0..k
        OBVIOUS
      <3>2. g[i] = IF i = 0 THEN begin ELSE Advise(g[i - 1], c[i], hot, mem, cap)
        BY <2>1
      <3> QED BY <3>1, <3>2
    <2>3. \A i \in 0..k : i # 0 => h[i - 1] = g[i - 1]
      <3>1. \A i \in 0..k : i # 0 => i - 1 \in 0..(k - 1)
        OBVIOUS
      <3> HIDE DEF h
      <3> QED BY <2>2, <3>1
    <2>4. h = [i \in 0..k |-> IF i = 0 THEN begin ELSE Advise(h[i - 1], c[i], hot, mem, cap)]
      <3>1. \A i \in 0..k : h[i] = IF i = 0 THEN begin
                                   ELSE Advise(h[i - 1], c[i], hot, mem, cap)
        BY <2>3
      <3> QED BY <3>1
    <2>5. k \in 0..n
      BY <1>1
    <2> HIDE DEF h
    <2>6. Up(h, k)
      BY ONLY <2>4
    <2> QED BY <2>5, <2>6
  <1>4. \A k \in 0..n : k \in K
    <2> HIDE DEF K
    <2> QED BY <1>1, <1>2, <1>3, UpTo
  <1>5. n \in 0..n
    BY <1>1
  <1>6. \E g : Up(g, n)
    BY <1>4, <1>5
  <1>7. \A g : Up(g, n) <=> Advised(g, c, hot, mem, cap)
    BY DEF Advised, begin
  <1>8. Advice(c, hot, mem, cap) = CHOOSE g : Advised(g, c, hot, mem, cap)
    BY DEF Advice, Advised
  <1> HIDE DEF Up
  <1> QED BY <1>6, <1>7, <1>8

\* What the moves bring to node n.
MovesTo(moves, n)    == {i \in DOMAIN moves : moves[i].to = n}
Sizes(moves, mem)    == [i \in DOMAIN moves |-> mem[moves[i].vm]]
Given(moves, mem, n) == SumFunctionOnSet(Sizes(moves, mem), MovesTo(moves, n))

LEMMA GivenIs ==
  ASSUME NEW mem, \A v \in DOMAIN mem : mem[v] \in Nat,
         NEW T, NEW moves \in Seq([vm : DOMAIN mem, to : T]), NEW n
  PROVE  /\ IsFiniteSet(MovesTo(moves, n)) /\ Given(moves, mem, n) \in Nat
         /\ \A i \in MovesTo(moves, n) : Sizes(moves, mem)[i] \in Nat
  <1>1. DOMAIN moves = 1..Len(moves) /\ Len(moves) \in Nat
    BY LenProperties
  <1>2. IsFiniteSet(DOMAIN moves)
    BY <1>1, FS_Interval
  <1>3. IsFiniteSet(MovesTo(moves, n))
    BY <1>2, FS_Subset DEF MovesTo
  <1>4. \A i \in DOMAIN moves : moves[i].vm \in DOMAIN mem
    <2> SUFFICES ASSUME NEW i \in 1..Len(moves) PROVE moves[i].vm \in DOMAIN mem
      BY <1>1
    <2>1. moves[i] \in [vm : DOMAIN mem, to : T]
      BY ElementOfSeq
    <2> QED BY <2>1
  <1>5. \A i \in MovesTo(moves, n) : Sizes(moves, mem)[i] \in Nat
    BY <1>4 DEF MovesTo, Sizes
  <1>6. Given(moves, mem, n) \in Nat
    BY <1>3, <1>5, SumType DEF Given
  <1> QED BY <1>3, <1>5, <1>6

\* A list of moves of VMs that have a size, and one more.
Another(moves, m, mem) ==
  /\ \A v \in DOMAIN mem : mem[v] \in Nat
  /\ \E T : moves \in Seq([vm : DOMAIN mem, to : T]) /\ m \in [vm : DOMAIN mem, to : T]

\* One more move brings what it moves to its receiver and to nobody else.
LEMMA GivenMore ==
  ASSUME NEW mem, NEW moves, NEW m, NEW n, Another(moves, m, mem)
  PROVE  Given(Append(moves, m), mem, n)
           = Given(moves, mem, n) + IF m.to = n THEN mem[m.vm] ELSE 0
  <1>0. PICK T : /\ \A v \in DOMAIN mem : mem[v] \in Nat
                 /\ moves \in Seq([vm : DOMAIN mem, to : T]) /\ m \in [vm : DOMAIN mem, to : T]
    BY DEF Another
  <1> DEFINE more == Append(moves, m)
             l == Len(moves)
             A == MovesTo(moves, n)
             B == MovesTo(more, n)
  <1>1. /\ l \in Nat /\ DOMAIN moves = 1..l /\ DOMAIN more = 1..(l + 1) /\ more[l + 1] = m
        /\ \A i \in 1..l : more[i] = moves[i]
        /\ more \in Seq([vm : DOMAIN mem, to : T])
    BY <1>0
  <1> HIDE DEF more, l
  <1>2. B = IF m.to = n THEN A \cup {l + 1} ELSE A
    BY <1>1 DEF MovesTo
  <1>3. (l + 1) \notin A
    BY <1>1 DEF MovesTo
  <1>4. \A i \in A : Sizes(more, mem)[i] = Sizes(moves, mem)[i]
    BY <1>1 DEF MovesTo, Sizes
  <1>5. Sizes(more, mem)[l + 1] = mem[m.vm]
    BY <1>1 DEF Sizes
  <1>6. /\ IsFiniteSet(A) /\ IsFiniteSet(B) /\ Given(moves, mem, n) \in Nat
        /\ \A i \in B : Sizes(more, mem)[i] \in Nat
    BY <1>0, <1>1, GivenIs
  <1>7. SumFunctionOnSet(Sizes(more, mem), A) = Given(moves, mem, n)
    <2> HIDE DEF A
    <2>1. SumFunctionOnSet(Sizes(more, mem), A) = SumFunctionOnSet(Sizes(moves, mem), A)
      BY <1>4, <1>6, SumSame
    <2> QED BY <2>1 DEF Given, A
  <1>8. CASE m.to = n
    <2>1. l + 1 \in B /\ B \ {l + 1} = A
      BY <1>2, <1>3, <1>8
    <2> HIDE DEF A, B
    <2>2. SumFunctionOnSet(Sizes(more, mem), B)
            = Sizes(more, mem)[l + 1] + SumFunctionOnSet(Sizes(more, mem), B \ {l + 1})
      BY <1>6, <2>1, SumSplit
    <2>3. SumFunctionOnSet(Sizes(more, mem), B) = mem[m.vm] + Given(moves, mem, n)
      BY <1>5, <1>7, <2>1, <2>2
    <2>4. mem[m.vm] \in Nat
      BY <1>0
    <2>5. SumFunctionOnSet(Sizes(more, mem), B) = Given(moves, mem, n) + mem[m.vm]
      BY <1>6, <2>3, <2>4
    <2> QED BY <1>8, <2>5 DEF Given, B, more
  <1>9. CASE m.to # n
    <2>1. B = A
      BY <1>2, <1>9
    <2>2. Given(more, mem, n) = Given(moves, mem, n)
      BY <1>7, <2>1 DEF Given
    <2> QED BY <1>6, <1>9, <2>2 DEF more
  <1> QED BY <1>8, <1>9

CapType == [total : Nat, used : Nat, online : BOOLEAN, manual : BOOLEAN]

LEMMA MoreUsed ==
  ASSUME NEW q \in CapType, NEW k \in Nat
  PROVE  LET p == [q EXCEPT !.used = @ + k] IN
         /\ p \in CapType /\ p.total = q.total /\ p.online = q.online
         /\ p.manual = q.manual /\ p.used = q.used + k
  BY DEF CapType

\* The nodes are finitely many and have a capacity, one of them can receive, and the candidates
\* are VMs, each once.
Offer(c, hot, mem, cap) ==
  /\ cap \in [DOMAIN cap -> CapType] /\ IsFiniteSet(DOMAIN cap) /\ Cold(cap, hot) # {}
  /\ \A v \in DOMAIN mem : mem[v] \in Nat
  /\ c \in Seq(DOMAIN mem) /\ \A i, j \in 1..Len(c) : c[i] = c[j] => i = j

\* What holds of the advice after i candidates: the receivers are nodes that may receive, each VM
\* is moved once, acc.cap is what the moves leave of the nodes, and they fit.
Fits(acc, i, c, hot, mem, cap) ==
  /\ DOMAIN acc = {"moves", "left", "cap", "stop"}
  /\ acc.moves \in Seq([vm : DOMAIN mem, to : Cold(cap, hot)])
  /\ \A k \in 1..Len(acc.moves) : \E j \in 1..i : acc.moves[k].vm = c[j]
  /\ \A k, l \in 1..Len(acc.moves) : acc.moves[k].vm = acc.moves[l].vm => k = l
  /\ acc.cap \in [DOMAIN cap -> CapType]
  /\ \A n \in DOMAIN cap :
       /\ acc.cap[n].total = cap[n].total /\ acc.cap[n].online = cap[n].online
       /\ acc.cap[n].manual = cap[n].manual
       /\ acc.cap[n].used = cap[n].used + Given(acc.moves, mem, n)
  /\ \A k \in 1..Len(acc.moves) :
       Given(acc.moves, mem, acc.moves[k].to) <= Free(cap[acc.moves[k].to])

\* The next candidate keeps it.
LEMMA AdviseFits ==
  ASSUME NEW c, NEW hot, NEW mem, NEW cap, Offer(c, hot, mem, cap),
         NEW i \in 1..Len(c), NEW acc, Fits(acc, i - 1, c, hot, mem, cap)
  PROVE  Fits(Advise(acc, c[i], hot, mem, cap), i, c, hot, mem, cap)
  <1> DEFINE v  == c[i]
             to == Coldest(acc.cap, hot)
             M  == [vm : DOMAIN mem, to : Cold(cap, hot)]
             m  == [vm |-> v, to |-> to]
             l  == Len(acc.moves)
             stopped == [acc EXCEPT !.stop = TRUE]
             added == [acc EXCEPT !.moves = Append(@, m), !.left = @ - mem[v],
                                  !.cap = Taken(@, to, mem[v])]
  <1>0. /\ cap \in [DOMAIN cap -> CapType] /\ IsFiniteSet(DOMAIN cap) /\ Cold(cap, hot) # {}
        /\ \A w \in DOMAIN mem : mem[w] \in Nat
        /\ c \in Seq(DOMAIN mem)
        /\ \A k, j \in 1..Len(c) : c[k] = c[j] => k = j
    BY DEF Offer
  <1>1. /\ DOMAIN acc = {"moves", "left", "cap", "stop"} /\ acc.moves \in Seq(M)
        /\ acc.cap \in [DOMAIN cap -> CapType] /\ l \in Nat /\ Len(c) \in Nat
        /\ v \in DOMAIN mem /\ mem[v] \in Nat
    BY <1>0 DEF Fits
  <1>2. /\ \A k \in 1..l : \E j \in 1..(i - 1) : acc.moves[k].vm = c[j]
        /\ \A k, j \in 1..l : acc.moves[k].vm = acc.moves[j].vm => k = j
        /\ \A n \in DOMAIN cap :
             /\ acc.cap[n].total = cap[n].total /\ acc.cap[n].online = cap[n].online
             /\ acc.cap[n].manual = cap[n].manual
             /\ acc.cap[n].used = cap[n].used + Given(acc.moves, mem, n)
        /\ \A k \in 1..l : Given(acc.moves, mem, acc.moves[k].to) <= Free(cap[acc.moves[k].to])
    BY DEF Fits
  <1>3. Cold(acc.cap, hot) = Cold(cap, hot)
    BY <1>0, <1>1, <1>2 DEF Cold, Sized
  <1>4. to \in Cold(cap, hot) /\ to \in DOMAIN cap
    <2> DEFINE C == Cold(acc.cap, hot)
               free == [n \in C |-> Free(acc.cap[n])]
    <2>1. C \subseteq DOMAIN cap /\ C # {}
      BY <1>0, <1>3 DEF Cold, Sized
    <2>2. IsFiniteSet(C)
      BY <1>0, <2>1, FS_Subset
    <2>3. \A n \in C : free[n] \in Int
      BY <1>0, <1>1, <2>1 DEF Free, CapType
    <2> HIDE DEF free
    <2>4. \E n \in C : \A k \in C : free[k] <= free[n]
      <3> HIDE DEF C
      <3> QED BY <2>1, <2>2, <2>3, MostExists
    <2>5. \E n \in C : \A k \in C : Free(acc.cap[k]) <= Free(acc.cap[n])
      BY <2>4 DEF free
    <2>6. to \in C
      BY <2>5 DEF Coldest
    <2> QED BY <1>3, <2>1, <2>6
  <1>5. ASSUME NEW k \in 1..l
        PROVE  \E j \in 1..i : acc.moves[k].vm = c[j]
    <2>1. PICK j \in 1..(i - 1) : acc.moves[k].vm = c[j]
      BY <1>2
    <2>2. j \in 1..i
      OBVIOUS
    <2> QED BY <2>1, <2>2
  <1>6. Fits(stopped, i, c, hot, mem, cap)
    <2>1. /\ DOMAIN stopped = {"moves", "left", "cap", "stop"}
          /\ stopped.moves = acc.moves /\ stopped.cap = acc.cap
      BY <1>0, <1>1
    <2> HIDE DEF stopped
    <2> QED BY <1>0, <1>1, <1>2, <1>5, <2>1 DEF Fits
  <1>7. ASSUME ~ (Free(acc.cap[to]) < mem[v])
        PROVE  Fits(added, i, c, hot, mem, cap)
    <2>1. /\ DOMAIN added = {"moves", "left", "cap", "stop"}
          /\ added.moves = Append(acc.moves, m)
          /\ added.cap = [acc.cap EXCEPT ![to].used = @ + mem[v]]
      BY <1>0, <1>1 DEF Taken
    <2>2. m \in M /\ m.vm = v /\ m.to = to
      BY <1>0, <1>1, <1>4
    <2> DEFINE moves == added.moves
               g(n) == Given(acc.moves, mem, n)
    <2>3. /\ moves \in Seq(M) /\ Len(moves) = l + 1 /\ moves[l + 1] = m
          /\ \A k \in 1..l : moves[k] = acc.moves[k]
      BY <1>0, <1>1, <2>1, <2>2
    <2>4. \A n : g(n) \in Nat /\ Given(moves, mem, n) = g(n) + IF to = n THEN mem[v] ELSE 0
      <3> SUFFICES ASSUME NEW n
                   PROVE  /\ g(n) \in Nat
                          /\ Given(moves, mem, n) = g(n) + IF to = n THEN mem[v] ELSE 0
        OBVIOUS
      <3>1. g(n) \in Nat
        BY <1>0, <1>1, GivenIs
      <3>2. Given(Append(acc.moves, m), mem, n) = g(n) + IF m.to = n THEN mem[m.vm] ELSE 0
        <4>1. Another(acc.moves, m, mem)
          BY <1>0, <1>1, <2>2 DEF Another
        <4> HIDE DEF m
        <4> QED BY <4>1, GivenMore
      <3> HIDE DEF m, to, v, g, added
      <3> QED BY <2>1, <2>2, <3>1, <3>2
    <2> HIDE DEF moves, m, to, v, l, added, g
    <2>5. \A k \in 1..(l + 1) : k \in 1..l \/ k = l + 1
      BY <1>0, <1>1
    <2>6. \A k \in 1..Len(moves) : \E j \in 1..i : moves[k].vm = c[j]
      <3>1. i \in 1..i /\ m.vm = c[i]
        BY <2>2 DEF v
      <3> QED BY <1>5, <2>3, <2>5, <3>1
    <2>7. \A k \in 1..l : acc.moves[k].vm # v
      <3> SUFFICES ASSUME NEW k \in 1..l, acc.moves[k].vm = v PROVE FALSE
        OBVIOUS
      <3>1. PICK j \in 1..(i - 1) : acc.moves[k].vm = c[j]
        BY <1>2
      <3>2. j \in 1..Len(c) /\ c[j] = c[i] /\ j # i
        BY <1>0, <1>1, <3>1 DEF v
      <3> QED BY <1>0, <3>2
    <2>8. \A k, j \in 1..Len(moves) : moves[k].vm = moves[j].vm => k = j
      <3>1. \A k \in 1..(l + 1) : IF k \in 1..l THEN moves[k].vm = acc.moves[k].vm /\ moves[k].vm # v
                                  ELSE k = l + 1 /\ moves[k].vm = v
        BY <2>2, <2>3, <2>5, <2>7
      <3> SUFFICES ASSUME NEW k \in 1..(l + 1), NEW j \in 1..(l + 1), moves[k].vm = moves[j].vm
                   PROVE  k = j
        BY <2>3
      <3>2. CASE k \in 1..l
        <4>1. j \in 1..l
          BY <3>1, <3>2
        <4> QED BY <1>2, <3>1, <3>2, <4>1
      <3>3. CASE k \notin 1..l
        BY <3>1, <3>3
      <3> QED BY <3>2, <3>3
    <2>9. /\ added.cap \in [DOMAIN cap -> CapType]
          /\ \A n \in DOMAIN cap :
               /\ added.cap[n].total = cap[n].total /\ added.cap[n].online = cap[n].online
               /\ added.cap[n].manual = cap[n].manual
               /\ added.cap[n].used = acc.cap[n].used + IF to = n THEN mem[v] ELSE 0
      <3>1. \A n \in DOMAIN cap : acc.cap[n] \in CapType
        BY <1>0, <1>1
      <3>2. added.cap = [n \in DOMAIN cap |->
                           IF n = to THEN [acc.cap[n] EXCEPT !.used = @ + mem[v]] ELSE acc.cap[n]]
        BY <1>0, <1>1, <1>4, <2>1
      <3>3. ASSUME NEW n \in DOMAIN cap
            PROVE  /\ added.cap[n] \in CapType /\ added.cap[n].total = acc.cap[n].total
                   /\ added.cap[n].online = acc.cap[n].online
                   /\ added.cap[n].manual = acc.cap[n].manual
                   /\ added.cap[n].used = acc.cap[n].used + IF to = n THEN mem[v] ELSE 0
        <4>1. added.cap[n] = IF n = to THEN [acc.cap[n] EXCEPT !.used = @ + mem[v]] ELSE acc.cap[n]
          BY <3>2
        <4>2. acc.cap[n] \in CapType /\ mem[v] \in Nat
          BY <1>0, <1>1, <3>1
        <4>3. CASE n # to
          BY <4>1, <4>2, <4>3, <1>1, <3>1 DEF CapType
        <4>4. CASE n = to
          <5> DEFINE q == acc.cap[n]
          <5>1. /\ q \in CapType /\ q.used \in Nat /\ added.cap[n] = [q EXCEPT !.used = @ + mem[v]]
            BY <4>1, <4>2, <4>4 DEF CapType
          <5> HIDE DEF q
          <5>2. /\ added.cap[n] \in CapType /\ added.cap[n].total = q.total
                /\ added.cap[n].online = q.online /\ added.cap[n].manual = q.manual
                /\ added.cap[n].used = q.used + mem[v]
            BY <4>2, <5>1, MoreUsed
          <5> QED BY <4>4, <5>2 DEF q
        <4> QED BY <4>3, <4>4
      <3>4. DOMAIN added.cap = DOMAIN cap
        BY <3>2
      <3> QED BY <1>2, <3>2, <3>3, <3>4
    <2>10. \A n \in DOMAIN cap : added.cap[n].used = cap[n].used + Given(moves, mem, n)
      <3> SUFFICES ASSUME NEW n \in DOMAIN cap
                   PROVE  added.cap[n].used = cap[n].used + Given(moves, mem, n)
        OBVIOUS
      <3>1. cap[n].used \in Nat /\ mem[v] \in Nat /\ g(n) \in Nat
        BY <1>0, <1>1, <2>4 DEF CapType
      <3>2. added.cap[n].used = (cap[n].used + g(n)) + IF to = n THEN mem[v] ELSE 0
        BY <1>2, <2>9 DEF g
      <3>3. Given(moves, mem, n) = g(n) + IF to = n THEN mem[v] ELSE 0
        BY <2>4
      <3> QED BY <3>1, <3>2, <3>3
    <2>11. Given(moves, mem, to) <= Free(cap[to])
      <3>1. /\ cap[to] \in CapType /\ mem[v] \in Nat /\ g(to) \in Nat
            /\ acc.cap[to].used = cap[to].used + g(to) /\ acc.cap[to].total = cap[to].total
        BY <1>0, <1>1, <1>2, <1>4, <2>4 DEF g
      <3>2. cap[to].used \in Nat /\ cap[to].total \in Nat
        BY <3>1 DEF CapType
      <3>3. Given(moves, mem, to) = g(to) + mem[v]
        BY <2>4
      <3> QED BY <1>7, <3>1, <3>2, <3>3 DEF Free
    <2>12. \A k \in 1..Len(moves) : Given(moves, mem, moves[k].to) <= Free(cap[moves[k].to])
      <3> SUFFICES ASSUME NEW k \in 1..Len(moves), moves[k].to # to
                   PROVE  Given(moves, mem, moves[k].to) <= Free(cap[moves[k].to])
        BY <2>11
      <3>1. k \in 1..l /\ moves[k] = acc.moves[k]
        BY <2>2, <2>3, <2>5
      <3>2. g(moves[k].to) <= Free(cap[moves[k].to])
        BY <1>2, <3>1 DEF g
      <3>3. Given(moves, mem, moves[k].to) = g(moves[k].to)
        <4>1. /\ g(moves[k].to) \in Nat
              /\ Given(moves, mem, moves[k].to)
                   = g(moves[k].to) + IF to = moves[k].to THEN mem[v] ELSE 0
          BY <2>4
        <4> QED BY <4>1
      <3> QED BY <3>2, <3>3
    <2> QED BY <2>1, <2>3, <2>6, <2>8, <2>9, <2>10, <2>12 DEF Fits, moves
  <1>8. \/ Advise(acc, v, hot, mem, cap) = stopped
        \/ /\ ~ (Free(acc.cap[to]) < mem[v])
           /\ Advise(acc, v, hot, mem, cap) = added
    <2> DEFINE stop == \/ acc.stop \/ Len(acc.moves) >= MaxSuggestions
                       \/ ~Above(cap, Util(acc.left, cap[hot].total))
                       \/ Free(acc.cap[to]) < mem[v]
    <2>1. Advise(acc, v, hot, mem, cap) = IF stop THEN stopped ELSE added
      BY DEF Advise
    <2>2. Free(acc.cap[to]) < mem[v] => stop
      OBVIOUS
    <2> HIDE DEF stop, stopped, added
    <2> QED BY <2>1, <2>2
  <1> HIDE DEF stopped, added, to
  <1> QED BY <1>6, <1>7, <1>8

\* Compute's moves.
LEMMA ComputeFits ==
  ASSUME NEW cap, cap \in [DOMAIN cap -> CapType], IsFiniteSet(DOMAIN cap),
         NEW mem, IsFiniteSet(DOMAIN mem), \A v \in DOMAIN mem : mem[v] \in Nat, NEW at
  PROVE  \E hot : LET moves == Compute(cap, mem, at) IN
           /\ moves \in Seq([vm : DOMAIN mem, to : Cold(cap, hot)])
           /\ \A k, l \in 1..Len(moves) : moves[k].vm = moves[l].vm => k = l
           /\ \A k \in 1..Len(moves) : Given(moves, mem, moves[k].to) <= Free(cap[moves[k].to])
  <1> DEFINE hot == Hottest(cap)
             c   == Candidates(hot, mem, at)
             a   == Advice(c, hot, mem, cap)
             Good(moves) ==
               /\ moves \in Seq([vm : DOMAIN mem, to : Cold(cap, hot)])
               /\ \A k, l \in 1..Len(moves) : moves[k].vm = moves[l].vm => k = l
               /\ \A k \in 1..Len(moves) :
                    Given(moves, mem, moves[k].to) <= Free(cap[moves[k].to])
  <1>1. Good(<<>>)
    OBVIOUS
  <1>2. ASSUME Cold(cap, hot) # {}
        PROVE  Good(a[Len(c)].moves)
    <2> HIDE DEF hot
    <2>1. /\ c \in Seq(DOMAIN mem)
          /\ \A i, j \in 1..Len(c) : c[i] = c[j] => i = j
      BY CandidatesAre
    <2> HIDE DEF c
    <2>9. Offer(c, hot, mem, cap)
      BY <1>2, <2>1 DEF Offer
    <2>2. Advised(a, c, hot, mem, cap) /\ Len(c) \in Nat
      BY <2>1, AdviceIs
    <2> HIDE DEF a
    <2> DEFINE K == {i \in 0..Len(c) : Fits(a[i], i, c, hot, mem, cap)}
    <2>3. 0 \in K
      <3>1. 0 \in 0..Len(c)
        BY <2>2
      <3>2. a[0] = [moves |-> <<>>, left |-> cap[hot].used, cap |-> cap, stop |-> FALSE]
        BY <2>2, <3>1 DEF Advised
      <3>3. /\ DOMAIN a[0] = {"moves", "left", "cap", "stop"}
            /\ a[0].moves = <<>> /\ a[0].cap = cap
        BY <3>2
      <3>4. \A n : Given(<<>>, mem, n) = 0
        <4>1. \A n : MovesTo(<<>>, n) = {}
          BY DEF MovesTo
        <4> QED BY <4>1, SumEmpty DEF Given
      <3>5. \A n \in DOMAIN cap : cap[n].used = cap[n].used + 0
        BY DEF CapType
      <3>6. Fits(a[0], 0, c, hot, mem, cap)
        BY <3>3, <3>4, <3>5 DEF Fits
      <3> QED BY <3>1, <3>6
    <2>4. ASSUME NEW i \in 1..Len(c), i - 1 \in K
          PROVE  i \in K
      <3>1. i \in 0..Len(c) /\ i # 0
        BY <2>2
      <3>2. a[i] = Advise(a[i - 1], c[i], hot, mem, cap)
        BY <2>2, <3>1 DEF Advised
      <3>3. Fits(a[i - 1], i - 1, c, hot, mem, cap)
        BY <2>4
      <3>4. Fits(a[i], i, c, hot, mem, cap)
        BY <2>9, <3>2, <3>3, AdviseFits
      <3> QED BY <3>1, <3>4
    <2>5. \A i \in 0..Len(c) : i \in K
      <3> HIDE DEF K
      <3> QED BY <2>2, <2>3, <2>4, UpTo
    <2>6. Len(c) \in 0..Len(c)
      BY <2>2
    <2>7. Fits(a[Len(c)], Len(c), c, hot, mem, cap)
      BY <2>5, <2>6
    <2> QED BY <2>7 DEF Fits
  <1>3. Good(Compute(cap, mem, at))
    <2>1. \/ Compute(cap, mem, at) = <<>>
          \/ Cold(cap, hot) # {} /\ Compute(cap, mem, at) = a[Len(c)].moves
      BY DEF Compute
    <2> HIDE DEF Good, hot, c, a
    <2> QED BY <1>1, <1>2, <2>1
  <1> HIDE DEF hot
  <1> QED BY <1>3

\* The scheduler's figures are those of nodes, whatever the members have become since.
CacheInv ==
  /\ DOMAIN cache \subseteq Nodes
  /\ \A n \in DOMAIN cache :
       cache[n].total \in Nat /\ cache[n].used \in Nat /\ cache[n].online \in BOOLEAN

\* What Refresh reads is memory.
LEMMA CacheInvStep ==
  ASSUME IInv, CacheInv, [AdviceNext]_<<vars, cache>>
  PROVE  CacheInv'
  <1>1. CASE Refresh
    <2>1. PICK answers \in SUBSET {n \in Joined : member[n] # "Offline"} :
            cache' = [n \in Joined |->
                        [total  |-> IF n \in answers THEN Total[n] ELSE 0,
                         used   |-> IF n \in answers
                                    THEN Base[n] + SumFunctionOnSet(Mem, On(n)) ELSE 0,
                         online |-> Runs(n)]]
      BY <1>1 DEF Refresh, Figures
    <2>2. DOMAIN cache' = Joined /\ Joined \subseteq Nodes
      BY <2>1 DEF Joined
    <2>3. ASSUME NEW n \in Joined
          PROVE  /\ cache'[n].total \in Nat /\ cache'[n].used \in Nat
                 /\ cache'[n].online \in BOOLEAN
      <3> DEFINE u == Base[n] + SumFunctionOnSet(Mem, On(n))
      <3>1. Total[n] \in Nat /\ u \in Nat
        <4>1. /\ Mem \in [VMs -> Nat \ {0}] /\ Total[n] \in Nat \ {0} /\ Base[n] \in Nat
              /\ IsFiniteSet(VMs)
          BY <2>2, ClusterNodesAssumption
        <4>2. IsFiniteSet(On(n)) /\ \A v \in On(n) : Mem[v] \in Nat
          BY <4>1, FS_Subset DEF On
        <4>3. SumFunctionOnSet(Mem, On(n)) \in Nat
          BY <4>2, SumType
        <4> QED BY <4>1, <4>3
      <3>2. Runs(n) \in BOOLEAN
        BY DEF Runs
      <3>3. /\ cache'[n].total = IF n \in answers THEN Total[n] ELSE 0
            /\ cache'[n].used = IF n \in answers THEN u ELSE 0
            /\ cache'[n].online = Runs(n)
        BY <2>1
      <3> HIDE DEF u
      <3>4. cache'[n].total \in Nat /\ cache'[n].used \in Nat
        BY <3>1, <3>3
      <3>5. cache'[n].online \in BOOLEAN
        BY <3>2, <3>3
      <3> QED BY <3>4, <3>5
    <2> QED BY <2>2, <2>3 DEF CacheInv
  <1>2. CASE UNCHANGED cache
    BY <1>2 DEF CacheInv
  <1> QED BY <1>1, <1>2 DEF AdviceNext

\* The figures Compute is given are well formed, whether the members' flags were read or not.
LEMMA CapacityIs ==
  ASSUME IInv, CacheInv, NEW read \in BOOLEAN
  PROVE  /\ Capacity(read) \in [DOMAIN Capacity(read) -> CapType]
         /\ IsFiniteSet(DOMAIN Capacity(read))
         /\ \A n \in DOMAIN Capacity(read) :
              /\ Capacity(read)[n].online = ((read /\ Runs(n)) \/ cache[n].online)
              /\ Capacity(read)[n].manual = (read /\ n \in manual)
  <1> DEFINE cap == Capacity(read)
  <1>1. /\ DOMAIN cap = DOMAIN cache /\ cap = [n \in DOMAIN cache |-> cap[n]]
        /\ \A n \in DOMAIN cache :
             cap[n] = [total  |-> cache[n].total, used |-> cache[n].used,
                       online |-> (read /\ Runs(n)) \/ cache[n].online,
                       manual |-> read /\ n \in manual]
    BY DEF Capacity
  <1> HIDE DEF cap
  <1>2. ASSUME NEW n \in DOMAIN cache
        PROVE  /\ cap[n] \in CapType
               /\ cap[n].online = ((read /\ Runs(n)) \/ cache[n].online)
               /\ cap[n].manual = (read /\ n \in manual)
    <2> DEFINE o == (read /\ Runs(n)) \/ cache[n].online
               m == read /\ n \in manual
    <2>1. o \in BOOLEAN /\ m \in BOOLEAN
      OBVIOUS
    <2>2. cache[n].total \in Nat /\ cache[n].used \in Nat
      BY DEF CacheInv
    <2>3. cap[n] = [total |-> cache[n].total, used |-> cache[n].used, online |-> o, manual |-> m]
      BY <1>1
    <2> HIDE DEF o, m
    <2>4. cap[n] \in CapType
      BY <2>1, <2>2, <2>3 DEF CapType
    <2>5. cap[n].online = o /\ cap[n].manual = m
      BY <2>3
    <2> QED BY <2>4, <2>5 DEF o, m
  <1>3. IsFiniteSet(DOMAIN cache)
    BY ClusterNodesAssumption, FS_Subset DEF CacheInv
  <1> QED BY <1>1, <1>2, <1>3 DEF cap

\* Followed together, the migrations that are advised fit the figures they are planned with:
\* PlansFit, for every number of nodes and VMs, of whatever sizes, rows that say anything of
\* where VMs are, and figures however old.
THEOREM AdviceFits == AdviceSpec => []PlansFit
  <1>1. IInv /\ CacheInv => PlansFit
    <2> SUFFICES ASSUME IInv, CacheInv, NEW read \in BOOLEAN
                 PROVE  LET moves == Plan(read)
                            To(n) == {i \in DOMAIN moves : moves[i].to = n} IN
                        /\ \A i, j \in DOMAIN moves : moves[i].vm = moves[j].vm => i = j
                        /\ \A n \in Receivers(moves) :
                             /\ cache[n].online \/ (read /\ Runs(n))
                             /\ read => n \notin manual
                             /\ SumFunctionOnSet([i \in DOMAIN moves |-> Mem[moves[i].vm]], To(n))
                                  <= Free(Capacity(read)[n])
      BY DEF PlansFit
    <2> DEFINE cap == Capacity(read)
               moves == Plan(read)
    <2>1. Mem \in [VMs -> Nat \ {0}] /\ IsFiniteSet(VMs)
      BY ClusterNodesAssumption
    <2>2. IsFiniteSet(DOMAIN Mem) /\ \A v \in DOMAIN Mem : Mem[v] \in Nat
      BY <2>1
    <2>3. /\ cap \in [DOMAIN cap -> CapType] /\ IsFiniteSet(DOMAIN cap)
          /\ \A n \in DOMAIN cap :
               /\ cap[n].online = ((read /\ Runs(n)) \/ cache[n].online)
               /\ cap[n].manual = (read /\ n \in manual)
      BY CapacityIs
    <2>4. moves = Compute(cap, Mem, node)
      BY DEF Plan
    <2> HIDE DEF cap, moves
    <2>5. PICK hot :
            /\ moves \in Seq([vm : DOMAIN Mem, to : Cold(cap, hot)])
            /\ \A k, l \in 1..Len(moves) : moves[k].vm = moves[l].vm => k = l
            /\ \A k \in 1..Len(moves) : Given(moves, Mem, moves[k].to) <= Free(cap[moves[k].to])
      BY <2>2, <2>3, <2>4, ComputeFits
    <2>6. DOMAIN moves = 1..Len(moves)
      BY <2>5, LenProperties
    <2>7. ASSUME NEW i \in DOMAIN moves
          PROVE  /\ cache[moves[i].to].online \/ (read /\ Runs(moves[i].to))
                 /\ read => moves[i].to \notin manual
      <3>1. moves[i] \in [vm : DOMAIN Mem, to : Cold(cap, hot)]
        BY <2>5, <2>6, ElementOfSeq
      <3>2. moves[i].to \in Cold(cap, hot)
        BY <3>1
      <3> QED BY <2>3, <3>2 DEF Cold, Sized
    <2> DEFINE To(n) == {i \in DOMAIN moves : moves[i].to = n}
    <2>8. ASSUME NEW n \in Receivers(moves)
          PROVE  /\ cache[n].online \/ (read /\ Runs(n))
                 /\ read => n \notin manual
                 /\ SumFunctionOnSet([i \in DOMAIN moves |-> Mem[moves[i].vm]], To(n))
                      <= Free(cap[n])
      <3>1. PICK i \in DOMAIN moves : moves[i].to = n
        BY DEF Receivers
      <3>2. Given(moves, Mem, n) <= Free(cap[n])
        BY <2>5, <2>6, <3>1
      <3> QED BY <2>7, <3>1, <3>2 DEF Given, Sizes, MovesTo
    <2> QED BY <2>5, <2>6, <2>8 DEF moves, cap
  <1>2. AdviceSpec => Spec
    <2>1. [AdviceNext]_<<vars, cache>> => [Next]_vars
      BY DEF AdviceNext, Refresh
    <2> QED BY <2>1, PTL DEF AdviceSpec, Spec
  <1>3. CacheInit => CacheInv
    BY DEF CacheInit, CacheInv
  <1>4. IInv /\ CacheInv /\ [AdviceNext]_<<vars, cache>> => CacheInv'
    BY CacheInvStep
  <1> QED BY <1>1, <1>2, <1>3, <1>4, NodesInv, PTL DEF AdviceSpec
=============================================================================
