---------------------------- MODULE ClusterNodes ----------------------------
(***************************************************************************)
(* The nodes of an Incus cluster and what the portal does with them:       *)
(* evacuation, drills, maintenance, adding and removing nodes and batches  *)
(* of migrations, while the event listener follows members and VMs and     *)
(* keeps the healing events, which the handlers of the portal write too.   *)
(*                                                                         *)
(* Each statement and each Incus call is a step. Incus tells members and   *)
(* moves over one stream in order; while the stream is down nobody tells.  *)
(***************************************************************************)
EXTENDS Integers, Sequences, FiniteSets, SequencesExt

CONSTANTS
  Nodes,      \* nodes that are members or may become one
  VMs,        \* instances and their rows
  Requests,   \* calls of an administrator, with the jobs they start
  Mem,        \* the memory of a VM
  Total,      \* the memory of a node
  Base,       \* what a node uses without VMs
  MinNodes,   \* MIN_CLUSTER_NODES
  PerSource,  \* ConcurrencyPerSrc of a batch
  GlobalCap,  \* GlobalConcurrency of a batch
  Budget,     \* bound on requests and failures together
  Together,   \* the kinds of requests that meet in the instance checked
  MaxEvents,  \* bound on events under way
  None        \* no node, no VM, nobody

ASSUME ClusterNodesAssumption ==
  /\ Mem \in [VMs -> Nat \ {0}] /\ Total \in [Nodes -> Nat \ {0}] /\ Base \in [Nodes -> Nat]
  /\ MinNodes \in Nat /\ PerSource \in Nat \ {0} /\ GlobalCap \in Nat \ {0}
  /\ Budget \in Nat /\ MaxEvents \in Nat \ {0}
  /\ IsFiniteSet(Nodes) /\ IsFiniteSet(VMs) /\ IsFiniteSet(Requests)
  /\ None \notin Nodes \cup VMs \cup Requests

VARIABLES
  member,    \* the status of a node in Incus
  manual,    \* nodes with scheduler.instance = manual
  place,     \* where an instance is
  op,        \* the evacuation or restoration Incus is at, and for whom
  link,      \* whether the listener hears Incus
  events,    \* events on their way to the listener
  ear,       \* where the listener is in the handling of one
  node,      \* vms.node
  healing,   \* the rows of healing_events, in the order of started_at
  req,       \* where each request, or the worker of its job, is
  batch,     \* the items of the batch of migrations
  lost,      \* VMs with a move the listener was not told or could not write
  faults     \* failures so far

incus   == <<member, place, op>>
stream  == <<link, events, lost>>
vars == <<incus, manual, stream, ear, node, healing, req, batch, faults>>

-----------------------------------------------------------------------------
(* State                                                                   *)

HealingStatus == {"in_progress", "completed", "failed", "partial"}
JobStatus     == {"none", "queued", "running", "succeeded", "failed", "partial"}
JobKinds      == {"add", "remove", "batch"}
Kinds         == {"evacuate", "chaos", "restore", "maintenance"} \cup JobKinds
NoOp          == [do |-> "none", by |-> None]
Rows          == [node : Nodes, trigger : {"auto", "manual", "chaos"}, status : HealingStatus,
                  moved : SUBSET (VMs \X Nodes), old : BOOLEAN]

Points        == {"idle", "create", "post", "wait", "sleep", "refused", "failed", "complete",
                  "queued", "token", "upload", "script", "joined", "await", "evacuating",
                  "leave", "run", "undo", "finish", "done"}

TypeOK ==
  /\ member \in [Nodes -> {"absent", "Online", "Offline", "Evacuated"}]
  /\ manual \subseteq Nodes
  /\ place \in [VMs -> Nodes] /\ node \in [VMs -> Nodes]
  /\ op \in [Nodes -> [do : {"none", "evacuate", "restore"}, by : Requests \cup {None}]]
  /\ link \in {"up", "down"}
  /\ Len(events) <= MaxEvents
  /\ ear.pc \in {"idle", "create", "update", "track", "append"}
  /\ healing \in Seq(Rows)
  /\ \A r \in Requests :
       /\ req[r].kind \in Kinds \cup {"none"} /\ req[r].node \in Nodes \cup {None}
       /\ req[r].id \in 0..Len(healing) /\ req[r].status \in JobStatus
       /\ req[r].pc \in Points
  /\ batch \in [VMs -> [st : {"off", "global", "source", "moving", "ok", "failed"},
                        src : Nodes \cup {None}, to : Nodes \cup {None}]]
  /\ lost \subseteq VMs /\ faults \in 0..Budget

NewRequest == [kind |-> "none", node |-> None, pc |-> "idle", id |-> 0, res |-> "none",
               back |-> FALSE, dead |-> FALSE, status |-> "none", old |-> FALSE,
               ok |-> FALSE, params |-> FALSE, swept |-> FALSE]

\* Members that run, one of them perhaps in maintenance, and perhaps a node to be added.
Init ==
  /\ member \in [Nodes -> {"absent", "Online"}]
  /\ manual \in SUBSET Nodes /\ \A n \in manual : member[n] = "Online"
  /\ place \in [VMs -> Nodes] /\ node = place
  /\ \A v \in VMs : member[place[v]] = "Online"
  /\ op = [n \in Nodes |-> NoOp]
  /\ link = "up" /\ events = <<>> /\ ear = [pc |-> "idle"]
  /\ healing = <<>> /\ lost = {} /\ faults = 0
  /\ req = [r \in Requests |-> NewRequest]
  /\ batch = [v \in VMs |-> [st |-> "off", src |-> None, to |-> None]]

Asked   == {r \in Requests : req[r].kind # "none"}
Room    == Cardinality(Asked) + faults < Budget
May(kind) == Room /\ \A q \in Asked : <<kind, req[q].kind>> \in Together
Fault   == Room /\ faults' = faults + 1
NoFault == UNCHANGED faults

\* The request's record changes in the fields of f.
Updated(q, f) == [k \in DOMAIN q |-> IF k \in DOMAIN f THEN f[k] ELSE q[k]]
Set(r, f)     == req' = [req EXCEPT ![r] = Updated(@, f)]
\* What a request at its end need not remember.
Over(pc) == IF pc = "done" THEN [pc |-> pc, node |-> None, res |-> "none", back |-> FALSE,
                                 dead |-> FALSE]
            ELSE [pc |-> pc]
At(r, k, pc) == req[r].kind \in k /\ req[r].pc = pc

-----------------------------------------------------------------------------
(* The event stream                                                        *)

\* Incus tells the listener, or nobody when the stream is down.
Tell(e) ==
  IF link = "up" THEN /\ Len(events) < MaxEvents
                      /\ events' = Append(events, e) /\ UNCHANGED <<link, lost>>
  ELSE /\ lost' = IF e.vm = None THEN lost ELSE lost \cup {e.vm}
       /\ UNCHANGED <<link, events>>

MemberEvent(n, status) == [vm |-> None, node |-> n, what |-> status, here |-> FALSE]
Status(n) == CASE member[n] = "Online" -> "online" [] member[n] = "Offline" -> "offline"
               [] OTHER -> "evacuated"
\* instance-updated; here: it comes from the server the VM has moved to.
MoveEvent(v, to, here) == [vm |-> v, node |-> to, what |-> "moved", here |-> here]

TellMove(v, to) ==
  \/ Tell(MoveEvent(v, to, FALSE)) /\ UNCHANGED faults
  \/ Tell(MoveEvent(v, to, TRUE)) /\ Fault

Disconnect ==
  /\ Fault /\ link = "up" /\ link' = "down" /\ events' = <<>>
  /\ lost' = (lost \cup {events[i].vm : i \in DOMAIN events}) \ {None}
  /\ UNCHANGED <<incus, manual, ear, node, healing, req, batch>>

\* The reconciliation that follows looks at the instances' names only.
Reconnect ==
  /\ link = "down" /\ link' = "up"
  /\ UNCHANGED <<incus, manual, events, lost, ear, node, healing, req, batch, faults>>

-----------------------------------------------------------------------------
(* healing_events                                                          *)

Open(i)         == healing[i].status = "in_progress"
OpenOf(n)       == {i \in DOMAIN healing : Open(i) /\ healing[i].node = n}
NewRow(n, t)    == [node |-> n, trigger |-> t, status |-> "in_progress", moved |-> {},
                    old |-> FALSE]
Settle(S, status) ==
  healing' = [i \in DOMAIN healing |->
                IF i \in S THEN [healing[i] EXCEPT !.status = status, !.old = FALSE]
                ELSE healing[i]]

\* FindInProgressByNode with trigger auto, and with any: the newest row, 0 for none.
Anyway(n)     == TRUE
NoAuto(n)     == \A i \in OpenOf(n) : healing[i].trigger # "auto"
Tracked(n)    == IF OpenOf(n) = {} THEN 0 ELSE Max(OpenOf(n))

\* The rows CompleteByNode closes, and those ExpireStale does.
Automatic(n)  == {i \in OpenOf(n) : healing[i].trigger = "auto"}
StaleAuto     == {i \in DOMAIN healing : Open(i) /\ healing[i].old /\ healing[i].trigger = "auto"}
Stale         == {i \in DOMAIN healing : Open(i) /\ healing[i].old}

\* A quarter of an hour: no context of a handler lasts that long, a drill's is at most 15
\* minutes.
Age(i) ==
  /\ i \in DOMAIN healing /\ Open(i) /\ ~healing[i].old
  /\ \A r \in Requests : req[r].id = i => req[r].pc = "done" \/ req[r].dead
  /\ healing' = [healing EXCEPT ![i].old = TRUE]
  /\ UNCHANGED <<incus, manual, stream, ear, node, req, batch, faults>>

ExpireOdd ==
  /\ Stale # {} /\ Settle(Stale, "expired")
  /\ UNCHANGED <<incus, manual, stream, ear, node, req, batch, faults>>

ExpireStale ==
  /\ Stale # {} /\ Settle(Stale, "partial")
  /\ UNCHANGED <<incus, manual, stream, ear, node, req, batch, faults>>

-----------------------------------------------------------------------------
(* The listener: one event at a time, one statement at a step              *)

Hears(what) == ear.pc = "idle" /\ events # <<>> /\ Head(events).what \in what
Consume     == events' = Tail(events) /\ UNCHANGED link
ListenerOnly == UNCHANGED <<incus, manual, req, batch>>

MemberDown ==
  /\ Hears({"offline", "evacuated"}) /\ Consume
  /\ ear' = IF NoAuto(Head(events).node) THEN [pc |-> "create", node |-> Head(events).node]
            ELSE ear
  /\ ListenerOnly /\ UNCHANGED <<node, healing, lost, faults>>

CreateAuto ==
  /\ ear.pc = "create"
  /\ healing' = Append(healing, NewRow(ear.node, "auto")) /\ ear' = [pc |-> "idle"]
  /\ ListenerOnly /\ UNCHANGED <<node, stream, faults>>

MemberUp ==
  /\ Hears({"online"}) /\ Consume
  /\ Settle(Automatic(Head(events).node), "completed")
  /\ ListenerOnly /\ UNCHANGED <<ear, node, lost, faults>>

\* handleLifecycle passes over a move told by the server the VM is on.
InstanceUpdated ==
  /\ Hears({"moved"}) /\ Consume
  /\ LET e == Head(events) IN
     IF e.here THEN lost' = lost \cup {e.vm} /\ UNCHANGED ear
     ELSE /\ ear' = [pc |-> "update", vm |-> e.vm, from |-> node[e.vm], to |-> e.node]
          /\ UNCHANGED lost
  /\ ListenerOnly /\ UNCHANGED <<node, healing, faults>>

UpdateTracked ==
  /\ ear.pc = "update"
  /\ node' = IF OpenOf(ear.from) # {} THEN [node EXCEPT ![ear.vm] = ear.to] ELSE node
  /\ ear' = IF ear.from # ear.to THEN [ear EXCEPT !.pc = "track"] ELSE [pc |-> "idle"]
  /\ ListenerOnly /\ UNCHANGED <<healing, stream, faults>>

UpdateNodeByName ==
  /\ ear.pc = "update" /\ node' = [node EXCEPT ![ear.vm] = ear.to]
  /\ ear' = IF ear.from # ear.to THEN [ear EXCEPT !.pc = "track"] ELSE [pc |-> "idle"]
  /\ ListenerOnly /\ UNCHANGED <<healing, stream, faults>>

TrackMovement ==
  /\ ear.pc = "track"
  /\ ear' = IF Tracked(ear.from) = 0 THEN [pc |-> "idle"]
            ELSE [pc |-> "append", vm |-> ear.vm, to |-> ear.to, id |-> Tracked(ear.from)]
  /\ ListenerOnly /\ UNCHANGED <<node, healing, stream, faults>>

\* AppendEvacuatedVM writes to a row that is still open.
Unfinished(i) == Open(i)
AppendEvacuatedVM ==
  /\ ear.pc = "append" /\ ear' = [pc |-> "idle"]
  /\ healing' = IF Unfinished(ear.id)
                THEN [healing EXCEPT ![ear.id].moved = @ \cup {<<ear.vm, ear.to>>}]
                ELSE healing
  /\ ListenerOnly /\ UNCHANGED <<node, stream, faults>>

\* A statement fails: the event is done with, and the next one is as good as any.
StatementFails ==
  /\ Fault
  /\ \/ ear.pc # "idle" /\ ear' = [pc |-> "idle"] /\ UNCHANGED events
        /\ lost' = IF ear.pc = "update" THEN lost \cup {ear.vm} ELSE lost
     \/ Hears({"offline", "evacuated", "online"}) /\ events' = Tail(events)
        /\ UNCHANGED <<ear, lost>>
     \/ Hears({"moved"}) /\ ~Head(events).here /\ events' = Tail(events)   \* LookupForEvent
        /\ ear' = [pc |-> "update", vm |-> Head(events).vm, from |-> Head(events).node,
                   to |-> Head(events).node]
        /\ UNCHANGED lost
  /\ ListenerOnly /\ UNCHANGED <<link, node, healing>>

ListenerStep ==
  \/ MemberDown \/ CreateAuto \/ MemberUp
  \/ InstanceUpdated \/ UpdateNodeByName \/ TrackMovement \/ AppendEvacuatedVM

-----------------------------------------------------------------------------
(* Incus                                                                   *)

Runs(n)   == member[n] = "Online"
On(n)     == {v \in VMs : place[v] = n}
IncusOnly == UNCHANGED <<manual, ear, node, healing, batch>>

Accepts(n, do) ==
  /\ op[n] = NoOp
  /\ member[n] = IF do = "evacuate" THEN "Online" ELSE "Evacuated"

\* An evacuation takes VMs away, a restoration brings some back.
Relocate(v, to) ==
  /\ to # place[v]
  /\ \/ op[place[v]].do = "evacuate" /\ Runs(to) /\ op[to] = NoOp
     \/ op[to].do = "restore" /\ Runs(place[v]) /\ op[place[v]] = NoOp
  /\ place' = [place EXCEPT ![v] = to]
  /\ TellMove(v, to)
  /\ IncusOnly /\ UNCHANGED <<member, op, req>>

Answer(n, res) ==
  LET r == op[n].by IN
  req' = IF req[r].pc \in {"wait", "evacuating"} THEN [req EXCEPT ![r].res = res] ELSE req

OperationEnds(n) ==
  /\ \/ op[n].do = "evacuate" /\ On(n) = {}
        /\ member' = [member EXCEPT ![n] = "Evacuated"] /\ Tell(MemberEvent(n, "evacuated"))
     \/ op[n].do = "restore"
        /\ member' = [member EXCEPT ![n] = "Online"] /\ Tell(MemberEvent(n, "online"))
  /\ op' = [op EXCEPT ![n] = NoOp] /\ Answer(n, "success")
  /\ IncusOnly /\ UNCHANGED <<place, faults>>

OperationFails(n) ==
  /\ Fault /\ op[n] # NoOp /\ op' = [op EXCEPT ![n] = NoOp] /\ Answer(n, "failure")
  /\ IncusOnly /\ UNCHANGED <<member, place, stream>>

NodeFails(n) ==
  /\ Fault /\ Runs(n) /\ op[n] = NoOp /\ member' = [member EXCEPT ![n] = "Offline"]
  /\ Tell(MemberEvent(n, "offline"))
  /\ IncusOnly /\ UNCHANGED <<place, op, req>>

NodeReturns(n) ==
  /\ member[n] = "Offline" /\ member' = [member EXCEPT ![n] = "Online"]
  /\ Tell(MemberEvent(n, "online"))
  /\ IncusOnly /\ UNCHANGED <<place, op, req, faults>>

IncusStep ==
  \/ \E v \in VMs, to \in Nodes : Relocate(v, to)
  \/ \E n \in Nodes : OperationEnds(n) \/ OperationFails(n) \/ NodeFails(n) \/ NodeReturns(n)

-----------------------------------------------------------------------------
(* EvacuateNode, RestoreNode and the drill (runChaosCycle)                 *)

HandlerOnly == UNCHANGED <<member, place, manual, stream, ear, node, batch>>
Drills(r)   == req[r].kind = "chaos"

\* The context of a handler ends after a minute, that of a drill five minutes after its
\* duration, that of a job after half an hour: no call it makes after that succeeds.
Dies(r) ==
  /\ ~req[r].dead /\ Set(r, [dead |-> TRUE])
  /\ HandlerOnly /\ UNCHANGED <<op, healing>>

WaitTooLong(r) == req[r].pc = "wait" /\ req[r].res = "none" /\ Dies(r) /\ NoFault
ContextEnds(r) == req[r].pc \notin {"idle", "queued", "wait", "done", "await"} /\ Dies(r) /\ Fault

Ask(r, kind, n) ==
  /\ At(r, {"none"}, "idle") /\ May(kind)
  /\ Set(r, [kind |-> kind, node |-> n,
             pc |-> CASE kind \in {"evacuate", "chaos"} -> "create" [] OTHER -> "post"])
  /\ HandlerOnly /\ UNCHANGED <<op, healing, faults>>

\* Without a row the handler goes on all the same.
CreateRow(r) ==
  /\ req[r].pc = "create"
  /\ \/ /\ ~req[r].dead /\ NoFault
        /\ healing' = Append(healing, NewRow(req[r].node,
                                             IF Drills(r) THEN "chaos" ELSE "manual"))
        /\ Set(r, [pc |-> "post", id |-> Len(healing) + 1])
     \/ /\ (Fault \/ (req[r].dead /\ NoFault)) /\ UNCHANGED healing /\ Set(r, [pc |-> "post"])
  /\ HandlerOnly /\ UNCHANGED op

Wanted(r) == IF req[r].kind = "restore" \/ req[r].back THEN "restore" ELSE "evacuate"

PostState(r) ==
  /\ req[r].pc = "post"
  /\ IF ~req[r].dead /\ Accepts(req[r].node, Wanted(r))
     THEN /\ op' = [op EXCEPT ![req[r].node] = [do |-> Wanted(r), by |-> r]]
          /\ Set(r, [pc |-> "wait", res |-> "none"])
     ELSE /\ Set(r, Over(IF req[r].kind = "restore" THEN "done" ELSE "refused"))
          /\ UNCHANGED op
  /\ HandlerOnly /\ UNCHANGED <<healing, faults>>

\* WaitForOperation: success, or a failure of the operation or of the context.
Succeeded(r) == req[r].res = "success"
Waited(r) ==
  /\ req[r].pc = "wait" /\ (req[r].res # "none" \/ req[r].dead)
  /\ Set(r, Over(CASE req[r].kind = "restore" -> "done"
                    [] req[r].kind # "restore" /\ ~Succeeded(r) -> "failed"
                    [] Drills(r) /\ ~req[r].back /\ Succeeded(r) -> "sleep"
                    [] OTHER -> "complete"))
  /\ HandlerOnly /\ UNCHANGED <<op, healing, faults>>

Sleep(r) ==
  /\ req[r].pc = "sleep"
  /\ Set(r, IF req[r].dead THEN [pc |-> "failed"] ELSE [pc |-> "post", back |-> TRUE])
  /\ HandlerOnly /\ UNCHANGED <<op, healing, faults>>

\* Fail and Complete write to an open row, and only the context keeps them from it.
Close(r, status) ==
  LET i == req[r].id IN
  IF i # 0 /\ ~req[r].dead /\ Open(i) THEN Settle({i}, status) ELSE UNCHANGED healing

\* EvacuateNode goes on to Complete when the wait has failed, the drill ends.
FailRow(r) ==
  /\ req[r].pc \in {"refused", "failed"}
  /\ \/ Close(r, "failed") /\ NoFault
     \/ Fault /\ UNCHANGED healing
  /\ Set(r, Over(IF req[r].pc = "failed" /\ ~Drills(r) THEN "complete" ELSE "done"))
  /\ HandlerOnly /\ UNCHANGED op

CompleteRow(r) ==
  /\ req[r].pc = "complete" /\ Close(r, "completed") /\ Set(r, Over("done"))
  /\ HandlerOnly /\ UNCHANGED <<op, faults>>

\* The update of a member that Incus tells has the status the member is in.
SetMaintenance(r, n) ==
  /\ At(r, {"none"}, "idle") /\ May("maintenance") /\ member[n] # "absent"
  /\ Tell(MemberEvent(n, Status(n)))
  /\ manual' = IF n \in manual THEN manual \ {n} ELSE manual \cup {n}
  /\ Set(r, [kind |-> "maintenance", pc |-> "done"])
  /\ UNCHANGED <<incus, ear, node, healing, batch, faults>>

HandlerStep(r) ==
  \/ CreateRow(r) \/ PostState(r) \/ WaitTooLong(r) \/ Waited(r) \/ Sleep(r)
  \/ FailRow(r) \/ CompleteRow(r)

-----------------------------------------------------------------------------
(* Jobs: cluster.node.add, cluster.node.remove and cluster.vm.migrate-batch *)

JobOnly   == UNCHANGED <<manual, ear, node, healing>>
WorkerOnly == JobOnly /\ UNCHANGED <<incus, stream>>

\* AddNode and RemoveNode: the job's row, and its parameters in the queue.
Submitted(kind, n) ==
  [kind |-> kind, node |-> n, pc |-> "queued", status |-> "queued", params |-> TRUE]

SubmitNodeJob(r, kind, n) ==
  /\ At(r, {"none"}, "idle") /\ May(kind) /\ Set(r, Submitted(kind, n))
  /\ WorkerOnly /\ UNCHANGED <<batch, faults>>

\* MigrateVMBatch: each VM once, with the source node the panel has shown or without.
SubmitBatch(r) ==
  /\ At(r, {"none"}, "idle") /\ May("batch") /\ \A q \in Requests : req[q].kind # "batch"
  /\ \E items \in SUBSET VMs \ {{}}, known \in BOOLEAN : \E to \in [items -> Nodes] :
       batch' = [v \in VMs |->
                  IF v \in items THEN [st |-> "global", to |-> to[v],
                                      src |-> IF known THEN node[v] ELSE None]
                  ELSE batch[v]]
  /\ Set(r, Submitted("batch", None))
  /\ WorkerOnly /\ UNCHANGED faults

\* MarkRunning, or the job has been swept.
TakeJob(r) ==
  /\ req[r].pc = "queued"
  /\ IF req[r].status = "queued"
     THEN Set(r, [status |-> "running",
                 pc |-> CASE req[r].kind = "add" -> "token" [] req[r].kind = "remove" -> "upload"
                        [] OTHER -> "run"])
     ELSE Set(r, [pc |-> "done"])
  /\ WorkerOnly /\ UNCHANGED <<batch, faults>>

\* requestJoinToken: Incus has none for a name that is taken.
Token(r) ==
  /\ req[r].pc = "token"
  /\ \/ NoFault /\ Set(r, [pc |-> IF ~req[r].dead /\ member[req[r].node] = "absent" /\ req[r].params
                                THEN "upload" ELSE "undo"])
     \/ Fault /\ Set(r, [pc |-> "undo"])
  /\ WorkerOnly /\ UNCHANGED batch

UploadScripts(r) ==
  /\ req[r].pc = "upload"
  /\ \/ NoFault /\ Set(r, [pc |-> IF req[r].dead THEN "undo" ELSE "script"])
     \/ Fault /\ Set(r, [pc |-> "undo"])
  /\ WorkerOnly /\ UNCHANGED batch

\* join-node.sh makes the node a member in the fourth of its seven parts.
Join(r) ==
  /\ At(r, {"add"}, "script") /\ ~req[r].dead /\ member[req[r].node] = "absent"
  /\ member' = [member EXCEPT ![req[r].node] = "Online"] /\ Set(r, [pc |-> "joined"])
  /\ JobOnly /\ UNCHANGED <<place, op, stream, batch, faults>>

\* However the script ends, Run then waits for the goroutine that ranges over the ticker's
\* channel. Stop does not close a ticker's channel, so this wait has no end and "await" no
\* successor: neither the failure nor the success is written, and no step follows in Run.
AddScriptEnds(r) ==
  /\ \/ At(r, {"add"}, "joined") /\ ~req[r].dead /\ NoFault /\ Set(r, [pc |-> "await", ok |-> TRUE])
     \/ req[r].kind = "add" /\ req[r].pc \in {"script", "joined"}
        /\ \/ Fault
           \/ /\ \/ req[r].dead
                 \/ req[r].pc = "script" /\ member[req[r].node] # "absent"
              /\ NoFault
        /\ Set(r, [pc |-> "await"])
  /\ WorkerOnly /\ UNCHANGED batch

\* scale-node.sh --remove: it refuses to leave too few members, evacuates the node if it has
\* VMs, waits until it has none, and takes it out of the cluster.
Removable(n) ==
  member[n] # "absent" /\ Cardinality({k \in Nodes : member[k] # "absent"}) > MinNodes

RemoveEvacuates(r) ==
  /\ At(r, {"remove"}, "script") /\ ~req[r].dead
  /\ Removable(req[r].node) /\ On(req[r].node) # {} /\ Accepts(req[r].node, "evacuate")
  /\ op' = [op EXCEPT ![req[r].node] = [do |-> "evacuate", by |-> r]]
  /\ Set(r, [pc |-> "evacuating", res |-> "none"])
  /\ JobOnly /\ UNCHANGED <<member, place, stream, batch, faults>>

RemoveLeaves(r) ==
  LET n == req[r].node IN
  /\ req[r].kind = "remove" /\ ~req[r].dead
  /\ \/ req[r].pc = "script" /\ Removable(n)
     \/ req[r].pc = "evacuating" /\ req[r].res = "success" /\ member[n] # "absent"
  /\ On(n) = {} /\ op[n] = NoOp
  /\ member' = [member EXCEPT ![n] = "absent"] /\ manual' = manual \ {n}
  /\ Set(r, [pc |-> "leave"])
  /\ UNCHANGED <<ear, node, healing, place, op, stream, batch, faults>>

\* It fails on a fault, at the end of the context, or because of what it finds.
Refused(r) ==
  LET n == req[r].node IN
  \/ req[r].dead \/ req[r].res = "failure"
  \/ req[r].pc = "script" /\ (Removable(n) => On(n) # {} /\ ~Accepts(n, "evacuate"))
  \/ req[r].pc = "evacuating" /\ req[r].res = "success" /\ (On(n) # {} \/ member[n] = "absent")

RemoveScriptEnds(r) ==
  /\ req[r].kind = "remove"
  /\ \/ req[r].pc = "leave" /\ ~req[r].dead /\ NoFault /\ Set(r, [pc |-> "finish", ok |-> TRUE])
     \/ /\ req[r].pc \in {"script", "evacuating", "leave"}
        /\ Fault \/ (Refused(r) /\ NoFault)
        /\ Set(r, [pc |-> "undo"])
  /\ WorkerOnly /\ UNCHANGED batch

\* A batch: an item holds a global slot while it waits for its source's and migrates.
HoldingLong(v) == batch[v].st \in {"source", "moving", "failed"}
Holding(v)     == batch[v].st \in {"source", "moving"}
Item(v, st)    == batch' = [batch EXCEPT ![v].st = st]
Ended(v)       == batch[v].st \in {"off", "ok", "failed"}
ItemOnly       == JobOnly /\ UNCHANGED req

TakeGlobal(v) ==
  /\ batch[v].st = "global" /\ \E r \in Requests : At(r, {"batch"}, "run")
  /\ Cardinality({w \in VMs : Holding(w)}) < GlobalCap
  /\ Item(v, "source") /\ ItemOnly /\ UNCHANGED <<incus, stream, faults>>

WaitingToo(n)  == {w \in VMs : batch[w].st \in {"source", "moving"} /\ batch[w].src = n}
OfSource(n)    == {w \in VMs : batch[w].st = "moving" /\ batch[w].src = n}
HasRoom(n)     == n = None \/ Cardinality(OfSource(n)) < PerSource
TakeSource(v) ==
  /\ batch[v].st = "source" /\ HasRoom(batch[v].src)
  /\ Item(v, "moving") /\ ItemOnly /\ UNCHANGED <<incus, stream, faults>>

\* VMService.Migrate, with what Incus answers.
MigrateItem(v) ==
  LET n == place[v] to == batch[v].to IN
  /\ batch[v].st = "moving"
  /\ \/ /\ Runs(to) /\ Runs(n) /\ to # n /\ op[n] = NoOp /\ op[to] = NoOp
        /\ place' = [place EXCEPT ![v] = to]
        /\ TellMove(v, to)
        /\ Item(v, "ok") /\ UNCHANGED <<member, op>>
     \/ /\ \/ Fault
           \/ ~(Runs(to) /\ Runs(n) /\ to # n /\ op[n] = NoOp /\ op[to] = NoOp) /\ NoFault
        /\ Item(v, "failed") /\ UNCHANGED <<incus, stream>>
  /\ ItemOnly

\* The job's context is over.
CancelItem(v) ==
  /\ \E r \in Requests : At(r, {"batch"}, "run") /\ req[r].dead
  /\ batch[v].st \in {"global", "source", "moving"} /\ Item(v, "failed")
  /\ ItemOnly /\ UNCHANGED <<incus, stream, faults>>

ItemStep(v) ==
  \/ TakeGlobal(v) \/ TakeSource(v) \/ MigrateItem(v) \/ CancelItem(v)

BatchEnds(r) ==
  /\ At(r, {"batch"}, "run") /\ \A v \in VMs : Ended(v)
  /\ LET all == {v \in VMs : batch[v].st # "off"} IN
     Set(r, IF \A v \in all : batch[v].st = "failed" THEN [pc |-> "undo"]
            ELSE [pc |-> "finish", ok |-> TRUE, params |-> FALSE])
  /\ WorkerOnly /\ UNCHANGED <<batch, faults>>

\* Rollback. That of an add removes a member of that name by force, whoever added it.
Undone(r) ==
  LET n == req[r].node IN
  IF req[r].kind = "add" /\ req[r].params /\ member[n] # "absent"
  THEN /\ member' = [member EXCEPT ![n] = "absent"] /\ op' = [op EXCEPT ![n] = NoOp]
       /\ manual' = manual \ {n}
  ELSE UNCHANGED <<member, op, manual>>

Undo(r) ==
  /\ req[r].pc = "undo" /\ Set(r, [pc |-> "finish", params |-> FALSE])
  /\ IF req[r].dead THEN UNCHANGED <<member, op, manual>> ELSE Undone(r)
  /\ UNCHANGED <<place, stream, ear, node, healing, batch, faults>>

\* Finish writes whatever the status was, unless the job's context is over.
Finish(r) ==
  /\ req[r].pc = "finish"
  /\ Set(r, [pc |-> "done", node |-> None, res |-> "none", back |-> FALSE, dead |-> FALSE,
             params |-> FALSE,
             status |-> IF req[r].dead THEN req[r].status
                        ELSE IF req[r].ok THEN "succeeded" ELSE "failed"])
  /\ WorkerOnly /\ UNCHANGED <<batch, faults>>

WorkerStep(r) ==
  \/ TakeJob(r) \/ Token(r) \/ UploadScripts(r) \/ Join(r) \/ AddScriptEnds(r)
  \/ RemoveEvacuates(r) \/ RemoveLeaves(r) \/ RemoveScriptEnds(r)
  \/ BatchEnds(r) \/ Undo(r) \/ Finish(r)

-----------------------------------------------------------------------------
(* The sweeper (recoverStale)                                              *)

\* Half an hour has passed since the job was made, in the queue or at work.
AgeJob(r) ==
  /\ req[r].status \in {"queued", "running"} /\ ~req[r].old /\ Set(r, [old |-> TRUE])
  /\ WorkerOnly /\ UNCHANGED <<batch, faults>>

Sweep(r) ==
  /\ req[r].status \in {"queued", "running"} /\ req[r].old
  /\ Set(r, [status |-> "partial", swept |-> TRUE])
  /\ WorkerOnly /\ UNCHANGED <<batch, faults>>

SweepUndo(r) ==
  /\ req[r].swept /\ Set(r, [swept |-> FALSE, params |-> FALSE]) /\ Undone(r)
  /\ UNCHANGED <<place, stream, ear, node, healing, batch, faults>>

-----------------------------------------------------------------------------
(* Specification                                                           *)

RequestStep(r) ==
  \/ ContextEnds(r) \/ HandlerStep(r) \/ WorkerStep(r)
  \/ AgeJob(r) \/ Sweep(r) \/ SweepUndo(r) \/ SubmitBatch(r)
  \/ \E n \in Nodes :
       \/ SetMaintenance(r, n)
       \/ \E kind \in {"evacuate", "chaos", "restore"} : Ask(r, kind, n)
       \/ \E kind \in {"add", "remove"} : SubmitNodeJob(r, kind, n)

Next ==
  \/ Disconnect \/ Reconnect \/ ListenerStep \/ StatementFails \/ IncusStep \/ ExpireStale
  \/ \E i \in DOMAIN healing : Age(i)
  \/ \E r \in Requests : RequestStep(r)
  \/ \E v \in VMs : ItemStep(v)

\* The listener's loop, the tick of ExpireStale, time, and the goroutines of handlers, workers
\* and items go on. Nobody has to ask for anything, and Incus need not end what it is at.
Fairness ==
  /\ WF_vars(ListenerStep) /\ WF_vars(Reconnect)
  /\ WF_vars(ExpireStale) /\ WF_vars(\E i \in DOMAIN healing : Age(i))
  /\ WF_vars(\E r \in Requests : HandlerStep(r) \/ WorkerStep(r))
  /\ WF_vars(\E v \in VMs : ItemStep(v))

Spec     == Init /\ [][Next]_vars
FairSpec == Spec /\ Fairness

-----------------------------------------------------------------------------
(* Properties                                                              *)

\* FindInProgressByNode and Create are two statements and Incus tells both "offline" and
\* "evacuated" of one node; still a node never has two automatic rows in progress, which
\* the evacuation page would show as two evacuations under way.
OneOpenAutoRow ==
  \A n \in Nodes : Cardinality({i \in OpenOf(n) : healing[i].trigger = "auto"}) <= 1

\* No row stays in progress for ever, whatever becomes of its handler, of the node or of the
\* events about it: ExpireStale sees to it. (Requests are few: at times no row is open.)
OpenRowsClose == []<>(\A i \in DOMAIN healing : ~Open(i))

\* vms.node follows an instance to where it has moved, unless a move was told while nobody
\* listened, was told by the node it led to, or could not be written.
RowFollowsMove == []<>(\A v \in VMs : node[v] = place[v] \/ v \in lost)

\* A batch that is asked for ends: items that hold one of the global slots while they wait
\* for the slot of their source do not keep each other waiting for ever.
BatchSettles == []<>(\A r \in Requests : req[r].kind = "batch" => req[r].pc = "done")

\* cluster_node_add.go: a step that fails makes the runtime call Rollback, which takes a
\* half-joined member out. One whose script has ended well stays until it is removed.
JoinedStay ==
  [][\A r \in Requests :
       req[r].kind = "add" /\ req[r].ok /\ (\A q \in Requests : req[q].kind # "remove")
         => member'[req[r].node] # "absent"]_vars
=============================================================================
