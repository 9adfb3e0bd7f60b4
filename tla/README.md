# A verification of incus-admin

incus-admin (`src/incus-admin`) sells virtual machines: a Go control plane with a PostgreSQL
database in front of one or more Incus clusters, and a React interface. This directory holds
TLA+ models of its core, the TLC runs that check them and proofs for TLAPS. Paths below are
relative to `src/incus-admin/internal` unless they start with `web/`, `cmd/` or `db/`.

## 1. Inventory

| Part | State | Operations | What is hard | What makes it correct |
|---|---|---|---|---|
| Order payment: `handler/portal/order.go`, `repository/order.go` | orders, users.balance, transactions | Pay, rollbackPayment, Cancel, admin UpdateStatus | nine calls to the database in a row under a context the client can cancel; double clicks; Cancel and the administrator at the same time | charged at most once per order, a debit given back at most once |
| Jobs runtime: `service/jobs/runtime.go` | provisioning_jobs, a channel, parameters in memory | Enqueue, worker, runOne, finalize, recoverStale | the sweeper does not know which jobs a worker is at; a crash empties memory; the job's own context expires | every job ends; a finished job never runs; every failure is compensated |
| vm.create: `service/jobs/vm_create.go` | vms, ip_addresses, the Incus instance | Run, Rollback | Rollback is run by a worker and by the sweeper, possibly both; each of its calls may fail | no refund twice, none forgotten; no address used twice |
| Job stream: `service/jobs/broker.go`, `handler/portal/jobs.go`, `web/src/shared/lib/sse-client.ts` | subscribers, channels, slots per user | Subscribe, Publish, StreamJob, reconnect | publication against subscription, replay, check and disconnection | no step missed, nobody waits in vain |
| VM lifecycle: `repository/vm.go`, `handler/portal/vm.go`, `worker/vm_trash_purger.go`, `service/jobs/vm_reinstall.go`, `handler/portal/rescue.go` | vms.status, trashed_at, rescue_state; instance and snapshot in Incus | create, start, stop, trash, restore, purge, delete, reinstall, enter and exit rescue | row and instance change in separate calls that each may fail; a restore against a purge that has listed the row | row and instance are alive together; the trash is emptied; rescue can be undone |
| Reconciler and events: `worker/vm_reconciler.go`, `worker/event_listener.go` | vms.status, vms.node, addresses | mark gone, move, release | two sources read at different times; events late, or lost while disconnected | only vanished VMs become gone, and they do |
| Cluster members: `handler/portal/clustermgmt.go`, `handler/portal/vm.go`, `service/jobs/cluster_node_*.go`, `service/jobs/vm_migrate_batch.go` | members in Incus, scheduler.instance, jobs | evacuate, drill, restore, maintenance, add, remove, batch of migrations | operations of minutes under a context that may be dead; rollback of a join; two semaphores | nothing hangs, a joined member stays |
| Healing: `repository/healing.go`, `worker/healing_expire.go` | healing_events | find, create, append, complete, fail, expire | find and create are two statements; two sources write one row | one open automatic row per node; none open for ever |
| Rebalancing: `service/rebalance`, `cluster/scheduler.go` | the scheduler's cache of the members | refresh, Compute, ImbalanceSuggestions | a plan is made of figures of one time and flags of another; integer percents, limits, nodes without memory | the plan fits; receivers run |
| Firewall: `handler/portal/firewall.go`, `service/firewall.go`, `worker/firewall_reconcile.go` | firewall_groups, rules, bindings, defaults; ACLs and cards in Incus | groups and rules, bind, unbind, batches, defaults, reconcile | two systems of record; whole-card read-change-write; a VM must be stopped to change its card | they agree when nobody is at work; a stopped VM is started again |
| Floating addresses: `handler/portal/floating_ip.go`, `service/floating_ip.go` | floating_ips; the card's filter | allocate, attach, detach, release | taking the address and opening the filter are two steps with a rollback | the filter is open exactly while an address is attached |
| Alerts: `worker/alert_evaluator.go`, `worker/alert_dispatcher.go`, `worker/imbalance_watchdog.go` | alert_rules, notify_channels, system_alerts, alert_deliveries; counters in memory | evaluate, resolve, enqueue, send, retry, watch; edit, dismiss, clean up | three loops over one table; sent but not marked; a restart between two statements | what fires and what ends is told, in order |
| Accounts: `middleware/auth.go`, `middleware/stepup.go`, `handler/auth/stepup.go`, `repository/user.go`, `repository/apitoken.go` | users, quotas, deposits of a day, api_tokens, the verifier store | first visit, roles, top-ups, tokens, step-up | sum and deposit, read and renew: check-then-act | the daily cap holds; one valid token of a chain |
| Clusters and pools: `cluster/manager.go`, `repository/cluster.go`, `repository/ipaddr.go`, `cmd/server/main.go` | clusters, ip_pools, ip_addresses; the Manager in memory; the environment | add and remove clusters and pools, start, allocate | database and memory are written one after the other; pools are created at the first use | what was added stays; no address handed out twice |
| Limits, audit, shadow sessions, emergency login | limiter maps, audit rows, cookies | middleware | none beyond a locked map or one statement | not modelled |
| TLS pins, Incus client, console and metrics relays, AI assist, notification senders, SSH, node probe | | I/O | | not modelled |
| Tickets, products, invoices, templates, SSH keys, quotas | rows of their own | one statement per request | | not modelled |

How they interact: a handler changes the database and puts a job's id on the runtime's channel;
a worker takes it, calls Incus, changes the database, and publishes steps through the broker to
the handlers that stream them; the sweeper, the reconciler, the purger and the expiry read the
database (and Incus) on timers and repair it; Incus tells the listener what happened, late or not at all;
the evaluator reads what the others wrote. All share rows and take no common lock (but
for the few `FOR UPDATE`s that section 3 names), so that any statement of one may come between
two of another.

## 2. Plan

| # | Module | Models | State |
|---|---|---|---|
| 1 | `Ledger` | what billing promises of one user's balance: the abstract specification | done |
| 2 | `Provisioning` (+`MCProvisioning`) | order payment, runtime, vm.create, sweeper, addresses; implements `Ledger` | done |
| 3 | `ProvisioningProofs`, `ProvisioningCounts` | its invariants, action properties and the refinement, for all constants | done |
| 4 | `JobStream` (+`MCJobStream`) | broker, StreamJob, SSE client | done |
| 5 | `VMLifecycle` (+`MCVMLifecycle`) | VM handlers, reinstall, rescue, purger, reconciler, event listener | done |
| 6 | `ClusterNodes` (+`MCClusterNodes`); `Placement`, `Rebalance` (+`MCRebalance`) | members, healing events, node jobs, batches; Compute as operators, and the plans the panel makes with it: `Rebalance` extends both, adds the scheduler's cache and runs beside `ClusterNodes` | done |
| 7 | `VMNetwork` (+`MCVMNetwork`) | firewall groups and floating addresses | done |
| 8 | `Alerts` (+`MCAlerts`) | evaluator, watchdog, dispatcher | done |
| 9 | `Accounts`, `ClusterRegistry`, `AdminServer` (+`MCAdminServer`) | two components as operators over their variables, and the server that composes them | done |
| 10 | `AdminServerProofs` | every safety invariant of `AdminServer`, for all constants | done |
| 11 | `VMLifecycleProofs`, `JobStreamProofs`, `VMNetworkProofs` | every safety invariant of the three modules, for all constants | done |
| 12 | `AlertsProofs`, `ClusterNodesProofs` | every safety invariant of `Alerts` and `ClusterNodes`, for all constants; that the plans of `Rebalance` fit | done |

Every module is written to be proved about as well: constants with named assumptions, an action per
operation, no RECURSIVE operator.

## 3. The models

In all of them **one database statement or transaction, and one call to Incus, is one step**:
PostgreSQL and Incus make it atomic and any other goroutine may run before the next. A failure is a
step too; where a call may fail after it had its effect (a lost answer), both outcomes are there.
`map` in `PROJECT.json` gives the lines of each definition; the variables of each module are explained where they are
declared. The operators next to a definition that a comment calls a variant or mistaken are
the mutants.

### Provisioning

One request of `OrderHandler.Pay` makes at most one vms row and one job, so the request names all
three.

| Variable | Code |
|---|---|
| `order`, `balance`, `payments`, `refunds` | orders.status, users.balance, rows of type payment / refund in transactions |
| `handler` | the call that the Pay handler of a request makes next |
| `ip`, `addr`, `vm` | vms.ip (and Pay's variable before the row exists), ip_addresses, vms.status |
| `job`, `refundDone`, `aged` | provisioning_jobs.status, refund_done_at, created_at older than 30 minutes |
| `inst` | the Incus instance |
| `params`, `queue` | Runtime.params, Runtime.queue |
| `on`, `at`, `stale` | the job and the next call of each worker and of the sweeper; the sweeper's list |
| `priced` | which of them know the amount to refund: Rollback's variable |
| `admin` | an UpdateStatus between its check and its write |
| `faults`, `losses`, `admins` | bounds: failures so far, those that hit a refund, the reading of its amount or the process, an administrator's changes |

- `Fault` is any failure of a call to the database or Incus. A failed Incus call may have taken
  effect (`Submit`, `Start`).
- `ReadAmount` is the beginning of Rollback: it takes the amount from the parameters, or from the order's row
  if they are gone (after a crash, or when another agent's rollback took them), and drops the error of that read. Without
  an amount `RefundOnce` is not called.
- `Disconnect`: the client leaves or the 60 s middleware timeout cancels `r.Context()`. Every
  call after that fails, those of rollbackPayment too; nothing repairs the order, which stays paid.
- `JobTimeout`: the 30 minutes of the job's context are over; the rest of Run or Rollback, and
  Finish, fail.
- `Age`: 30 minutes pass since the job was created. `FindStaleRunning` goes by created_at and takes
  queued jobs as well (its comment says started_at and running), so the sweeper may take a job that
  waits in the channel or that a worker is at.
- `Crash` empties queue, parameters, the sweeper's list and every goroutine. The sweep at the start
  is one of the sweeps; graceful shutdown stops the same goroutines at fewer points, and is
  covered by it.
- Release puts an address into cool-down, and nothing calls `RecoverCooldowns`: no action makes an
  address available again. `AddressExclusive` relies on this; were the recovery scheduled, the
  late `Release` of a rollback would have to be looked at again.

Left out: the synchronous fallback without a runtime; the "no such row" and "not yours" answers; a
project other than the default one (Rollback falls back to it when its parameters are lost); the
in-guest Windows set-up at the end of Run; audit rows.

### Ledger

Two variables: the balance, and per purchase attempt none, charged or refunded. A debit needs the
balance to cover it; a debit is given back once. `Provisioning!Billing` maps an attempt to charged
when its payment row exists and to refunded when a refund row does; `LedgerKept` is `LedgerSpec`
under that mapping. A second refund, a refund without payment, an overdraft or a wrong amount is not
a step of it.

### JobStream

One job of one user. The worker's `AppendStep` / `FinishStep` / `Finalize` write a row and then
publish: `CopySubs` copies the channels under the read lock, `Send` puts the event into one of them
outside it, and `Panic` is the send to a channel that was closed in between. A stream goes through
`Connect` (acquireSlot), `Subscribe`, `Replay` (ListSteps with Last-Event-ID), `WriteReplay`,
`CheckStatus`, and the loop (`Forward`, `ClientGone`). `Drop` breaks a connection at any time: what
is written to it then is lost, and the handler notices later. A tab keeps the rows by seq and the id of
the last event, as `use-job-stream.ts` and `sse-client.ts` do.

A failed Incus call ends Run; the rollback after it publishes nothing and is left to `Provisioning`,
as are jobs that the sweeper takes from a running worker. The sweeper takes here only a job whose
Finish failed. The client's giving up after five failures, keep-alive comments and the other
endpoints of JobsHandler are left out.

### VMLifecycle

A request, or the job it starts, is a *program*: the sequence of statements and Incus calls it
makes (`todo`), chosen when it comes by what the handler read; a failure decides what is left of it (`Rest`).
Requests, the trash purger, the reconciler, the listener and Incus interleave.

| Variable | Code |
|---|---|
| `status`, `trash`, `rescue`, `addr`, `young` | vms.status, trashed_at, rescue_state; the ip_addresses row of the VM; created_at within CreateBuffer |
| `inst`, `home`, `dying`, `snap` | the instance, its project, a delete operation Incus has accepted, the rescue snapshot |
| `kind`, `on`, `todo`, `swept` | each handler or job: what it does after a failure, its VM, its remaining calls, whether the sweeper rolled it back |
| `due` | the rows `ListTrashedExpired` gave the purger |
| `at`, `names`, `cand`, `cur` | a reconciliation: the instance names first, then `ListActiveForReconcile`, then MarkGone and Release row by row |
| `link`, `events` | the listener's connection and the instance-deleted events under way |
| `remade`, `late`, `stuck`, `bare` | history, see below |

- The listener runs a reconciliation after an outage (`Listener \in Passes`) while the periodic
  one may be at work.
- The reconciler and the purger scan the project `customers` only, while the administrator's CreateVM defaults to
  `default`: a VM there is never found vanished, and is an excuse of the invariants (`Excused`).
- The history variables name what the code is known to get wrong or cannot know, so that the
  invariants can claim everything else: a reinstall made the instance anew (`remade`, section
  6), a pass listed instances before vm.create made this one (`late`), Incus accepted a deletion and did
  not do it (`stuck`), the snapshot did not complete or its user deleted it (`bare`).

Live migration, online password resets, freezing and snapshots of users change none of these variables.

### Placement, ClusterNodes and Rebalance

`Placement` is `rebalance.Compute` as operators: utilisation in whole percents, the standard
deviation as an inequality of squares, the greedy loop as a function of how many VMs of the hottest node were looked at.
Where the code divides floating-point numbers the model rounds to percents; the
comparisons of memory are exact.

`ClusterNodes` has the members (`member`, `manual`), the instances (`place`), the operation Incus
is at (`op`), what the listener knows (`link`, `events`, `ear`), the panel's rows (`node`,
`healing`), each request with its job (`req`) and the batch (`batch`).

- EvacuateNode and the drill ChaosSimulateNodeDown create a healing row and fail or complete it;
  the listener writes rows too, for members that Incus reports offline or evacuated, in two
  statements (`ear.pc`: find, then create), and completes them when the member is back. Removing a
  node evacuates it without a row; maintenance only changes what may be scheduled there.
- A handler's context may die (`dead`) while it waits for Incus, and the writes after that fail:
  the row is left to `ExpireStale` (15 minutes, every 5).
- Adding a node: token, upload, script, and the wait for the ticker's goroutine that never ends
  (section 6); a worker lost in it never takes another job.
- A batch takes a global slot and then the slot of its source, an item at a time.
- `Together` names the pairs of requests that the run lets meet, and `Budget` bounds requests
  and failures together. The other pairs are left out for the size of the instance.

`Rebalance` runs beside it with one more variable, the scheduler's `cache`. `Refresh` fills it (every 60 seconds in the
code, at any time in the model, so that it may be of any age); a member that does not answer has no memory in it. A plan
is what `ImbalanceSuggestions` gives Compute at that moment: total, used and status of the cache, and the flags of the
members read just now, or none if that read fails (its error is dropped). The status of a node is that of either source (section 6).
CPU and disk figures of the cache do not enter a plan.

### VMNetwork

`db` and `incus` are records: the tables (groups, rules, bindings, defaults, floating addresses) and
what Incus has (ACLs, the ACLs each card lists, those in force since the last start, the filter,
which instances live and run). A request is again a program over the calls of the handler; `seen`
is what it read and goes by, `more` the groups its loop still has to visit. Every change of a card
reads the device, changes it and writes it whole; binding stops a running VM, patches and starts it.
`ReconcileFirewallOnce` is the thread `Startup`; nothing repairs a card.

`torn` collects the VMs whose card and rows a failed call, two requests at one card, or the
deletion of a group in use, or just being taken off, has separated, `shut` those whose filter the detachment of one of
two addresses has closed, until the next attachment opens it (no failure is needed for it: section 6), `behind` the groups whose rules a failure or two concurrent
writes have left different in database and Incus, until an edit or a start pushes them again. The
properties claim agreement for everything else. Quotas, owner checks and names are left out.
`ReplaceRules` replaces the rules of a group in one step. Two such transactions that overlap can leave the union of both lists,
since at READ COMMITTED neither deletes the rows the other has not committed; the model has one list or the other, and a union is not in it.
Where both go on to push, the group counts as crossed (`behind`) anyway.

### Alerts

Evaluator, dispatcher and watchdog are three threads of one process: `eval` is how far a tick has
come (rules left, what fires, to whom it is still to be queued), `disp` what was sent and not yet
marked, `counter` the watchdog's memory. The tables are `rule`, `channel`, `active` (unresolved rows of
system_alerts) and `rows`: per channel and group the deliveries that can still matter, in order. `over`
is the world: which rule's condition holds of what. Sending can fail, and be received although it
failed; `Due` is the end of a backoff.

The table accepts less than the code expects, and the model does as the table does (`Fits`): the unique index
of migration 024 on (cluster, kind) is still there, so that of two VMs down in one cluster one has
an alert, and no severity may be `critical`. `muted` names recoveries that nobody will be told of: a
failure or restart between ResolveAndReturn and the enqueueing, a dismissal, a notice given up, and every alert that the watchdog
resolves. `own` names the deliveries that were queued for the alert that is active, and not for one that ended before: after
a muted end the last delivery still says firing, and the next alert counts as its duplicate (section 6).
`forgotten` names alerts whose watchdog counter was cleared (a failed ResolveActive or a restart), for
which no later tick calls ResolveActive. The dispatcher's limit of 50 per tick and the wording are
left out.

### Accounts, ClusterRegistry and AdminServer

`Accounts` and `ClusterRegistry` declare the state of two components and the operators that
change it, each operator naming what it leaves alone; `AdminServer` extends both and says who runs
them: each thread (`th`) goes from authentication by token or proxy, over a first visit (the rows of user and
quota, two statements), the role and the step-up gate, to the handler.

- Row locks are modelled: TopUpWithDailyCap holds the user's row from `lock` to the commit,
  Renew the token's (`TokenFree`), AllocateNext the address (`AddressFree`, SKIP LOCKED).
- A cluster is added in memory (`Dial`, with the Manager's lock held), then in the database
  (`Persist`), and taken out of memory if that failed (`Undo`); its id is noted at the end. Removal takes it out of memory first and then
  deletes the row. A `Restart` writes the environment to the database and builds the Manager from the rows, or from the environment
  if loading them fails, as `runServer`.
- A pool gets its row and its addresses at the first allocation: find, ensure, seed, take, assign.
- One step-up per user at a time; the verifier is forgotten at a restart or after ten minutes.
- The balance itself is in `Provisioning` / `Ledger`; here only the deposits of the last 24 hours.

## 4. The runs

| Run | Question | Bounds | Result |
|---|---|---|---|
| `purchase` | money, addresses, jobs and rows under two clicks on one order, one worker, the sweeper, an administrator; does every job end | two requests, two failures or crashes, one administrator's change, a queue of one, a quota of one VM; at first a balance of 4 and two free addresses, or a balance of 3 and one, against a price of 2, so that a second charge is possible or refused | holds; 2.3 million states |
| `dead_orders` | are cancelled orders final | one order, no failure | violated, section 6 |
| `stream_safety` | steps missed, ends not told | one tab, two connections, two steps, one database failure, channels that never fill | holds; 1.8 million states |
| `vm_lifecycle` | do row and instance live together; is what vanished noticed, what was thrown away destroyed | one VM of project `customers`, any two requests, the purger, both reconciliation passes, one failure, crash or deletion behind the portal's back, one undelivered event | holds; 396 000 states |
| `vm_reinstall` | does a reinstalled VM stay live | one request, no failure | violated |
| `cluster_ops` | healing rows, vms.node, batches; does a plan fit, whatever the cache holds | two nodes, two VMs, one slot per source; two requests and failures together, or one of them beside a scheduler that has read the members and reads them again at any time, answered by any of them | holds; 640 000 states |
| `node_add` | does a joined member stay | one request, no failure | violated |
| `network` | do database and Incus agree on cards and ACLs | two requests of 13 kinds, one failed call or restart, two VMs, two groups and a third that reuses a name, two addresses; from the first start and from a server that has run for long | holds; 286 000 states |
| `two_addresses` | does every attached address get through | one request after the other, no failure | violated |
| `alerts` | is everything told, in order | rules on jobs, on VMs down (two in one cluster) and on imbalance; two channels, two attempts, three changes of the world or of the rules, one or two failures or restarts | holds; 305 000 states |
| `alert_again` | is each alert told | the rule on imbalance, three changes of the world, no failure, nobody edits or dismisses | violated |
| `admin_server` | cap, tokens, addresses, clusters | two threads, four requests, up to three failures or restarts; six setups | holds; 506 000 states |

Why the bounds are enough to see the hazards. Two requests give every pair of handlers at one row, and
the background loops come on top. One worker and the sweeper give every pair of agents that can
be at one job (an id is sent once). Two failures in a purchase allow one in the work and one in its
compensation. The quota of one VM is checked long before anything is charged, so that it refuses a click that
comes late and lets two pass that are at work together. In `vm_lifecycle` and `network` one failure leaves half-done work, and the second request
or a loop meets it; the VMs of `vm_lifecycle` share no state, so that one is enough, while `network`
has two to share addresses and groups. `cluster_ops` needs a source with more VMs than slots, and for the plans a
receiver too small for both of them (5 units against 4 each), which is when a plan can overfill; the age of the cache shows already with one change after it was filled,
and the theorem `AdviceFits` is about any number of them. In `alerts` two attempts
make the last retry differ from the first, and two unbalanced ticks make the counter matter.
In `admin_server` three requests are needed for the cap (a top-up, and two that race), and four
for an addition, removal and addition with a restart. For the stream, two connections give the
handler of a lost connection next to the new one, and two steps a Last-Event-ID between them.
`MaxEvents = 1` bounds events waiting at once, not how many there are.

Deadlock is checked in `alerts`, whose loops tick for ever; the other runs say
`CHECK_DEADLOCK FALSE`: when all requests are answered, all jobs finished and the bounds used up the
system rightly rests.

Fairness. Clients, failures, crashes, administrators and dying contexts are never forced; bounds on
failures mean that liveness is about a system in which failures eventually stop.

| Module | Weakly fair | Why |
|---|---|---|
| `Provisioning` | each worker, the sweeper, a blocked Enqueue, `Age` | the Go runtime runs runnable goroutines, a receiver wakes a sender, time passes |
| `VMLifecycle` | `Progress` (some step of a request, Incus doing a deletion, ageing), the purger, each reconciliation pass | the two loops tick for ever; of the bounded rest nothing more is needed than that some of it goes on |
| `ClusterNodes` | listener, reconnection, `ExpireStale`, ageing, handlers or workers together, batch items together | the listener's loop and the tickers. Incus need not end an operation: waiting for it times out |
| `VMNetwork` | each thread's next call | a call ends at the latest with its timeout |
| `Alerts` | evaluator, dispatcher, watchdog per cluster, the end of a backoff | three tickers, and time |

### The properties

Purchases and stream:

- `LedgerKept`: at risk when worker and sweeper both refund, when rollbackPayment and a job both do,
  when a retry pays twice.
- `ChargedOncePerOrder`: double click, Pay against Cancel. An administrator who moves a paid order
  back to pending makes a second charge legal, once per change.
- `AddressExclusive`: two live VMs never share an address although three parties release addresses.
- `OneLossCostsOneRefund`: a job that ended without success, that nobody is at and that is not
  refunded, is there only because the refund's own transaction failed, or the reading of its amount by a rollback
  without parameters, or the process died; each of these costs one refund at most, and any other failure, at any place, is made good.
- `FinishedNeverRuns`, `ErrorRowSticks`: what the sweeper has finished is not started, what a rollback
  has marked is not turned back. `JobsFinish`: every queued job gets a final status.
- `NoStepMissed`, `NoneWaitsInVain`: a stream that has caught up has shown its tab every row; when the job
  is over and nothing is being published, a waiting stream has the end in its channel. Both are
  claimed for tabs whose database reads worked and while no send has panicked.
- `WorkerWindsDown`: no follower holds a job up, which is what `Publish` copies the channels and drops events for: each
  step of the worker, a panic and the sweeper's recovery included, lowers what it may still publish
  (`Rank`), or keeps that and lowers the sends of the event under way (`Sends`); streams and tabs
  leave both as they are. It is the variant from which fairness of the worker alone makes every job end. No
  run lists it: it is proved.

VMs:

- `LivingNotGone`, `LivingKeepAddress`, `DeletedAreDestroyed`: no live instance behind a row that
  says gone or deleted, or whose address cools down, but for the four excuses.
- `RescueCanBeUndone`: a VM in rescue mode has its snapshot.
- `TrashEmptied`: what is past its window is deleted or was restored, whatever failed on the way.
  `VanishedNoticed`: an active row without an instance does not stay so, with events lost and crashes.

Nodes:

- `OneOpenAutoRow`: find-then-create by the listener does not make two automatic rows.
- `OpenRowsClose`, `RowFollowsMove`, `BatchSettles`: nothing stays in progress for ever.
- `PlansFit`: each receiver has room for all it is given in one plan, by the figures the plan was made from, ran when the
  scheduler or the panel looked, and is not in maintenance unless the flags could not be read; no VM is moved twice.

Network, alerts, server:

- `RulesReachIncus`, `BindingsMatch`, `FilterMatch`: the two systems of record agree when nobody
  is at work, with the exceptions that `torn`, `shut` and `behind` name. `InForce`: a running VM is guarded by what its card
  lists. `StoppedComesBack`: a VM stopped for a change is started, or the start itself failed.
- `SentInOrder`, `FiringHeard`, `RecoveryHeard`, `ImbalanceCleared`: see the comments in `Alerts`;
  each says "in the end", under channels that work in the end.
  `FiringHeard` asks for a delivery queued for this alert (`own`); where the end of the one before was muted, the message
  of that one has to do.
- `CapKept`: two batches and a top-up at once do not exceed MaxTopUpPerDay. `OneLivePerChain`: renewing
  twice at once gives one valid token. `NeverGivenTwice`: nor does seeding a pool twice give an address out twice.
  `AddedSurvives`: a cluster whose addition was answered with success, without a concurrent change of the same name,
  is there after any restart.

## 5. The proofs

All for every value of the constants that satisfies the module's named assumption
(`ProvisioningAssumption`, `JobStreamAssumption`, `VMLifecycleAssumption`, `VMNetworkAssumption`,
`AlertsAssumption`, `ClusterNodesAssumption`; for the server `AccountsAssumption`, `RegistryAssumption`, `ServerAssumption`). The bounds on failures,
requests and events are constants too, so a theorem holds for any number of them.

| Module | Theorem | Statement |
|---|---|---|
| `ProvisioningProofs` | `IInvHolds` | the inductive invariant |
| | `TypeCorrect` | `Spec => []TypeOK` (in particular the balance is never negative) |
| | `AddressesExclusive` | `Spec => []AddressExclusive` |
| | `FinishedJobsStay`, `ErrorRowsStay` | `Spec => FinishedNeverRuns`, `Spec => ErrorRowSticks` |
| | `ImplementsLedger` | `Spec => LedgerKept`, the refinement |
| `ProvisioningCounts` | `OrdersChargedOnce` | `Spec => []ChargedOncePerOrder` |
| | `LossesAreCounted` | `Spec => []OneLossCostsOneRefund` |
| `VMLifecycleProofs` | `LifecycleInv` | the inductive invariant |
| | `LifecycleTypeCorrect` | `Spec => []TypeOK` |
| | `GoneHaveVanished` | `Spec => []LivingNotGone` |
| | `AddressesKept` | `Spec => []LivingKeepAddress` |
| | `RowsOutliveInstances` | `Spec => []DeletedAreDestroyed` |
| | `RescuesCanBeUndone` | `Spec => []RescueCanBeUndone` |
| `JobStreamProofs` | `StreamInv`, `FlowInv` | the inductive invariant: types for all constants, the flow of events under `Roomy` |
| | `StreamTypeCorrect` | `Spec => []TypeOK` |
| | `CaughtUpTabsHaveAll` | `Roomy`: `Spec => []NoStepMissed` |
| | `EndsAreTold` | `Roomy`: `Spec => []NoneWaitsInVain` |
| | `WorkerStops` | `Spec => WorkerWindsDown` |
| `VMNetworkProofs` | `NetworkInv`, `NetworkSound` | the inductive invariant: shape of the requests; all of it |
| | `NetworkTypeCorrect` | `Spec => []TypeOK` |
| | `RulesArrive` | `Spec => []RulesReachIncus` |
| | `CardsListBindings` | `Spec => []BindingsMatch` |
| | `FiltersFollowAddresses` | `Spec => []FilterMatch` |
| | `ListedIsInForce` | `Spec => []InForce` |
| `AlertsProofs` | `AlertsInv` | the inductive invariant |
| | `AlertsTypeCorrect` | `Spec => []TypeOK` |
| | `ToldInOrder` | `Spec => []SentInOrder` |
| `ClusterNodesProofs` | `NodesInv` | the inductive invariant |
| | `NodesTypeCorrect` | `Spec => []TypeOK` |
| | `OneAutoRow` | `Spec => []OneOpenAutoRow` |
| | `AdviceFits` | `AdviceSpec => []PlansFit` (of `Rebalance`) |
| `AdminServerProofs` | `AddressesGivenOnce` | `Spec => []NeverGivenTwice` |
| | `OneTokenPerChain` | `Spec => []OneLivePerChain` |
| | `TopUpsCapped` | `Spec => []CapKept` |
| | `AddedIsNotLost` | `Spec => []AddedSurvives` |
| | `AdminServerTypeCorrect` | `Spec => []TypeOK` |

**ProvisioningProofs.** `IInv` has four parts, each proved stable by a lemma with one step per action:

- `TypeInv`: `TypeOK`, and an agent that is at a call has a job (without it `at[a] = "mark"` says
  nothing of `on[a]`).
- `JobsExist`: jobs in the queue, in the sweeper's list and in an agent's hands have a row.
- `SagaInv`: how far a Pay handler is bounds what can have happened to its request: no payment
  before `pay`; a payment and no refund while it is at work or about to refund; no job before it
  has inserted one; a job's refund exists only with refund_done_at. This is why the two refund
  paths, which share no mark, cannot both run.
- `AddressInv`: an address that a request took is never available again, and no other request has
  it. It is stable because Release leads to cool-down, from which nothing returns.

`AddressExclusive` follows from the last conjunct. The action properties follow from `IInv` and the guards
of the steps (`Claimable`, `Provisioned`). The refinement needs `SagaInv` to show that a `Credit` is a
`GiveBack` of a charged request, and that every other step leaves balance and charges as they are.

**ProvisioningCounts** bounds two cardinalities by counters, on top of `IInv`.

- `Lost` are the priced requests without a refund whose job has failed while no sweeper is about to
  refund it, or whose worker is past the refund or never learned its amount. It contains what `OneLossCostsOneRefund` counts, and unlike that it changes at
  the moment of the loss. Every step either keeps `Lost` within what it was, or adds at most one request and
  raises `losses` by one (a failed RefundOnce, or a failed read of its amount), or is a crash (`Loses`); hence `Cardinality(Lost) <= losses`.
- `Chances(o)` counts 1 for a pending order and 1 for an administrator about to write pending. The
  payments of an order and its chances together never exceed 1 plus the administrator's changes: Pay
  turns a chance into a payment, and only a change by the administrator makes a new one.

**AdminServerProofs.** Threads keep the form of their record, and only `LockToken` and `Take` bring one to
where a renewal or assignment is due (`ThreadInv`, `Arrivals`), from which:

- `AddressInv`: an address that was handed out is assigned and was handed out once; one that a thread has
  locked is available, and no other thread has it locked. Seeding again inserts only addresses that are absent.
- `TokenInv`: a token being renewed is the only one of its chain that may be valid, and no two threads
  renew one chain: a valid one is required when it is locked, and the lock ends with the commit.

Both rest on the row locks of PostgreSQL as section 3 states them. The other properties need to know what a
thread can become: `Moves` says that a step starts, ends or continues one request, and `Leads` lists every
continuation with the data it carries, so that `Forms` (what a thread has for the call it is at) and all that
follows go by it and not by the thirty actions.

- `MoneyInv`: a thread about to deposit has found room for it in a sum that is still right, because no two threads are
  between the lock and the commit for one user; meanwhile time only takes deposits out of the window. What `Total`
  computes is established first (`SumsExist`, `TotalIs`, `TotalOfAppend`, `TotalOfTail`).
- `Reg`: types of rows and manager, the ids of rows distinct and never reused, a pool only where a cluster had id 1.
- `KeptInv`: `Remains(n)` of a cluster that was added: nobody is about to delete its row, an id about to be noted is that of
  the row, and whoever adds it again has put a second configuration in memory (`Twice`), so that taking it
  back leaves the first. A cluster counts as added only where its request was alone; `Alone` and `Sole` say what
  that is worth: such a request finds the configuration it made still there when it notes the id. `Effects(n)` says
  once what a step can do to a cluster and who does it (`RegStep`).
- `Present`, `Logins`: tokens, quotas and requests past their sign-in are of users that have a row.

The proofs changed the model in four places, each nearer to the code: an amount is positive and a request
is never the absent one (`ServerAssumption`, user.go:107, user_batch.go:93), the names are finitely many, and `Total` and
`Without` are recursive functions instead of library folds, which the prover cannot unfold.

**VMLifecycleProofs.** The four properties are about rows that the step before wrote without looking again,
so the invariant has to follow what every program knows:

- `Programs`: what is left of a program is `Ordered`: a row is deleted right after its instance, an
  address released right after its row or instance is given up, a rescue noted after the stop that
  follows the snapshot; two processes never create one VM.
- `RowsTrue`: a row that says gone or deleted, an address that cools down, and an event under way, each
  belong to a VM that is `Hopeless` (or `Destroyed`): not living, and not about to be made by a
  vm.create that the reconciler's age limit still protects. A rescued VM is `Rescuable`.
- `WritesTrue`, `PassTrue`: what a process or a reconciliation is about to write is true already, however long ago it was
  read: the names a pass has listed, its candidates, the row whose address it will release.

These predicates are stable under every step (`Moves`): an instance once gone comes back only through a reinstall
(`remade`) or a vm.create younger than the limit (`Unmade`, `young`).

**JobStreamProofs.** `Structure` needs nothing. `Flow` is proved under `Roomy == Buffer >= 2 * NumSteps + 2`:
a channel takes every event of one job, so that no publication is dropped. For VM creation
(nine steps at most) and reinstallation (six) the code's 32 is enough, and the run's instance is as
small as `Roomy` allows; a batch of migrations of many VMs may have more, and there the properties are not claimed (the
hazard at `broker.go:80`). `Flow` says:

- of the worker (`WorkerTrue`, `Rank`): rows are made in order, and how many events it will still publish; a channel's
  length and the rank together stay within the buffer (`ChannelTrue`);
- of a channel: events in the order of their seq, each of a row that exists;
- of a stream (`StreamTrue`): a row its tab has not shown is in the backlog that it is writing, in the
  channel, or about to be sent, or is after the Last-Event-ID that the replay goes by (`Reaches`). This is
  where subscribing before reading matters; and a stream in its loop after the job's end has the
  end in its channel or coming;
- of a tab (`TabTrue`): it has every row up to the last id it was sent, which makes reconnection sound.

`WorkerStops` does not need `Roomy`: a full channel, which the run's instance never has, costs the worker no more than
one with room. Besides `Structure` it rests on `Ends`, that the worker is through after the event of the end and only
then: a panicking send otherwise might set it back behind what it had published already. The descent in
Nat x Nat is proved; that it makes the worker stop under fairness is the liveness step the prover does not reach.

**VMNetworkProofs.** `Structure` gives every request a rest of its handler's calls (`Course`) and what it is about
(`About`). `Pushes` carries `RulesReachIncus` through: what a request is about to push is what its group has,
unless it is on record as crossed. `Cards` says for each VM (`CardOk`): either its card and rows are as the run's
properties want them, when nobody is at it; or exactly one request is, and `CardTrue` says for the
call it makes next how far card and rows are apart; or it is on record in `torn`, because two requests
clashed, a call failed, or a group in use went. `shut` is part of what `CardTrue` says of the filter. An address that was taken stays with its VM
(`HeldTrue`), and the group to be taken off keeps its name (`NameTrue`).

The attempt to prove `NameTrue` found a mistake in the history variable, which the run's two requests are
too few to show: an unbind has read the group, the group is deleted, a new one of the same name is created and bound to the VM, and
the unbind then takes the new group's ACL off, because ACLs go by name. `Spoiled` now records this as well.

**AlertsProofs.** `SentInOrder` is about one key (channel and group) at a time, but the dispatcher picks a batch, tries
one, and marks it later, while evaluator and administrator change the same deliveries:

- `Orderly`: of the deliveries of a key only the last may be finished, because `Queued` drops a finished one
  before it; one that waits was tried; and one older than a delivery that was tried or picked, and still pending,
  was tried or picked too. Its last conjunct is what picking in the order of the ids gives.
- `Sent`: the delivery that was sent and is not yet marked is the oldest of those picked, so that `Settled`
  marks the one that was meant, unless the channel was deleted, with all its deliveries.
- `EvalTrue`, `Tables`: a tick that has findings left has read the rules; two unresolved alerts never have
  one kind and cluster.

The assumption says of the constants what the tables say: the alert of imbalance of a cluster is the only one with
its kind and cluster, and "channel" is no kind of a group.

**ClusterNodesProofs.** Find-then-create by the listener is sound for one reason: nobody else inserts automatic rows, and the
listener takes one event at a time. `AutoRows` says so: a node has one open automatic row at most, and none at all
while `ear.pc = "create"` for it. It rests on

- `RowMoves`: whatever a step does, either no row is opened again (`Touched`), or the listener inserts its
  row, or a handler inserts one that is not automatic;
- `RequestMoves`: every step changes one request's record in known fields, so that a request that will
  insert a row knows its node (`Asking`) and one that has inserted it remembers a row that is there (`Remembered`);
- `Hearing`, `Members`, `Items`: types, and that a move under way is of a VM, which `InstanceUpdated` relies on when
  it looks up the row. Requests are finitely many, so that `Room` counts them.

`PlansFit` is about an algorithm more than about steps: `AdviceSpec` keeps the types of `ClusterNodes` and of the cache, and given
a capacity of the right type, whatever moment it is of, `Compute` advises moves that fit, whatever the rows say of where the VMs are. The argument follows the loop of `Compute`:

- `AllSubsets` is induction over the subsets of a finite set, from which come that sums are what they should be
  (`SumsExist`, `SumsAgree`, `SumSplit`), that some receiver has the most room (`MostExists`) and that
  the candidates can be sorted (`SortedExists`, `CandidatesAre`);
- `Fits` is the invariant of the loop: receivers are nodes that may receive, a VM is moved once,
  and `acc.cap` is the capacity less what the moves bring, so that the test of the room against `acc.cap` is one
  against all that a receiver is given. `AdviseFits` shows that a candidate keeps it (`GivenMore`), `AdviceIs`
  that the loop is the function it is written as, `ComputeFits` puts the two together.

This changed `Placement` twice. `Candidates` asked for a strict order by memory, which no list satisfies when two VMs
are of one size; it now leaves open, as `sort.Slice` does, which of them comes first. And the loop is the function
`Advice` instead of a library fold. `ClusterNodesAssumption` says now that nodes and VMs are finitely many.

Every leaf of these proofs is small: each module also passes from nothing with `tlapm --cleanfp --stretch 0.1`,
a tenth of the provers' default time. Where a lemma has a long conclusion, the conclusion is a definition
(`CourseTrue`, `QueuedTo`) that a proof first obtains for its operands and then expands.

Model-checked only: liveness, which is out of the prover's reach (`JobsFinish`, `RowFollowsMove` and the other `<>`
and `~>` properties of section 4), and the properties of the five runs that expect a violation, which are false.
`NoStepMissed` and `NoneWaitsInVain` are proved under `Roomy` only.

## 6. Where the code and its comments disagree

With a run each:

1. `dead_orders`. `handler/portal/order.go:451` calls cancelled a dead state. A job older than 30
   minutes that a worker is at is cancelled and refunded by the sweeper; the worker then sets
   the order active (`vm_create.go:242`). No failure is needed, only a slow queue or image pull.
2. `vm_reinstall`. `worker/event_listener.go:236` says that deletions of the portal's own leave the row
   alone. Line 240 makes every row gone that is not deleted; a reinstall deletes the instance and makes it again;
   nothing makes the row live again, and ForceDeleteGone then releases the address of a VM that runs.
3. `two_addresses`. `service/floating_ip.go:25` says that disabling the filter lets a VM serve a secondary address. Detaching
   one of two addresses enables it again (line 41), and the other is cut off although its row says attached.
4. `alert_again`. `repository/alert_delivery.go:14` says that firing, resolved, firing sends a new delivery at each turn, and
   `alert_evaluator.go:149` that the resolved rows of imbalance are queued likewise. Only firing is; so the last delivery stays a
   firing one, and the next alert of the cluster is skipped as its duplicate (`alert_delivery.go:92`) until the cleanup.
5. `node_add`. `cluster_node_add.go:224` expects the goroutine to end because Stop closed the ticker's
   channel. Stop does not close it: Run never returns, the worker is lost, four such jobs stop all
   four, and after 30 minutes the sweeper's Rollback removes the member that joined.

Met while modelling, and part of the models, without a run of their own:

- Refunds. `vm_create.go:322` logs that a failed refund is retried on the next sweep, and
  `repository/provisioning_job.go:89` says the same. The job is final by then, and the sweep selects unfinished jobs only.
  `OneLossCostsOneRefund` counts it as a loss.
- Stream. `runtime.go:402` says a failure to push does not interrupt the job. A page closed
  while an event is published closes a channel that Publish has copied (`broker.go:79`, `Panic`); the panic
  counts as a failure of Run, so the VM is deleted and the order refunded. The same panic
  from the sweeper's goroutine, which has no recover, ends the process.
- Plans. `rebalance.go:26` says that online means the status "Online", and Compute's comment that offline nodes are
  taken out. `clustermgmt.go:1078` takes a node for online if the flags just read or the cache of up to a minute ago say so: a node
  that Incus reports offline or evacuated by now is advised as a receiver. `PlansFit` claims what is left.
- Jobs. `broker.go:65` says
  that reconnection replays what was missed; the id of an event is the step's seq and the replay reads seq > id,
  so the result of the step whose running row was seen last is not sent again. `jobs.go:172` says
  that subscribing first leaves no window; steps in the channel are not written before done when
  the job ends between replay and second read.
- VMs. RestoreService has no condition on the status: a restore between the purger's list and its delete
  is acknowledged and undone (PLAN-034 asks for FOR UPDATE). MarkGone that finds no row still releases
  the address. A release that failed after MarkGone is not tried again, although the comment says the next
  cycle does; the event path and the purger never release one.
- Nodes. EvacuateNode and the drill call Fail and Complete with the request's context, which may be the dead
  one; a Fail that failed is followed by Complete. A failed token request for a node that is already a member
  leads to a Rollback that removes it. Moves missed in an outage are not made up for. Compute advises from a deviation of 0.20
  (Options), while computeStats calls a cluster unbalanced, and the watchdog raises its alert, from 0.05.
- Network. Two concurrent changes of one card lose one. Two concurrent edits of one group can leave ACL and
  database different until the next edit or start. UpdateGroup ignores the error of ListRules and pushes no rules with 200
  (`firewall.go:259`). The administrator's DeleteGroup checks no bindings, though the repository's comment
  says its callers do; bindings of deleted VMs are never removed and keep the portal's DeleteGroup refusing.
- Alerts. Migration 025 means to allow several alerts of a kind in one cluster and leaves the index of
  024 that forbids it. `critical` passes the handler and not the CHECK. "vm_down" and
  "balance_low" are never resolved; a dismissal queues nothing either, so that the next alert counts as a duplicate. Errors of Mark* are ignored: the message is sent again.
- Clusters. `clustermgmt.go:221` says that a restart cleans up a removal whose second half failed; the restart adds the
  cluster again. `main.go:811` says that the environment does not overwrite a kind set in the interface; CreateFull does. If no cluster can be reached at the
  start there is no Manager, and the first cluster cannot be added in the interface. A cluster added there
  has no listener until the next start, and the listener of a removed one keeps running. Two changes of a cluster's pools at
  once lose one.

## 7. Not modelled

- Rate limiters, audit rows, shadow sessions, emergency login: one locked map, one insert or one
  signed cookie each; nothing to interleave with.
- TLS pins and the HTTP client of Incus, relays of console, events and metrics, AI assist, the senders
  of notifications, the node probe, SSH: I/O. The models take from them that a call succeeds, fails,
  or fails after its effect.
- Tickets, products, invoices, templates, SSH keys, quota administration: single statements on rows of their own.
- `cluster/scheduler.go` PickNode and VMRepo.UpdateNode have no caller; the synchronous creation and
  reinstallation cannot be reached when there is a Manager.
- Within the modelled parts: validation of inputs, ownership checks, lists and pages that only read, wording.

## 8. Running

    tlc -workers 2 -config Provisioning_purchase.cfg MCProvisioning
    tlc -workers 2 -config JobStream_safety.cfg MCJobStream
    tlc -workers 2 -config VMLifecycle_safety.cfg MCVMLifecycle
    tlc -workers 2 -config ClusterNodes_safety.cfg MCRebalance
    tlc -workers 2 -config VMNetwork_safety.cfg MCVMNetwork
    tlc -workers 2 -config Alerts_safety.cfg MCAlerts
    tlc -workers 2 -config AdminServer_safety.cfg MCAdminServer
    tlapm ProvisioningProofs.tla
    tlapm ProvisioningCounts.tla
    tlapm AdminServerProofs.tla
    tlapm VMLifecycleProofs.tla
    tlapm JobStreamProofs.tla
    tlapm VMNetworkProofs.tla
    tlapm AlertsProofs.tla
    tlapm ClusterNodesProofs.tla

`PROJECT.json` lists components, runs, mutants, the map from definitions to lines, findings, hazards and
theorems.
