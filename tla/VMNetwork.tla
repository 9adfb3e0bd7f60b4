----------------------------- MODULE VMNetwork ------------------------------
(***************************************************************************)
(* What guards a VM's network card, and what the database says of it: the  *)
(* firewall groups, kept as network ACLs in Incus and listed on the card,  *)
(* and the floating addresses, for which the card's filter is opened.      *)
(*                                                                         *)
(* Every operation is two writes, one to the database and one to Incus,    *)
(* and a change of the card reads the whole device, changes it and writes  *)
(* it back. A request is the sequence of the calls it makes; any of them   *)
(* may fail, with its effect or without. Only the ACLs of groups are       *)
(* pushed again, when the server starts; nothing repairs a card.           *)
(***************************************************************************)
EXTENDS Integers, Sequences, FiniteSets

CONSTANTS
  VMs,        \* virtual machines: one card each
  Groups,     \* rows of firewall_groups, by their ids
  Slug,       \* the ACL name of each group, which a later group may reuse
  Addresses,  \* floating addresses
  Rules,      \* what the rules of a group can be
  NoRules,    \* a group with none
  Seed,       \* those of the groups the server starts with
  Absent,     \* an ACL Incus does not have
  None,       \* no VM, no group, no address
  Available,  \* an address attached to no VM
  Calls,      \* the calls made, some of Jobs
  Requests,   \* the calls served at the same time, items of a batch included
  Startup,    \* ReconcileFirewallOnce
  Budget,     \* bound on the requests made
  MaxFaults,  \* bound on failed calls and crashes
  Starts      \* what the server may start with

\* What may be asked for.
JobOf(ops, vs, gs, fs, rs) ==
  [op : ops, vm : vs, group : gs, address : fs, rules : rs]

Jobs ==
  JobOf({"create", "edit"}, {None}, Groups, {None}, Rules) \cup
  JobOf({"rename", "delete", "portalDelete"}, {None}, Groups, {None}, {NoRules}) \cup
  JobOf({"bind", "unbind"}, VMs, Groups, {None}, {NoRules}) \cup
  JobOf({"attach"}, VMs, {None}, Addresses, {NoRules}) \cup
  JobOf({"detach", "release"}, {None}, {None}, Addresses, {NoRules}) \cup
  JobOf({"defaults"}, VMs, {None}, {None}, {NoRules})

ASSUME VMNetworkAssumption ==
  /\ DOMAIN Slug = Groups
  /\ {NoRules, Seed} \subseteq Rules /\ Absent \notin Rules
  /\ None \notin VMs \cup Groups \cup Addresses \cup {Available}
  /\ Available \notin VMs
  /\ Startup \notin Requests
  /\ Calls \subseteq Jobs
  /\ Budget \in Nat /\ MaxFaults \in Nat
  /\ \A s \in Starts :
       /\ s.row \subseteq Groups /\ s.running \subseteq VMs
       /\ \A g, h \in s.row : Slug[g] = Slug[h] => g = h
       /\ s.bound \subseteq VMs \X s.row
       /\ s.first => s.bound = {}
       /\ s.addr \in [Addresses -> VMs \cup {Available, None}]

VARIABLES
  db,       \* the tables: groups, their rules, bindings, defaults, addresses
  incus,    \* ACLs, cards, which instances exist and run, the ACLs in force
  job,      \* what each request is for
  todo,     \* the calls it has left
  seen,     \* what it has read
  more,     \* the groups its loop has still to come to
  asked,    \* requests made so far
  faults,   \* failed calls so far
  off,      \* VMs that nobody but their user will start
  torn,     \* VMs whose card a failed call, or two requests at once, got wrong
  shut,     \* VMs whose filter a detachment closed on another address
  behind,   \* groups whose ACL has missed a change
  crossed   \* requests that push the rules of a group another one pushes

vars == <<db, incus, job, todo, seen, more, asked, faults, off, torn, shut,
          behind, crossed>>

Threads == Requests \cup {Startup}
Slugs   == {Slug[g] : g \in Groups}
NoJob   == [op |-> "idle", vm |-> None, group |-> None, address |-> None,
            rules |-> NoRules]
Blank   == [acls |-> {}, filtered |-> TRUE, up |-> FALSE, rules |-> NoRules,
            blind |-> FALSE]

\* The calls each handler makes, and one turn of the loops over groups does.
CreateGroup       == <<"insert", "rules", "put">>
EditRules         == <<"group", "rules", "put">>
UpdateGroup       == <<"group", "list", "put">>
DeleteGroup       == <<"group", "unacl", "drop">>
PortalDeleteGroup == <<"group", "count", "unacl", "drop">>
BindVM            == <<"group", "get", "patch", "bind">>
UnbindVM          == <<"group", "get", "patch", "unbind">>
AttachAddress     == <<"take", "look", "open">>
DetachAddress     == <<"holder", "find", "close", "give">>
ApplyDefault      == <<"get", "patch", "bind">>
Reconcile         == <<"list", "put">>

Program ==
  [create |-> CreateGroup, edit |-> EditRules, rename |-> UpdateGroup,
   delete |-> DeleteGroup, portalDelete |-> PortalDeleteGroup,
   bind |-> BindVM, unbind |-> UnbindVM,
   attach |-> AttachAddress, detach |-> DetachAddress, release |-> <<"release">>,
   defaults |-> ApplyDefault, reconcile |-> Reconcile]

TypeOK ==
  /\ db \in [row : SUBSET Groups, rules : [Groups -> Rules],
             bound : SUBSET (VMs \X Groups), defaults : SUBSET Groups,
             addr : [Addresses -> VMs \cup {Available, None}],
             used : SUBSET Groups]
  /\ db.row \subseteq db.used /\ db.defaults \subseteq db.row
  /\ \A b \in db.bound : b[2] \in db.row
  /\ incus \in [acl : [Slugs -> Rules \cup {Absent}],
                acls : [VMs -> SUBSET Slugs], inForce : [VMs -> SUBSET Slugs],
                filtered : [VMs -> BOOLEAN],
                living : SUBSET VMs, running : SUBSET VMs]
  /\ incus.running \subseteq incus.living
  /\ \A v \in VMs : \A s \in incus.acls[v] : incus.acl[s] # Absent
  /\ DOMAIN job = Threads /\ DOMAIN todo = Threads
  /\ seen \in [Threads -> [acls : SUBSET Slugs, filtered : BOOLEAN,
                           up : BOOLEAN, rules : Rules, blind : BOOLEAN]]
  /\ more \in [Threads -> SUBSET Groups]
  /\ asked \in 0..Budget /\ faults \in 0..MaxFaults
  /\ off \subseteq VMs /\ torn \subseteq VMs /\ shut \subseteq VMs
  /\ behind \subseteq Groups /\ crossed \subseteq Threads

-----------------------------------------------------------------------------
Idle(r)     == todo[r] = <<>> /\ more[r] = {}
Doing(r, s) == todo[r] # <<>> /\ Head(todo[r]) = s
VM(r)       == job[r].vm
Group(r)    == job[r].group
Acl(r)      == Slug[Group(r)]

\* Requests that have read a card, or taken an address, and not finished.
Changing ==
  {r \in Threads : /\ VM(r) # None /\ todo[r] # <<>>
                   /\ Head(todo[r]) \notin {"groups", "group", "get", "take"}}
\* Cards that two requests change at once, or whose address they do.
Clashing ==
  {VM(r) : r \in {p \in Changing : \E q \in Changing \ {p} :
     VM(p) = VM(q) \/ (job[p].address = job[q].address /\ job[p].address # None)}}

\* Requests whose rules are on their way to the ACL of their group.
Pushing ==
  {r \in Threads : /\ Group(r) # None /\ todo[r] # <<>>
                   /\ \/ Head(todo[r]) \in {"put", "post"}
                      \/ Head(todo[r]) = "rules" /\ job[r].op = "create"}
CrossedNow == {r \in Pushing : \E q \in Pushing \ {r} : Acl(q) = Acl(r)}

\* The calls whose failure, with or without their effect, leaves the card and
\* the database apart.
Tearing ==
  ({"start"} \X BOOLEAN) \cup ({"patch", "take", "open"} \X {TRUE})
    \cup ({"bind", "unbind", "find", "close", "give"} \X {FALSE})

-----------------------------------------------------------------------------
(* The course of a request *)

\* Incus has no such ACL to change.
NotFound(r) == Head(todo[r]) = "put" /\ incus.acl[Acl(r)] = Absent

\* Mutant of OnError: a change that is refused leaves the VM stopped.
LeaveStopped(r) ==
  CASE Head(todo[r]) \in {"unacl", "close"}        -> Tail(todo[r])
    [] Head(todo[r]) \in {"look", "open", "find"}  -> <<"give">>
    [] NotFound(r)                                 -> <<"post">>
    [] OTHER                                       -> <<>>

\* What is left of a request when a call of it fails.
OnError(r) ==
  CASE Head(todo[r]) \in {"unacl", "close"}        -> Tail(todo[r])
    [] Head(todo[r]) \in {"look", "open", "find"}  -> <<"give">>
    [] Head(todo[r]) = "patch" /\ seen[r].up       -> <<"restart">>
    [] NotFound(r)                                 -> <<"post">>
    [] OTHER                                       -> <<>>

\* Request r goes on with the calls s; w is what it has read, and whoever pushes
\* rules of X pushes old ones.
Overtake(r, s, w, X) ==
  /\ todo' = [todo EXCEPT ![r] = s]
  /\ seen' = [seen EXCEPT ![r] = IF s = <<>> THEN Blank ELSE w]
  /\ job'  = [job EXCEPT ![r] = IF s = <<>> /\ more[r] = {} THEN NoJob ELSE @]
  /\ crossed' = (crossed \cap Pushing') \cup CrossedNow'
                  \cup {q \in Pushing' : job'[q].group \in X}
  /\ UNCHANGED <<more, asked>>
Proceed(r, s, w) == Overtake(r, s, w, {})

\* A push of the rules as they are: the group is there, its rules were read and
\* nobody else pushed.
Sound(r) == Group(r) \in db.row /\ r \notin crossed /\ ~seen[r].blind

\* Whether the failure of call s, with its effect or without, leaves the ACL of
\* the group behind its rules.
Lags(r, s, done) ==
  \/ s \in {"insert", "unacl"} /\ done
  \/ s = "rules" /\ (done \/ job[r].op = "create")
  \/ s \in {"put", "post"} /\ ~NotFound(r) /\ (~done \/ ~Sound(r))
\* Groups whose ACL is named like that of request r's.
Namesakes(r) == {g \in Groups : Slug[g] = Acl(r)}

\* Requests that have read the group of request r to take it off a card.
Unbinding(r) == {q \in Threads : Doing(q, "get") /\ job[q].op = "unbind" /\ Group(q) = Group(r)}

\* The cards call s leaves wrong when it succeeds: the group it deletes is
\* still listed, or about to be taken off when its name may be another's.
Spoiled(r, s) ==
  IF s = "drop"
  THEN {v \in VMs : Acl(r) \in incus.acls[v]} \cup {VM(q) : q \in Unbinding(r)}
  ELSE {}

\* Whether another address than request r's is attached to its VM.
Others(r) == \E f \in Addresses \ {job[r].address} : db.addr[f] = VM(r)

\* Detaching one address closes the filter, whatever else is attached; the next
\* attachment opens it again.
ShutBy(r, s) ==
  CASE s = "close" /\ Others(r) -> shut \cup {VM(r)}
    [] s = "open"               -> shut \ {VM(r)}
    [] OTHER                    -> shut

\* Request r makes call s, which the database and Incus accept or not, and
\* which leads to the tables d and the objects i; or the call fails, with
\* this effect or without.
Call(r, s, accepted, d, i) ==
  LET Fails(done) ==
        /\ IF done THEN db' = d /\ incus' = i ELSE UNCHANGED <<db, incus>>
        /\ Overtake(r, OnError(r), seen[r], IF Lags(r, s, done) THEN Namesakes(r) ELSE {})
        /\ torn' = torn \cup Clashing'
                     \cup (IF <<s, done>> \in Tearing THEN {VM(r)} ELSE {})
                     \cup (IF done THEN Spoiled(r, s) ELSE {})
        /\ shut' = IF done THEN ShutBy(r, s) ELSE shut
        /\ off' = off \cup (IF <<s, done>> \in {<<"stop", TRUE>>, <<"start", FALSE>>,
                                                <<"restart", FALSE>>}
                            THEN {VM(r)} ELSE {})
        /\ behind' = behind \cup (IF Lags(r, s, done) THEN Namesakes(r) ELSE {})
  IN /\ Doing(r, s)
     /\ \/ /\ accepted
           /\ db' = d /\ incus' = i
           /\ Proceed(r, Tail(todo[r]), seen[r])
           /\ torn' = torn \cup Clashing' \cup Spoiled(r, s)
           /\ shut' = ShutBy(r, s)
           /\ off' = IF s \in {"start", "restart"} THEN off \ {VM(r)} ELSE off
           /\ behind' =
                CASE s \in {"put", "post"} /\ Sound(r)  -> behind \ {Group(r)}
                  [] s \in {"put", "post"} /\ ~Sound(r) -> behind \cup Namesakes(r)
                  [] s = "unacl"                        -> behind \cup Namesakes(r)
                  [] OTHER                              -> behind
           /\ UNCHANGED faults
        \/ ~accepted /\ Fails(FALSE) /\ UNCHANGED faults
        \/ /\ faults < MaxFaults /\ faults' = faults + 1
           /\ \E done \in {FALSE, accepted} : Fails(done)

\* Request r reads, goes on with the calls s and remembers w; or the read
\* fails.
Read(r, step, s, w) ==
  /\ Doing(r, step)
  /\ \/ Proceed(r, s, w) /\ torn' = torn \cup Clashing' /\ UNCHANGED faults
     \/ /\ faults < MaxFaults /\ faults' = faults + 1
        /\ Proceed(r, OnError(r), seen[r])
        /\ torn' = torn \cup Clashing'
             \cup (IF <<step, FALSE>> \in Tearing THEN {VM(r)} ELSE {})
  /\ UNCHANGED <<db, incus, off, shut, behind>>

\* A call is made; which free thread serves it makes no difference.
Ask(j) ==
  /\ asked < Budget /\ asked' = asked + 1
  /\ \E r \in Requests : Idle(r)
  /\ LET r == CHOOSE q \in Requests : Idle(q)
     IN /\ job' = [job EXCEPT ![r] = j]
        /\ todo' = [todo EXCEPT ![r] =
                      IF j.op = "defaults" THEN <<"groups">> ELSE Program[j.op]]
  /\ UNCHANGED <<db, incus, seen, more, faults, off, torn, shut, behind, crossed>>

\* ListGroups of the reconciliation, ListDefaultGroups of vm.create.
ListGroups(r) ==
  LET list == IF r = Startup THEN db.row ELSE db.defaults
  IN /\ Doing(r, "groups")
     /\ \/ more' = [more EXCEPT ![r] = list] /\ UNCHANGED faults
        \/ faults < MaxFaults /\ faults' = faults + 1 /\ UNCHANGED more
     /\ todo' = [todo EXCEPT ![r] = <<>>]
     /\ job' = [job EXCEPT ![r] = IF more'[r] = {} THEN NoJob ELSE @]
     /\ UNCHANGED <<db, incus, seen, asked, off, torn, shut, behind, crossed>>

\* The next turn of a loop over groups.
NextGroup(r) ==
  /\ todo[r] = <<>> /\ more[r] # {}
  /\ \E g \in more[r] :
       /\ more' = [more EXCEPT ![r] = @ \ {g}]
       /\ job' = [job EXCEPT ![r].group = g]
  /\ todo' = [todo EXCEPT ![r] = Program[job[r].op]]
  /\ UNCHANGED <<db, incus, seen, asked, faults, off, torn, shut, behind, crossed>>

-----------------------------------------------------------------------------
(* Firewall groups: the tables, and the ACLs of Incus *)

\* GetGroupByID.
GetGroup(r) ==
  Read(r, "group", IF Group(r) \in db.row THEN Tail(todo[r]) ELSE <<>>, seen[r])

\* The insert of CreateGroup: the slug is unique among the rows.
InsertGroup(r) ==
  Call(r, "insert", Group(r) \notin db.used /\ \A g \in db.row : Slug[g] # Acl(r),
       [db EXCEPT !.row = @ \cup {Group(r)}, !.used = @ \cup {Group(r)}], incus)

\* ReplaceRules: a row of rules refers to its group. The replacement is one step:
\* that two transactions which overlap may leave the rows of both, since neither
\* deletes what the other has not committed, is left out.
ReplaceRules(r) ==
  LET wanted == job[r].rules
  IN Call(r, "rules", Group(r) \in db.row \/ wanted = NoRules,
          [db EXCEPT !.rules[Group(r)] = wanted], incus)

\* ListRules of a rename, which goes on without rules when it fails, and of
\* the reconciliation, which leaves the group out.
ListRules(r) ==
  LET Sees(rs, blind) ==
        Proceed(r, Tail(todo[r]), [seen[r] EXCEPT !.rules = rs, !.blind = blind])
  IN /\ Doing(r, "list")
     /\ \/ Sees(db.rules[Group(r)], FALSE) /\ UNCHANGED faults
        \/ /\ faults < MaxFaults /\ faults' = faults + 1
           /\ IF job[r].op = "rename" THEN Sees(NoRules, TRUE)
                                       ELSE Proceed(r, <<>>, seen[r])
     /\ torn' = torn \cup Clashing'
     /\ UNCHANGED <<db, incus, off, shut, behind>>

\* Mutant of Latest: an edit pushes the rules it has read before.
AsRead(r) == IF job[r].op = "create" THEN job[r].rules ELSE seen[r].rules

\* The rules EnsureACL is given.
Latest(r) ==
  IF job[r].op \in {"create", "edit"} THEN job[r].rules ELSE seen[r].rules

\* EnsureACL: the update of the ACL, and its creation when there was none.
PutACL(r) ==
  Call(r, "put", incus.acl[Acl(r)] # Absent,
       db, [incus EXCEPT !.acl[Acl(r)] = Latest(r)])
PostACL(r) ==
  Call(r, "post", incus.acl[Acl(r)] = Absent,
       db, [incus EXCEPT !.acl[Acl(r)] = Latest(r)])

\* CountBindingsForGroup, of the portal's deletion only.
CountBindings(r) ==
  Read(r, "count", IF \E b \in db.bound : b[2] = Group(r) THEN <<>> ELSE Tail(todo[r]),
       seen[r])

\* DeleteACL, whose failure is ignored: Incus keeps an ACL a card lists.
DeleteACL(r) ==
  Call(r, "unacl", \A v \in VMs : Acl(r) \notin incus.acls[v],
       db, [incus EXCEPT !.acl[Acl(r)] = Absent])

\* Mutant of DropGroup: the bindings stay when the row goes.
DropRow(r) ==
  LET g == Group(r)
  IN Call(r, "drop", TRUE,
          [db EXCEPT !.row = @ \ {g}, !.rules[g] = NoRules, !.defaults = @ \ {g}], incus)

\* The delete of DeleteGroup; rules, bindings and defaults go with the row.
DropGroup(r) ==
  LET g == Group(r)
  IN Call(r, "drop", TRUE,
          [db EXCEPT !.row = @ \ {g}, !.rules[g] = NoRules, !.defaults = @ \ {g},
                     !.bound = {b \in @ : b[2] # g}], incus)

\* ReplaceDefaultGroups.
ReplaceDefaults(G) ==
  /\ asked < Budget /\ asked' = asked + 1
  /\ G \subseteq db.row
  /\ db' = [db EXCEPT !.defaults = G]
  /\ UNCHANGED <<incus, job, todo, seen, more, faults, off, torn, shut, behind, crossed>>

-----------------------------------------------------------------------------
(* Cards: bindings and floating addresses *)

\* Mutant of Mutated: a binding replaces the list.
Replaced(r, list) == IF job[r].op = "unbind" THEN list \ {Acl(r)} ELSE {Acl(r)}

\* What a binding or its removal makes of the list of ACLs it has read.
Mutated(r, list) ==
  IF job[r].op = "unbind" THEN list \ {Acl(r)} ELSE list \cup {Acl(r)}

Sight(v) ==
  [acls |-> incus.acls[v], filtered |-> incus.filtered[v],
   up |-> v \in incus.running, rules |-> NoRules, blind |-> FALSE]

\* Mutant of GetInstance: a running VM is changed as it runs.
GetRunning(r) ==
  LET v == VM(r)
      row == todo[r][3]
  IN Read(r, "get",
          IF v \notin incus.living THEN <<>>
          ELSE IF Mutated(r, incus.acls[v]) = incus.acls[v] THEN <<row>>
          ELSE <<"patch", row>>,
          Sight(v))

\* GetInstance of updateVMACLs: without a change the card is left alone, and a
\* running VM is stopped for the change.
GetInstance(r) ==
  LET v == VM(r)
      row == todo[r][3]
  IN Read(r, "get",
          IF v \notin incus.living THEN <<>>
          ELSE IF Mutated(r, incus.acls[v]) = incus.acls[v] THEN <<row>>
          ELSE IF v \in incus.running THEN <<"stop", "patch", "start", row>>
          ELSE <<"patch", row>>,
          Sight(v))

StopVM(r) ==
  Call(r, "stop", VM(r) \in incus.running,
       db, [incus EXCEPT !.running = @ \ {VM(r)}])

\* The PATCH replaces the whole device; Incus knows every ACL it lists.
Writable(v, list) == v \in incus.living /\ \A s \in list : incus.acl[s] # Absent
Card(v, list, filter) ==
  [incus EXCEPT !.acls[v] = list, !.filtered[v] = filter]

PatchACLs(r) ==
  LET list == Mutated(r, seen[r].acls)
  IN Call(r, "patch", Writable(VM(r), list), db, Card(VM(r), list, seen[r].filtered))

\* The start after the change, or after a change that failed: what the card
\* lists is in force from now on.
Started(v) ==
  [incus EXCEPT !.running = @ \cup {v}, !.inForce[v] = incus.acls[v]]
StartVM(r) ==
  \E s \in {"start", "restart"} :
    Call(r, s, VM(r) \in incus.living \ incus.running, db, Started(VM(r)))

\* Bind and Unbind: the row.
BindRow(r) ==
  Call(r, "bind", Group(r) \in db.row,
       [db EXCEPT !.bound = @ \cup {<<VM(r), Group(r)>>}], incus)
UnbindRow(r) ==
  Call(r, "unbind", TRUE, [db EXCEPT !.bound = @ \ {<<VM(r), Group(r)>>}], incus)

\* Mutant of TakeAddress: the row is taken whatever its status.
TakeAny(r) ==
  LET f == job[r].address
  IN Call(r, "take", db.addr[f] # None, [db EXCEPT !.addr[f] = VM(r)], incus)

\* Attach of the repository: the row is taken if it is free.
TakeAddress(r) ==
  LET f == job[r].address
  IN Call(r, "take", db.addr[f] = Available, [db EXCEPT !.addr[f] = VM(r)], incus)

\* detachVerified reads which VM the address is attached to.
ReadHolder(r) ==
  LET v == db.addr[job[r].address]
  IN /\ Doing(r, "holder")
     /\ IF v \in VMs
        THEN /\ job' = [job EXCEPT ![r].vm = v]
             /\ todo' = [todo EXCEPT ![r] = Tail(@)]
        ELSE /\ job' = [job EXCEPT ![r] = NoJob]
             /\ todo' = [todo EXCEPT ![r] = <<>>]
     /\ torn' = torn \cup Clashing'
     /\ UNCHANGED <<db, incus, seen, more, asked, faults, off, shut, behind, crossed>>

\* GetInstance of updateVMFiltering.
LookAtCard(r) ==
  \E s \in {"look", "find"} :
    Read(r, s, IF VM(r) \in incus.living THEN Tail(todo[r]) ELSE OnError(r), Sight(VM(r)))

\* AttachToVM opens the filter of the card, DetachFromVM restores it.
OpenFilter(r) ==
  Call(r, "open", Writable(VM(r), seen[r].acls), db, Card(VM(r), seen[r].acls, FALSE))
CloseFilter(r) ==
  Call(r, "close", Writable(VM(r), seen[r].acls), db, Card(VM(r), seen[r].acls, TRUE))

\* Detach of the repository, by a detachment and by an attachment that failed.
GiveAddress(r) ==
  LET f == job[r].address
  IN Call(r, "give", TRUE,
          [db EXCEPT !.addr[f] = IF @ \in VMs THEN Available ELSE @], incus)

\* Release deletes the row of a free address, Allocate makes one.
ReleaseAddress(r) ==
  LET f == job[r].address
  IN Call(r, "release", db.addr[f] = Available, [db EXCEPT !.addr[f] = None], incus)
Allocate(f) ==
  /\ asked < Budget /\ asked' = asked + 1
  /\ db.addr[f] = None
  /\ db' = [db EXCEPT !.addr[f] = Available]
  /\ UNCHANGED <<incus, job, todo, seen, more, faults, off, torn, shut, behind, crossed>>

-----------------------------------------------------------------------------
(* What else happens *)

\* The user starts or stops a VM.
Power(v) ==
  /\ asked < Budget /\ asked' = asked + 1
  /\ v \in incus.living
  /\ IF v \in incus.running
     THEN /\ incus' = [incus EXCEPT !.running = @ \ {v}]
          /\ off' = off \cup {v}
          /\ UNCHANGED torn
     ELSE /\ incus' = Started(v)
          /\ off' = off \ {v}
          /\ torn' = torn \cup ({VM(r) : r \in Changing} \cap {v})
  /\ UNCHANGED <<db, job, todo, seen, more, faults, shut, behind, crossed>>

\* The instance is deleted; its rows stay.
DeleteVM(v) ==
  /\ asked < Budget /\ asked' = asked + 1
  /\ v \in incus.living
  /\ incus' = [incus EXCEPT !.living = @ \ {v}, !.running = @ \ {v},
                            !.acls[v] = {}, !.inForce[v] = {}, !.filtered[v] = TRUE]
  /\ UNCHANGED <<db, job, todo, seen, more, faults, off, torn, shut, behind, crossed>>

\* ReconcileFirewallOnce is started, and nothing else.
AtStart == [[r \in Threads |-> NoJob] EXCEPT ![Startup].op = "reconcile"]

\* The server restarts: requests and loops end where they are, and the groups
\* are pushed again.
Crash ==
  /\ faults < MaxFaults /\ faults' = faults + 1
  /\ job' = AtStart
  /\ todo' = [r \in Threads |-> IF r = Startup THEN <<"groups">> ELSE <<>>]
  /\ seen' = [r \in Threads |-> Blank]
  /\ more' = [r \in Threads |-> {}]
  /\ crossed' = {}
  /\ torn' = torn \cup {VM(r) : r \in Changing}
  /\ off' = off \cup ({VM(r) : r \in Changing} \ incus.running)
  /\ behind' = behind \cup {Group(r) : r \in Pushing}
  /\ UNCHANGED <<db, incus, asked, shut>>

\* The first start of the server, when a migration has made the groups and
\* nobody their ACLs, or a server that has run for long: the tables and Incus
\* agree.
Init ==
  /\ \E s \in Starts :
       LET listed(v) == {Slug[b[2]] : b \in {c \in s.bound : c[1] = v}}
       IN /\ db = [row |-> s.row, used |-> s.row, bound |-> s.bound,
                   rules |-> [g \in Groups |-> IF g \in s.row THEN Seed ELSE NoRules],
                   defaults |-> {}, addr |-> s.addr]
          /\ incus = [acl |-> [n \in Slugs |->
                                 IF ~s.first /\ \E g \in s.row : Slug[g] = n THEN Seed ELSE Absent],
                      acls |-> [v \in VMs |-> listed(v)],
                      inForce |-> [v \in VMs |-> listed(v)],
                      filtered |-> [v \in VMs |-> \A f \in Addresses : s.addr[f] # v],
                      living |-> VMs, running |-> s.running]
          /\ off = VMs \ s.running
          /\ behind = IF s.first THEN s.row ELSE {}
          /\ job = [r \in Threads |-> IF s.first THEN AtStart[r] ELSE NoJob]
          /\ todo = [r \in Threads |-> IF s.first /\ r = Startup THEN <<"groups">> ELSE <<>>]
  /\ seen = [r \in Threads |-> Blank]
  /\ more = [r \in Threads |-> {}]
  /\ asked = 0 /\ faults = 0
  /\ torn = {} /\ shut = {} /\ crossed = {}

\* The next call of request r.
Step(r) ==
  \/ ListGroups(r) \/ NextGroup(r)
  \/ GetGroup(r) \/ InsertGroup(r) \/ ReplaceRules(r) \/ ListRules(r)
  \/ PutACL(r) \/ PostACL(r) \/ CountBindings(r) \/ DeleteACL(r) \/ DropGroup(r)
  \/ GetInstance(r) \/ StopVM(r) \/ PatchACLs(r) \/ StartVM(r)
  \/ BindRow(r) \/ UnbindRow(r)
  \/ TakeAddress(r) \/ ReadHolder(r) \/ LookAtCard(r) \/ OpenFilter(r)
  \/ CloseFilter(r) \/ GiveAddress(r) \/ ReleaseAddress(r)

Next ==
  \/ \E j \in Calls : Ask(j)
  \/ \E r \in Threads : Step(r)
  \/ \E G \in SUBSET Groups : ReplaceDefaults(G)
  \/ \E f \in Addresses : Allocate(f)
  \/ \E v \in VMs : Power(v) \/ DeleteVM(v)
  \/ Crash

Spec     == Init /\ [][Next]_vars
FairSpec == Spec /\ \A r \in Threads : WF_vars(Step(r))

-----------------------------------------------------------------------------
(* Properties *)

\* Nobody is at a card.
Still(v) == v \in incus.living /\ \A r \in Changing : VM(r) # v

\* "the DB is authoritative": the ACL in Incus holds the rules of its group,
\* unless a request is about to push them, or one that failed, or two at once,
\* left it behind; and the next edit, or the next start of the server, makes
\* good what a failure left (EnsureACL, ReconcileFirewallOnce).
RulesReachIncus ==
  \A g \in db.row \ behind :
    (\A r \in Pushing : Group(r) # g) => incus.acl[Slug[g]] = db.rules[g]

\* The bindings the portal shows are the ACLs the card lists, when nobody is
\* at the card: whatever else fails or is served meanwhile, only a call that
\* failed between the card and the row, two requests at one card, or the
\* deletion of a group in use, or about to be taken off, separates them (BindVM,
\* UnbindVM, portalRunBatch, applyDefaultFirewall).
BindingsMatch ==
  \A v \in VMs \ torn :
    Still(v) => incus.acls[v] = {Slug[b[2]] : b \in {c \in db.bound : c[1] = v}}

\* "Cold-modify required": Incus applies the list when the VM starts, so a
\* running VM is guarded by the ACLs its card lists only if no change is made
\* while it runs (updateVMACLs).
InForce ==
  \A v \in incus.running \ torn : incus.inForce[v] = incus.acls[v]

\* The filter of a card is open exactly while an address is attached to the
\* VM, when nobody is at the card: a request that lost the address to another,
\* or was rolled back, has opened nothing (attachVerified, detachVerified).
\* What separates them, apart from a call that failed half way or two requests
\* at one card, is the detachment of one of two addresses, which closes the
\* filter on the other until the next attachment (shut; AddressesServed).
FilterMatch ==
  \A v \in VMs \ torn :
    Still(v) => (incus.filtered[v] <=> v \in shut \/ \A f \in Addresses : db.addr[f] # v)

\* "Disabling filtering is the simplest way to let the VM serve a secondary
\* IP": a VM at whose card nobody is can serve every address attached to it.
AddressesServed ==
  \A v \in VMs \ torn :
    Still(v) /\ (\E f \in Addresses : db.addr[f] = v) => ~incus.filtered[v]

\* A VM stopped to change its card is started again, whether the change is
\* made or refused, unless the start itself fails (updateVMACLs).
StoppedComesBack ==
  \A v \in VMs :
    (v \in incus.living \ (incus.running \cup off)) ~>
      (v \in incus.running \cup off \/ v \notin incus.living)
=============================================================================
