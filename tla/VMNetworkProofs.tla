--------------------------- MODULE VMNetworkProofs ---------------------------
(***************************************************************************)
(* What VMNetwork.tla promises for every number of VMs, groups, addresses, *)
(* requests and failures: the rules in the database reach Incus, and a     *)
(* card at rest lists the ACLs and has the filter the database says.       *)
(***************************************************************************)
EXTENDS VMNetwork, TLAPS

-----------------------------------------------------------------------------
(* The inductive invariant: where a request can be *)

Ops == {"idle", "create", "edit", "rename", "delete", "portalDelete", "bind", "unbind",
        "attach", "detach", "release", "defaults", "reconcile"}
GroupOps == {"create", "edit", "rename", "delete", "portalDelete"}
CardOps  == {"bind", "unbind", "defaults"}

Op(r) == job[r].op

\* The calls of a binding or its removal from the read of the card on; row is the last of them.
Turns(row) ==
  {<<"get", "patch", row>>, <<"stop", "patch", "start", row>>, <<"patch", "start", row>>,
   <<"start", row>>, <<"patch", row>>, <<row>>, <<"restart">>, <<>>}

\* What a request of each kind may have left.
Course(op) ==
  CASE op = "create"       -> {CreateGroup, <<"rules", "put">>, <<"put">>, <<"post">>, <<>>}
    [] op = "edit"         -> {EditRules, <<"rules", "put">>, <<"put">>, <<"post">>, <<>>}
    [] op = "rename"       -> {UpdateGroup, <<"list", "put">>, <<"put">>, <<"post">>, <<>>}
    [] op = "delete"       -> {DeleteGroup, <<"unacl", "drop">>, <<"drop">>, <<>>}
    [] op = "portalDelete" -> {PortalDeleteGroup, <<"count", "unacl", "drop">>, <<"unacl", "drop">>,
                               <<"drop">>, <<>>}
    [] op = "bind"         -> {BindVM} \cup Turns("bind")
    [] op = "unbind"       -> {UnbindVM} \cup Turns("unbind")
    [] op = "defaults"     -> {<<"groups">>} \cup Turns("bind")
    [] op = "attach"       -> {AttachAddress, <<"look", "open">>, <<"open">>, <<"give">>, <<>>}
    [] op = "detach"       -> {DetachAddress, <<"find", "close", "give">>, <<"close", "give">>,
                               <<"give">>, <<>>}
    [] op = "release"      -> {<<"release">>, <<>>}
    [] op = "reconcile"    -> {<<"groups">>, <<"list", "put">>, <<"put">>, <<"post">>, <<>>}
    [] OTHER               -> {<<>>}

\* What a request is about, by its kind and by how far it has come.
About(j, c) ==
  /\ j.op \in GroupOps => j.vm = None /\ j.group \in Groups /\ j.address = None
  /\ j.op \in {"bind", "unbind"} => j.vm \in VMs /\ j.group \in Groups /\ j.address = None
  /\ j.op = "defaults" => /\ j.vm \in VMs /\ j.address = None
                          /\ c \notin {<<>>, <<"groups">>} => j.group \in Groups
  /\ j.op = "attach" => j.vm \in VMs /\ j.group = None /\ j.address \in Addresses
  /\ j.op = "detach" => /\ j.group = None /\ j.address \in Addresses
                        /\ c # <<>> => IF Head(c) = "holder" THEN j.vm = None ELSE j.vm \in VMs
  /\ j.op = "release" => j.vm = None /\ j.group = None /\ j.address \in Addresses
  /\ j.op = "reconcile" => /\ j.vm = None /\ j.address = None
                           /\ c \notin {<<>>, <<"groups">>} => j.group \in Groups
  /\ j.op = "idle" => j.vm = None /\ j.group = None /\ j.address = None

JobType == [op : Ops, vm : VMs \cup {None}, group : Groups \cup {None},
            address : Addresses \cup {None}, rules : Rules]

Shaped(r) ==
  /\ todo[r] \in Course(Op(r))
  /\ About(job[r], todo[r])
  /\ more[r] # {} => Op(r) \in {"defaults", "reconcile"}

Structure ==
  /\ TypeOK
  /\ job \in [Threads -> JobType]
  /\ \A r \in Threads : Shaped(r)
  /\ \A g, h \in db.row : Slug[g] = Slug[h] => g = h

-----------------------------------------------------------------------------
(* The inductive invariant: rules and ACLs *)

\* What a request is about to push is what its group has, unless another pushes too.
PushTrue(r) ==
  r \in Pushing \ crossed /\ Head(todo[r]) \in {"put", "post"} /\ Group(r) \in db.row
    /\ ~seen[r].blind => Latest(r) = db.rules[Group(r)]

Pushes ==
  /\ \A r \in Threads : PushTrue(r)
  /\ RulesReachIncus

-----------------------------------------------------------------------------
(* The inductive invariant: cards *)

\* The ACLs of the groups a VM is bound to, and whether its filter is to be closed: no address is
\* attached to it, or none but one, or a detachment has closed it on the others.
Bound(v)      == {Slug[b[2]] : b \in {c \in db.bound : c[1] = v}}
Free(v)       == v \in shut \/ \A f \in Addresses : db.addr[f] # v
FreeBut(v, a) == v \in shut \/ \A f \in Addresses \ {a} : db.addr[f] # v

\* What the request at a card has found there and done so far.
CardTrue(r, v) ==
  LET h == Head(todo[r]) IN
  /\ h \in {"stop", "patch", "restart", "look", "open", "find", "close", "give"} =>
       incus.acls[v] = Bound(v)
  /\ h \in {"start", "bind", "unbind"} => incus.acls[v] = Mutated(r, Bound(v))
  /\ h \in {"stop", "patch", "open", "close"} =>
       seen[r].acls = incus.acls[v] /\ seen[r].filtered = incus.filtered[v]
  /\ h = "patch" => v \notin incus.running
  /\ h \in {"look", "open", "give"} => (incus.filtered[v] <=> FreeBut(v, job[r].address))
  /\ h \notin {"look", "open", "give"} => (incus.filtered[v] <=> Free(v))
  /\ Op(r) = "unbind" => Group(r) \in db.row \/ Acl(r) \notin Bound(v)

CardOk(v) ==
  v \in incus.living \ torn =>
    /\ v \in incus.running => incus.inForce[v] = incus.acls[v]
    /\ \A r \in Changing : VM(r) = v => CardTrue(r, v)
    /\ (\A r \in Changing : VM(r) # v) =>
         incus.acls[v] = Bound(v) /\ (incus.filtered[v] <=> Free(v))

\* The address a request has taken, or found attached, is still that of its VM.
HeldTrue(r) ==
  r \in Changing /\ job[r].address # None =>
    /\ db.addr[job[r].address] = VM(r) \/ VM(r) \in torn
    /\ db.addr[job[r].address] \in VMs =>
         db.addr[job[r].address] = VM(r) \/ db.addr[job[r].address] \in torn

\* The group that is about to be taken off a card has not lost its name.
NameTrue(r) ==
  Doing(r, "get") /\ Op(r) = "unbind" => Group(r) \in db.row \/ VM(r) \in torn

Cards ==
  /\ Clashing \subseteq torn
  /\ \A v \in VMs : CardOk(v)
  /\ \A r \in Threads : HeldTrue(r) /\ NameTrue(r)

IInv == Structure /\ Pushes /\ Cards


-----------------------------------------------------------------------------
(* The course of a request                                                 *)

LastRow(op) == IF op = "unbind" THEN "unbind" ELSE "bind"

\* Where a request of each kind can be, and how it goes on.
CourseTrue(op, c) ==
  /\ <<>> \in Course(op) /\ Tail(c) \in Course(op)
  /\ Head(c) = "insert" => op = "create" /\ Tail(c) = <<"rules", "put">>
  /\ Head(c) = "rules" => op \in {"create", "edit"} /\ Tail(c) = <<"put">>
  /\ Head(c) \in {"put", "post"} => /\ op \in {"create", "edit", "rename", "reconcile"}
                                    /\ Tail(c) = <<>> /\ <<"post">> \in Course(op)
  /\ Head(c) = "group" => /\ op \in GroupOps \cup {"bind", "unbind"} /\ Tail(c) # <<>>
                          /\ Head(Tail(c)) \in {"rules", "list", "unacl", "count", "get"}
                          /\ Head(Tail(c)) = "rules" => op = "edit"
  /\ Head(c) = "list" => op \in {"rename", "reconcile"} /\ Tail(c) = <<"put">>
  /\ Head(c) = "count" => op = "portalDelete" /\ Tail(c) = <<"unacl", "drop">>
  /\ Head(c) = "unacl" => op \in {"delete", "portalDelete"} /\ Tail(c) = <<"drop">>
  /\ Head(c) = "drop" => op \in {"delete", "portalDelete"} /\ Tail(c) = <<>>
  /\ Head(c) = "get" => /\ op \in CardOps /\ c[3] = LastRow(op)
                        /\ <<LastRow(op)>> \in Course(op)
                        /\ <<"patch", LastRow(op)>> \in Course(op)
                        /\ <<"stop", "patch", "start", LastRow(op)>> \in Course(op)
  /\ Head(c) = "stop" => op \in CardOps /\ Tail(c) = <<"patch", "start", LastRow(op)>>
  /\ Head(c) = "patch" => /\ op \in CardOps /\ <<"restart">> \in Course(op)
                          /\ Tail(c) \in {<<"start", LastRow(op)>>, <<LastRow(op)>>}
  /\ Head(c) = "start" => op \in CardOps /\ Tail(c) = <<LastRow(op)>>
  /\ Head(c) = "restart" => op \in CardOps /\ Tail(c) = <<>>
  /\ Head(c) \in {"bind", "unbind"} => op \in CardOps /\ Head(c) = LastRow(op) /\ Tail(c) = <<>>
  /\ Head(c) = "take" => op = "attach" /\ Tail(c) = <<"look", "open">>
  /\ Head(c) = "holder" => /\ op = "detach" /\ c = DetachAddress
                           /\ Tail(c) = <<"find", "close", "give">>
  /\ Head(c) = "look" => op = "attach" /\ Tail(c) = <<"open">> /\ <<"give">> \in Course(op)
  /\ Head(c) = "open" => op = "attach" /\ Tail(c) = <<>> /\ <<"give">> \in Course(op)
  /\ Head(c) = "find" => op = "detach" /\ Tail(c) = <<"close", "give">> /\ <<"give">> \in Course(op)
  /\ Head(c) = "close" => op = "detach" /\ Tail(c) = <<"give">>
  /\ Head(c) = "give" => op \in {"attach", "detach"} /\ Tail(c) = <<>>
  /\ Head(c) = "release" => op = "release" /\ Tail(c) = <<>>
  /\ Head(c) = "groups" => op \in {"defaults", "reconcile"} /\ c = <<"groups">>
  /\ Head(c) \in {"insert", "rules", "put", "post", "group", "list", "count", "unacl", "drop",
                  "get", "stop", "patch", "start", "restart", "bind", "unbind", "take", "holder",
                  "look", "open", "find", "close", "give", "release", "groups"}

LEMMA Courses ==
  ASSUME NEW op \in Ops, NEW c \in Course(op), c # <<>>
  PROVE  CourseTrue(op, c)
  <1> USE DEF CourseTrue, LastRow, GroupOps, CardOps
  <1>1. CASE op = "create"
    <2>1. CASE c = CreateGroup
      BY <1>1, <2>1 DEF Course, CreateGroup
    <2>2. CASE c = <<"rules", "put">>
      BY <1>1, <2>2 DEF Course, CreateGroup
    <2>3. CASE c = <<"put">>
      BY <1>1, <2>3 DEF Course, CreateGroup
    <2>4. CASE c = <<"post">>
      BY <1>1, <2>4 DEF Course, CreateGroup
    <2> QED BY <1>1, <2>1, <2>2, <2>3, <2>4 DEF Course
  <1>2. CASE op = "edit"
    <2>1. CASE c = EditRules
      BY <1>2, <2>1 DEF Course, EditRules
    <2>2. CASE c = <<"rules", "put">>
      BY <1>2, <2>2 DEF Course, EditRules
    <2>3. CASE c = <<"put">>
      BY <1>2, <2>3 DEF Course, EditRules
    <2>4. CASE c = <<"post">>
      BY <1>2, <2>4 DEF Course, EditRules
    <2> QED BY <1>2, <2>1, <2>2, <2>3, <2>4 DEF Course
  <1>3. CASE op = "rename"
    <2>1. CASE c = UpdateGroup
      BY <1>3, <2>1 DEF Course, UpdateGroup
    <2>2. CASE c = <<"list", "put">>
      BY <1>3, <2>2 DEF Course, UpdateGroup
    <2>3. CASE c = <<"put">>
      BY <1>3, <2>3 DEF Course, UpdateGroup
    <2>4. CASE c = <<"post">>
      BY <1>3, <2>4 DEF Course, UpdateGroup
    <2> QED BY <1>3, <2>1, <2>2, <2>3, <2>4 DEF Course
  <1>4. CASE op = "delete"
    <2>1. CASE c = DeleteGroup
      BY <1>4, <2>1 DEF Course, DeleteGroup
    <2>2. CASE c = <<"unacl", "drop">>
      BY <1>4, <2>2 DEF Course, DeleteGroup
    <2>3. CASE c = <<"drop">>
      BY <1>4, <2>3 DEF Course, DeleteGroup
    <2> QED BY <1>4, <2>1, <2>2, <2>3 DEF Course
  <1>5. CASE op = "portalDelete"
    <2>1. CASE c = PortalDeleteGroup
      BY <1>5, <2>1 DEF Course, PortalDeleteGroup
    <2>2. CASE c = <<"count", "unacl", "drop">>
      BY <1>5, <2>2 DEF Course, PortalDeleteGroup
    <2>3. CASE c = <<"unacl", "drop">>
      BY <1>5, <2>3 DEF Course, PortalDeleteGroup
    <2>4. CASE c = <<"drop">>
      BY <1>5, <2>4 DEF Course, PortalDeleteGroup
    <2> QED BY <1>5, <2>1, <2>2, <2>3, <2>4 DEF Course
  <1>6. CASE op = "attach"
    <2>1. CASE c = AttachAddress
      BY <1>6, <2>1 DEF Course, AttachAddress
    <2>2. CASE c = <<"look", "open">>
      BY <1>6, <2>2 DEF Course, AttachAddress
    <2>3. CASE c = <<"open">>
      BY <1>6, <2>3 DEF Course, AttachAddress
    <2>4. CASE c = <<"give">>
      BY <1>6, <2>4 DEF Course, AttachAddress
    <2> QED BY <1>6, <2>1, <2>2, <2>3, <2>4 DEF Course
  <1>7. CASE op = "detach"
    <2>1. CASE c = DetachAddress
      BY <1>7, <2>1 DEF Course, DetachAddress
    <2>2. CASE c = <<"find", "close", "give">>
      BY <1>7, <2>2 DEF Course, DetachAddress
    <2>3. CASE c = <<"close", "give">>
      BY <1>7, <2>3 DEF Course, DetachAddress
    <2>4. CASE c = <<"give">>
      BY <1>7, <2>4 DEF Course, DetachAddress
    <2> QED BY <1>7, <2>1, <2>2, <2>3, <2>4 DEF Course
  <1>8. CASE op = "release"
    <2>1. CASE c = <<"release">>
      BY <1>8, <2>1 DEF Course
    <2> QED BY <1>8, <2>1 DEF Course
  <1>9. CASE op = "reconcile"
    <2>1. CASE c = <<"groups">>
      BY <1>9, <2>1 DEF Course
    <2>2. CASE c = <<"list", "put">>
      BY <1>9, <2>2 DEF Course
    <2>3. CASE c = <<"put">>
      BY <1>9, <2>3 DEF Course
    <2>4. CASE c = <<"post">>
      BY <1>9, <2>4 DEF Course
    <2> QED BY <1>9, <2>1, <2>2, <2>3, <2>4 DEF Course
  <1>10. CASE op = "bind"
    <2>1. CASE c = BindVM
      BY <1>10, <2>1 DEF Course, BindVM, Turns
    <2>2. CASE c = <<"get", "patch", "bind">>
      BY <1>10, <2>2 DEF Course, BindVM, Turns
    <2>3. CASE c = <<"stop", "patch", "start", "bind">>
      BY <1>10, <2>3 DEF Course, BindVM, Turns
    <2>4. CASE c = <<"patch", "start", "bind">>
      BY <1>10, <2>4 DEF Course, BindVM, Turns
    <2>5. CASE c = <<"start", "bind">>
      BY <1>10, <2>5 DEF Course, BindVM, Turns
    <2>6. CASE c = <<"patch", "bind">>
      BY <1>10, <2>6 DEF Course, BindVM, Turns
    <2>7. CASE c = <<"bind">>
      BY <1>10, <2>7 DEF Course, BindVM, Turns
    <2>8. CASE c = <<"restart">>
      BY <1>10, <2>8 DEF Course, BindVM, Turns
    <2> QED BY <1>10, <2>1, <2>2, <2>3, <2>4, <2>5, <2>6, <2>7, <2>8 DEF Course, Turns
  <1>11. CASE op = "unbind"
    <2>1. CASE c = UnbindVM
      BY <1>11, <2>1 DEF Course, UnbindVM, Turns
    <2>2. CASE c = <<"get", "patch", "unbind">>
      BY <1>11, <2>2 DEF Course, UnbindVM, Turns
    <2>3. CASE c = <<"stop", "patch", "start", "unbind">>
      BY <1>11, <2>3 DEF Course, UnbindVM, Turns
    <2>4. CASE c = <<"patch", "start", "unbind">>
      BY <1>11, <2>4 DEF Course, UnbindVM, Turns
    <2>5. CASE c = <<"start", "unbind">>
      BY <1>11, <2>5 DEF Course, UnbindVM, Turns
    <2>6. CASE c = <<"patch", "unbind">>
      BY <1>11, <2>6 DEF Course, UnbindVM, Turns
    <2>7. CASE c = <<"unbind">>
      BY <1>11, <2>7 DEF Course, UnbindVM, Turns
    <2>8. CASE c = <<"restart">>
      BY <1>11, <2>8 DEF Course, UnbindVM, Turns
    <2> QED BY <1>11, <2>1, <2>2, <2>3, <2>4, <2>5, <2>6, <2>7, <2>8 DEF Course, Turns
  <1>12. CASE op = "defaults"
    <2>1. CASE c = <<"groups">>
      BY <1>12, <2>1 DEF Course, Turns
    <2>2. CASE c = <<"get", "patch", "bind">>
      BY <1>12, <2>2 DEF Course, Turns
    <2>3. CASE c = <<"stop", "patch", "start", "bind">>
      BY <1>12, <2>3 DEF Course, Turns
    <2>4. CASE c = <<"patch", "start", "bind">>
      BY <1>12, <2>4 DEF Course, Turns
    <2>5. CASE c = <<"start", "bind">>
      BY <1>12, <2>5 DEF Course, Turns
    <2>6. CASE c = <<"patch", "bind">>
      BY <1>12, <2>6 DEF Course, Turns
    <2>7. CASE c = <<"bind">>
      BY <1>12, <2>7 DEF Course, Turns
    <2>8. CASE c = <<"restart">>
      BY <1>12, <2>8 DEF Course, Turns
    <2> QED BY <1>12, <2>1, <2>2, <2>3, <2>4, <2>5, <2>6, <2>7, <2>8 DEF Course, Turns
  <1>13. CASE op = "idle"
    BY <1>13 DEF Course
  <1> QED BY <1>1, <1>2, <1>3, <1>4, <1>5, <1>6, <1>7, <1>8, <1>9, <1>10, <1>11, <1>12, <1>13 DEF Ops

SeenType == [acls : SUBSET Slugs, filtered : BOOLEAN, up : BOOLEAN, rules : Rules, blind : BOOLEAN]

\* The tables and Incus as they should be.
TablesOk(d) ==
  /\ d \in [row : SUBSET Groups, rules : [Groups -> Rules],
            bound : SUBSET (VMs \X Groups), defaults : SUBSET Groups,
            addr : [Addresses -> VMs \cup {Available, None}], used : SUBSET Groups]
  /\ d.row \subseteq d.used /\ d.defaults \subseteq d.row
  /\ \A b \in d.bound : b[2] \in d.row
  /\ \A g, h \in d.row : Slug[g] = Slug[h] => g = h
IncusOk(i) ==
  /\ i \in [acl : [Slugs -> Rules \cup {Absent}], acls : [VMs -> SUBSET Slugs],
            inForce : [VMs -> SUBSET Slugs], filtered : [VMs -> BOOLEAN],
            living : SUBSET VMs, running : SUBSET VMs]
  /\ i.running \subseteq i.living
  /\ \A v \in VMs : \A s \in i.acls[v] : i.acl[s] # Absent

AtCard   == {"get", "stop", "patch", "start", "restart", "bind", "unbind"}
AtFilter == {"look", "open", "find", "close"}
OfGroup  == {"insert", "rules", "put", "post", "group", "list", "count", "unacl", "drop"}

\* The VM, the group and the address a request at each call is about.
LEMMA Where ==
  ASSUME Structure, NEW r \in Threads, todo[r] # <<>>
  PROVE  /\ job[r] \in JobType /\ Op(r) \in Ops /\ todo[r] \in Course(Op(r))
         /\ seen[r] \in SeenType /\ job[r].rules \in Rules
         /\ Head(todo[r]) \in AtCard =>
              Op(r) \in CardOps /\ VM(r) \in VMs /\ Group(r) \in Groups /\ job[r].address = None
         /\ Head(todo[r]) \in OfGroup => Group(r) \in Groups
         /\ Head(todo[r]) \in OfGroup /\ Head(todo[r]) # "group" => VM(r) = None
         /\ Head(todo[r]) \in AtFilter \cup {"take", "give"} =>
              VM(r) \in VMs /\ Group(r) = None /\ job[r].address \in Addresses
         /\ Head(todo[r]) \in {"holder", "release"} =>
              VM(r) = None /\ Group(r) = None /\ job[r].address \in Addresses
  <1>1. /\ job[r] \in JobType /\ Op(r) \in Ops /\ todo[r] \in Course(Op(r)) /\ About(job[r], todo[r])
        /\ seen[r] \in SeenType /\ job[r].rules \in Rules
    BY DEF Structure, Shaped, Op, JobType, TypeOK, SeenType
  <1> DEFINE c == todo[r]
             op == Op(r)
  <1>2. /\ Head(c) = "group" => op \in GroupOps \cup {"bind", "unbind"}
        /\ Head(c) = "get" => op \in CardOps
        /\ Head(c) \in {"stop", "patch", "start", "restart", "bind", "unbind"} => op \in CardOps
        /\ Head(c) \in {"insert", "rules", "count", "unacl", "drop"} => op \in GroupOps
        /\ Head(c) \in {"put", "post", "list"} => op \in GroupOps \cup {"reconcile"}
        /\ Head(c) \in {"look", "open", "take"} => op = "attach"
        /\ Head(c) \in {"find", "close"} => op = "detach"
        /\ Head(c) = "give" => op \in {"attach", "detach"}
        /\ Head(c) = "holder" => op = "detach" /\ c = DetachAddress
        /\ Head(c) = "release" => op = "release"
    <2> HIDE DEF c, op
    <2>1. op \in Ops /\ c \in Course(op) /\ c # <<>>
      BY <1>1 DEF c, op
    <2>2. CourseTrue(op, c)
      BY <2>1, Courses
    <2> QED BY <2>2 DEF CourseTrue, GroupOps
  <1>3. c = <<"groups">> => Head(c) = "groups"
    OBVIOUS
  <1>5. None \notin VMs /\ None \notin Groups /\ None \notin Addresses
    BY VMNetworkAssumption
  <1> HIDE DEF c, op
  <1>6. About(job[r], c) /\ job[r].op = op /\ c # <<>>
    BY <1>1 DEF c, op, Op
  <1>7. Head(c) \in AtCard =>
              op \in CardOps /\ VM(r) \in VMs /\ Group(r) \in Groups /\ job[r].address = None
    BY <1>2, <1>3, <1>6 DEF AtCard, About, VM, Group, CardOps
  <1>8. Head(c) \in OfGroup => Group(r) \in Groups
    BY <1>2, <1>3, <1>6 DEF OfGroup, About, VM, Group, GroupOps
  <1>9. Head(c) \in OfGroup /\ Head(c) # "group" => VM(r) = None
    BY <1>2, <1>3, <1>6 DEF OfGroup, About, VM, Group, GroupOps
  <1>10. Head(c) \in AtFilter \cup {"take", "give"} =>
              VM(r) \in VMs /\ Group(r) = None /\ job[r].address \in Addresses
    BY <1>2, <1>6 DEF AtFilter, About, VM, Group
  <1>11. Head(c) \in {"holder", "release"} =>
              VM(r) = None /\ Group(r) = None /\ job[r].address \in Addresses
    BY <1>2, <1>6 DEF About, VM, Group
  <1> QED BY <1>1, <1>7, <1>8, <1>9, <1>10, <1>11 DEF c, op

\* A request goes on, or ends: it stays one of its kind.
LEMMA Onward ==
  ASSUME Structure, NEW r \in Threads, todo[r] # <<>>, Head(todo[r]) \notin {"groups", "holder"},
         NEW s \in {Tail(todo[r]), OnError(r), <<>>}
  PROVE  s \in Course(Op(r)) /\ About(job[r], s)
  <1> DEFINE c == todo[r]
             op == Op(r)
  <1>1. /\ job[r] \in JobType /\ job[r].op = op /\ op \in Ops
        /\ c \in Course(op) /\ c # <<>> /\ About(job[r], c)
    BY DEF Structure, Shaped, Op, JobType
  <1>2. /\ Head(c) \in {"look", "open", "find"} => <<"give">> \in Course(op)
        /\ Head(c) = "patch" => <<"restart">> \in Course(op)
        /\ Head(c) = "put" => <<"post">> \in Course(op)
        /\ <<>> \in Course(op) /\ Tail(c) \in Course(op)
    <2> HIDE DEF c, op
    <2> QED BY <1>1, Courses DEF CourseTrue
  <1>3. OnError(r) \in {Tail(c), <<>>, <<"give">>, <<"restart">>, <<"post">>}
    BY DEF OnError
  <1>4. s \in Course(op)
    BY <1>2 DEF OnError, NotFound
  <1>5. op = "detach" => s \in {<<"close", "give">>, <<"give">>, <<>>}
    <2> SUFFICES ASSUME op = "detach" PROVE s \in {<<"close", "give">>, <<"give">>, <<>>}
      OBVIOUS
    <2>1. Head(c) \in {"find", "close", "give"}
      <3>1. Head(c) # "holder"
        OBVIOUS
      <3> HIDE DEF c, op
      <3>2. CourseTrue(op, c)
        BY <1>1, Courses
      <3>3. Head(c) \in {"group", "count", "get", "stop", "patch", "start", "restart", "bind", "unbind",
                         "insert", "rules", "put", "post", "list", "unacl", "drop", "groups"} =>
              op \in GroupOps \cup CardOps \cup {"defaults", "reconcile"}
        BY ONLY <3>2 DEF CourseTrue, GroupOps, CardOps
      <3>4. Head(c) \in {"take", "look", "open", "release"} => op \in {"attach", "release"}
        BY ONLY <3>2 DEF CourseTrue
      <3>5. op \notin GroupOps \cup CardOps \cup {"defaults", "reconcile", "attach", "release"}
        BY DEF GroupOps, CardOps
      <3>6. Head(c) \in {"insert", "rules", "put", "post", "group", "list", "count", "unacl", "drop",
                         "get", "stop", "patch", "start", "restart", "bind", "unbind", "take", "holder",
                         "look", "open", "find", "close", "give", "release", "groups"}
        BY ONLY <3>2 DEF CourseTrue
      <3> QED BY ONLY <3>1, <3>3, <3>4, <3>5, <3>6
    <2>2. /\ Head(c) = "find" => Tail(c) = <<"close", "give">>
          /\ Head(c) = "close" => Tail(c) = <<"give">>
          /\ Head(c) = "give" => Tail(c) = <<>>
      <3> HIDE DEF c, op
      <3> QED BY <1>1, Courses DEF CourseTrue
    <2> QED BY <2>1, <2>2 DEF OnError, NotFound
  <1>6. op = "detach" => s = <<>> \/ Head(s) # "holder"
    <2>1. CASE s = <<"close", "give">>
      BY <2>1
    <2>2. CASE s = <<"give">>
      BY <2>2
    <2> QED BY <1>5, <2>1, <2>2
  <1>7. c # <<"groups">> /\ Head(c) # "holder"
    OBVIOUS
  <1> HIDE DEF c, op
  <1>8. About(job[r], s)
    BY <1>1, <1>6, <1>7 DEF About
  <1> QED BY <1>4, <1>8 DEF op

-----------------------------------------------------------------------------
(* Every step leaves the structure *)

\* The rest of the structure: what the requests and the history have.
Rest ==
  /\ DOMAIN job = Threads /\ DOMAIN todo = Threads
  /\ job \in [Threads -> JobType] /\ seen \in [Threads -> SeenType]
  /\ more \in [Threads -> SUBSET Groups]
  /\ asked \in 0..Budget /\ faults \in 0..MaxFaults
  /\ off \subseteq VMs /\ torn \subseteq VMs /\ shut \subseteq VMs
  /\ behind \subseteq Groups /\ crossed \subseteq Threads
  /\ \A r \in Threads : Shaped(r)

LEMMA Parts == Structure <=> TablesOk(db) /\ IncusOk(incus) /\ Rest
  BY DEF Structure, TypeOK, TablesOk, IncusOk, Rest, SeenType, JobType
LEMMA PartsAfter == Structure' <=> TablesOk(db') /\ IncusOk(incus') /\ Rest'
  BY DEF Structure, TypeOK, TablesOk, IncusOk, Rest, SeenType, JobType, Shaped, About, Op

LEMMA ThreadsOk == Startup \in Threads /\ Requests \subseteq Threads
  BY DEF Threads
LEMMA PlainOk == NoJob \in JobType /\ Blank \in SeenType
  BY VMNetworkAssumption DEF NoJob, Blank, JobType, SeenType, Ops

\* The cards that requests are at are those of VMs.
LEMMA Changers ==
  ASSUME job \in [Threads -> JobType]
  PROVE  /\ Clashing \subseteq VMs
         /\ \A r \in Threads : VM(r) # None => VM(r) \in VMs
         /\ {VM(r) : r \in Changing} \subseteq VMs
  <1>1. \A r \in Threads : VM(r) # None => VM(r) \in VMs
    BY DEF VM, JobType
  <1> QED BY <1>1 DEF Clashing, Changing
LEMMA ChangersAfter ==
  ASSUME job' \in [Threads -> JobType]
  PROVE  Clashing' \subseteq VMs
  <1>1. \A r \in Threads : VM(r)' # None => VM(r)' \in VMs
    BY DEF VM, JobType
  <1> QED BY <1>1 DEF Clashing, Changing

\* A request goes on with the calls s: the others stay as they are.
LEMMA GoesOn ==
  ASSUME Structure, NEW r \in Threads, NEW s, NEW w, NEW X, Overtake(r, s, w, X)
  PROVE  /\ \A q \in Threads \ {r} : todo'[q] = todo[q] /\ job'[q] = job[q] /\ seen'[q] = seen[q]
         /\ todo'[r] = s
         /\ s # <<>> => job'[r] = job[r] /\ seen'[r] = w
         /\ s = <<>> => seen'[r] = Blank /\ job'[r] = IF more[r] = {} THEN NoJob ELSE job[r]
         /\ more' = more /\ asked' = asked
         /\ DOMAIN job' = Threads /\ DOMAIN todo' = Threads /\ DOMAIN seen' = Threads
  BY DEF Structure, TypeOK, Overtake

LEMMA GoesOnShaped ==
  ASSUME Structure, NEW r \in Threads, NEW s, NEW w, NEW X, Overtake(r, s, w, X),
         s \in Course(Op(r)), About(job[r], s), s = <<>> \/ w \in SeenType
  PROVE  /\ DOMAIN job' = Threads /\ DOMAIN todo' = Threads
         /\ job' \in [Threads -> JobType] /\ seen' \in [Threads -> SeenType]
         /\ more' \in [Threads -> SUBSET Groups] /\ asked' \in 0..Budget
         /\ crossed' \subseteq Threads
         /\ \A q \in Threads : Shaped(q)'
  <1> USE GoesOn
  <1>1. Rest
    BY Parts
  <1>2. DOMAIN job' = Threads /\ DOMAIN todo' = Threads /\ DOMAIN seen' = Threads
    OBVIOUS
  <1>3. more' \in [Threads -> SUBSET Groups] /\ asked' \in 0..Budget
    BY <1>1 DEF Rest
  <1>4. job'[r] \in JobType /\ seen'[r] \in SeenType
    BY <1>1, PlainOk DEF Rest
  <1>5. job' \in [Threads -> JobType]
    <2>1. \A q \in Threads : job'[q] \in JobType
      BY <1>1, <1>4 DEF Rest
    <2>2. job' = [q \in Threads |-> job'[q]]
      BY DEF Overtake, Structure
    <2> HIDE GoesOn
    <2> QED BY <2>1, <2>2
  <1>6. seen' \in [Threads -> SeenType]
    <2>1. \A q \in Threads : seen'[q] \in SeenType
      BY <1>1, <1>4 DEF Rest
    <2>2. seen' = [q \in Threads |-> seen'[q]]
      BY <1>1 DEF Overtake, Rest
    <2> HIDE GoesOn
    <2> QED BY <2>1, <2>2
  <1>7. crossed' \subseteq Threads
    BY DEF Overtake, Pushing, CrossedNow
  <1>8. ASSUME NEW q \in Threads PROVE Shaped(q)'
    <2>1. CASE q # r
      BY <2>1, <1>1 DEF Rest, Shaped, Op
    <2>2. CASE q = r /\ s # <<>>
      BY <2>2, <1>1 DEF Rest, Shaped, Op
    <2>3. CASE q = r /\ s = <<>> /\ more[r] # {}
      BY <2>3, <1>1 DEF Rest, Shaped, Op
    <2>4. CASE q = r /\ s = <<>> /\ more[r] = {}
      <3>1. job'[r] = NoJob /\ todo'[r] = <<>> /\ more'[r] = {}
        BY <2>4
      <3>2. <<>> \in Course("idle")
        BY DEF Course
      <3>3. About(NoJob, <<>>)
        BY DEF About, NoJob, GroupOps
      <3>4. Op(r)' = "idle"
        BY <3>1 DEF Op, NoJob
      <3> QED BY <2>4, <3>1, <3>2, <3>3, <3>4 DEF Shaped
    <2> QED BY <2>1, <2>2, <2>3, <2>4
  <1> QED BY <1>2, <1>3, <1>5, <1>6, <1>7, <1>8

\* A call succeeds, or fails with its effect or without.
Made(r, s, d, i) ==
  /\ db' = d /\ incus' = i
  /\ Proceed(r, Tail(todo[r]), seen[r])
  /\ torn' = torn \cup Clashing' \cup Spoiled(r, s)
  /\ shut' = ShutBy(r, s)
  /\ off' = IF s \in {"start", "restart"} THEN off \ {VM(r)} ELSE off
  /\ behind' = CASE s \in {"put", "post"} /\ Sound(r)  -> behind \ {Group(r)}
                 [] s \in {"put", "post"} /\ ~Sound(r) -> behind \cup Namesakes(r)
                 [] s = "unacl"                        -> behind \cup Namesakes(r)
                 [] OTHER                              -> behind
  /\ UNCHANGED faults
Failed(r, s, done, d, i) ==
  /\ IF done THEN db' = d /\ incus' = i ELSE UNCHANGED <<db, incus>>
  /\ Overtake(r, OnError(r), seen[r], IF Lags(r, s, done) THEN Namesakes(r) ELSE {})
  /\ torn' = torn \cup Clashing'
               \cup (IF <<s, done>> \in Tearing THEN {VM(r)} ELSE {})
               \cup (IF done THEN Spoiled(r, s) ELSE {})
  /\ shut' = IF done THEN ShutBy(r, s) ELSE shut
  /\ off' = off \cup (IF <<s, done>> \in {<<"stop", TRUE>>, <<"start", FALSE>>,
                                          <<"restart", FALSE>>}
                      THEN {VM(r)} ELSE {})
  /\ behind' = behind \cup (IF Lags(r, s, done) THEN Namesakes(r) ELSE {})
  /\ faults' \in 0..MaxFaults

LEMMA CallCases ==
  ASSUME Structure, NEW r \in Threads, NEW s, NEW accepted \in BOOLEAN, NEW d, NEW i,
         Call(r, s, accepted, d, i)
  PROVE  /\ todo[r] # <<>> /\ Head(todo[r]) = s
         /\ \/ accepted /\ Made(r, s, d, i)
            \/ Failed(r, s, FALSE, d, i)
            \/ accepted /\ Failed(r, s, TRUE, d, i)
  <1>1. todo[r] # <<>> /\ Head(todo[r]) = s
    BY DEF Call, Doing
  <1>2. faults \in 0..MaxFaults /\ MaxFaults \in Nat
    BY VMNetworkAssumption DEF Structure, TypeOK
  <1>3. faults < MaxFaults => faults + 1 \in 0..MaxFaults
    BY <1>2
  <1>4. CASE accepted
    <2>1. \/ Made(r, s, d, i)
          \/ \E done \in {FALSE, TRUE} : Failed(r, s, done, d, i)
      BY <1>2, <1>3, <1>4 DEF Call, Made, Failed
    <2> QED BY <1>1, <1>4, <2>1
  <1>5. CASE ~accepted
    <2>1. accepted = FALSE
      BY <1>5
    <2>2. \/ UNCHANGED faults
          \/ faults < MaxFaults /\ faults' = faults + 1
      BY <1>5 DEF Call
    <2>3. faults' \in 0..MaxFaults
      BY <1>2, <1>3, <2>2
    <2>4. /\ UNCHANGED <<db, incus>>
          /\ Overtake(r, OnError(r), seen[r], IF Lags(r, s, FALSE) THEN Namesakes(r) ELSE {})
          /\ torn' = torn \cup Clashing'
                       \cup (IF <<s, FALSE>> \in Tearing THEN {VM(r)} ELSE {})
          /\ shut' = shut
          /\ off' = off \cup (IF <<s, FALSE>> \in {<<"stop", TRUE>>, <<"start", FALSE>>,
                                                  <<"restart", FALSE>>}
                              THEN {VM(r)} ELSE {})
          /\ behind' = behind \cup (IF Lags(r, s, FALSE) THEN Namesakes(r) ELSE {})
      BY <2>1 DEF Call
    <2>5. Failed(r, s, FALSE, d, i)
      BY <2>3, <2>4 DEF Failed
    <2> QED BY <1>1, <2>5
  <1> QED BY <1>4, <1>5

\* What the calls that name a VM have in common.
LEMMA TornIsVMs ==
  ASSUME Structure, NEW r \in Threads, todo[r] # <<>>, NEW done
  PROVE  /\ <<Head(todo[r]), done>> \in Tearing => VM(r) \in VMs
         /\ <<Head(todo[r]), done>> \in {<<"stop", TRUE>>, <<"start", FALSE>>, <<"restart", FALSE>>}
              => VM(r) \in VMs
         /\ Spoiled(r, Head(todo[r])) \subseteq VMs /\ ShutBy(r, Head(todo[r])) \subseteq VMs
         /\ Namesakes(r) \subseteq Groups
  <1>1. Namesakes(r) \subseteq Groups
    BY DEF Namesakes
  <1>2. <<Head(todo[r]), done>> \in Tearing =>
          Head(todo[r]) \in {"start", "patch", "take", "open", "bind", "unbind", "find", "close", "give"}
    BY DEF Tearing
  <1>3. <<Head(todo[r]), done>> \in {<<"stop", TRUE>>, <<"start", FALSE>>, <<"restart", FALSE>>}
              => Head(todo[r]) \in {"stop", "start", "restart"}
    OBVIOUS
  <1>4. Head(todo[r]) \in {"start", "patch", "take", "open", "bind", "unbind", "find", "close", "give",
                           "stop", "restart"} => VM(r) \in VMs
    BY Where DEF AtCard, AtFilter
  <1>5. \A q \in Unbinding(r) : VM(q) \in VMs
    <2> SUFFICES ASSUME NEW q \in Unbinding(r) PROVE VM(q) \in VMs
      OBVIOUS
    <2>1. q \in Threads /\ todo[q] # <<>> /\ Head(todo[q]) = "get"
      BY DEF Unbinding, Doing
    <2> QED BY <2>1, Where DEF AtCard
  <1>6. Spoiled(r, Head(todo[r])) \subseteq VMs
    BY <1>5 DEF Spoiled
  <1>7. ShutBy(r, Head(todo[r])) \subseteq VMs
    <2>1. shut \subseteq VMs
      BY DEF Structure, TypeOK
    <2>2. Head(todo[r]) = "close" => VM(r) \in VMs
      BY <1>4
    <2> QED BY <2>1, <2>2 DEF ShutBy
  <1> QED BY <1>1, <1>2, <1>3, <1>4, <1>6, <1>7

\* A call that leads to tables and cards as they should be leaves the structure.
LEMMA CallKeeps ==
  ASSUME Structure, NEW r \in Threads, NEW s, NEW accepted \in BOOLEAN, NEW d, NEW i,
         Call(r, s, accepted, d, i), s \notin {"groups", "holder"},
         accepted => TablesOk(d) /\ IncusOk(i)
  PROVE  Structure'
  <1>1. todo[r] # <<>> /\ Head(todo[r]) = s /\ Head(todo[r]) \notin {"groups", "holder"}
    BY CallCases
  <1>2. TablesOk(db) /\ IncusOk(incus) /\ Rest
    BY Parts
  <1>3. /\ OnError(r) \in Course(Op(r)) /\ About(job[r], OnError(r))
        /\ Tail(todo[r]) \in Course(Op(r)) /\ About(job[r], Tail(todo[r]))
    BY <1>1, Onward
  <1>4. seen[r] \in SeenType
    BY <1>2 DEF Rest
  <1>5. ASSUME accepted, Made(r, s, d, i) PROVE Structure'
    <2>1. TablesOk(db') /\ IncusOk(incus')
      BY <1>5 DEF Made
    <2>2. Overtake(r, Tail(todo[r]), seen[r], {})
      BY <1>5 DEF Made, Proceed
    <2>3. /\ DOMAIN job' = Threads /\ DOMAIN todo' = Threads
          /\ job' \in [Threads -> JobType] /\ seen' \in [Threads -> SeenType]
          /\ more' \in [Threads -> SUBSET Groups] /\ asked' \in 0..Budget
          /\ crossed' \subseteq Threads
          /\ \A q \in Threads : Shaped(q)'
      BY <1>3, <1>4, <2>2, GoesOnShaped
    <2>4. torn' \subseteq VMs
      BY <1>1, <1>2, <1>5, <2>3, TornIsVMs, ChangersAfter DEF Made, Rest
    <2>5. /\ off' \subseteq VMs /\ shut' \subseteq VMs
          /\ behind' \subseteq Groups /\ faults' \in 0..MaxFaults
      BY <1>1, <1>2, <1>5, TornIsVMs DEF Made, Rest
    <2>6. Rest'
      BY <2>3, <2>4, <2>5 DEF Rest
    <2> QED BY <2>1, <2>6, PartsAfter
  <1>6. ASSUME NEW done \in BOOLEAN, done => accepted, Failed(r, s, done, d, i) PROVE Structure'
    <2>1. TablesOk(db') /\ IncusOk(incus')
      BY <1>2, <1>6 DEF Failed
    <2>2. PICK X : Overtake(r, OnError(r), seen[r], X)
      BY <1>6 DEF Failed
    <2>3. /\ DOMAIN job' = Threads /\ DOMAIN todo' = Threads
          /\ job' \in [Threads -> JobType] /\ seen' \in [Threads -> SeenType]
          /\ more' \in [Threads -> SUBSET Groups] /\ asked' \in 0..Budget
          /\ crossed' \subseteq Threads
          /\ \A q \in Threads : Shaped(q)'
      BY <1>3, <1>4, <2>2, GoesOnShaped
    <2>4. torn' \subseteq VMs
      BY <1>1, <1>2, <1>6, <2>3, TornIsVMs, ChangersAfter DEF Failed, Rest
    <2>5. /\ off' \subseteq VMs /\ shut' \subseteq VMs
          /\ behind' \subseteq Groups /\ faults' \in 0..MaxFaults
      BY <1>1, <1>2, <1>6, TornIsVMs DEF Failed, Rest
    <2>6. Rest'
      BY <2>3, <2>4, <2>5 DEF Rest
    <2> QED BY <2>1, <2>6, PartsAfter
  <1> QED BY <1>5, <1>6, CallCases

\* A read that succeeds or fails leaves the structure.
LEMMA ReadKeeps ==
  ASSUME Structure, NEW r \in Threads, NEW step, NEW s, NEW w,
         Read(r, step, s, w), step \notin {"groups", "holder"},
         s \in Course(Op(r)), About(job[r], s), w \in SeenType
  PROVE  Structure'
  <1>1. todo[r] # <<>> /\ Head(todo[r]) = step /\ Head(todo[r]) \notin {"groups", "holder"}
    BY DEF Read, Doing
  <1>2. TablesOk(db) /\ IncusOk(incus) /\ Rest
    BY Parts
  <1>3. /\ OnError(r) \in Course(Op(r)) /\ About(job[r], OnError(r))
    BY <1>1, Onward
  <1>4. seen[r] \in SeenType
    BY <1>2 DEF Rest
  <1>5. PICK n, x : Overtake(r, n, x, {}) /\ n \in {s, OnError(r)} /\ x \in {w, seen[r]}
    BY DEF Read, Proceed
  <1>6. /\ DOMAIN job' = Threads /\ DOMAIN todo' = Threads
        /\ job' \in [Threads -> JobType] /\ seen' \in [Threads -> SeenType]
        /\ more' \in [Threads -> SUBSET Groups] /\ asked' \in 0..Budget
        /\ crossed' \subseteq Threads
        /\ \A q \in Threads : Shaped(q)'
    <2>1. n \in Course(Op(r)) /\ About(job[r], n) /\ x \in SeenType
      BY <1>3, <1>4, <1>5
    <2> QED BY <1>5, <2>1, GoesOnShaped
  <1>7. torn' \subseteq VMs
    BY <1>1, <1>2, <1>6, TornIsVMs, ChangersAfter DEF Read, Rest
  <1>8. faults \in 0..MaxFaults /\ MaxFaults \in Nat
    BY <1>2, VMNetworkAssumption DEF Rest
  <1>9. faults' \in 0..MaxFaults
    BY <1>8 DEF Read
  <1>10. Rest'
    BY <1>2, <1>6, <1>7, <1>9 DEF Rest, Read
  <1>11. TablesOk(db') /\ IncusOk(incus')
    BY <1>2 DEF Read
  <1> QED BY <1>10, <1>11, PartsAfter

LEMMA AclOk == ASSUME NEW r \in Threads, Group(r) \in Groups PROVE Acl(r) \in Slugs
  BY DEF Acl, Slugs

\* Each call leaves the tables and the cards as they should be.
LEMMA CallsKeepStructure ==
  ASSUME Structure, NEW r \in Threads,
         \/ InsertGroup(r) \/ ReplaceRules(r) \/ PutACL(r) \/ PostACL(r) \/ DeleteACL(r) \/ DropGroup(r)
         \/ StopVM(r) \/ PatchACLs(r) \/ StartVM(r) \/ BindRow(r) \/ UnbindRow(r)
         \/ TakeAddress(r) \/ OpenFilter(r) \/ CloseFilter(r) \/ GiveAddress(r) \/ ReleaseAddress(r)
  PROVE  Structure'
  <1> DEFINE g == Group(r)
             v == VM(r)
             f == job[r].address
  <1>1. TablesOk(db) /\ IncusOk(incus) /\ Rest
    BY Parts
  <1>2. NoRules \in Rules /\ Absent \notin Rules
    BY VMNetworkAssumption
  <1>3. todo[r] # <<>> => job[r].rules \in Rules /\ seen[r].rules \in Rules /\ seen[r] \in SeenType
    BY Where DEF SeenType
  <1>4. Doing(r, Head(todo[r])) <=> todo[r] # <<>>
    BY DEF Doing
  <1>5. CASE InsertGroup(r)
    <2> DEFINE d == [db EXCEPT !.row = @ \cup {g}, !.used = @ \cup {g}]
               accepted == g \notin db.used /\ \A h \in db.row : Slug[h] # Acl(r)
    <2>1. Call(r, "insert", accepted, d, incus) /\ accepted \in BOOLEAN
      BY <1>5 DEF InsertGroup
    <2>2. g \in Groups
      BY <2>1, Where DEF Call, Doing, OfGroup
    <2>3. accepted => TablesOk(d)
      BY <1>1, <2>2 DEF TablesOk, Acl
    <2> HIDE DEF d, accepted
    <2> QED BY <1>1, <2>1, <2>3, CallKeeps
  <1>6. CASE ReplaceRules(r)
    <2> DEFINE d == [db EXCEPT !.rules[g] = job[r].rules]
               accepted == g \in db.row \/ job[r].rules = NoRules
    <2>1. Call(r, "rules", accepted, d, incus) /\ accepted \in BOOLEAN
      BY <1>6 DEF ReplaceRules
    <2>2. g \in Groups /\ job[r].rules \in Rules
      BY <2>1, Where DEF Call, Doing, OfGroup
    <2>3. TablesOk(d)
      BY <1>1, <2>2 DEF TablesOk
    <2> HIDE DEF d, accepted
    <2> QED BY <1>1, <2>1, <2>3, CallKeeps
  <1>7. CASE PutACL(r) \/ PostACL(r)
    <2> DEFINE i == [incus EXCEPT !.acl[Acl(r)] = Latest(r)]
               there == incus.acl[Acl(r)] # Absent
               missing == incus.acl[Acl(r)] = Absent
    <2>1. Call(r, "put", there, db, i) \/ Call(r, "post", missing, db, i)
      BY <1>7 DEF PutACL, PostACL
    <2>2. g \in Groups /\ Latest(r) \in Rules
      BY <1>3, <2>1, Where DEF Call, Doing, OfGroup, Latest
    <2>3. IncusOk(i)
      BY <1>1, <1>2, <2>2, AclOk DEF IncusOk
    <2>4. there \in BOOLEAN /\ missing \in BOOLEAN
      OBVIOUS
    <2> HIDE DEF i, there, missing
    <2>5. CASE Call(r, "put", there, db, i)
      BY <1>1, <2>5, <2>3, <2>4, CallKeeps
    <2>6. CASE Call(r, "post", missing, db, i)
      BY <1>1, <2>6, <2>3, <2>4, CallKeeps
    <2> QED BY <2>1, <2>5, <2>6
  <1>8. CASE DeleteACL(r)
    <2> DEFINE i == [incus EXCEPT !.acl[Acl(r)] = Absent]
               accepted == \A w \in VMs : Acl(r) \notin incus.acls[w]
    <2>1. Call(r, "unacl", accepted, db, i) /\ accepted \in BOOLEAN
      BY <1>8 DEF DeleteACL
    <2>2. g \in Groups
      BY <2>1, Where DEF Call, Doing, OfGroup
    <2>3. accepted => IncusOk(i)
      BY <1>1, <2>2, AclOk DEF IncusOk
    <2> HIDE DEF i, accepted
    <2> QED BY <1>1, <2>1, <2>3, CallKeeps
  <1>9. CASE DropGroup(r)
    <2> DEFINE d == [db EXCEPT !.row = @ \ {g}, !.rules[g] = NoRules, !.defaults = @ \ {g},
                               !.bound = {b \in @ : b[2] # g}]
               accepted == TRUE
    <2>1. Call(r, "drop", accepted, d, incus)
      BY <1>9 DEF DropGroup
    <2>2. g \in Groups
      BY <2>1, Where DEF Call, Doing, OfGroup
    <2>3. TablesOk(d)
      BY <1>1, <1>2, <2>2 DEF TablesOk
    <2>4. accepted \in BOOLEAN
      OBVIOUS
    <2> HIDE DEF d, accepted
    <2> QED BY <1>1, <2>1, <2>3, <2>4, CallKeeps
  <1>10. CASE StopVM(r)
    <2> DEFINE i == [incus EXCEPT !.running = @ \ {v}]
               accepted == v \in incus.running
    <2>1. Call(r, "stop", accepted, db, i) /\ accepted \in BOOLEAN
      BY <1>10 DEF StopVM
    <2>2. IncusOk(i)
      BY <1>1 DEF IncusOk
    <2> HIDE DEF i, accepted
    <2> QED BY <1>1, <2>1, <2>2, CallKeeps
  <1>11. ASSUME NEW list, NEW filter \in BOOLEAN, v \in VMs, list \subseteq Slugs
         PROVE  Writable(v, list) => IncusOk(Card(v, list, filter))
    BY <1>1, <1>11 DEF IncusOk, Writable, Card
  <1>12. CASE PatchACLs(r)
    <2> DEFINE list == Mutated(r, seen[r].acls)
               i == Card(v, list, seen[r].filtered)
               accepted == Writable(v, list)
    <2>1. Call(r, "patch", accepted, db, i) /\ accepted \in BOOLEAN
      BY <1>12 DEF PatchACLs, Writable
    <2>2. v \in VMs /\ g \in Groups /\ seen[r] \in SeenType
      BY <2>1, Where DEF Call, Doing, AtCard
    <2>3. list \subseteq Slugs /\ seen[r].filtered \in BOOLEAN
      BY <2>2, AclOk DEF Mutated, SeenType
    <2>4. accepted => IncusOk(i)
      BY <1>11, <2>2, <2>3
    <2> HIDE DEF i, accepted
    <2> QED BY <1>1, <2>1, <2>4, CallKeeps
  <1>13. CASE StartVM(r)
    <2> DEFINE i == Started(v)
               accepted == v \in incus.living \ incus.running
    <2>1. PICK s \in {"start", "restart"} : Call(r, s, accepted, db, i)
      BY <1>13 DEF StartVM
    <2>2. accepted \in BOOLEAN
      OBVIOUS
    <2>3. accepted => IncusOk(i)
      BY <1>1 DEF IncusOk, Started
    <2> HIDE DEF i, accepted
    <2> QED BY <1>1, <2>1, <2>2, <2>3, CallKeeps
  <1>14. CASE BindRow(r)
    <2> DEFINE d == [db EXCEPT !.bound = @ \cup {<<v, g>>}]
               accepted == g \in db.row
    <2>1. Call(r, "bind", accepted, d, incus) /\ accepted \in BOOLEAN
      BY <1>14 DEF BindRow
    <2>2. v \in VMs
      BY <2>1, Where DEF Call, Doing, AtCard
    <2>3. accepted => TablesOk(d)
      BY <1>1, <2>2 DEF TablesOk
    <2> HIDE DEF d, accepted
    <2> QED BY <1>1, <2>1, <2>3, CallKeeps
  <1>15. CASE UnbindRow(r)
    <2> DEFINE d == [db EXCEPT !.bound = @ \ {<<v, g>>}]
               accepted == TRUE
    <2>1. Call(r, "unbind", accepted, d, incus)
      BY <1>15 DEF UnbindRow
    <2>2. TablesOk(d)
      BY <1>1 DEF TablesOk
    <2>4. accepted \in BOOLEAN
      OBVIOUS
    <2> HIDE DEF d, accepted
    <2> QED BY <1>1, <2>1, <2>2, <2>4, CallKeeps
  <1>16. ASSUME NEW a \in VMs \cup {Available, None} PROVE TablesOk([db EXCEPT !.addr[f] = a])
    BY <1>1 DEF TablesOk
  <1>17. CASE TakeAddress(r)
    <2> DEFINE d == [db EXCEPT !.addr[f] = v]
               accepted == db.addr[f] = Available
    <2>1. Call(r, "take", accepted, d, incus) /\ accepted \in BOOLEAN
      BY <1>17 DEF TakeAddress
    <2>2. v \in VMs
      BY <2>1, Where DEF Call, Doing, AtFilter
    <2>3. TablesOk(d)
      BY <1>16, <2>2
    <2> HIDE DEF d, accepted
    <2> QED BY <1>1, <2>1, <2>3, CallKeeps
  <1>18. CASE GiveAddress(r)
    <2> DEFINE d == [db EXCEPT !.addr[f] = IF @ \in VMs THEN Available ELSE @]
               accepted == TRUE
    <2>1. Call(r, "give", accepted, d, incus)
      BY <1>18 DEF GiveAddress
    <2>2. TablesOk(d)
      BY <1>1 DEF TablesOk
    <2>4. accepted \in BOOLEAN
      OBVIOUS
    <2> HIDE DEF d, accepted
    <2> QED BY <1>1, <2>1, <2>2, <2>4, CallKeeps
  <1>19. CASE ReleaseAddress(r)
    <2> DEFINE d == [db EXCEPT !.addr[f] = None]
               accepted == db.addr[f] = Available
    <2>1. Call(r, "release", accepted, d, incus) /\ accepted \in BOOLEAN
      BY <1>19 DEF ReleaseAddress
    <2>2. TablesOk(d)
      BY <1>16
    <2> HIDE DEF d, accepted
    <2> QED BY <1>1, <2>1, <2>2, CallKeeps
  <1>20. CASE OpenFilter(r) \/ CloseFilter(r)
    <2> DEFINE list == seen[r].acls
               accepted == Writable(v, list)
               opened == Card(v, list, FALSE)
               closed == Card(v, list, TRUE)
    <2>1. \/ Call(r, "open", accepted, db, opened)
          \/ Call(r, "close", accepted, db, closed)
      BY <1>20 DEF OpenFilter, CloseFilter
    <2>2. v \in VMs /\ list \subseteq Slugs
      BY <1>3, <2>1, Where DEF Call, Doing, AtFilter, SeenType
    <2>3. accepted \in BOOLEAN
      BY DEF Writable
    <2>4. accepted => IncusOk(opened) /\ IncusOk(closed)
      BY <1>11, <2>2
    <2> HIDE DEF list, accepted, opened, closed
    <2>5. CASE Call(r, "open", accepted, db, opened)
      BY <1>1, <2>5, <2>3, <2>4, CallKeeps
    <2>6. CASE Call(r, "close", accepted, db, closed)
      BY <1>1, <2>6, <2>3, <2>4, CallKeeps
    <2> QED BY <2>1, <2>5, <2>6
  <1> QED BY <1>5, <1>6, <1>7, <1>8, <1>9, <1>10, <1>12, <1>13, <1>14, <1>15, <1>17, <1>18, <1>19, <1>20

\* Each read, and each turn of a loop, leaves the structure.
LEMMA ReadsKeepStructure ==
  ASSUME Structure, NEW r \in Threads,
         \/ ListGroups(r) \/ NextGroup(r) \/ GetGroup(r) \/ ListRules(r) \/ CountBindings(r)
         \/ GetInstance(r) \/ ReadHolder(r) \/ LookAtCard(r)
  PROVE  Structure'
  <1>1. TablesOk(db) /\ IncusOk(incus) /\ Rest
    BY Parts
  <1>2. todo[r] # <<>> /\ Head(todo[r]) \notin {"groups", "holder"} =>
          /\ Tail(todo[r]) \in Course(Op(r)) /\ About(job[r], Tail(todo[r]))
          /\ OnError(r) \in Course(Op(r)) /\ About(job[r], OnError(r))
          /\ <<>> \in Course(Op(r)) /\ About(job[r], <<>>)
    BY Onward
  <1>3. seen[r] \in SeenType
    BY <1>1 DEF Rest
  <1>4. faults \in 0..MaxFaults /\ MaxFaults \in Nat
    BY <1>1, VMNetworkAssumption DEF Rest
  <1>5. \A v \in VMs : Sight(v) \in SeenType
    BY <1>1, VMNetworkAssumption DEF IncusOk, Sight, SeenType
  <1>6. CASE GetGroup(r)
    <2> DEFINE s == IF Group(r) \in db.row THEN Tail(todo[r]) ELSE <<>>
    <2>1. Read(r, "group", s, seen[r])
      BY <1>6 DEF GetGroup
    <2>2. s \in Course(Op(r)) /\ About(job[r], s)
      BY <1>2, <2>1 DEF Read, Doing
    <2> HIDE DEF s
    <2> QED BY <1>3, <2>1, <2>2, ReadKeeps
  <1>7. CASE CountBindings(r)
    <2> DEFINE s == IF \E b \in db.bound : b[2] = Group(r) THEN <<>> ELSE Tail(todo[r])
    <2>1. Read(r, "count", s, seen[r])
      BY <1>7 DEF CountBindings
    <2>2. s \in Course(Op(r)) /\ About(job[r], s)
      BY <1>2, <2>1 DEF Read, Doing
    <2> HIDE DEF s
    <2> QED BY <1>3, <2>1, <2>2, ReadKeeps
  <1>8. CASE LookAtCard(r)
    <2> DEFINE s == IF VM(r) \in incus.living THEN Tail(todo[r]) ELSE OnError(r)
    <2>1. PICK h \in {"look", "find"} : Read(r, h, s, Sight(VM(r)))
      BY <1>8 DEF LookAtCard
    <2>2. s \in Course(Op(r)) /\ About(job[r], s)
      BY <1>2, <2>1 DEF Read, Doing
    <2>3. VM(r) \in VMs
      BY <2>1, Where DEF Read, Doing, AtFilter
    <2> HIDE DEF s
    <2> QED BY <1>5, <2>1, <2>2, <2>3, ReadKeeps
  <1>9. CASE GetInstance(r)
    <2> DEFINE row == todo[r][3]
               s == IF VM(r) \notin incus.living THEN <<>>
                    ELSE IF Mutated(r, incus.acls[VM(r)]) = incus.acls[VM(r)] THEN <<row>>
                    ELSE IF VM(r) \in incus.running THEN <<"stop", "patch", "start", row>>
                    ELSE <<"patch", row>>
    <2>1. Read(r, "get", s, Sight(VM(r)))
      BY <1>9 DEF GetInstance
    <2>2. todo[r] # <<>> /\ Head(todo[r]) = "get" /\ VM(r) \in VMs /\ Group(r) \in Groups
      BY <2>1, Where DEF Read, Doing, AtCard
    <2>3. /\ Op(r) \in CardOps /\ <<row>> \in Course(Op(r)) /\ <<"patch", row>> \in Course(Op(r))
          /\ <<"stop", "patch", "start", row>> \in Course(Op(r)) /\ <<>> \in Course(Op(r))
      BY <1>2, <2>2, Where, Courses DEF CourseTrue
    <2>4. s \in {<<>>, <<row>>, <<"stop", "patch", "start", row>>, <<"patch", row>>}
      OBVIOUS
    <2>5. s \in Course(Op(r))
      BY <2>3, <2>4
    <2>6. About(job[r], s)
      <3>1. job[r] \in JobType /\ About(job[r], todo[r]) /\ job[r].address = None
        BY <2>2, Where DEF Structure, Shaped, AtCard
      <3> QED BY <2>2, <2>3, <3>1 DEF About, CardOps, GroupOps, Op, VM, Group
    <2> HIDE DEF s
    <2> QED BY <1>5, <2>1, <2>2, <2>5, <2>6, ReadKeeps
  <1>10. CASE ListRules(r)
    <2> DEFINE w(rs, blind) == [seen[r] EXCEPT !.rules = rs, !.blind = blind]
    <2>1. todo[r] # <<>> /\ Head(todo[r]) = "list" /\ Group(r) \in Groups
      BY <1>10, Where DEF ListRules, Doing, OfGroup
    <2>2. w(db.rules[Group(r)], FALSE) \in SeenType /\ w(NoRules, TRUE) \in SeenType
      BY <1>1, <1>3, <2>1, VMNetworkAssumption DEF TablesOk, SeenType
    <2>3. PICK n, x : /\ Overtake(r, n, x, {}) /\ n \in {Tail(todo[r]), <<>>}
                      /\ x \in {w(db.rules[Group(r)], FALSE), w(NoRules, TRUE), seen[r]}
      BY <1>10 DEF ListRules, Proceed
    <2>4. n \in Course(Op(r)) /\ About(job[r], n) /\ x \in SeenType
      BY <1>2, <1>3, <2>1, <2>2, <2>3
    <2>5. /\ DOMAIN job' = Threads /\ DOMAIN todo' = Threads
          /\ job' \in [Threads -> JobType] /\ seen' \in [Threads -> SeenType]
          /\ more' \in [Threads -> SUBSET Groups] /\ asked' \in 0..Budget
          /\ crossed' \subseteq Threads
          /\ \A q \in Threads : Shaped(q)'
      BY <2>3, <2>4, GoesOnShaped
    <2>6. torn' \subseteq VMs
      BY <1>1, <1>10, <2>5, ChangersAfter DEF ListRules, Rest
    <2>7. faults' \in 0..MaxFaults
      BY <1>4, <1>10 DEF ListRules
    <2>8. UNCHANGED <<db, incus, off, shut, behind>>
      BY <1>10 DEF ListRules
    <2>9. Rest'
      BY <1>1, <2>5, <2>6, <2>7, <2>8 DEF Rest
    <2> QED BY <1>1, <2>8, <2>9, PartsAfter
  <1>11. CASE ReadHolder(r)
    <2> DEFINE v == db.addr[job[r].address]
    <2>1. todo[r] # <<>> /\ Head(todo[r]) = "holder" /\ Op(r) = "detach" /\ job[r].address \in Addresses
          /\ VM(r) = None /\ Group(r) = None
      <3>1. todo[r] # <<>> /\ Head(todo[r]) = "holder"
        BY <1>11 DEF ReadHolder, Doing
      <3>2. job[r].address \in Addresses /\ VM(r) = None /\ Group(r) = None
        BY <3>1, Where
      <3>3. Op(r) \in Ops /\ todo[r] \in Course(Op(r))
        BY <3>1, Where
      <3>4. Op(r) = "detach"
        BY ONLY <3>1, <3>3, Courses DEF CourseTrue
      <3> QED BY <3>1, <3>2, <3>4
    <2>2. /\ \A q \in Threads \ {r} : job'[q] = job[q] /\ todo'[q] = todo[q]
          /\ DOMAIN job' = Threads /\ DOMAIN todo' = Threads
          /\ job' = [q \in Threads |-> job'[q]]
          /\ UNCHANGED <<db, incus, seen, more, asked, faults, off, shut, behind, crossed>>
          /\ torn' = torn \cup Clashing'
      BY <1>1, <1>11 DEF ReadHolder, Rest
    <2>3. job'[r] \in JobType /\ Shaped(r)'
      <3>1. CASE v \in VMs
        <4>1. job'[r] = [job[r] EXCEPT !.vm = v] /\ todo'[r] = Tail(todo[r])
          BY <1>1, <1>11, <3>1 DEF ReadHolder, Rest
        <4>2. job[r] \in JobType /\ About(job[r], todo[r])
          BY <1>1 DEF Rest, Shaped
        <4>3. job'[r] \in JobType /\ Op(r)' = "detach"
          BY <2>1, <3>1, <4>1, <4>2 DEF JobType, Op
        <4>4. Tail(todo[r]) = <<"find", "close", "give">>
          BY <2>1, Where, Courses DEF CourseTrue
        <4>5. About(job[r], todo[r]) => job[r].group = None
          BY <2>1 DEF About, Op
        <4>6. /\ job'[r].op = "detach" /\ job'[r].group = None /\ job'[r].address \in Addresses
              /\ job'[r].vm \in VMs
          BY <2>1, <3>1, <4>1, <4>2, <4>5 DEF JobType, Op
        <4>7. Head(<<"find", "close", "give">>) # "holder"
          OBVIOUS
        <4> DEFINE j == job'[r]
                   t == <<"find", "close", "give">>
        <4> HIDE DEF j, t
        <4>8. About(j, t)
          BY <4>6, <4>7 DEF About, GroupOps, j, t
        <4>9. Shaped(r)'
          <5>1. t \in Course("detach")
            BY DEF Course, t
          <5>2. more[r] = {}
            BY <1>1, <2>1 DEF Rest, Shaped
          <5> QED BY <2>2, <4>1, <4>3, <4>4, <4>8, <5>1, <5>2 DEF Shaped, j, t
        <4> QED BY <4>3, <4>9
      <3>2. CASE v \notin VMs
        <4>1. job'[r] = NoJob /\ todo'[r] = <<>>
          BY <1>1, <1>11, <3>2 DEF ReadHolder, Rest
        <4>2. <<>> \in Course("idle") /\ About(NoJob, <<>>)
          BY DEF Course, About, NoJob, GroupOps
        <4>3. Op(r)' = "idle"
          BY <4>1 DEF Op, NoJob
        <4>4. more[r] = {}
          BY <1>1, <2>1 DEF Rest, Shaped
        <4> QED BY <2>2, <4>1, <4>2, <4>3, <4>4, PlainOk DEF Shaped
      <3> QED BY <3>1, <3>2
    <2>4. job' \in [Threads -> JobType]
      <3>1. \A q \in Threads : job'[q] \in JobType
        BY <1>1, <2>2, <2>3 DEF Rest
      <3> QED BY <2>2, <3>1
    <2>5. \A q \in Threads : Shaped(q)'
      BY <1>1, <2>2, <2>3 DEF Rest, Shaped, Op
    <2>6. torn' \subseteq VMs
      BY <1>1, <2>2, <2>4, ChangersAfter DEF Rest
    <2>7. Rest'
      BY <1>1, <2>2, <2>4, <2>5, <2>6 DEF Rest
    <2> QED BY <1>1, <2>2, <2>7, PartsAfter
  <1>12. CASE ListGroups(r)
    <2>1. todo[r] # <<>> /\ Head(todo[r]) = "groups" /\ Op(r) \in {"defaults", "reconcile"}
      BY <1>12, Where, Courses DEF CourseTrue, ListGroups, Doing
    <2> DEFINE list == IF r = Startup THEN db.row ELSE db.defaults
    <2>20. /\ more' = [more EXCEPT ![r] = list] \/ more' = more
           /\ UNCHANGED faults \/ (faults < MaxFaults /\ faults' = faults + 1)
           /\ todo' = [todo EXCEPT ![r] = <<>>]
           /\ job' = [job EXCEPT ![r] = IF more'[r] = {} THEN NoJob ELSE @]
           /\ UNCHANGED <<db, incus, seen, asked, off, torn, shut, behind, crossed>>
      BY <1>12 DEF ListGroups
    <2>21. faults' \in 0..MaxFaults
      BY <1>4, <2>20
    <2>22. list \in {db.row, db.defaults}
      OBVIOUS
    <2> HIDE DEF list
    <2>2. /\ \A q \in Threads \ {r} : job'[q] = job[q] /\ todo'[q] = todo[q] /\ more'[q] = more[q]
          /\ DOMAIN job' = Threads /\ DOMAIN todo' = Threads /\ DOMAIN more' = Threads
          /\ job' = [q \in Threads |-> job'[q]] /\ more' = [q \in Threads |-> more'[q]]
          /\ todo'[r] = <<>> /\ job'[r] = IF more'[r] = {} THEN NoJob ELSE job[r]
          /\ more'[r] \in {db.row, db.defaults, more[r]}
          /\ UNCHANGED <<db, incus, seen, asked, off, torn, shut, behind, crossed>>
          /\ faults' \in 0..MaxFaults
      BY <1>1, <2>20, <2>21, <2>22 DEF Rest
    <2>3. job'[r] \in JobType /\ more'[r] \subseteq Groups
      BY <1>1, <2>2, PlainOk DEF Rest, TablesOk
    <2>4. job' \in [Threads -> JobType] /\ more' \in [Threads -> SUBSET Groups]
      <3>1. \A q \in Threads : job'[q] \in JobType /\ more'[q] \in SUBSET Groups
        BY <1>1, <2>2, <2>3 DEF Rest
      <3> QED BY <2>2, <3>1
    <2>5. Shaped(r)'
      <3>1. CASE more'[r] = {}
        <4>1. <<>> \in Course("idle") /\ About(NoJob, <<>>)
          BY DEF Course, About, NoJob, GroupOps
        <4>2. Op(r)' = "idle"
          BY <2>2, <3>1 DEF Op, NoJob
        <4> QED BY <2>2, <3>1, <4>1, <4>2 DEF Shaped
      <3>2. CASE more'[r] # {}
        <4>1. job[r] \in JobType /\ About(job[r], todo[r]) /\ todo[r] \in Course(Op(r))
          BY <1>1 DEF Rest, Shaped
        <4>2. <<>> \in Course(Op(r))
          BY <2>1, <4>1, Where, Courses DEF CourseTrue
        <4>3. About(job[r], <<>>)
          BY <2>1, <4>1 DEF About, Op, GroupOps
        <4> QED BY <2>1, <2>2, <3>2, <4>2, <4>3 DEF Shaped, Op
      <3> QED BY <3>1, <3>2
    <2>6. \A q \in Threads : Shaped(q)'
      BY <1>1, <2>2, <2>5 DEF Rest, Shaped, Op
    <2>7. Rest'
      BY <1>1, <2>2, <2>4, <2>6 DEF Rest
    <2> QED BY <1>1, <2>2, <2>7, PartsAfter
  <1>13. CASE NextGroup(r)
    <2>1. todo[r] = <<>> /\ more[r] # {} /\ Op(r) \in {"defaults", "reconcile"}
      BY <1>1, <1>13 DEF NextGroup, Rest, Shaped
    <2>2. PICK g \in more[r] : more' = [more EXCEPT ![r] = @ \ {g}] /\ job' = [job EXCEPT ![r].group = g]
      BY <1>13 DEF NextGroup
    <2>3. /\ \A q \in Threads \ {r} : job'[q] = job[q] /\ todo'[q] = todo[q] /\ more'[q] = more[q]
          /\ DOMAIN job' = Threads /\ DOMAIN todo' = Threads
          /\ todo'[r] = Program[Op(r)] /\ job'[r] = [job[r] EXCEPT !.group = g]
          /\ job' = [q \in Threads |-> job'[q]]
          /\ UNCHANGED <<db, incus, seen, asked, faults, off, torn, shut, behind, crossed>>
      BY <1>1, <1>13, <2>2 DEF NextGroup, Rest, Op
    <2>4. g \in Groups /\ more' \in [Threads -> SUBSET Groups] /\ job[r] \in JobType /\ About(job[r], <<>>)
      BY <1>1, <2>1, <2>2 DEF Rest, Shaped
    <2>5. job'[r] \in JobType /\ Op(r)' = Op(r)
      BY <2>3, <2>4 DEF JobType, Op
    <2>6. job' \in [Threads -> JobType]
      <3>1. \A q \in Threads : job'[q] \in JobType
        BY <1>1, <2>3, <2>5 DEF Rest
      <3> QED BY <2>3, <3>1
    <2>7. Program[Op(r)] \in Course(Op(r))
      <3>1. CASE Op(r) = "defaults"
        BY <3>1 DEF Program, Course, Turns, ApplyDefault
      <3>2. CASE Op(r) = "reconcile"
        BY <3>2 DEF Program, Course, Reconcile
      <3> QED BY <2>1, <3>1, <3>2
    <2>8. /\ job'[r].op = job[r].op /\ job'[r].vm = job[r].vm /\ job'[r].address = job[r].address
          /\ job'[r].group = g
      BY <2>3, <2>4 DEF JobType
    <2> DEFINE c == todo'[r]
               j == job'[r]
    <2>9. About(j, c)
      <3> HIDE DEF c, j
      <3> QED BY <2>1, <2>4, <2>8 DEF About, Op, GroupOps, j
    <2>10. \A q \in Threads : Shaped(q)'
      <3>1. Shaped(r)'
        BY <2>1, <2>3, <2>5, <2>7, <2>9 DEF Shaped
      <3> QED BY <1>1, <2>3, <3>1 DEF Rest, Shaped, Op
    <2>11. Rest'
      BY <1>1, <2>3, <2>4, <2>6, <2>10 DEF Rest
    <2> QED BY <1>1, <2>3, <2>11, PartsAfter
  <1> QED BY <1>6, <1>7, <1>8, <1>9, <1>10, <1>11, <1>12, <1>13

\* A call starts as its kind does.
LEMMA Asked ==
  ASSUME NEW j \in Calls
  PROVE  LET c == IF j.op = "defaults" THEN <<"groups">> ELSE Program[j.op]
         IN /\ j \in JobType /\ j.op # "idle" /\ c \in Course(j.op) /\ About(j, c) /\ c # <<>>
            /\ Head(c) \in {"insert", "group", "take", "holder", "release", "groups"}
  <1> DEFINE c == IF j.op = "defaults" THEN <<"groups">> ELSE Program[j.op]
  <1>1. j \in Jobs
    BY VMNetworkAssumption
  <1>2. None \notin VMs \cup Groups \cup Addresses /\ NoRules \in Rules
    BY VMNetworkAssumption
  <1>3. CASE j \in JobOf({"create", "edit"}, {None}, Groups, {None}, Rules)
    <2>1. /\ j \in JobType /\ j.op \in {"create", "edit"} /\ j.vm = None /\ j.group \in Groups
          /\ j.address = None
      BY <1>2, <1>3 DEF JobOf, JobType, Ops
    <2>2. CASE j.op = "create"
      <3>1. c = CreateGroup /\ Head(c) = "insert" /\ c # <<>>
        BY <2>2 DEF Program, CreateGroup
      <3>2. c \in Course(j.op)
        BY <2>2, <3>1 DEF Course
      <3> HIDE DEF c
      <3>3. About(j, c)
        BY <2>1, <2>2 DEF About, GroupOps
      <3> QED BY <2>1, <3>1, <3>2, <3>3 DEF c
    <2>3. CASE j.op = "edit"
      <3>1. c = EditRules /\ Head(c) = "group" /\ c # <<>>
        BY <2>3 DEF Program, EditRules
      <3>2. c \in Course(j.op)
        BY <2>3, <3>1 DEF Course
      <3> HIDE DEF c
      <3>3. About(j, c)
        BY <2>1, <2>3 DEF About, GroupOps
      <3> QED BY <2>1, <3>1, <3>2, <3>3 DEF c
    <2> QED BY <2>1, <2>2, <2>3
  <1>4. CASE j \in JobOf({"rename", "delete", "portalDelete"}, {None}, Groups, {None}, {NoRules})
    <2>1. /\ j \in JobType /\ j.op \in {"rename", "delete", "portalDelete"} /\ j.vm = None
          /\ j.group \in Groups /\ j.address = None
      BY <1>2, <1>4 DEF JobOf, JobType, Ops
    <2>2. c \in {UpdateGroup, DeleteGroup, PortalDeleteGroup} /\ c = Program[j.op]
      BY <2>1 DEF Program
    <2>3. c \in Course(j.op)
      BY <2>1 DEF Program, Course
    <2>4. Head(c) = "group" /\ c # <<>>
      BY <2>2 DEF UpdateGroup, DeleteGroup, PortalDeleteGroup
    <2> HIDE DEF c
    <2>5. About(j, c)
      BY <2>1 DEF About, GroupOps
    <2> QED BY <2>1, <2>3, <2>4, <2>5 DEF c
  <1>5. CASE j \in JobOf({"bind", "unbind"}, VMs, Groups, {None}, {NoRules})
    <2>1. /\ j \in JobType /\ j.op \in {"bind", "unbind"} /\ j.vm \in VMs
          /\ j.group \in Groups /\ j.address = None
      BY <1>2, <1>5 DEF JobOf, JobType, Ops
    <2>2. c \in {BindVM, UnbindVM} /\ c = Program[j.op]
      BY <2>1 DEF Program
    <2>3. c \in Course(j.op)
      BY <2>1 DEF Program, Course
    <2>4. Head(c) = "group" /\ c # <<>>
      BY <2>2 DEF BindVM, UnbindVM
    <2> HIDE DEF c
    <2>5. About(j, c)
      BY <2>1 DEF About, GroupOps
    <2> QED BY <2>1, <2>3, <2>4, <2>5 DEF c
  <1>6. CASE j \in JobOf({"attach"}, VMs, {None}, Addresses, {NoRules})
    <2>1. /\ j \in JobType /\ j.op = "attach" /\ j.vm \in VMs
          /\ j.group = None /\ j.address \in Addresses
      BY <1>2, <1>6 DEF JobOf, JobType, Ops
    <2>2. c = AttachAddress
      BY <2>1 DEF Program
    <2>3. c \in Course(j.op)
      BY <2>1, <2>2 DEF Course
    <2>4. Head(c) = "take" /\ c # <<>>
      BY <2>2 DEF AttachAddress
    <2> HIDE DEF c
    <2>5. About(j, c)
      BY <2>1 DEF About, GroupOps
    <2> QED BY <2>1, <2>3, <2>4, <2>5 DEF c
  <1>7. CASE j \in JobOf({"detach", "release"}, {None}, {None}, Addresses, {NoRules})
    <2>1. /\ j \in JobType /\ j.op \in {"detach", "release"} /\ j.vm = None
          /\ j.group = None /\ j.address \in Addresses
      BY <1>2, <1>7 DEF JobOf, JobType, Ops
    <2>2. CASE j.op = "detach"
      <3>1. c = DetachAddress /\ Head(c) = "holder" /\ c # <<>>
        BY <2>2 DEF Program, DetachAddress
      <3>2. c \in Course(j.op)
        BY <2>2, <3>1 DEF Course
      <3> HIDE DEF c
      <3>3. About(j, c)
        BY <2>1, <2>2, <3>1 DEF About, GroupOps
      <3> QED BY <2>1, <2>2, <3>1, <3>2, <3>3 DEF c
    <2>3. CASE j.op = "release"
      <3>1. c = <<"release">> /\ Head(c) = "release" /\ c # <<>>
        BY <2>3 DEF Program
      <3>2. c \in Course(j.op)
        BY <2>3, <3>1 DEF Course
      <3> HIDE DEF c
      <3>3. About(j, c)
        BY <2>1, <2>3, <3>1 DEF About, GroupOps
      <3> QED BY <2>1, <2>3, <3>1, <3>2, <3>3 DEF c
    <2> QED BY <2>1, <2>2, <2>3
  <1>8. CASE j \in JobOf({"defaults"}, VMs, {None}, {None}, {NoRules})
    <2>1. /\ j \in JobType /\ j.op = "defaults" /\ j.vm \in VMs
          /\ j.group = None /\ j.address = None
      BY <1>2, <1>8 DEF JobOf, JobType, Ops
    <2>2. c = <<"groups">> /\ Head(c) = "groups" /\ c # <<>>
      BY <2>1
    <2>3. c \in Course(j.op)
      BY <2>1, <2>2 DEF Course
    <2> HIDE DEF c
    <2>5. About(j, c)
      BY <2>1, <2>2 DEF About, GroupOps
    <2> QED BY <2>1, <2>2, <2>3, <2>5 DEF c
  <1> HIDE DEF c
  <1>9. QED BY <1>1, <1>3, <1>4, <1>5, <1>6, <1>7, <1>8 DEF Jobs, c

\* The request a call is given to was idle, and the others stay as they are.
LEMMA AskGives ==
  ASSUME Structure, NEW j \in Calls, Ask(j)
  PROVE  \E r \in Requests :
           /\ Idle(r) /\ job'[r] = j
           /\ todo'[r] = IF j.op = "defaults" THEN <<"groups">> ELSE Program[j.op]
           /\ job' = [job EXCEPT ![r] = j] /\ DOMAIN todo' = Threads
           /\ \A q \in Threads \ {r} : job'[q] = job[q] /\ todo'[q] = todo[q]
           /\ UNCHANGED <<db, incus, seen, more, faults, off, torn, shut, behind, crossed>>
  <1> DEFINE r == CHOOSE q \in Requests : Idle(q)
  <1>1. r \in Requests /\ Idle(r)
    BY DEF Ask
  <1>2. /\ job' = [job EXCEPT ![r] = j]
        /\ todo' = [todo EXCEPT ![r] = IF j.op = "defaults" THEN <<"groups">> ELSE Program[j.op]]
        /\ UNCHANGED <<db, incus, seen, more, faults, off, torn, shut, behind, crossed>>
    BY DEF Ask
  <1> HIDE DEF r
  <1>3. DOMAIN job = Threads /\ DOMAIN todo = Threads
    BY DEF Structure, TypeOK
  <1> QED BY <1>1, <1>2, <1>3, ThreadsOk

LEMMA AskKeepsStructure ==
  ASSUME Structure, NEW j \in Calls, Ask(j)
  PROVE  Structure'
  <1>1. TablesOk(db) /\ IncusOk(incus) /\ Rest
    BY Parts
  <1>2. PICK r \in Requests :
           /\ Idle(r) /\ job'[r] = j
           /\ todo'[r] = IF j.op = "defaults" THEN <<"groups">> ELSE Program[j.op]
           /\ job' = [job EXCEPT ![r] = j] /\ DOMAIN todo' = Threads
           /\ \A q \in Threads \ {r} : job'[q] = job[q] /\ todo'[q] = todo[q]
           /\ UNCHANGED <<db, incus, seen, more, faults, off, torn, shut, behind, crossed>>
    BY AskGives
  <1>3. r \in Threads
    BY ThreadsOk
  <1>4. asked' \in 0..Budget
    BY <1>1, VMNetworkAssumption DEF Ask, Rest
  <1>5. j \in JobType /\ todo'[r] \in Course(j.op) /\ About(j, todo'[r])
    BY <1>2, Asked
  <1>6. job' \in [Threads -> JobType] /\ DOMAIN job' = Threads
    BY <1>1, <1>2, <1>3, <1>5 DEF Rest
  <1>7. \A q \in Threads : Shaped(q)'
    BY <1>1, <1>2, <1>3, <1>5 DEF Rest, Shaped, Op, Idle
  <1>8. Rest'
    BY <1>1, <1>2, <1>4, <1>6, <1>7 DEF Rest
  <1> QED BY <1>1, <1>2, <1>8, PartsAfter

LEMMA OthersKeepStructure ==
  ASSUME Structure,
         \/ \E G \in SUBSET Groups : ReplaceDefaults(G)
         \/ \E f \in Addresses : Allocate(f)
         \/ \E v \in VMs : Power(v) \/ DeleteVM(v)
         \/ Crash \/ UNCHANGED vars
  PROVE  Structure'
  <1>1. TablesOk(db) /\ IncusOk(incus) /\ Rest
    BY Parts
  <1>2. asked < Budget /\ asked' = asked + 1 => asked' \in 0..Budget
    BY <1>1, VMNetworkAssumption DEF Rest
  <1>3. faults < MaxFaults /\ faults' = faults + 1 => faults' \in 0..MaxFaults
    BY <1>1, VMNetworkAssumption DEF Rest
  <1>4. UNCHANGED <<job, todo, more>> => \A q \in Threads : Shaped(q)'
    BY <1>1 DEF Rest, Shaped, Op
  <1>5. ASSUME NEW G \in SUBSET Groups, ReplaceDefaults(G) PROVE Structure'
    <2>1. TablesOk(db')
      BY <1>1, <1>5 DEF TablesOk, ReplaceDefaults
    <2>2. Rest'
      BY <1>1, <1>2, <1>4, <1>5 DEF Rest, ReplaceDefaults
    <2>3. incus' = incus
      BY <1>5 DEF ReplaceDefaults
    <2> QED BY <1>1, <2>1, <2>2, <2>3, PartsAfter
  <1>6. ASSUME NEW f \in Addresses, Allocate(f) PROVE Structure'
    <2>1. TablesOk(db')
      BY <1>1, <1>6 DEF TablesOk, Allocate
    <2>2. Rest'
      BY <1>1, <1>2, <1>4, <1>6 DEF Rest, Allocate
    <2>3. incus' = incus
      BY <1>6 DEF Allocate
    <2> QED BY <1>1, <2>1, <2>2, <2>3, PartsAfter
  <1>7. ASSUME NEW v \in VMs, Power(v) PROVE Structure'
    <2>1. IncusOk(incus')
      <3>1. CASE v \in incus.running
        <4>1. incus' = [incus EXCEPT !.running = @ \ {v}]
          BY <1>7, <3>1 DEF Power
        <4> QED BY <1>1, <4>1 DEF IncusOk
      <3>2. CASE v \notin incus.running
        <4>1. incus' = Started(v) /\ v \in incus.living
          BY <1>7, <3>2 DEF Power
        <4> QED BY <1>1, <4>1 DEF IncusOk, Started
      <3> QED BY <3>1, <3>2
    <2>2. off' \subseteq VMs /\ torn' \subseteq VMs
      BY <1>1, <1>7 DEF Power, Rest
    <2>3. Rest'
      BY <1>1, <1>2, <1>4, <1>7, <2>2 DEF Rest, Power
    <2>4. db' = db
      BY <1>7 DEF Power
    <2> QED BY <1>1, <2>1, <2>3, <2>4, PartsAfter
  <1>8. ASSUME NEW v \in VMs, DeleteVM(v) PROVE Structure'
    <2>1. IncusOk(incus')
      BY <1>1, <1>8 DEF IncusOk, DeleteVM
    <2>2. Rest'
      BY <1>1, <1>2, <1>4, <1>8 DEF Rest, DeleteVM
    <2>3. db' = db
      BY <1>8 DEF DeleteVM
    <2> QED BY <1>1, <2>1, <2>2, <2>3, PartsAfter
  <1>9. ASSUME Crash PROVE Structure'
    <2>1. AtStart \in [Threads -> JobType]
      BY ThreadsOk, PlainOk DEF AtStart, JobType, Ops
    <2>2. /\ AtStart[Startup].op = "reconcile" /\ AtStart[Startup].vm = None
          /\ AtStart[Startup].address = None
          /\ \A q \in Threads : q # Startup => AtStart[q] = NoJob
      BY ThreadsOk, PlainOk DEF AtStart, NoJob
    <2>3. ASSUME NEW q \in Threads PROVE Shaped(q)'
      <3>1. CASE q = Startup
        <4>1. <<"groups">> \in Course("reconcile")
          BY DEF Course
        <4>2. About(AtStart[Startup], <<"groups">>)
          BY <2>2 DEF About, GroupOps
        <4> QED BY <1>9, <2>2, <3>1, <4>1, <4>2 DEF Crash, Shaped, Op
      <3>2. CASE q # Startup
        <4>1. <<>> \in Course("idle") /\ About(NoJob, <<>>) /\ NoJob.op = "idle"
          BY DEF Course, About, NoJob, GroupOps
        <4> QED BY <1>9, <2>2, <3>2, <4>1 DEF Crash, Shaped, Op
      <3> QED BY <3>1, <3>2
    <2>4. torn' \subseteq VMs /\ off' \subseteq VMs
      BY <1>1, <1>9, Changers DEF Crash, Rest
    <2>5. behind' \subseteq Groups
      <3>1. \A q \in Pushing : Group(q) \in Groups
        BY <1>1 DEF Pushing, Group, Rest, JobType
      <3> QED BY <1>1, <1>9, <3>1 DEF Crash, Rest
    <2>6. seen' \in [Threads -> SeenType] /\ more' \in [Threads -> SUBSET Groups] /\ crossed' = {}
      BY <1>9, PlainOk DEF Crash
    <2>7. DOMAIN job' = Threads /\ DOMAIN todo' = Threads /\ job' \in [Threads -> JobType]
      BY <1>9, <2>1 DEF Crash
    <2>8. Rest'
      BY <1>1, <1>3, <1>9, <2>3, <2>4, <2>5, <2>6, <2>7 DEF Rest, Crash
    <2>9. UNCHANGED <<db, incus>>
      BY <1>9 DEF Crash
    <2> QED BY <1>1, <2>8, <2>9, PartsAfter
  <1>10. ASSUME UNCHANGED vars PROVE Structure'
    <2>1. Rest'
      BY <1>1, <1>4, <1>10 DEF Rest, vars
    <2> QED BY <1>1, <1>10, <2>1, PartsAfter DEF vars
  <1> QED BY <1>5, <1>6, <1>7, <1>8, <1>9, <1>10

LEMMA StructureKept ==
  ASSUME Structure, [Next]_vars
  PROVE  Structure'
  <1>1. \/ \E j \in Calls : Ask(j)
        \/ \E r \in Threads : Step(r)
        \/ \E G \in SUBSET Groups : ReplaceDefaults(G)
        \/ \E f \in Addresses : Allocate(f)
        \/ \E v \in VMs : Power(v) \/ DeleteVM(v)
        \/ Crash \/ UNCHANGED vars
    BY DEF Next
  <1>2. ASSUME NEW r \in Threads, Step(r) PROVE Structure'
    BY <1>2, CallsKeepStructure, ReadsKeepStructure DEF Step
  <1> QED BY <1>1, <1>2, AskKeepsStructure, OthersKeepStructure

LEMMA StructureAtFirst ==
  ASSUME Init
  PROVE  Structure
  <1>1. PICK s \in Starts :
          LET listed(v) == {Slug[b[2]] : b \in {c \in s.bound : c[1] = v}}
          IN /\ db = [row |-> s.row, used |-> s.row, bound |-> s.bound,
                      rules |-> [g \in Groups |-> IF g \in s.row THEN Seed ELSE NoRules],
                      defaults |-> {}, addr |-> s.addr]
             /\ incus = [acl |-> [n \in Slugs |->
                                    IF ~s.first /\ \E g \in s.row : Slug[g] = n THEN Seed ELSE Absent],
                         acls |-> [v \in VMs |-> listed(v)],
                         inForce |-> [v \in VMs |-> listed(v)],
                         filtered |-> [v \in VMs |-> \A f \in Addresses : s.addr[f] # v],
                         living |-> VMs, running |-> s.running]
             /\ off = VMs \ s.running
             /\ behind = IF s.first THEN s.row ELSE {}
             /\ job = [r \in Threads |-> IF s.first THEN AtStart[r] ELSE NoJob]
             /\ todo = [r \in Threads |-> IF s.first /\ r = Startup THEN <<"groups">> ELSE <<>>]
    BY DEF Init
  <1>2. /\ s.row \subseteq Groups /\ s.running \subseteq VMs
        /\ \A g, h \in s.row : Slug[g] = Slug[h] => g = h
        /\ s.bound \subseteq VMs \X s.row
        /\ s.first => s.bound = {}
        /\ s.addr \in [Addresses -> VMs \cup {Available, None}]
        /\ {NoRules, Seed} \subseteq Rules /\ Absent \notin Rules
    BY VMNetworkAssumption
  <1>3. TablesOk(db)
    BY <1>1, <1>2 DEF TablesOk
  <1> DEFINE listed(v) == {Slug[b[2]] : b \in {c \in s.bound : c[1] = v}}
  <1>4. \A v \in VMs : listed(v) \subseteq Slugs
    BY <1>2 DEF Slugs
  <1>5. \A v \in VMs : \A n \in listed(v) : incus.acl[n] # Absent
    <2> SUFFICES ASSUME NEW v \in VMs, NEW n \in listed(v) PROVE incus.acl[n] # Absent
      OBVIOUS
    <2>1. PICK b \in s.bound : n = Slug[b[2]] /\ b[2] \in s.row
      BY <1>2
    <2>2. ~s.first
      BY <1>2, <2>1
    <2>3. n \in Slugs
      BY <1>4
    <2>4. incus.acl[n] = Seed
      BY <1>1, <2>1, <2>2, <2>3
    <2> QED BY <1>2, <2>4
  <1>6. /\ incus.acl \in [Slugs -> Rules \cup {Absent}]
        /\ incus.acls = [v \in VMs |-> listed(v)] /\ incus.inForce = [v \in VMs |-> listed(v)]
        /\ incus.filtered \in [VMs -> BOOLEAN]
        /\ incus.living = VMs /\ incus.running = s.running
        /\ incus = [acl |-> incus.acl, acls |-> incus.acls, inForce |-> incus.inForce,
                    filtered |-> incus.filtered, living |-> incus.living, running |-> incus.running]
    BY <1>1, <1>2
  <1> HIDE DEF listed
  <1>7. IncusOk(incus)
    BY <1>2, <1>4, <1>5, <1>6 DEF IncusOk
  <1>8. AtStart \in [Threads -> JobType]
    BY ThreadsOk, PlainOk DEF AtStart, JobType, Ops
  <1>9. /\ AtStart[Startup].op = "reconcile" /\ AtStart[Startup].vm = None
        /\ AtStart[Startup].address = None
        /\ \A q \in Threads : q # Startup => AtStart[q] = NoJob
    BY ThreadsOk, PlainOk DEF AtStart, NoJob
  <1>10. /\ job = [r \in Threads |-> IF s.first THEN AtStart[r] ELSE NoJob]
         /\ todo = [r \in Threads |-> IF s.first /\ r = Startup THEN <<"groups">> ELSE <<>>]
         /\ off = VMs \ s.running /\ behind = IF s.first THEN s.row ELSE {}
         /\ seen = [r \in Threads |-> Blank] /\ more = [r \in Threads |-> {}]
         /\ asked = 0 /\ faults = 0 /\ torn = {} /\ shut = {} /\ crossed = {}
    BY <1>1 DEF Init
  <1>11. ASSUME NEW q \in Threads PROVE Shaped(q)
    <2>1. CASE q = Startup /\ s.first
      <3>1. <<"groups">> \in Course("reconcile")
        BY DEF Course
      <3>2. About(AtStart[Startup], <<"groups">>)
        BY <1>9 DEF About, GroupOps
      <3> QED BY <1>9, <1>10, <2>1, <3>1, <3>2 DEF Shaped, Op
    <2>2. CASE ~(q = Startup /\ s.first)
      <3>1. <<>> \in Course("idle") /\ About(NoJob, <<>>) /\ NoJob.op = "idle"
        BY DEF Course, About, NoJob, GroupOps
      <3> QED BY <1>9, <1>10, <2>2, <3>1 DEF Shaped, Op
    <2> QED BY <2>1, <2>2
  <1>12. job \in [Threads -> JobType] /\ seen \in [Threads -> SeenType]
         /\ DOMAIN job = Threads /\ DOMAIN todo = Threads /\ more \in [Threads -> SUBSET Groups]
    BY <1>8, <1>10, PlainOk
  <1>13. asked \in 0..Budget /\ faults \in 0..MaxFaults
    BY <1>10, VMNetworkAssumption
  <1>14. Rest
    BY <1>2, <1>10, <1>11, <1>12, <1>13 DEF Rest
  <1> QED BY <1>3, <1>7, <1>14, Parts

\* The tables and Incus are of their types, slugs are unique, and every request is where the code
\* of its kind can be, with the calls it has left (the handlers of firewall.go, floating_ip.go and
\* of vm.create).
THEOREM NetworkInv == Spec => []Structure
  BY StructureAtFirst, StructureKept, PTL DEF Spec

\* Every variable keeps its type; no default or bound group lacks its row, and no card lists an
\* ACL that Incus does not have (the foreign keys, and the refusal of DeleteACL).
THEOREM NetworkTypeCorrect == Spec => []TypeOK
  BY NetworkInv, PTL DEF Structure

-----------------------------------------------------------------------------
(* What is on its way to an ACL, and what is there *)

Same(q) == todo'[q] = todo[q] /\ job'[q] = job[q] /\ seen'[q] = seen[q]
Crosses(r, X) ==
  \A q \in Pushing' \ {r} :
    q \in crossed \/ Group(q) \in X \/ (r \in Pushing' /\ Acl(q) = Acl(r)') => q \in crossed'

\* A request that goes on leaves the others as they are, and whoever pushes what it does is
\* crossed.
LEMMA GoesOnCrosses ==
  ASSUME Structure, NEW r \in Threads, NEW s, NEW w, NEW X, Overtake(r, s, w, X)
  PROVE  /\ \A q \in Threads \ {r} : Same(q)
         /\ Crosses(r, X)
         /\ \A q \in Pushing' : q \in crossed => q \in crossed'
  <1>1. \A q \in Threads \ {r} : Same(q)
    BY GoesOn DEF Same
  <1>2. \A q \in Pushing' \ {r} : q \in Threads /\ Group(q)' = Group(q) /\ Acl(q)' = Acl(q)
    BY <1>1 DEF Pushing, Group, Acl, Same
  <1>3. crossed' = (crossed \cap Pushing') \cup CrossedNow' \cup {q \in Pushing' : job'[q].group \in X}
    BY DEF Overtake
  <1>4. \A q \in Pushing' \ {r} : r \in Pushing' /\ Acl(q) = Acl(r)' => q \in CrossedNow'
    BY <1>2 DEF CrossedNow
  <1>5. \A q \in Pushing' \ {r} : job'[q].group = Group(q)
    BY <1>2 DEF Group
  <1> QED BY <1>1, <1>3, <1>4, <1>5 DEF Crosses

\* What a step of request r has to keep of its own and of the groups, for the rules in the
\* tables and those in Incus to agree as before.
LEMMA PushesStep ==
  ASSUME Structure, Pushes, NEW r \in Threads, NEW X,
         \A q \in Threads \ {r} : Same(q),
         Crosses(r, X),
         \A h \in Groups : \/ h \in X
                           \/ r \in Pushing' /\ Slug[h] = Acl(r)'
                           \/ h \notin db'.row
                           \/ h \in db.row /\ db'.rules[h] = db.rules[h],
         PushTrue(r)',
         \A h \in db'.row \ behind' :
           \/ r \in Pushing' /\ Group(r)' = h
           \/ incus'.acl[Slug[h]] = db'.rules[h]
           \/ /\ h \in db.row \ behind /\ (r \in Pushing => Group(r) # h)
              /\ incus'.acl[Slug[h]] = incus.acl[Slug[h]] /\ db'.rules[h] = db.rules[h]
  PROVE  Pushes'
  <1>1. \A q \in Threads \ {r} : /\ q \in Pushing' <=> q \in Pushing
                                 /\ Group(q)' = Group(q) /\ Acl(q)' = Acl(q) /\ Latest(q)' = Latest(q)
    BY DEF Pushing, Group, Acl, Latest, Same
  <1>2. ASSUME NEW q \in Threads PROVE PushTrue(q)'
    <2>1. CASE q = r
      BY <2>1
    <2>2. CASE q # r
      <3> SUFFICES ASSUME q \in Pushing' \ crossed', Head(todo'[q]) \in {"put", "post"},
                          Group(q)' \in db'.row, ~seen'[q].blind
                   PROVE  Latest(q)' = db'.rules[Group(q)']
        BY DEF PushTrue
      <3>1. q \in Pushing \ crossed /\ Head(todo[q]) \in {"put", "post"} /\ ~seen[q].blind
        BY <1>1, <2>2 DEF Same, Crosses
      <3>2. Group(q) \in Groups
        <4>1. job[q] \in JobType /\ Group(q) # None
          BY <3>1 DEF Structure, Pushing
        <4> QED BY <4>1 DEF JobType, Group
      <3>3. Group(q) \in db.row /\ db'.rules[Group(q)] = db.rules[Group(q)]
        BY <1>1, <2>2, <3>1, <3>2 DEF Acl, Crosses
      <3>4. PushTrue(q)
        BY DEF Pushes
      <3>5. Latest(q) = db.rules[Group(q)]
        BY <3>1, <3>3, <3>4 DEF PushTrue
      <3> QED BY <1>1, <2>2, <3>3, <3>5
    <2> QED BY <2>1, <2>2
  <1>3. RulesReachIncus'
    <2> SUFFICES ASSUME NEW h \in db'.row \ behind', \A q \in Pushing' : Group(q)' # h
                 PROVE  incus'.acl[Slug[h]] = db'.rules[h]
      BY DEF RulesReachIncus
    <2>1. CASE /\ h \in db.row \ behind /\ (r \in Pushing => Group(r) # h)
               /\ incus'.acl[Slug[h]] = incus.acl[Slug[h]] /\ db'.rules[h] = db.rules[h]
      <3>1. \A q \in Pushing : Group(q) # h
        BY <1>1, <2>1 DEF Pushing
      <3>2. incus.acl[Slug[h]] = db.rules[h]
        BY <2>1, <3>1 DEF Pushes, RulesReachIncus
      <3> QED BY <2>1, <3>2
    <2> QED BY <2>1
  <1> QED BY <1>2, <1>3 DEF Pushes

\* A step that touches neither rules nor ACLs, of a request that pushes none.
LEMMA QuietStep ==
  ASSUME Structure, Pushes, NEW r \in Threads,
         \A q \in Threads \ {r} : Same(q),
         \A q \in Pushing' : q \in crossed => q \in crossed',
         r \notin Pushing, r \notin Pushing',
         db'.row = db.row, db'.rules = db.rules, incus'.acl = incus.acl, behind' = behind
  PROVE  Pushes'
  <1>1. PushTrue(r)'
    BY DEF PushTrue
  <1>2. \A h \in db'.row \ behind' :
           /\ h \in db.row \ behind /\ (r \in Pushing => Group(r) # h)
           /\ incus'.acl[Slug[h]] = incus.acl[Slug[h]] /\ db'.rules[h] = db.rules[h]
    OBVIOUS
  <1>3. \A h \in Groups : h \notin db'.row \/ (h \in db.row /\ db'.rules[h] = db.rules[h])
    OBVIOUS
  <1>4. Crosses(r, {})
    BY DEF Crosses
  <1> QED BY <1>1, <1>2, <1>3, <1>4, PushesStep

\* What is left of the course of request r after the call it is at.
LEMMA NextCall ==
  ASSUME Structure, NEW r \in Threads, todo[r] # <<>>
  PROVE  /\ Head(todo[r]) = "insert" => Tail(todo[r]) = <<"rules", "put">>
         /\ Head(todo[r]) \in {"rules", "list"} => Tail(todo[r]) = <<"put">>
         /\ Head(todo[r]) \in {"put", "post", "restart", "bind", "unbind", "open", "give", "release"} =>
              Tail(todo[r]) = <<>>
         /\ Head(todo[r]) = "unacl" => Tail(todo[r]) = <<"drop">>
         /\ Head(todo[r]) = "stop" => Tail(todo[r]) = <<"patch", "start", LastRow(Op(r))>>
         /\ Head(todo[r]) = "patch" =>
              Tail(todo[r]) \in {<<"start", LastRow(Op(r))>>, <<LastRow(Op(r))>>}
         /\ Head(todo[r]) = "start" => Tail(todo[r]) = <<LastRow(Op(r))>>
         /\ Head(todo[r]) \in {"bind", "unbind"} => Head(todo[r]) = LastRow(Op(r))
         /\ Head(todo[r]) = "take" => Tail(todo[r]) = <<"look", "open">>
         /\ Head(todo[r]) = "look" => Op(r) = "attach" /\ Tail(todo[r]) = <<"open">>
         /\ Head(todo[r]) = "find" => Op(r) = "detach" /\ Tail(todo[r]) = <<"close", "give">>
         /\ Head(todo[r]) = "close" => Tail(todo[r]) = <<"give">>
         /\ Head(todo[r]) = "holder" => Op(r) = "detach" /\ Tail(todo[r]) = <<"find", "close", "give">>
         /\ Head(todo[r]) = "count" => Tail(todo[r]) = <<"unacl", "drop">>
         /\ Head(todo[r]) = "get" => todo[r][3] = LastRow(Op(r))
  <1>1. Op(r) \in Ops /\ todo[r] \in Course(Op(r))
    BY Where
  <1> DEFINE c == todo[r]
             op == Op(r)
  <1>2. op \in Ops /\ c \in Course(op) /\ c # <<>>
    BY <1>1
  <1> HIDE DEF c, op
  <1>c. CourseTrue(op, c)
    BY <1>2, Courses
  <1>3. /\ Head(c) = "insert" => Tail(c) = <<"rules", "put">>
        /\ Head(c) \in {"rules", "list"} => Tail(c) = <<"put">>
        /\ Head(c) = "unacl" => Tail(c) = <<"drop">>
    BY ONLY <1>c DEF CourseTrue
  <1>4. Head(c) \in {"put", "post", "restart", "bind", "unbind", "open", "give", "release"} =>
          Tail(c) = <<>>
    BY ONLY <1>c DEF CourseTrue
  <1>5. Head(c) = "stop" => Tail(c) = <<"patch", "start", LastRow(op)>>
    BY ONLY <1>c DEF CourseTrue
  <1>7. Head(c) = "patch" => Tail(c) \in {<<"start", LastRow(op)>>, <<LastRow(op)>>}
    BY ONLY <1>c DEF CourseTrue
  <1>8. /\ Head(c) = "start" => Tail(c) = <<LastRow(op)>>
        /\ Head(c) \in {"bind", "unbind"} => Head(c) = LastRow(op)
    BY ONLY <1>c DEF CourseTrue
  <1>6. /\ Head(c) = "take" => Tail(c) = <<"look", "open">>
        /\ Head(c) = "look" => op = "attach" /\ Tail(c) = <<"open">>
        /\ Head(c) = "find" => op = "detach" /\ Tail(c) = <<"close", "give">>
        /\ Head(c) = "close" => Tail(c) = <<"give">>
    BY ONLY <1>c DEF CourseTrue
  <1>9. /\ Head(c) = "holder" => op = "detach" /\ Tail(c) = <<"find", "close", "give">>
        /\ Head(c) = "count" => Tail(c) = <<"unacl", "drop">>
        /\ Head(c) = "get" => c[3] = LastRow(op)
    BY ONLY <1>c DEF CourseTrue
  <1> QED BY ONLY <1>3, <1>4, <1>5, <1>6, <1>7, <1>8, <1>9 DEF c, op

\* When a request pushes the rules of its group.
LEMMA WhenPushing ==
  ASSUME Structure, NEW r \in Threads
  PROVE  /\ r \in Pushing => /\ todo[r] # <<>> /\ Head(todo[r]) \in {"put", "post", "rules"}
                             /\ Head(todo[r]) = "rules" => Op(r) = "create"
         /\ todo[r] # <<>> /\ Head(todo[r]) \in {"put", "post"} => r \in Pushing
         /\ todo[r] # <<>> /\ Head(todo[r]) = "rules" /\ Op(r) = "create" => r \in Pushing
  <1>1. todo[r] # <<>> /\ Head(todo[r]) \in {"put", "post", "rules"} => Group(r) # None
    BY Where, VMNetworkAssumption DEF OfGroup
  <1> QED BY <1>1 DEF Pushing, Op
LEMMA WhenPushingAfter ==
  ASSUME NEW r \in Threads
  PROVE  /\ todo'[r] = <<>> => r \notin Pushing'
         /\ Head(todo'[r]) \notin {"put", "post", "rules"} => r \notin Pushing'
         /\ Head(todo'[r]) = "rules" /\ job'[r].op # "create" => r \notin Pushing'
         /\ todo'[r] # <<>> /\ Head(todo'[r]) \in {"put", "post"} /\ job'[r].group # None => r \in Pushing'
         /\ todo'[r] # <<>> /\ Head(todo'[r]) = "rules" /\ job'[r].op = "create"
              /\ job'[r].group # None => r \in Pushing'
  BY DEF Pushing, Group

\* The calls that touch neither rules nor ACLs.
LEMMA CallQuiet ==
  ASSUME Structure, Pushes, NEW r \in Threads, NEW s, NEW accepted \in BOOLEAN, NEW d, NEW i,
         Call(r, s, accepted, d, i),
         s \in {"stop", "patch", "start", "restart", "bind", "unbind", "take", "open", "close", "give",
                "release"},
         d.row = db.row, d.rules = db.rules, i.acl = incus.acl
  PROVE  Pushes'
  <1>1. todo[r] # <<>> /\ Head(todo[r]) = s
    BY CallCases
  <1>2. r \notin Pushing
    BY <1>1, WhenPushing
  <1>3. Op(r) \in Ops /\ todo[r] \in Course(Op(r))
    BY <1>1, Where
  <1>4. PICK n, X : /\ Overtake(r, n, seen[r], X) /\ n \in {Tail(todo[r]), OnError(r)}
                    /\ db'.row = db.row /\ db'.rules = db.rules /\ incus'.acl = incus.acl
                    /\ behind' = behind
    <2>1. ASSUME accepted, Made(r, s, d, i)
          PROVE  /\ Overtake(r, Tail(todo[r]), seen[r], {})
                 /\ db'.row = db.row /\ db'.rules = db.rules /\ incus'.acl = incus.acl
                 /\ behind' = behind
      BY <2>1 DEF Made, Proceed
    <2>2. ASSUME NEW done \in BOOLEAN, Failed(r, s, done, d, i)
          PROVE  /\ Overtake(r, OnError(r), seen[r], {})
                 /\ db'.row = db.row /\ db'.rules = db.rules /\ incus'.acl = incus.acl
                 /\ behind' = behind
      <3>1. ~Lags(r, s, done)
        BY DEF Lags
      <3> QED BY <2>2, <3>1 DEF Failed
    <2> QED BY <2>1, <2>2, CallCases
  <1>5. r \notin Pushing'
    <2>1. todo'[r] = n
      BY <1>4, GoesOn
    <2>2. n = <<>> \/ Head(n) \notin {"put", "post", "rules"}
      <3>1. OnError(r) \in {Tail(todo[r]), <<>>, <<"give">>, <<"restart">>}
        BY <1>1 DEF OnError, NotFound
      <3>2. Tail(todo[r]) \in {<<>>, <<"patch", "start", LastRow(Op(r))>>, <<"start", LastRow(Op(r))>>,
                               <<LastRow(Op(r))>>, <<"look", "open">>, <<"give">>}
        <4>1. todo[r] # <<>> /\ Head(todo[r]) = s
          BY <1>1
        <4>2. CASE s = "stop"
          BY <4>1, <4>2, NextCall
        <4>3. CASE s = "patch"
          BY <4>1, <4>3, NextCall
        <4>4. CASE s \in {"start", "take", "close"}
          BY <4>1, <4>4, NextCall
        <4>5. CASE s \in {"restart", "bind", "unbind", "open", "give", "release"}
          BY <4>1, <4>5, NextCall
        <4> QED BY <4>2, <4>3, <4>4, <4>5
      <3>3. LastRow(Op(r)) \in {"bind", "unbind"}
        BY DEF LastRow
      <3> DEFINE l == LastRow(Op(r))
      <3>4. n \in {<<>>, <<"patch", "start", l>>, <<"start", l>>, <<l>>, <<"look", "open">>, <<"give">>,
                   <<"restart">>}
        BY <1>4, <3>1, <3>2
      <3> HIDE DEF l
      <3>5. CASE n = <<"patch", "start", l>>
        BY <3>5
      <3>6. CASE n = <<"start", l>>
        BY <3>6
      <3>7. CASE n = <<l>>
        BY <3>7, <3>3 DEF l
      <3>8. CASE n = <<"look", "open">>
        BY <3>8
      <3>9. CASE n = <<"give">>
        BY <3>9
      <3>10. CASE n = <<"restart">>
        BY <3>10
      <3> QED BY <3>4, <3>5, <3>6, <3>7, <3>8, <3>9, <3>10
    <2> QED BY <2>1, <2>2, WhenPushingAfter
  <1> QED BY <1>2, <1>4, <1>5, GoesOnCrosses, QuietStep

LEMMA QuietCalls ==
  ASSUME Structure, Pushes, NEW r \in Threads,
         \/ StopVM(r) \/ PatchACLs(r) \/ StartVM(r) \/ BindRow(r) \/ UnbindRow(r)
         \/ TakeAddress(r) \/ OpenFilter(r) \/ CloseFilter(r) \/ GiveAddress(r) \/ ReleaseAddress(r)
  PROVE  Pushes'
  <1>1. TablesOk(db) /\ IncusOk(incus)
    BY Parts
  <1>2. CASE StopVM(r)
    <2> DEFINE accepted == VM(r) \in incus.running
               d == db
               i == [incus EXCEPT !.running = @ \ {VM(r)}]
    <2>1. Call(r, "stop", accepted, d, i) /\ accepted \in BOOLEAN
      BY <1>2 DEF StopVM
    <2>2. d.row = db.row /\ d.rules = db.rules /\ i.acl = incus.acl
      BY <1>1 DEF TablesOk, IncusOk
    <2> HIDE DEF accepted, d, i
    <2> QED BY <2>1, <2>2, CallQuiet
  <1>3. CASE PatchACLs(r)
    <2> DEFINE accepted == Writable(VM(r), Mutated(r, seen[r].acls))
               d == db
               i == Card(VM(r), Mutated(r, seen[r].acls), seen[r].filtered)
    <2>1. Call(r, "patch", accepted, d, i) /\ accepted \in BOOLEAN
      BY <1>3 DEF PatchACLs, Card, Writable
    <2>2. d.row = db.row /\ d.rules = db.rules /\ i.acl = incus.acl
      BY <1>1 DEF TablesOk, IncusOk, Card, Writable
    <2> HIDE DEF accepted, d, i
    <2> QED BY <2>1, <2>2, CallQuiet
  <1>4. CASE BindRow(r)
    <2> DEFINE accepted == Group(r) \in db.row
               d == [db EXCEPT !.bound = @ \cup {<<VM(r), Group(r)>>}]
               i == incus
    <2>1. Call(r, "bind", accepted, d, i) /\ accepted \in BOOLEAN
      BY <1>4 DEF BindRow
    <2>2. d.row = db.row /\ d.rules = db.rules /\ i.acl = incus.acl
      BY <1>1 DEF TablesOk, IncusOk
    <2> HIDE DEF accepted, d, i
    <2> QED BY <2>1, <2>2, CallQuiet
  <1>5. CASE UnbindRow(r)
    <2> DEFINE accepted == TRUE
               d == [db EXCEPT !.bound = @ \ {<<VM(r), Group(r)>>}]
               i == incus
    <2>1. Call(r, "unbind", accepted, d, i) /\ accepted \in BOOLEAN
      BY <1>5 DEF UnbindRow
    <2>2. d.row = db.row /\ d.rules = db.rules /\ i.acl = incus.acl
      BY <1>1 DEF TablesOk, IncusOk
    <2> HIDE DEF accepted, d, i
    <2> QED BY <2>1, <2>2, CallQuiet
  <1>6. CASE TakeAddress(r)
    <2> DEFINE accepted == db.addr[job[r].address] = Available
               d == [db EXCEPT !.addr[job[r].address] = VM(r)]
               i == incus
    <2>1. Call(r, "take", accepted, d, i) /\ accepted \in BOOLEAN
      BY <1>6 DEF TakeAddress
    <2>2. d.row = db.row /\ d.rules = db.rules /\ i.acl = incus.acl
      BY <1>1 DEF TablesOk, IncusOk
    <2> HIDE DEF accepted, d, i
    <2> QED BY <2>1, <2>2, CallQuiet
  <1>7. CASE OpenFilter(r)
    <2> DEFINE accepted == Writable(VM(r), seen[r].acls)
               d == db
               i == Card(VM(r), seen[r].acls, FALSE)
    <2>1. Call(r, "open", accepted, d, i) /\ accepted \in BOOLEAN
      BY <1>7 DEF OpenFilter, Card, Writable
    <2>2. d.row = db.row /\ d.rules = db.rules /\ i.acl = incus.acl
      BY <1>1 DEF TablesOk, IncusOk, Card, Writable
    <2> HIDE DEF accepted, d, i
    <2> QED BY <2>1, <2>2, CallQuiet
  <1>8. CASE CloseFilter(r)
    <2> DEFINE accepted == Writable(VM(r), seen[r].acls)
               d == db
               i == Card(VM(r), seen[r].acls, TRUE)
    <2>1. Call(r, "close", accepted, d, i) /\ accepted \in BOOLEAN
      BY <1>8 DEF CloseFilter, Card, Writable
    <2>2. d.row = db.row /\ d.rules = db.rules /\ i.acl = incus.acl
      BY <1>1 DEF TablesOk, IncusOk, Card, Writable
    <2> HIDE DEF accepted, d, i
    <2> QED BY <2>1, <2>2, CallQuiet
  <1>9. CASE GiveAddress(r)
    <2> DEFINE accepted == TRUE
               d == [db EXCEPT !.addr[job[r].address] = IF @ \in VMs THEN Available ELSE @]
               i == incus
    <2>1. Call(r, "give", accepted, d, i) /\ accepted \in BOOLEAN
      BY <1>9 DEF GiveAddress
    <2>2. d.row = db.row /\ d.rules = db.rules /\ i.acl = incus.acl
      BY <1>1 DEF TablesOk, IncusOk
    <2> HIDE DEF accepted, d, i
    <2> QED BY <2>1, <2>2, CallQuiet
  <1>10. CASE ReleaseAddress(r)
    <2> DEFINE accepted == db.addr[job[r].address] = Available
               d == [db EXCEPT !.addr[job[r].address] = None]
               i == incus
    <2>1. Call(r, "release", accepted, d, i) /\ accepted \in BOOLEAN
      BY <1>10 DEF ReleaseAddress
    <2>2. d.row = db.row /\ d.rules = db.rules /\ i.acl = incus.acl
      BY <1>1 DEF TablesOk, IncusOk
    <2> HIDE DEF accepted, d, i
    <2> QED BY <2>1, <2>2, CallQuiet
  <1>11. CASE StartVM(r)
    <2> DEFINE accepted == VM(r) \in incus.living \ incus.running
               i == Started(VM(r))
    <2>1. PICK s \in {"start", "restart"} : Call(r, s, accepted, db, i)
      BY <1>11 DEF StartVM
    <2>2. i.acl = incus.acl /\ accepted \in BOOLEAN
      BY <1>1 DEF IncusOk, Started
    <2> HIDE DEF accepted, i
    <2> QED BY <2>1, <2>2, CallQuiet
  <1> QED BY <1>2, <1>3, <1>4, <1>5, <1>6, <1>7, <1>8, <1>9, <1>10, <1>11

LEMMA QuietReads ==
  ASSUME Structure, Pushes, NEW r \in Threads,
         \/ ListGroups(r) \/ NextGroup(r) \/ GetGroup(r) \/ CountBindings(r)
         \/ GetInstance(r) \/ ReadHolder(r) \/ LookAtCard(r)
  PROVE  Pushes'
  <1>1. Op(r) \in Ops /\ DOMAIN todo = Threads /\ DOMAIN job = Threads /\ DOMAIN seen = Threads
        /\ job[r] \in JobType
    BY DEF Structure, TypeOK, JobType, Op
  <1>2. ASSUME NEW n, NEW w, Overtake(r, n, w, {}), r \notin Pushing,
               n = <<>> \/ (Head(n) \notin {"put", "post", "rules"})
                 \/ (Head(n) = "rules" /\ Op(r) = "edit"),
               UNCHANGED <<db, incus, behind>>
        PROVE  Pushes'
    <2>1. todo'[r] = n /\ (n # <<>> => job'[r] = job[r])
      BY <1>2, GoesOn
    <2>2. r \notin Pushing'
      BY <1>2, <2>1, WhenPushingAfter DEF Op
    <2> QED BY <1>2, <2>2, GoesOnCrosses, QuietStep
  <1>3. OnError(r) \in {Tail(todo[r]), <<>>, <<"give">>, <<"restart">>, <<"post">>}
    BY DEF OnError
  <1>4. ASSUME NEW step \in {"group", "count", "get", "look", "find"}, NEW s, NEW w,
               Read(r, step, s, w),
               s = OnError(r) \/ s = <<>> \/ (Head(s) \notin {"put", "post", "rules"})
                 \/ (Head(s) = "rules" /\ Op(r) = "edit")
        PROVE  Pushes'
    <2>1. todo[r] # <<>> /\ Head(todo[r]) = step
      BY <1>4 DEF Read, Doing
    <2>2. r \notin Pushing
      BY <2>1, WhenPushing
    <2>3. OnError(r) \in {<<>>, <<"give">>}
      BY <2>1 DEF OnError, NotFound
    <2>4. Head(<<"give">>) = "give"
      OBVIOUS
    <2>5. \E n, x : Overtake(r, n, x, {}) /\ n \in {s, OnError(r)}
      BY <1>4 DEF Read, Proceed
    <2>6. UNCHANGED <<db, incus, behind>>
      BY <1>4 DEF Read
    <2> QED BY <1>2, <1>4, <2>2, <2>3, <2>4, <2>5, <2>6
  <1>5. CASE GetGroup(r)
    <2> DEFINE s == IF Group(r) \in db.row THEN Tail(todo[r]) ELSE <<>>
    <2>1. Read(r, "group", s, seen[r])
      BY <1>5 DEF GetGroup
    <2>2. /\ Head(Tail(todo[r])) \in {"rules", "list", "unacl", "count", "get"}
          /\ Head(Tail(todo[r])) = "rules" => Op(r) = "edit"
      <3>1. todo[r] # <<>> /\ Head(todo[r]) = "group"
        BY <2>1 DEF Read, Doing
      <3>2. Op(r) \in Ops /\ todo[r] \in Course(Op(r))
        BY <3>1, Where
      <3> QED BY <3>1, <3>2, Courses DEF CourseTrue
    <2>3. s = <<>> \/ s = Tail(todo[r])
      OBVIOUS
    <2> HIDE DEF s
    <2> QED BY <1>4, <2>1, <2>2, <2>3
  <1>6. CASE CountBindings(r)
    <2> DEFINE s == IF \E b \in db.bound : b[2] = Group(r) THEN <<>> ELSE Tail(todo[r])
    <2>1. Read(r, "count", s, seen[r])
      BY <1>6 DEF CountBindings
    <2>2. Tail(todo[r]) = <<"unacl", "drop">>
      BY <2>1, NextCall DEF Read, Doing
    <2>3. s = <<>> \/ Head(s) = "unacl"
      <3>1. Head(<<"unacl", "drop">>) = "unacl"
        OBVIOUS
      <3> QED BY <2>2, <3>1
    <2> HIDE DEF s
    <2> QED BY <1>4, <2>1, <2>3
  <1>7. CASE GetInstance(r)
    <2> DEFINE row == todo[r][3]
               s == IF VM(r) \notin incus.living THEN <<>>
                    ELSE IF Mutated(r, incus.acls[VM(r)]) = incus.acls[VM(r)] THEN <<row>>
                    ELSE IF VM(r) \in incus.running THEN <<"stop", "patch", "start", row>>
                    ELSE <<"patch", row>>
    <2>1. Read(r, "get", s, Sight(VM(r)))
      BY <1>7 DEF GetInstance
    <2>2. row \in {"bind", "unbind"}
      <3>1. todo[r] # <<>> /\ Head(todo[r]) = "get"
        BY <2>1 DEF Read, Doing
      <3>2. todo[r][3] = LastRow(Op(r))
        BY <3>1, NextCall
      <3> QED BY <3>2 DEF LastRow
    <2>3. Head(<<row>>) = row /\ Head(<<"patch", row>>) = "patch"
          /\ Head(<<"stop", "patch", "start", row>>) = "stop"
      OBVIOUS
    <2>4. s \in {<<>>, <<row>>, <<"stop", "patch", "start", row>>, <<"patch", row>>}
      OBVIOUS
    <2> HIDE DEF s, row
    <2>5. s = <<>> \/ Head(s) \in {"bind", "unbind", "patch", "stop"}
      BY <2>2, <2>3, <2>4
    <2> QED BY <1>4, <2>1, <2>5
  <1>8. CASE LookAtCard(r)
    <2> DEFINE s == IF VM(r) \in incus.living THEN Tail(todo[r]) ELSE OnError(r)
    <2>1. PICK h \in {"look", "find"} : Read(r, h, s, Sight(VM(r)))
      BY <1>8 DEF LookAtCard
    <2>2. Tail(todo[r]) \in {<<"open">>, <<"close", "give">>}
      BY <2>1, NextCall DEF Read, Doing
    <2>3. Head(Tail(todo[r])) \in {"open", "close"}
      <3>1. Head(<<"open">>) = "open" /\ Head(<<"close", "give">>) = "close"
        OBVIOUS
      <3> QED BY <2>2, <3>1
    <2>4. s = OnError(r) \/ s = Tail(todo[r])
      OBVIOUS
    <2> HIDE DEF s
    <2> QED BY <1>4, <2>1, <2>3, <2>4
  <1>9. CASE ReadHolder(r)
    <2>1. todo[r] # <<>> /\ Head(todo[r]) = "holder"
      BY <1>9 DEF ReadHolder, Doing
    <2>2. /\ \A q \in Threads \ {r} : Same(q)
          /\ todo'[r] \in {<<>>, Tail(todo[r])} /\ UNCHANGED <<db, incus, behind, crossed>>
      BY <1>1, <1>9 DEF ReadHolder, Same
    <2>3. Tail(todo[r]) = <<"find", "close", "give">>
      BY <2>1, NextCall
    <2>4. r \notin Pushing /\ r \notin Pushing'
      <3>1. Head(<<"find", "close", "give">>) = "find"
        OBVIOUS
      <3> QED BY <2>1, <2>2, <2>3, <3>1, WhenPushing, WhenPushingAfter
    <2> QED BY <2>2, <2>4, QuietStep
  <1>10. CASE ListGroups(r)
    <2>1. todo[r] # <<>> /\ Head(todo[r]) = "groups"
      BY <1>10 DEF ListGroups, Doing
    <2>2. /\ \A q \in Threads \ {r} : Same(q)
          /\ todo'[r] = <<>> /\ UNCHANGED <<db, incus, behind, crossed>>
      BY <1>1, <1>10 DEF ListGroups, Same
    <2>3. r \notin Pushing /\ r \notin Pushing'
      BY <2>1, <2>2, WhenPushing, WhenPushingAfter
    <2> QED BY <2>2, <2>3, QuietStep
  <1>11. CASE NextGroup(r)
    <2>1. todo[r] = <<>> /\ more[r] # {} /\ Op(r) \in {"defaults", "reconcile"}
      BY <1>11 DEF NextGroup, Structure, Shaped
    <2>2. /\ \A q \in Threads \ {r} : Same(q)
          /\ todo'[r] = Program[Op(r)] /\ UNCHANGED <<db, incus, behind, crossed>>
      BY <1>1, <1>11 DEF NextGroup, Same, Op
    <2>3. Program[Op(r)] \in {ApplyDefault, Reconcile}
      BY <2>1 DEF Program
    <2>4. Head(Program[Op(r)]) \in {"get", "list"}
      BY <2>3 DEF ApplyDefault, Reconcile
    <2>5. r \notin Pushing /\ r \notin Pushing'
      BY <2>1, <2>2, <2>4, WhenPushing, WhenPushingAfter
    <2> QED BY <2>2, <2>5, QuietStep
  <1> QED BY <1>5, <1>6, <1>7, <1>8, <1>9, <1>10, <1>11

\* The insert of a group, whose creator pushes its rules next.
LEMMA InsertPushes ==
  ASSUME Structure, Pushes, NEW r \in Threads, InsertGroup(r)
  PROVE  Pushes'
  <1> DEFINE g == Group(r)
             d == [db EXCEPT !.row = @ \cup {g}, !.used = @ \cup {g}]
             accepted == g \notin db.used /\ \A h \in db.row : Slug[h] # Acl(r)
  <1>1. Call(r, "insert", accepted, d, incus) /\ accepted \in BOOLEAN
    BY DEF InsertGroup
  <1>2. TablesOk(db) /\ IncusOk(incus)
    BY Parts
  <1>3. d.row = db.row \cup {g} /\ d.rules = db.rules
    BY <1>2 DEF TablesOk
  <1> HIDE DEF d, accepted
  <1>4. todo[r] # <<>> /\ Head(todo[r]) = "insert"
    BY <1>1, CallCases
  <1>5. /\ g \in Groups /\ Op(r) = "create" /\ Tail(todo[r]) = <<"rules", "put">> /\ r \notin Pushing
        /\ g # None
    <2>1. g \in Groups /\ Op(r) \in Ops /\ todo[r] \in Course(Op(r)) /\ seen[r] \in SeenType
      BY <1>4, Where DEF OfGroup
    <2>2. g # None
      BY <2>1, VMNetworkAssumption
    <2>3. /\ Head(todo[r]) \in {"put", "post"} => r \in Pushing
          /\ r \in Pushing => \/ Head(todo[r]) \in {"put", "post"}
                              \/ Head(todo[r]) = "rules" /\ Op(r) = "create"
      BY <1>4, WhenPushing
    <2> HIDE DEF g
    <2> QED BY <1>4, <2>1, <2>2, <2>3, Courses DEF CourseTrue
  <1>6. OnError(r) = <<>> /\ ~Lags(r, "insert", FALSE) /\ Lags(r, "insert", TRUE) /\ g \in Namesakes(r)
    BY <1>4, <1>5 DEF OnError, NotFound, Lags, Namesakes, Acl
  <1>7. CASE Made(r, "insert", d, incus)
    <2>1. /\ Overtake(r, <<"rules", "put">>, seen[r], {}) /\ db' = d /\ incus' = incus
          /\ behind' = behind
      BY <1>5, <1>7 DEF Made, Proceed
    <2>2. todo'[r] = <<"rules", "put">> /\ job'[r] = job[r] /\ Head(todo'[r]) = "rules"
      BY <2>1, GoesOn
    <2>3. r \in Pushing' /\ Group(r)' = g /\ Acl(r)' = Acl(r)
      <3>1. Group(r)' = g /\ Acl(r)' = Acl(r) /\ job'[r].op = "create" /\ todo'[r] # <<>>
        BY <1>5, <2>2 DEF Op, Group, Acl
      <3>2. job'[r].group # None
        BY <1>5, <2>2 DEF Group
      <3> QED BY <2>2, <3>1, <3>2, WhenPushingAfter
    <2>4. PushTrue(r)'
      BY <2>2 DEF PushTrue
    <2>5. \A h \in Groups : \/ r \in Pushing' /\ Slug[h] = Acl(r)'
                            \/ h \notin db'.row
                            \/ h \in db.row /\ db'.rules[h] = db.rules[h]
      BY <1>3, <2>1, <2>3 DEF Acl
    <2>6. \A h \in db'.row \ behind' :
           \/ r \in Pushing' /\ Group(r)' = h
           \/ /\ h \in db.row \ behind /\ (r \in Pushing => Group(r) # h)
              /\ incus'.acl[Slug[h]] = incus.acl[Slug[h]] /\ db'.rules[h] = db.rules[h]
      BY <1>3, <1>5, <2>1, <2>3
    <2> QED BY <2>1, <2>4, <2>5, <2>6, GoesOnCrosses, PushesStep
  <1>8. ASSUME NEW done \in BOOLEAN, Failed(r, "insert", done, d, incus) PROVE Pushes'
    <2> DEFINE X == IF done THEN Namesakes(r) ELSE {}
    <2>1. /\ Overtake(r, <<>>, seen[r], X)
          /\ done => db' = d /\ incus' = incus /\ behind' = behind \cup Namesakes(r)
          /\ ~done => db' = db /\ incus' = incus /\ behind' = behind
      BY <1>6, <1>8 DEF Failed
    <2>2. todo'[r] = <<>> /\ r \notin Pushing'
      BY <2>1, GoesOn, WhenPushingAfter
    <2>3. PushTrue(r)'
      BY <2>2 DEF PushTrue
    <2>4. \A h \in Groups : \/ h \in X
                            \/ h \notin db'.row
                            \/ h \in db.row /\ db'.rules[h] = db.rules[h]
      BY <1>3, <1>6, <2>1
    <2>5. \A h \in db'.row \ behind' :
              /\ h \in db.row \ behind /\ (r \in Pushing => Group(r) # h)
              /\ incus'.acl[Slug[h]] = incus.acl[Slug[h]] /\ db'.rules[h] = db.rules[h]
      BY <1>3, <1>5, <1>6, <2>1
    <2> HIDE DEF X
    <2> QED BY <2>1, <2>3, <2>4, <2>5, GoesOnCrosses, PushesStep
  <1> QED BY <1>1, <1>7, <1>8, CallCases

\* The rules of a group are replaced, and pushed next.
LEMMA RulesPushes ==
  ASSUME Structure, Pushes, NEW r \in Threads, ReplaceRules(r)
  PROVE  Pushes'
  <1> DEFINE g == Group(r)
             wanted == job[r].rules
             d == [db EXCEPT !.rules[g] = wanted]
             accepted == g \in db.row \/ wanted = NoRules
  <1>1. Call(r, "rules", accepted, d, incus) /\ accepted \in BOOLEAN
    BY DEF ReplaceRules
  <1>2. TablesOk(db) /\ IncusOk(incus)
    BY Parts
  <1>3. todo[r] # <<>> /\ Head(todo[r]) = "rules"
    BY <1>1, CallCases
  <1>4. /\ g \in Groups /\ Op(r) \in {"create", "edit"} /\ Tail(todo[r]) = <<"put">>
        /\ g # None /\ (r \in Pushing => Op(r) = "create")
    <2>1. g \in Groups /\ Op(r) \in Ops /\ todo[r] \in Course(Op(r)) /\ seen[r] \in SeenType
      BY <1>3, Where DEF OfGroup
    <2>2. g # None
      BY <2>1, VMNetworkAssumption
    <2>3. /\ Head(todo[r]) \in {"put", "post"} => r \in Pushing
          /\ r \in Pushing => \/ Head(todo[r]) \in {"put", "post"}
                              \/ Head(todo[r]) = "rules" /\ Op(r) = "create"
      BY <1>3, WhenPushing
    <2> HIDE DEF g
    <2> QED BY <1>3, <2>1, <2>2, <2>3, Courses DEF CourseTrue
  <1>5. d.row = db.row /\ d.rules[g] = wanted /\ \A h \in Groups \ {g} : d.rules[h] = db.rules[h]
    BY <1>2, <1>4 DEF TablesOk
  <1> HIDE DEF d, accepted
  <1>6. /\ OnError(r) = <<>> /\ g \in Namesakes(r) /\ Lags(r, "rules", TRUE)
        /\ ~Lags(r, "rules", FALSE) => Op(r) = "edit"
    BY <1>3, <1>4 DEF OnError, NotFound, Lags, Namesakes, Acl, Op
  <1>7. CASE Made(r, "rules", d, incus)
    <2>1. /\ Overtake(r, <<"put">>, seen[r], {}) /\ db' = d /\ incus' = incus
          /\ behind' = behind
      BY <1>4, <1>7 DEF Made, Proceed
    <2>2. todo'[r] = <<"put">> /\ job'[r] = job[r] /\ Head(todo'[r]) = "put"
      BY <2>1, GoesOn
    <2>3. r \in Pushing' /\ Group(r)' = g /\ Acl(r)' = Acl(r)
      BY <1>4, <2>2, WhenPushingAfter DEF Op, Group, Acl
    <2>4. PushTrue(r)'
      BY <1>4, <1>5, <2>1, <2>2 DEF PushTrue, Latest, Op, Group
    <2>5. \A h \in Groups : \/ r \in Pushing' /\ Slug[h] = Acl(r)'
                            \/ h \notin db'.row
                            \/ h \in db.row /\ db'.rules[h] = db.rules[h]
      BY <1>5, <2>1, <2>3 DEF Acl
    <2>6. \A h \in db'.row \ behind' :
           \/ r \in Pushing' /\ Group(r)' = h
           \/ /\ h \in db.row \ behind /\ (r \in Pushing => Group(r) # h)
              /\ incus'.acl[Slug[h]] = incus.acl[Slug[h]] /\ db'.rules[h] = db.rules[h]
      BY <1>2, <1>5, <2>1, <2>3 DEF TablesOk
    <2> QED BY <2>1, <2>4, <2>5, <2>6, GoesOnCrosses, PushesStep
  <1>8. ASSUME NEW done \in BOOLEAN, Failed(r, "rules", done, d, incus) PROVE Pushes'
    <2> DEFINE X == IF Lags(r, "rules", done) THEN Namesakes(r) ELSE {}
    <2>1. /\ Overtake(r, <<>>, seen[r], X)
          /\ done => db' = d /\ incus' = incus
          /\ ~done => db' = db /\ incus' = incus
          /\ Lags(r, "rules", done) => behind' = behind \cup Namesakes(r)
          /\ ~Lags(r, "rules", done) => behind' = behind
      BY <1>6, <1>8 DEF Failed
    <2>2. todo'[r] = <<>> /\ r \notin Pushing'
      BY <2>1, GoesOn, WhenPushingAfter
    <2>3. PushTrue(r)'
      BY <2>2 DEF PushTrue
    <2>4. \A h \in Groups : \/ h \in X
                            \/ h \notin db'.row
                            \/ h \in db.row /\ db'.rules[h] = db.rules[h]
      BY <1>5, <1>6, <2>1
    <2>5. \A h \in db'.row \ behind' :
              /\ h \in db.row \ behind /\ (r \in Pushing => Group(r) # h)
              /\ incus'.acl[Slug[h]] = incus.acl[Slug[h]] /\ db'.rules[h] = db.rules[h]
      <3>1. CASE Lags(r, "rules", done)
        BY <1>2, <1>5, <1>6, <2>1, <3>1 DEF TablesOk
      <3>2. CASE ~Lags(r, "rules", done)
        <4>1. ~done /\ r \notin Pushing
          BY <1>4, <1>6, <3>2
        <4> QED BY <2>1, <3>2, <4>1
      <3> QED BY <3>1, <3>2
    <2> HIDE DEF X
    <2> QED BY <2>1, <2>3, <2>4, <2>5, GoesOnCrosses, PushesStep
  <1> QED BY <1>1, <1>7, <1>8, CallCases

\* The rules of a group are read, to be pushed.
LEMMA ListPushes ==
  ASSUME Structure, Pushes, NEW r \in Threads, ListRules(r)
  PROVE  Pushes'
  <1> DEFINE g == Group(r)
             w(rs, blind) == [seen[r] EXCEPT !.rules = rs, !.blind = blind]
  <1>1. todo[r] # <<>> /\ Head(todo[r]) = "list" /\ UNCHANGED <<db, incus, behind>>
    BY DEF ListRules, Doing
  <1>2. /\ g \in Groups /\ Op(r) \in {"rename", "reconcile"} /\ Tail(todo[r]) = <<"put">>
        /\ g # None /\ r \notin Pushing /\ seen[r] \in SeenType
    <2>1. g \in Groups /\ Op(r) \in Ops /\ todo[r] \in Course(Op(r)) /\ seen[r] \in SeenType
      BY <1>1, Where DEF OfGroup
    <2>2. g # None
      BY <2>1, VMNetworkAssumption
    <2>3. /\ Head(todo[r]) \in {"put", "post"} => r \in Pushing
          /\ r \in Pushing => \/ Head(todo[r]) \in {"put", "post"}
                              \/ Head(todo[r]) = "rules" /\ Op(r) = "create"
      BY <1>1, WhenPushing
    <2> HIDE DEF g
    <2> QED BY <1>1, <2>1, <2>2, <2>3, Courses DEF CourseTrue
  <1>3. \/ Overtake(r, <<"put">>, w(db.rules[g], FALSE), {})
        \/ Overtake(r, <<"put">>, w(NoRules, TRUE), {})
        \/ Overtake(r, <<>>, seen[r], {})
    BY <1>2 DEF ListRules, Proceed
  <1>4. \A h \in db'.row \ behind' :
          /\ h \in db.row \ behind /\ (r \in Pushing => Group(r) # h)
          /\ incus'.acl[Slug[h]] = incus.acl[Slug[h]] /\ db'.rules[h] = db.rules[h]
    BY <1>1, <1>2
  <1>5. \A h \in Groups : h \notin db'.row \/ (h \in db.row /\ db'.rules[h] = db.rules[h])
    BY <1>1
  <1>6. ASSUME NEW n, NEW x, Overtake(r, n, x, {}), PushTrue(r)' PROVE Pushes'
    BY <1>4, <1>5, <1>6, GoesOnCrosses, PushesStep
  <1>7. CASE Overtake(r, <<"put">>, w(db.rules[g], FALSE), {})
    <2>1. job'[r] = job[r] /\ seen'[r] = w(db.rules[g], FALSE)
      BY <1>7, GoesOn
    <2>2. seen'[r].rules = db.rules[g]
      BY <1>2, <2>1 DEF SeenType
    <2>3. PushTrue(r)'
      BY <1>1, <1>2, <2>1, <2>2 DEF PushTrue, Latest, Op, Group
    <2> HIDE DEF w
    <2> QED BY <1>6, <1>7, <2>3
  <1>8. CASE Overtake(r, <<"put">>, w(NoRules, TRUE), {})
    <2>1. seen'[r] = w(NoRules, TRUE)
      BY <1>8, GoesOn
    <2>2. seen'[r].blind
      BY <1>2, <2>1 DEF SeenType
    <2>3. PushTrue(r)'
      BY <2>2 DEF PushTrue
    <2> HIDE DEF w
    <2> QED BY <1>6, <1>8, <2>3
  <1>9. CASE Overtake(r, <<>>, seen[r], {})
    <2>1. r \notin Pushing'
      BY <1>9, GoesOn, WhenPushingAfter
    <2>2. PushTrue(r)'
      BY <2>1 DEF PushTrue
    <2> QED BY <1>6, <1>9, <2>2
  <1> HIDE DEF w
  <1> QED BY <1>3, <1>7, <1>8, <1>9

\* The rules of a group reach Incus.
LEMMA PutPushes ==
  ASSUME Structure, Pushes, NEW r \in Threads, PutACL(r) \/ PostACL(r)
  PROVE  Pushes'
  <1> DEFINE g == Group(r)
             i == [incus EXCEPT !.acl[Acl(r)] = Latest(r)]
             there == incus.acl[Acl(r)] # Absent
             missing == incus.acl[Acl(r)] = Absent
  <1>1. Call(r, "put", there, db, i) \/ Call(r, "post", missing, db, i)
    BY DEF PutACL, PostACL
  <1>2. PICK s \in {"put", "post"}, accepted \in {there, missing} :
           /\ Call(r, s, accepted, db, i)
           /\ s = "put" => accepted = there
    BY <1>1
  <1>3. there \in BOOLEAN /\ missing \in BOOLEAN
    OBVIOUS
  <1>4. TablesOk(db) /\ IncusOk(incus) /\ PushTrue(r)
    BY Parts DEF Pushes
  <1> HIDE DEF there, missing
  <1>5. todo[r] # <<>> /\ Head(todo[r]) = s /\ accepted \in BOOLEAN
    BY <1>2, <1>3, CallCases
  <1>6. /\ g \in Groups /\ Tail(todo[r]) = <<>> /\ g # None /\ r \in Pushing
    <2>1. g \in Groups /\ Op(r) \in Ops /\ todo[r] \in Course(Op(r)) /\ seen[r] \in SeenType
      BY <1>5, Where DEF OfGroup
    <2>2. g # None
      BY <2>1, VMNetworkAssumption
    <2>3. /\ Head(todo[r]) \in {"put", "post"} => r \in Pushing
          /\ r \in Pushing => \/ Head(todo[r]) \in {"put", "post"}
                              \/ Head(todo[r]) = "rules" /\ Op(r) = "create"
      BY <1>5, WhenPushing
    <2> HIDE DEF g
    <2> QED BY <1>5, <2>1, <2>2, <2>3, Courses DEF CourseTrue
  <1>7. i.acl[Acl(r)] = Latest(r) /\ \A n \in Slugs \ {Acl(r)} : i.acl[n] = incus.acl[n]
    BY <1>4, <1>6, AclOk DEF IncusOk
  <1> HIDE DEF i
  <1>8. Namesakes(r) = {h \in Groups : Slug[h] = Acl(r)} /\ g \in Namesakes(r)
    BY <1>6 DEF Namesakes, Acl
  <1>9. \A h \in Groups : h \notin Namesakes(r) => Slug[h] \in Slugs \ {Acl(r)}
    BY <1>8 DEF Slugs
  <1>10. Sound(r) => Latest(r) = db.rules[g] /\ g \in db.row
    BY <1>4, <1>5, <1>6 DEF Sound, PushTrue
  <1>11. Sound(r) => \A h \in db.row : h = g \/ h \notin Namesakes(r)
    BY <1>4, <1>8, <1>10 DEF TablesOk, Acl
  <1>12. db.row \subseteq Groups
    BY <1>4 DEF TablesOk
  <1>13. CASE Made(r, s, db, i)
    <2>1. /\ Overtake(r, <<>>, seen[r], {}) /\ db' = db /\ incus' = i
          /\ Sound(r) => behind' = behind \ {g}
          /\ ~Sound(r) => behind' = behind \cup Namesakes(r)
      <3>1. s \in {"put", "post"}
        OBVIOUS
      <3> QED BY <1>6, <1>13, <3>1 DEF Made, Proceed
    <2>2. r \notin Pushing'
      BY <2>1, GoesOn, WhenPushingAfter
    <2>3. PushTrue(r)'
      BY <2>2 DEF PushTrue
    <2>4. \A h \in Groups : h \notin db'.row \/ (h \in db.row /\ db'.rules[h] = db.rules[h])
      BY <2>1
    <2>5. ASSUME NEW h \in db'.row \ behind'
          PROVE  \/ incus'.acl[Slug[h]] = db'.rules[h]
                 \/ /\ h \in db.row \ behind /\ (r \in Pushing => Group(r) # h)
                    /\ incus'.acl[Slug[h]] = incus.acl[Slug[h]] /\ db'.rules[h] = db.rules[h]
      <3>1. h \in db.row /\ h \in Groups
        BY <1>12, <2>1
      <3>2. CASE h = g
        <4>1. Sound(r)
          BY <1>8, <2>1, <3>2
        <4>2. Slug[h] = Acl(r)
          BY <3>2 DEF Acl
        <4> QED BY <1>7, <1>10, <2>1, <3>2, <4>1, <4>2
      <3>3. CASE h # g
        <4>1. h \notin Namesakes(r) /\ h \notin behind
          BY <1>8, <1>11, <2>1, <3>1, <3>3
        <4> QED BY <1>7, <1>9, <2>1, <3>1, <3>3, <4>1
      <3> QED BY <3>2, <3>3
    <2> QED BY <2>1, <2>3, <2>4, <2>5, GoesOnCrosses, PushesStep
  <1>14. ASSUME NEW done \in BOOLEAN, done => accepted, Failed(r, s, done, db, i) PROVE Pushes'
    <2> DEFINE L == Lags(r, s, done)
               X == IF L THEN Namesakes(r) ELSE {}
    <2>1. /\ Overtake(r, OnError(r), seen[r], X)
          /\ done => db' = db /\ incus' = i
          /\ ~done => db' = db /\ incus' = incus
          /\ L => behind' = behind \cup Namesakes(r)
          /\ ~L => behind' = behind
      BY <1>14 DEF Failed
    <2>2. db' = db
      BY <2>1
    <2>3. \A h \in Groups : h \notin db'.row \/ (h \in db.row /\ db'.rules[h] = db.rules[h])
      BY <2>2
    <2>4. CASE NotFound(r)
      <3>1. OnError(r) = <<"post">> /\ s = "put" /\ ~done
        BY <1>2, <1>5, <1>14, <2>4 DEF OnError, NotFound, there
      <3>2. todo'[r] = <<"post">> /\ job'[r] = job[r] /\ seen'[r] = seen[r] /\ Head(todo'[r]) = "post"
        BY <2>1, <3>1, GoesOn
      <3>3. r \in Pushing' /\ Group(r)' = g
        BY <1>6, <3>2, WhenPushingAfter DEF Group
      <3>4. r \notin crossed' => r \notin crossed
        BY <2>1, <3>3, GoesOnCrosses
      <3>5. PushTrue(r)'
        BY <1>4, <1>5, <1>6, <2>2, <3>2, <3>4 DEF PushTrue, Latest, Group
      <3>6. ~L
        BY <2>4, <3>1 DEF Lags
      <3>7. \A h \in db'.row \ behind' :
              \/ r \in Pushing' /\ Group(r)' = h
              \/ /\ h \in db.row \ behind /\ (r \in Pushing => Group(r) # h)
                 /\ incus'.acl[Slug[h]] = incus.acl[Slug[h]] /\ db'.rules[h] = db.rules[h]
        BY <2>1, <3>1, <3>3, <3>6
      <3> HIDE DEF X
      <3> QED BY <2>1, <2>3, <3>5, <3>7, GoesOnCrosses, PushesStep
    <2>5. CASE ~NotFound(r)
      <3>1. OnError(r) = <<>>
        BY <1>5, <2>5 DEF OnError
      <3>2. r \notin Pushing'
        BY <2>1, <3>1, GoesOn, WhenPushingAfter
      <3>3. PushTrue(r)'
        BY <3>2 DEF PushTrue
      <3>4. ~L => done /\ Sound(r)
        BY <2>5 DEF Lags
      <3>5. ASSUME NEW h \in db'.row \ behind'
            PROVE  \/ incus'.acl[Slug[h]] = db'.rules[h]
                   \/ /\ h \in db.row \ behind /\ (r \in Pushing => Group(r) # h)
                      /\ incus'.acl[Slug[h]] = incus.acl[Slug[h]] /\ db'.rules[h] = db.rules[h]
        <4>1. h \in db.row /\ h \in Groups
          BY <1>12, <2>2
        <4>2. CASE L
          <5>1. h \notin Namesakes(r) /\ h \notin behind /\ h # g
            BY <1>8, <2>1, <4>2
          <5>2. incus'.acl[Slug[h]] = incus.acl[Slug[h]]
            BY <1>7, <1>9, <2>1, <4>1, <5>1
          <5> QED BY <2>2, <4>1, <5>1, <5>2
        <4>3. CASE ~L /\ h = g
          <5>1. Slug[h] = Acl(r)
            BY <4>3 DEF Acl
          <5> QED BY <1>7, <1>10, <2>1, <3>4, <4>3, <5>1
        <4>4. CASE ~L /\ h # g
          <5>1. h \notin Namesakes(r) /\ h \notin behind
            BY <1>8, <1>11, <2>1, <3>4, <4>1, <4>4
          <5>2. incus'.acl[Slug[h]] = incus.acl[Slug[h]]
            BY <1>7, <1>9, <2>1, <3>4, <4>1, <4>4, <5>1
          <5> QED BY <2>2, <4>1, <4>4, <5>1, <5>2
        <4> QED BY <4>2, <4>3, <4>4
      <3> HIDE DEF X
      <3> QED BY <2>1, <2>3, <3>3, <3>5, GoesOnCrosses, PushesStep
    <2> QED BY <2>4, <2>5
  <1>15. \/ accepted /\ Made(r, s, db, i)
         \/ Failed(r, s, FALSE, db, i)
         \/ accepted /\ Failed(r, s, TRUE, db, i)
    BY <1>2, <1>5, CallCases
  <1> QED BY <1>13, <1>14, <1>15

\* The ACL of a group goes, and its row.
LEMMA DeletePushes ==
  ASSUME Structure, Pushes, NEW r \in Threads, DeleteACL(r) \/ DropGroup(r)
  PROVE  Pushes'
  <1> DEFINE g == Group(r)
  <1>1. TablesOk(db) /\ IncusOk(incus)
    BY Parts
  <1>2. db.row \subseteq Groups
    BY <1>1 DEF TablesOk
  <1>3. CASE DeleteACL(r)
    <2> DEFINE i == [incus EXCEPT !.acl[Acl(r)] = Absent]
               accepted == \A w \in VMs : Acl(r) \notin incus.acls[w]
    <2>1. Call(r, "unacl", accepted, db, i) /\ accepted \in BOOLEAN
      BY <1>3 DEF DeleteACL
    <2>2. todo[r] # <<>> /\ Head(todo[r]) = "unacl"
      BY <2>1 DEF Call, Doing
    <2>3. g \in Groups /\ Tail(todo[r]) = <<"drop">> /\ r \notin Pushing
      BY <2>2, Where, Courses, WhenPushing DEF CourseTrue, OfGroup
    <2>4. \A h \in Groups \ Namesakes(r) : i.acl[Slug[h]] = incus.acl[Slug[h]]
      BY <1>1, <2>3, AclOk DEF IncusOk, Namesakes, Slugs
    <2> HIDE DEF i, accepted
    <2>5. OnError(r) = <<"drop">> /\ Lags(r, "unacl", TRUE) /\ ~Lags(r, "unacl", FALSE)
      <3>1. OnError(r) = Tail(todo[r])
        BY <2>2 DEF OnError, NotFound
      <3> QED BY <2>3, <3>1 DEF Lags
    <2>6. ASSUME NEW X, Overtake(r, <<"drop">>, seen[r], X), db' = db,
                 \/ incus' = i /\ behind' = behind \cup Namesakes(r)
                 \/ incus' = incus /\ behind' = behind
          PROVE  Pushes'
      <3>1. todo'[r] = <<"drop">> /\ Head(todo'[r]) = "drop"
        BY <2>6, GoesOn
      <3>2. PushTrue(r)'
        BY <3>1 DEF PushTrue
      <3>3. \A h \in Groups : h \notin db'.row \/ (h \in db.row /\ db'.rules[h] = db.rules[h])
        BY <2>6
      <3>4. \A h \in db'.row \ behind' :
              /\ h \in db.row \ behind /\ (r \in Pushing => Group(r) # h)
              /\ incus'.acl[Slug[h]] = incus.acl[Slug[h]] /\ db'.rules[h] = db.rules[h]
        BY <1>2, <2>3, <2>4, <2>6
      <3> QED BY <2>6, <3>2, <3>3, <3>4, GoesOnCrosses, PushesStep
    <2>7. CASE Made(r, "unacl", db, i)
      <3>1. /\ Overtake(r, <<"drop">>, seen[r], {}) /\ db' = db /\ incus' = i
            /\ behind' = behind \cup Namesakes(r)
        BY <2>3, <2>7 DEF Made, Proceed
      <3> QED BY <2>6, <3>1
    <2>8. CASE Failed(r, "unacl", TRUE, db, i)
      <3>1. /\ Overtake(r, <<"drop">>, seen[r], Namesakes(r)) /\ db' = db /\ incus' = i
            /\ behind' = behind \cup Namesakes(r)
        BY <2>5, <2>8 DEF Failed
      <3> QED BY <2>6, <3>1
    <2>9. CASE Failed(r, "unacl", FALSE, db, i)
      <3>1. /\ Overtake(r, <<"drop">>, seen[r], {}) /\ db' = db /\ incus' = incus
            /\ behind' = behind
        BY <2>5, <2>9 DEF Failed
      <3> QED BY <2>6, <3>1
    <2> QED BY <2>1, <2>7, <2>8, <2>9, CallCases
  <1>4. CASE DropGroup(r)
    <2> DEFINE d == [db EXCEPT !.row = @ \ {g}, !.rules[g] = NoRules, !.defaults = @ \ {g},
                               !.bound = {b \in @ : b[2] # g}]
               accepted == TRUE
    <2>1. Call(r, "drop", accepted, d, incus) /\ accepted \in BOOLEAN
      BY <1>4 DEF DropGroup
    <2>2. todo[r] # <<>> /\ Head(todo[r]) = "drop"
      BY <2>1 DEF Call, Doing
    <2>3. g \in Groups /\ Tail(todo[r]) = <<>> /\ r \notin Pushing
      BY <2>2, Where, Courses, WhenPushing DEF CourseTrue, OfGroup
    <2>4. d.row = db.row \ {g} /\ \A h \in Groups \ {g} : d.rules[h] = db.rules[h]
      BY <1>1 DEF TablesOk
    <2> HIDE DEF d, accepted
    <2>5. OnError(r) = <<>> /\ ~Lags(r, "drop", TRUE) /\ ~Lags(r, "drop", FALSE)
      BY <2>2, <2>3 DEF OnError, Lags, NotFound
    <2>6. ASSUME Overtake(r, <<>>, seen[r], {}), db' = d \/ db' = db, incus' = incus, behind' = behind
          PROVE  Pushes'
      <3>1. r \notin Pushing'
        BY <2>6, GoesOn, WhenPushingAfter
      <3>2. PushTrue(r)'
        BY <3>1 DEF PushTrue
      <3>3. \A h \in Groups : h \notin db'.row \/ (h \in db.row /\ db'.rules[h] = db.rules[h])
        BY <2>4, <2>6
      <3>4. \A h \in db'.row \ behind' :
              /\ h \in db.row \ behind /\ (r \in Pushing => Group(r) # h)
              /\ incus'.acl[Slug[h]] = incus.acl[Slug[h]] /\ db'.rules[h] = db.rules[h]
        BY <1>2, <2>3, <2>4, <2>6
      <3> QED BY <2>6, <3>2, <3>3, <3>4, GoesOnCrosses, PushesStep
    <2>7. CASE Made(r, "drop", d, incus)
      BY <2>3, <2>6, <2>7 DEF Made, Proceed
    <2>8. CASE Failed(r, "drop", TRUE, d, incus)
      BY <2>5, <2>6, <2>8 DEF Failed
    <2>9. CASE Failed(r, "drop", FALSE, d, incus)
      BY <2>5, <2>6, <2>9 DEF Failed
    <2> QED BY <2>1, <2>7, <2>8, <2>9, CallCases
  <1> QED BY <1>3, <1>4

LEMMA PushesKept ==
  ASSUME Structure, Pushes, [Next]_vars
  PROVE  Pushes'
  <1>1. ASSUME UNCHANGED <<db, incus, crossed, behind>>,
               \A q \in Threads : q \in Pushing' => Same(q) /\ q \in Pushing,
               \A q \in Pushing : q \in Pushing'
        PROVE  Pushes'
    <2>1. ASSUME NEW q \in Threads PROVE PushTrue(q)'
      <3>1. PushTrue(q)
        BY DEF Pushes
      <3> QED BY <1>1, <3>1 DEF PushTrue, Latest, Group, Same
    <2>2. RulesReachIncus'
      <3>1. \A q \in Pushing : q \in Pushing' /\ Group(q)' = Group(q)
        BY <1>1 DEF Group, Same, Pushing
      <3> QED BY <1>1, <3>1 DEF Pushes, RulesReachIncus
    <2> QED BY <2>1, <2>2 DEF Pushes
  <1>2. ASSUME UNCHANGED <<job, todo, seen>>
        PROVE  /\ \A q \in Threads : q \in Pushing' => Same(q) /\ q \in Pushing
               /\ \A q \in Pushing : q \in Pushing'
    BY <1>2 DEF Same, Pushing, Group
  <1>3. ASSUME NEW r \in Threads, Step(r) PROVE Pushes'
    BY <1>3, InsertPushes, RulesPushes, ListPushes, PutPushes, DeletePushes, QuietCalls, QuietReads DEF Step
  <1>4. ASSUME NEW j \in Calls, Ask(j) PROVE Pushes'
    <2>1. PICK r \in Requests :
           /\ Idle(r) /\ job'[r] = j
           /\ todo'[r] = IF j.op = "defaults" THEN <<"groups">> ELSE Program[j.op]
           /\ \A q \in Threads \ {r} : job'[q] = job[q] /\ todo'[q] = todo[q]
           /\ UNCHANGED <<db, incus, seen, more, faults, off, torn, shut, behind, crossed>>
      BY <1>4, AskGives
    <2>2. r \in Threads /\ Head(todo'[r]) \notin {"put", "post", "rules"}
      BY <2>1, Asked, ThreadsOk
    <2>3. r \notin Pushing' /\ r \notin Pushing
      BY <2>1, <2>2, WhenPushingAfter DEF Idle, Pushing
    <2>4. \A q \in Threads \ {r} : Same(q) /\ (q \in Pushing' <=> q \in Pushing)
      BY <2>1 DEF Same, Pushing, Group
    <2>5. /\ \A q \in Threads : q \in Pushing' => Same(q) /\ q \in Pushing
          /\ \A q \in Pushing : q \in Pushing'
      BY <2>3, <2>4 DEF Pushing
    <2> QED BY <1>1, <2>1, <2>5
  <1>5. TablesOk(db) /\ IncusOk(incus)
    BY Parts
  <1>6. ASSUME db'.row = db.row, db'.rules = db.rules, incus'.acl = incus.acl,
               UNCHANGED <<job, todo, seen, crossed, behind>>
        PROVE  Pushes'
    <2>1. \A q \in Threads : PushTrue(q)'
      BY <1>6 DEF Pushes, PushTrue, Pushing, Latest, Group
    <2>2. RulesReachIncus'
      BY <1>6 DEF Pushes, RulesReachIncus, Pushing, Group
    <2> QED BY <2>1, <2>2 DEF Pushes
  <1>7. ASSUME NEW G \in SUBSET Groups, ReplaceDefaults(G) PROVE Pushes'
    BY <1>5, <1>6, <1>7 DEF ReplaceDefaults, TablesOk
  <1>8. ASSUME NEW f \in Addresses, Allocate(f) PROVE Pushes'
    BY <1>5, <1>6, <1>8 DEF Allocate, TablesOk
  <1>9. ASSUME NEW v \in VMs, Power(v) \/ DeleteVM(v) PROVE Pushes'
    <2>1. incus'.acl = incus.acl
      BY <1>5, <1>9 DEF Power, DeleteVM, Started, IncusOk
    <2>2. UNCHANGED <<db, job, todo, seen, crossed, behind>>
      BY <1>9 DEF Power, DeleteVM
    <2> QED BY <1>6, <2>1, <2>2
  <1>10. ASSUME UNCHANGED vars PROVE Pushes'
    BY <1>6, <1>10 DEF vars
  <1>11. ASSUME Crash PROVE Pushes'
    <2>1. \A q \in Threads : todo'[q] = <<>> \/ todo'[q] = <<"groups">>
      BY <1>11 DEF Crash
    <2>2. \A q \in Threads : Head(<<"groups">>) = "groups"
      OBVIOUS
    <2>3. Pushing' = {}
      BY <2>1, <2>2 DEF Pushing
    <2>4. \A q \in Threads : PushTrue(q)'
      BY <2>3 DEF PushTrue
    <2>5. RulesReachIncus'
      <3>1. UNCHANGED <<db, incus>> /\ behind' = behind \cup {Group(r) : r \in Pushing}
        BY <1>11 DEF Crash
      <3> QED BY <3>1 DEF Pushes, RulesReachIncus
    <2> QED BY <2>4, <2>5 DEF Pushes
  <1> QED BY <1>3, <1>4, <1>7, <1>8, <1>9, <1>10, <1>11 DEF Next

LEMMA PushesAtFirst ==
  ASSUME Init
  PROVE  Pushes
  <1>1. \A q \in Threads : todo[q] = <<>> \/ todo[q] = <<"groups">>
    BY DEF Init
  <1>2. Head(<<"groups">>) = "groups"
    OBVIOUS
  <1>3. Pushing = {}
    BY <1>1, <1>2 DEF Pushing
  <1>4. RulesReachIncus
    <2>1. PICK s \in Starts :
            /\ db.row = s.row /\ db.rules = [g \in Groups |-> IF g \in s.row THEN Seed ELSE NoRules]
            /\ incus.acl = [n \in Slugs |->
                              IF ~s.first /\ \E g \in s.row : Slug[g] = n THEN Seed ELSE Absent]
            /\ behind = IF s.first THEN s.row ELSE {}
      BY DEF Init
    <2>2. s.row \subseteq Groups
      BY VMNetworkAssumption
    <2> SUFFICES ASSUME NEW g \in db.row \ behind PROVE incus.acl[Slug[g]] = db.rules[g]
      BY DEF RulesReachIncus
    <2>3. ~s.first /\ g \in s.row /\ g \in Groups /\ Slug[g] \in Slugs
      BY <2>1, <2>2 DEF Slugs
    <2>4. incus.acl[Slug[g]] = Seed /\ db.rules[g] = Seed
      BY <2>1, <2>3
    <2> QED BY <2>4
  <1> QED BY <1>3, <1>4 DEF Pushes, PushTrue

\* The ACL in Incus holds the rules of its group whenever nobody is about to push them, unless a
\* request that failed, or two at once, left it behind (EnsureACL after ReplaceRules, in CreateGroup,
\* UpdateGroup, ReplaceRules and ReconcileFirewallOnce).
THEOREM RulesArrive == Spec => []RulesReachIncus
  <1>1. Init => Structure /\ Pushes
    BY StructureAtFirst, PushesAtFirst
  <1>2. Structure /\ Pushes /\ [Next]_vars => Structure' /\ Pushes'
    BY StructureKept, PushesKept
  <1>3. Pushes => RulesReachIncus
    BY DEF Pushes
  <1> QED BY <1>1, <1>2, <1>3, PTL DEF Spec

-----------------------------------------------------------------------------
(* Who is at a card *)

Busy == {"stop", "patch", "start", "restart", "bind", "unbind", "look", "open", "find", "close", "give"}

\* The requests at a card are those at the calls of Busy.
LEMMA WhoIsAtACard ==
  Structure => \A r \in Threads : /\ r \in Changing <=> todo[r] # <<>> /\ Head(todo[r]) \in Busy
                                  /\ r \in Changing => VM(r) \in VMs
  <1> SUFFICES ASSUME Structure, NEW r \in Threads
               PROVE  /\ r \in Changing <=> todo[r] # <<>> /\ Head(todo[r]) \in Busy
                      /\ r \in Changing => VM(r) \in VMs
    OBVIOUS
  <1>1. CASE todo[r] = <<>>
    BY <1>1 DEF Changing
  <1>2. CASE todo[r] # <<>>
    <2>1. Op(r) \in Ops /\ todo[r] \in Course(Op(r))
      BY <1>2, Where
    <2>2. Head(todo[r]) \in {"insert", "rules", "put", "post", "group", "list", "count", "unacl", "drop",
                         "get", "stop", "patch", "start", "restart", "bind", "unbind", "take", "holder",
                         "look", "open", "find", "close", "give", "release", "groups"}
      BY <1>2, <2>1, Courses DEF CourseTrue
    <2>3. Head(todo[r]) \in Busy => VM(r) \in VMs
      BY <1>2, Where DEF Busy, AtCard, AtFilter
    <2>4. Head(todo[r]) \in {"insert", "rules", "put", "post", "list", "count", "unacl", "drop",
                             "holder", "release"} => VM(r) = None
      BY <1>2, Where DEF OfGroup
    <2>5. None \notin VMs
      BY VMNetworkAssumption
    <2> QED BY <1>2, <2>2, <2>3, <2>4, <2>5 DEF Changing, Busy
  <1> QED BY <1>1, <1>2
LEMMA WhoIsAtACardAfter ==
  Structure' => \A r \in Threads : /\ r \in Changing' <=> todo'[r] # <<>> /\ Head(todo'[r]) \in Busy
                                   /\ r \in Changing' => VM(r)' \in VMs
  <1>1. Structure' => (\A r \in Threads : /\ r \in Changing <=> todo[r] # <<>> /\ Head(todo[r]) \in Busy
                                          /\ r \in Changing => VM(r) \in VMs)'
    BY WhoIsAtACard, PTL
  <1> QED BY <1>1

\* A request that has not moved is where it was.
LEMMA SameCards ==
  ASSUME NEW q \in Threads, Same(q)
  PROVE  /\ q \in Changing' <=> q \in Changing
         /\ VM(q)' = VM(q) /\ Group(q)' = Group(q) /\ Acl(q)' = Acl(q) /\ Op(q)' = Op(q)
         /\ job'[q].address = job[q].address
         /\ \A list : Mutated(q, list)' = Mutated(q, list)
         /\ Doing(q, "get")' <=> Doing(q, "get")
  BY DEF Same, Changing, VM, Group, Acl, Op, Mutated, Doing

\* Nobody is at a card that is in order but one request, at most.
LEMMA Alone ==
  ASSUME Clashing \subseteq torn, NEW p \in Changing, NEW q \in Changing, VM(p) = VM(q), VM(p) \notin torn
  PROVE  p = q
  BY DEF Clashing
LEMMA AloneAfter ==
  ASSUME Clashing' \subseteq torn', NEW p \in Changing', NEW q \in Changing', VM(p)' = VM(q)',
         VM(p)' \notin torn'
  PROVE  p = q
  BY DEF Clashing

-----------------------------------------------------------------------------
(* A step at one card, and the others *)

\* The card of a VM is as it was.
Kept(v) ==
  /\ incus'.acls[v] = incus.acls[v] /\ incus'.inForce[v] = incus.inForce[v]
  /\ incus'.filtered[v] = incus.filtered[v]
  /\ v \in incus'.running <=> v \in incus.running
  /\ v \in incus'.living => v \in incus.living

\* So is what the database says of it.
Recorded(v) ==
  /\ Bound(v)' = Bound(v)
  /\ \A a \in Addresses : db'.addr[a] = v <=> db.addr[a] = v
  /\ v \in shut' <=> v \in shut

\* What a card in order is when request r is at it, or has left it.
Near(r, v) ==
  /\ v \in incus.running => incus.inForce[v] = incus.acls[v]
  /\ r \in Changing => CardTrue(r, v)
  /\ r \notin Changing => incus.acls[v] = Bound(v) /\ (incus.filtered[v] <=> Free(v))

LEMMA FarCard ==
  ASSUME Structure, Cards, NEW r \in Threads, \A q \in Threads \ {r} : Same(q),
         torn \subseteq torn', NEW v \in VMs,
         ~(r \in Changing /\ VM(r) = v), ~(r \in Changing' /\ VM(r)' = v),
         v \notin torn' => Kept(v) /\ Recorded(v), db.row \subseteq db'.row
  PROVE  CardOk(v)'
  <1> SUFFICES ASSUME v \in incus'.living \ torn' PROVE CardOk(v)'
    BY DEF CardOk
  <1>1. v \in incus.living \ torn /\ Kept(v) /\ Recorded(v)
    BY DEF Kept
  <1>2. CardOk(v)
    BY DEF Cards
  <1>3. \A q \in Threads : q \in Changing' /\ VM(q)' = v <=> q \in Changing /\ VM(q) = v
    BY SameCards
  <1>4. \A q \in Threads : q \in Changing /\ VM(q) = v => Same(q) /\ q # r
    OBVIOUS
  <1>5. v \in incus'.running => incus'.inForce[v] = incus'.acls[v]
    BY <1>1, <1>2 DEF CardOk, Kept
  <1>6. Free(v)' <=> Free(v)
    BY <1>1 DEF Free, Recorded
  <1>8. ASSUME NEW q \in Changing', VM(q)' = v PROVE CardTrue(q, v)'
    <2>1. q \in Threads /\ q \in Changing /\ VM(q) = v /\ Same(q) /\ q # r
      BY <1>3, <1>4, <1>8 DEF Changing
    <2>2. CardTrue(q, v)
      BY <1>1, <1>2, <2>1 DEF CardOk
    <2>3. /\ Group(q)' = Group(q) /\ Acl(q)' = Acl(q) /\ Op(q)' = Op(q)
          /\ job'[q].address = job[q].address /\ todo'[q] = todo[q] /\ seen'[q] = seen[q]
          /\ Mutated(q, Bound(v))' = Mutated(q, Bound(v))
      BY <1>1, <2>1, SameCards DEF Same, Recorded, Mutated
    <2>5. (FreeBut(v, job[q].address)' <=> FreeBut(v, job[q].address))
      BY <1>1, <2>3 DEF FreeBut, Recorded
    <2>6. Bound(v)' = Bound(v)
      BY <1>1 DEF Recorded
    <2> QED BY <1>1, <1>6, <2>2, <2>3, <2>5, <2>6 DEF CardTrue, Kept
  <1>9. ASSUME \A q \in Changing' : VM(q)' # v
        PROVE  incus'.acls[v] = Bound(v)' /\ (incus'.filtered[v] <=> Free(v)')
    <2>1. \A q \in Changing : VM(q) # v
      BY <1>3, <1>9 DEF Changing
    <2> QED BY <1>1, <1>2, <1>6, <2>1 DEF CardOk, Kept, Recorded
  <1> QED BY <1>5, <1>8, <1>9 DEF CardOk

\* The card request r is at, or comes to or leaves with this step.
LEMMA NearCard ==
  ASSUME Structure, Cards, NEW r \in Threads, \A q \in Threads \ {r} : Same(q),
         torn \subseteq torn', Clashing' \subseteq torn', NEW v \in VMs,
         \/ r \in Changing /\ VM(r) = v
         \/ r \in Changing' /\ VM(r)' = v,
         r \in Changing' => VM(r)' = v,
         v \in incus'.living \ torn' => Near(r, v)'
  PROVE  CardOk(v)'
  <1> SUFFICES ASSUME v \in incus'.living \ torn' PROVE CardOk(v)'
    BY DEF CardOk
  <1>1. ASSUME NEW q \in Changing', VM(q)' = v PROVE q = r
    <2> SUFFICES ASSUME q # r PROVE FALSE
      OBVIOUS
    <2>1. q \in Threads /\ q \in Changing /\ VM(q) = v
      BY <1>1, SameCards DEF Changing
    <2>2. CASE r \in Changing /\ VM(r) = v
      BY <2>1, <2>2, Alone DEF Cards
    <2>3. CASE r \in Changing' /\ VM(r)' = v
      BY <1>1, <2>3, AloneAfter
    <2> QED BY <2>2, <2>3
  <1>2. Near(r, v)'
    OBVIOUS
  <1>3. r \in Changing' => \E q \in Changing' : VM(q)' = v
    OBVIOUS
  <1> QED BY <1>1, <1>2, <1>3 DEF CardOk, Near

\* What a request finds at a card that is in order.
LEMMA AtItsCard ==
  ASSUME Structure, Cards, NEW r \in Changing, VM(r) \in incus.living \ torn
  PROVE  /\ CardTrue(r, VM(r))
         /\ VM(r) \in incus.running => incus.inForce[VM(r)] = incus.acls[VM(r)]
  <1>1. VM(r) \in VMs
    BY WhoIsAtACard DEF Changing
  <1> QED BY <1>1 DEF Cards, CardOk

\* What a request finds that comes to a card that is in order.
LEMMA NobodyBefore ==
  ASSUME Structure, Cards, NEW r \in Threads, \A q \in Threads \ {r} : Same(q), NEW v \in VMs,
         torn \subseteq torn', Clashing' \subseteq torn', r \notin Changing, r \in Changing', VM(r)' = v,
         v \in incus.living \ torn'
  PROVE  /\ incus.acls[v] = Bound(v) /\ (incus.filtered[v] <=> Free(v))
         /\ v \in incus.running => incus.inForce[v] = incus.acls[v]
  <1>1. ASSUME NEW q \in Changing, VM(q) = v PROVE FALSE
    <2>1. q \in Threads \ {r}
      BY DEF Changing
    <2>2. q \in Changing' /\ VM(q)' = v
      BY <1>1, <2>1, SameCards
    <2> QED BY <2>1, <2>2, AloneAfter
  <1> QED BY <1>1 DEF Cards, CardOk

\* Addresses and names are kept by a step that changes neither.
LEMMA HeldStep ==
  ASSUME Cards, NEW r \in Threads, \A q \in Threads \ {r} : Same(q), torn \subseteq torn',
         db'.addr = db.addr, HeldTrue(r)'
  PROVE  \A q \in Threads : HeldTrue(q)'
  <1> SUFFICES ASSUME NEW q \in Threads, q # r PROVE HeldTrue(q)'
    OBVIOUS
  <1>1. HeldTrue(q) /\ Same(q)
    BY DEF Cards
  <1>2. /\ q \in Changing' <=> q \in Changing
        /\ VM(q)' = VM(q) /\ job'[q].address = job[q].address
    BY <1>1, SameCards
  <1> QED BY <1>1, <1>2 DEF HeldTrue
LEMMA NameStep ==
  ASSUME Cards, NEW r \in Threads, \A q \in Threads \ {r} : Same(q), torn \subseteq torn',
         db.row \subseteq db'.row, NameTrue(r)'
  PROVE  \A q \in Threads : NameTrue(q)'
  <1> SUFFICES ASSUME NEW q \in Threads, q # r PROVE NameTrue(q)'
    OBVIOUS
  <1>1. NameTrue(q) /\ Same(q)
    BY DEF Cards
  <1>2. /\ VM(q)' = VM(q) /\ Group(q)' = Group(q) /\ Op(q)' = Op(q)
        /\ Doing(q, "get")' <=> Doing(q, "get")
    BY <1>1, SameCards
  <1> QED BY <1>1, <1>2 DEF NameTrue

\* A step of request r that changes at most the card v, which it is at before or after.
LEMMA CardsStep ==
  ASSUME Structure, Structure', Cards, NEW r \in Threads, NEW v, \A q \in Threads \ {r} : Same(q),
         torn \subseteq torn', Clashing' \subseteq torn', db.row \subseteq db'.row,
         r \in Changing => VM(r) = v, r \in Changing' => VM(r)' = v,
         \A u \in VMs \ torn' :
           u # v \/ (r \notin Changing /\ r \notin Changing') => Kept(u) /\ Recorded(u),
         (r \in Changing \/ r \in Changing') /\ v \in incus'.living \ torn' => Near(r, v)',
         \A q \in Threads : HeldTrue(q)',
         NameTrue(r)'
  PROVE  Cards'
  <1>1. ASSUME NEW u \in VMs PROVE CardOk(u)'
    <2>1. CASE u = v /\ (r \in Changing \/ r \in Changing')
      BY <2>1, NearCard
    <2>2. CASE ~(u = v /\ (r \in Changing \/ r \in Changing'))
      BY <2>2, FarCard
    <2> QED BY <2>1, <2>2
  <1>2. \A q \in Threads : NameTrue(q)'
    BY NameStep
  <1> QED BY <1>1, <1>2 DEF Cards

\* What the outcomes of a call have in common.
LEMMA CallFrame ==
  ASSUME Structure, NEW r \in Threads, NEW s, NEW accepted \in BOOLEAN, NEW d, NEW i,
         Call(r, s, accepted, d, i)
  PROVE  /\ todo[r] # <<>> /\ Head(todo[r]) = s
         /\ \A q \in Threads \ {r} : Same(q)
         /\ torn \subseteq torn' /\ Clashing' \subseteq torn'
         /\ todo'[r] # <<>> => job'[r] = job[r] /\ seen'[r] = seen[r]
         /\ todo'[r] \in {Tail(todo[r]), OnError(r)}
         /\ s \notin {"open", "close"} => shut' = shut
         /\ \/ /\ UNCHANGED <<db, incus, shut>> /\ todo'[r] = OnError(r)
               /\ <<s, FALSE>> \in Tearing => VM(r) \in torn'
            \/ /\ accepted /\ db' = d /\ incus' = i /\ Spoiled(r, s) \subseteq torn'
               /\ shut' = ShutBy(r, s)
               /\ \/ todo'[r] = Tail(todo[r])
                  \/ todo'[r] = OnError(r) /\ (<<s, TRUE>> \in Tearing => VM(r) \in torn')
  <1>0. s \notin {"open", "close"} => ShutBy(r, s) = shut
    BY DEF ShutBy
  <1>1. CASE accepted /\ Made(r, s, d, i)
    <2>1. Overtake(r, Tail(todo[r]), seen[r], {})
      BY <1>1 DEF Made, Proceed
    <2>2. todo[r] # <<>> /\ Head(todo[r]) = s
      BY CallCases
    <2>3. \A q \in Threads \ {r} : Same(q)
      BY <2>1, GoesOnCrosses
    <2> DEFINE t == Tail(todo[r])
    <2>4. todo'[r] = t /\ (t # <<>> => job'[r] = job[r] /\ seen'[r] = seen[r])
      <3> HIDE DEF t
      <3>1. Overtake(r, t, seen[r], {})
        BY <2>1 DEF t
      <3> QED BY <3>1, GoesOn
    <2>5. /\ torn \subseteq torn' /\ Clashing' \subseteq torn'
          /\ db' = d /\ incus' = i /\ Spoiled(r, s) \subseteq torn' /\ shut' = ShutBy(r, s)
      BY <1>1 DEF Made
    <2> QED BY ONLY <1>0, <1>1, <2>2, <2>3, <2>4, <2>5
  <1>2. ASSUME NEW done \in BOOLEAN, done => accepted, Failed(r, s, done, d, i)
        PROVE  /\ \A q \in Threads \ {r} : Same(q)
               /\ torn \subseteq torn' /\ Clashing' \subseteq torn'
               /\ todo'[r] # <<>> => job'[r] = job[r] /\ seen'[r] = seen[r]
               /\ todo'[r] = OnError(r) /\ (<<s, done>> \in Tearing => VM(r) \in torn')
               /\ done => db' = d /\ incus' = i /\ Spoiled(r, s) \subseteq torn' /\ shut' = ShutBy(r, s)
               /\ ~done => UNCHANGED <<db, incus, shut>>
    <2>1. PICK X : Overtake(r, OnError(r), seen[r], X)
      BY <1>2 DEF Failed
    <2> QED BY <1>2, <2>1, GoesOnCrosses, GoesOn DEF Failed
  <1>3. CASE Failed(r, s, FALSE, d, i)
    BY <1>2, <1>3, CallCases
  <1>4. CASE accepted /\ Failed(r, s, TRUE, d, i)
    BY <1>0, <1>2, <1>4, CallCases
  <1> QED BY <1>1, <1>3, <1>4, CallCases

\* A request that goes on at its card holds the address it held.
LEMMA StillHeld ==
  ASSUME Cards, NEW r \in Threads, torn \subseteq torn', db'.addr = db.addr,
         r \in Changing' => r \in Changing /\ job'[r] = job[r]
  PROVE  HeldTrue(r)'
  <1>1. HeldTrue(r)
    BY DEF Cards
  <1> QED BY <1>1 DEF HeldTrue, VM
LEMMA NotThere ==
  ASSUME NEW r \in Threads, todo'[r] = <<>> \/ Head(todo'[r]) # "get"
  PROVE  NameTrue(r)'
  BY DEF NameTrue, Doing

\* The call of a request at a card: what is left to show is what becomes of the card, and of the
\* address it holds.
LEMMA CardCall ==
  ASSUME Structure, Structure', Cards, NEW r \in Threads, NEW s \in Busy, NEW accepted \in BOOLEAN,
         NEW d, NEW i, Call(r, s, accepted, d, i), NEW v, VM(r) = v,
         db.row \subseteq db'.row,
         \A u \in VMs \ torn' : u # v => Kept(u) /\ Recorded(u),
         v \in incus'.living \ torn' => Near(r, v)',
         db'.addr = db.addr \/ \A q \in Threads : HeldTrue(q)'
  PROVE  Cards'
  <1>1. /\ todo[r] # <<>> /\ Head(todo[r]) = s
        /\ \A q \in Threads \ {r} : Same(q)
        /\ torn \subseteq torn' /\ Clashing' \subseteq torn'
        /\ todo'[r] # <<>> => job'[r] = job[r] /\ seen'[r] = seen[r]
        /\ todo'[r] \in {Tail(todo[r]), OnError(r)}
    BY CallFrame
  <1>2. r \in Changing
    BY <1>1, WhoIsAtACard
  <1>3. r \in Changing' => todo'[r] # <<>>
    BY DEF Changing
  <1>4. r \in Changing' => VM(r)' = v /\ job'[r] = job[r]
    BY <1>1, <1>3 DEF VM
  <1>5. \A q \in Threads : HeldTrue(q)'
    <2>1. db'.addr = db.addr => HeldTrue(r)'
      BY <1>1, <1>2, <1>4, StillHeld
    <2> QED BY <1>1, <2>1, HeldStep
  <1>6. NameTrue(r)'
    <2>1. todo'[r] = <<>> \/ Head(todo'[r]) # "get"
      <3>1. Op(r) \in Ops /\ todo[r] \in Course(Op(r))
        BY <1>1, Where
      <3>2. Head(Tail(todo[r])) # "get" \/ Tail(todo[r]) = <<>>
        <4> DEFINE l == LastRow(Op(r))
        <4>1. Tail(todo[r]) \in {<<>>, <<"patch", "start", l>>, <<"start", l>>,
                                 <<l>>, <<"open">>, <<"close", "give">>, <<"give">>}
          <5>1. todo[r] # <<>> /\ Head(todo[r]) = s
            BY <1>1
          <5>2. CASE s = "stop"
            BY <5>1, <5>2, NextCall
          <5>3. CASE s = "patch"
            BY <5>1, <5>3, NextCall
          <5>4. CASE s \in {"start", "look", "find", "close"}
            BY <5>1, <5>4, NextCall
          <5>5. CASE s \in {"restart", "bind", "unbind", "open", "give"}
            BY <5>1, <5>5, NextCall
          <5> QED BY <5>2, <5>3, <5>4, <5>5 DEF Busy
        <4>2. l \in {"bind", "unbind"}
          BY DEF LastRow
        <4> HIDE DEF l
        <4>3. /\ Head(<<"patch", "start", l>>) = "patch" /\ Head(<<"start", l>>) = "start"
              /\ Head(<<l>>) = l /\ Head(<<"open">>) = "open"
              /\ Head(<<"close", "give">>) = "close" /\ Head(<<"give">>) = "give"
          OBVIOUS
        <4> QED BY <4>1, <4>2, <4>3
      <3>3. OnError(r) \in {Tail(todo[r]), <<>>, <<"give">>, <<"restart">>, <<"post">>}
        BY DEF OnError
      <3>4. Head(<<"give">>) = "give" /\ Head(<<"restart">>) = "restart" /\ Head(<<"post">>) = "post"
        OBVIOUS
      <3> QED BY <1>1, <3>2, <3>3, <3>4
    <2> QED BY <2>1, NotThere
  <1>7. \A u \in VMs \ torn' :
           u # v \/ (r \notin Changing /\ r \notin Changing') => Kept(u) /\ Recorded(u)
    BY <1>2
  <1> QED BY <1>1, <1>2, <1>4, <1>5, <1>6, <1>7, CardsStep

\* What a request at a card in order goes on from.
LEMMA Grounds ==
  ASSUME Structure, Cards, NEW r \in Threads, todo[r] # <<>>, Head(todo[r]) \in Busy
  PROVE  /\ r \in Changing /\ VM(r) \in VMs /\ Op(r) \in Ops /\ todo[r] \in Course(Op(r))
         /\ TablesOk(db) /\ IncusOk(incus) /\ seen[r] \in SeenType
         /\ VM(r) \in incus.living \ torn => CardTrue(r, VM(r))
         /\ VM(r) \in incus.living \ torn /\ VM(r) \in incus.running =>
              incus.inForce[VM(r)] = incus.acls[VM(r)]
  <1>1. r \in Changing /\ VM(r) \in VMs
    BY WhoIsAtACard
  <1> QED BY <1>1, AtItsCard, Where, Parts

\* The instance is stopped.
LEMMA StopCards ==
  ASSUME Structure, Structure', Cards, NEW r \in Threads, StopVM(r)
  PROVE  Cards'
  <1>1. PICK v : v = VM(r)
    OBVIOUS
  <1> DEFINE accepted == v \in incus.running
             i == [incus EXCEPT !.running = @ \ {v}]
  <1>2. Call(r, "stop", accepted, db, i) /\ accepted \in BOOLEAN
    BY <1>1 DEF StopVM
  <1>3. TablesOk(db) /\ IncusOk(incus)
    BY Parts
  <1>4. /\ i.acls = incus.acls /\ i.inForce = incus.inForce /\ i.filtered = incus.filtered
        /\ i.living = incus.living /\ i.running = incus.running \ {v}
    BY <1>3 DEF IncusOk
  <1> HIDE DEF accepted, i
  <1>5. todo[r] # <<>> /\ Head(todo[r]) = "stop" /\ torn \subseteq torn'
    BY <1>2, CallFrame
  <1>6. /\ r \in Changing /\ v \in VMs
        /\ v \in incus.living \ torn => CardTrue(r, v)
        /\ v \in incus.living \ torn /\ v \in incus.running => incus.inForce[v] = incus.acls[v]
    BY <1>1, <1>5, Grounds DEF Busy
  <1>7. Tail(todo[r]) = <<"patch", "start", LastRow(Op(r))>> /\ OnError(r) = <<>>
    BY <1>5, Where, Courses DEF CourseTrue, OnError, NotFound
  <1>8. /\ db' = db /\ shut' = shut
        /\ incus' = incus \/ incus' = i
        /\ \/ todo'[r] = <<>>
           \/ todo'[r] = <<"patch", "start", LastRow(Op(r))>> /\ incus' = i
        /\ todo'[r] # <<>> => job'[r] = job[r] /\ seen'[r] = seen[r]
    BY <1>2, <1>7, CallFrame
  <1>9. \A u \in VMs : Recorded(u)
    BY <1>8 DEF Recorded, Bound
  <1>10. \A u \in VMs \ torn' : u # v => Kept(u) /\ Recorded(u)
    BY <1>4, <1>8, <1>9 DEF Kept
  <1>11. ASSUME v \in incus'.living \ torn' PROVE Near(r, v)'
    <2>1. v \in incus.living \ torn
      BY <1>4, <1>5, <1>8, <1>11
    <2>2. incus'.acls = incus.acls /\ incus'.inForce = incus.inForce /\ incus'.filtered = incus.filtered
      BY <1>4, <1>8
    <2>3. Bound(v)' = Bound(v) /\ Free(v)' = Free(v)
      BY <1>8 DEF Bound, Free
    <2>4. incus.acls[v] = Bound(v) /\ (incus.filtered[v] <=> Free(v)) /\ CardTrue(r, v)
      BY <1>5, <1>6, <2>1 DEF CardTrue
    <2>5. CASE todo'[r] = <<>>
      <3>1. r \notin Changing'
        BY <2>5 DEF Changing
      <3> QED BY <1>4, <1>6, <1>8, <2>1, <2>2, <2>3, <2>4, <3>1 DEF Near
    <2>6. CASE todo'[r] = <<"patch", "start", LastRow(Op(r))>> /\ incus' = i
      <3>1. todo'[r] # <<>> /\ Head(todo'[r]) = "patch" /\ job'[r] = job[r] /\ seen'[r] = seen[r]
        BY <1>8, <2>6
      <3>2. /\ seen[r].acls = incus.acls[v] /\ seen[r].filtered = incus.filtered[v]
            /\ Op(r) = "unbind" => Group(r) \in db.row \/ Acl(r) \notin Bound(v)
        BY <1>5, <2>4 DEF CardTrue
      <3>3. Op(r)' = Op(r) /\ Group(r)' = Group(r) /\ Acl(r)' = Acl(r)
        BY <3>1 DEF Op, Group, Acl
      <3>4. CardTrue(r, v)'
        BY <1>4, <1>8, <2>2, <2>3, <2>4, <2>6, <3>1, <3>2, <3>3 DEF CardTrue
      <3>5. r \in Changing'
        BY <3>1, WhoIsAtACardAfter DEF Busy
      <3> QED BY <1>4, <1>6, <2>1, <2>2, <2>6, <3>4, <3>5 DEF Near
    <2> QED BY <1>8, <2>5, <2>6
  <1>12. "stop" \in Busy /\ db.row \subseteq db'.row /\ db'.addr = db.addr
    BY <1>8 DEF Busy
  <1> QED BY <1>1, <1>2, <1>10, <1>11, <1>12, CardCall

\* The card is written.
LEMMA PatchCards ==
  ASSUME Structure, Structure', Cards, NEW r \in Threads, PatchACLs(r)
  PROVE  Cards'
  <1>1. PICK v : v = VM(r)
    OBVIOUS
  <1> DEFINE list == Mutated(r, seen[r].acls)
             accepted == Writable(v, list)
             i == Card(v, list, seen[r].filtered)
  <1>2. Call(r, "patch", accepted, db, i) /\ accepted \in BOOLEAN
    BY <1>1 DEF PatchACLs, Writable
  <1>3. TablesOk(db) /\ IncusOk(incus)
    BY Parts
  <1>4. v \in VMs => /\ i.acls[v] = list /\ i.inForce = incus.inForce
                     /\ i.filtered[v] = seen[r].filtered
                     /\ i.living = incus.living /\ i.running = incus.running
                     /\ \A u \in VMs : u # v => i.acls[u] = incus.acls[u] /\ i.filtered[u] = incus.filtered[u]
    BY <1>3 DEF IncusOk, Card
  <1> HIDE DEF accepted, i
  <1>5. todo[r] # <<>> /\ Head(todo[r]) = "patch" /\ torn \subseteq torn'
    BY <1>2, CallFrame
  <1>6. /\ r \in Changing /\ v \in VMs
        /\ v \in incus.living \ torn => CardTrue(r, v)
        /\ v \in incus.living \ torn /\ v \in incus.running => incus.inForce[v] = incus.acls[v]
    BY <1>1, <1>5, Grounds DEF Busy
  <1>7. /\ Tail(todo[r]) \in {<<"start", LastRow(Op(r))>>, <<LastRow(Op(r))>>}
        /\ OnError(r) \in {<<"restart">>, <<>>}
    BY <1>5, Where, Courses DEF CourseTrue, OnError, NotFound
  <1>8. /\ db' = db /\ shut' = shut
        /\ \/ incus' = incus /\ todo'[r] = OnError(r)
           \/ incus' = i /\ todo'[r] = Tail(todo[r])
           \/ incus' = i /\ v \in torn'
        /\ todo'[r] # <<>> => job'[r] = job[r] /\ seen'[r] = seen[r]
    <2>1. <<"patch", TRUE>> \in Tearing
      BY DEF Tearing
    <2> QED BY <1>1, <1>2, <2>1, CallFrame
  <1>9. \A u \in VMs : Recorded(u)
    BY <1>8 DEF Recorded, Bound
  <1>10. \A u \in VMs \ torn' : u # v => Kept(u) /\ Recorded(u)
    BY <1>4, <1>6, <1>8, <1>9 DEF Kept
  <1>11. ASSUME v \in incus'.living \ torn' PROVE Near(r, v)'
    <2>1. v \in incus.living \ torn
      BY <1>4, <1>5, <1>6, <1>8, <1>11
    <2>2. Bound(v)' = Bound(v) /\ Free(v)' = Free(v)
      BY <1>8 DEF Bound, Free
    <2>3. /\ incus.acls[v] = Bound(v) /\ (incus.filtered[v] <=> Free(v))
          /\ v \notin incus.running
          /\ seen[r].acls = incus.acls[v] /\ seen[r].filtered = incus.filtered[v]
          /\ Op(r) = "unbind" => Group(r) \in db.row \/ Acl(r) \notin Bound(v)
      BY <1>5, <1>6, <2>1 DEF CardTrue
    <2>4. CASE incus' = incus /\ todo'[r] = <<>>
      <3>1. r \notin Changing'
        BY <2>4 DEF Changing
      <3> QED BY <2>2, <2>3, <2>4, <3>1 DEF Near
    <2>5. CASE incus' = incus /\ todo'[r] = <<"restart">>
      <3>1. todo'[r] # <<>> /\ Head(todo'[r]) = "restart" /\ job'[r] = job[r]
        BY <1>8, <2>5
      <3>2. Op(r)' = Op(r) /\ Group(r)' = Group(r) /\ Acl(r)' = Acl(r)
        BY <3>1 DEF Op, Group, Acl
      <3>3. CardTrue(r, v)'
        BY <1>8, <2>2, <2>3, <2>5, <3>1, <3>2 DEF CardTrue
      <3>4. r \in Changing'
        BY <3>1, WhoIsAtACardAfter DEF Busy
      <3> QED BY <2>3, <2>5, <3>3, <3>4 DEF Near
    <2>6. CASE incus' = i /\ todo'[r] = Tail(todo[r])
      <3>1. todo'[r] # <<>> /\ Head(todo'[r]) \in {"start", "bind", "unbind"}
        <4>1. LastRow(Op(r)) \in {"bind", "unbind"}
          BY DEF LastRow
        <4> DEFINE l == LastRow(Op(r))
        <4>2. Head(<<"start", l>>) = "start" /\ Head(<<l>>) = l /\ <<"start", l>> # <<>> /\ <<l>> # <<>>
          OBVIOUS
        <4> QED BY <1>7, <2>6, <4>1, <4>2
      <3>2. job'[r] = job[r] /\ seen'[r] = seen[r]
        BY <1>8, <3>1
      <3>3. Op(r)' = Op(r) /\ Group(r)' = Group(r) /\ Acl(r)' = Acl(r)
        BY <3>2 DEF Op, Group, Acl
      <3>4. incus'.acls[v] = Mutated(r, Bound(v))' /\ (incus'.filtered[v] <=> Free(v)')
        <4>1. incus'.acls[v] = Mutated(r, Bound(v))
          BY <1>4, <1>6, <2>3, <2>6
        <4>2. Mutated(r, Bound(v))' = Mutated(r, Bound(v))
          BY <2>2, <3>2, <3>3 DEF Mutated
        <4> QED BY <1>4, <1>6, <2>2, <2>3, <2>6, <4>1, <4>2
      <3>5. v \notin incus'.running
        BY <1>4, <1>6, <2>3, <2>6
      <3>6. CardTrue(r, v)'
        BY <1>8, <2>2, <2>3, <3>1, <3>3, <3>4 DEF CardTrue
      <3>7. r \in Changing'
        BY <3>1, WhoIsAtACardAfter DEF Busy
      <3> QED BY <3>5, <3>6, <3>7 DEF Near
    <2> QED BY <1>7, <1>8, <1>11, <2>4, <2>5, <2>6
  <1>12. "patch" \in Busy /\ db.row \subseteq db'.row /\ db'.addr = db.addr
    BY <1>8 DEF Busy
  <1> QED BY <1>1, <1>2, <1>10, <1>11, <1>12, CardCall

\* The instance is started, after the change or after one that failed.
LEMMA StartCards ==
  ASSUME Structure, Structure', Cards, NEW r \in Threads, StartVM(r)
  PROVE  Cards'
  <1>1. PICK v : v = VM(r)
    OBVIOUS
  <1> DEFINE accepted == v \in incus.living \ incus.running
             i == Started(v)
  <1>2. PICK s \in {"start", "restart"} : Call(r, s, accepted, db, i)
    BY <1>1 DEF StartVM
  <1>20. accepted \in BOOLEAN
    OBVIOUS
  <1>3. TablesOk(db) /\ IncusOk(incus)
    BY Parts
  <1>4. v \in VMs => /\ i.acls = incus.acls /\ i.inForce[v] = incus.acls[v] /\ i.filtered = incus.filtered
                     /\ i.living = incus.living
                     /\ \A u \in VMs : u # v => /\ i.inForce[u] = incus.inForce[u]
                                                /\ u \in i.running <=> u \in incus.running
    BY <1>3 DEF IncusOk, Started
  <1> HIDE DEF accepted, i
  <1>5. todo[r] # <<>> /\ Head(todo[r]) = s /\ torn \subseteq torn'
    BY <1>2, <1>20, CallFrame
  <1>6. /\ r \in Changing /\ v \in VMs
        /\ v \in incus.living \ torn => CardTrue(r, v)
        /\ v \in incus.living \ torn /\ v \in incus.running => incus.inForce[v] = incus.acls[v]
    BY <1>1, <1>5, Grounds DEF Busy
  <1>7. /\ s = "start" => Tail(todo[r]) = <<LastRow(Op(r))>>
        /\ s = "restart" => Tail(todo[r]) = <<>>
        /\ OnError(r) = <<>>
    BY <1>5, Where, Courses DEF CourseTrue, OnError, NotFound
  <1>8. /\ db' = db /\ shut' = shut
        /\ incus' = incus \/ incus' = i
        /\ \/ s = "restart" /\ todo'[r] = <<>>
           \/ s = "start" /\ incus' = i /\ todo'[r] = <<LastRow(Op(r))>>
           \/ s = "start" /\ v \in torn'
        /\ todo'[r] # <<>> => job'[r] = job[r] /\ seen'[r] = seen[r]
    <2>1. <<"start", TRUE>> \in Tearing /\ <<"start", FALSE>> \in Tearing
      BY DEF Tearing
    <2>2. s = "start" \/ s = "restart"
      BY <1>2
    <2> QED BY <1>1, <1>2, <1>20, <1>7, <2>1, <2>2, CallFrame
  <1>9. \A u \in VMs : Recorded(u)
    BY <1>8 DEF Recorded, Bound
  <1>10. \A u \in VMs \ torn' : u # v => Kept(u) /\ Recorded(u)
    BY <1>4, <1>6, <1>8, <1>9 DEF Kept
  <1>11. ASSUME v \in incus'.living \ torn' PROVE Near(r, v)'
    <2>1. v \in incus.living \ torn
      BY <1>4, <1>5, <1>6, <1>8, <1>11
    <2>2. Bound(v)' = Bound(v) /\ Free(v)' = Free(v)
      BY <1>8 DEF Bound, Free
    <2>3. incus'.acls = incus.acls /\ incus'.filtered = incus.filtered
      BY <1>4, <1>6, <1>8
    <2>4. v \in incus'.running => incus'.inForce[v] = incus'.acls[v]
      BY <1>4, <1>6, <1>8, <2>1
    <2>5. /\ (incus.filtered[v] <=> Free(v))
          /\ s = "restart" => incus.acls[v] = Bound(v)
          /\ s = "start" => incus.acls[v] = Mutated(r, Bound(v))
          /\ Op(r) = "unbind" => Group(r) \in db.row \/ Acl(r) \notin Bound(v)
      BY <1>5, <1>6, <2>1 DEF CardTrue
    <2>6. CASE s = "restart" /\ todo'[r] = <<>>
      <3>1. r \notin Changing'
        BY <2>6 DEF Changing
      <3> QED BY <2>2, <2>3, <2>4, <2>5, <2>6, <3>1 DEF Near
    <2>7. CASE s = "start" /\ todo'[r] = <<LastRow(Op(r))>>
      <3>1. todo'[r] # <<>> /\ Head(todo'[r]) \in {"bind", "unbind"}
        <4>1. LastRow(Op(r)) \in {"bind", "unbind"}
          BY DEF LastRow
        <4> QED BY <2>7, <4>1
      <3>2. job'[r] = job[r] /\ seen'[r] = seen[r]
        BY <1>8, <3>1
      <3>3. Op(r)' = Op(r) /\ Group(r)' = Group(r) /\ Acl(r)' = Acl(r)
        BY <3>2 DEF Op, Group, Acl
      <3>4. incus'.acls[v] = Mutated(r, Bound(v))'
        BY <2>2, <2>3, <2>5, <2>7, <3>2, <3>3 DEF Mutated
      <3>5. CardTrue(r, v)'
        BY <1>8, <2>2, <2>3, <2>5, <3>1, <3>3, <3>4 DEF CardTrue
      <3>6. r \in Changing'
        BY <3>1, WhoIsAtACardAfter DEF Busy
      <3> QED BY <2>4, <3>5, <3>6 DEF Near
    <2> QED BY <1>8, <1>11, <2>6, <2>7
  <1>12. s \in Busy /\ db.row \subseteq db'.row /\ db'.addr = db.addr
    BY <1>2, <1>8 DEF Busy
  <1> QED BY <1>1, <1>2, <1>20, <1>10, <1>11, <1>12, CardCall

\* The row of a binding is written, or goes.
LEMMA BindCards ==
  ASSUME Structure, Structure', Cards, NEW r \in Threads, BindRow(r)
  PROVE  Cards'
  <1>1. PICK v : v = VM(r)
    OBVIOUS
  <1>0. PICK g : g = Group(r)
    OBVIOUS
  <1> DEFINE accepted == g \in db.row
             d == [db EXCEPT !.bound = @ \cup {<<v, g>>}]
  <1>2. Call(r, "bind", accepted, d, incus) /\ accepted \in BOOLEAN
    BY <1>1, <1>0 DEF BindRow
  <1>3. TablesOk(db) /\ IncusOk(incus)
    BY Parts
  <1>4. d.bound = db.bound \cup {<<v, g>>} /\ d.row = db.row /\ d.addr = db.addr
    BY <1>3 DEF TablesOk
  <1> HIDE DEF accepted, d
  <1>5. todo[r] # <<>> /\ Head(todo[r]) = "bind" /\ torn \subseteq torn'
    BY <1>2, CallFrame
  <1>6. /\ r \in Changing /\ v \in VMs
        /\ v \in incus.living \ torn => CardTrue(r, v)
        /\ v \in incus.living \ torn /\ v \in incus.running => incus.inForce[v] = incus.acls[v]
    BY <1>1, <1>5, Grounds DEF Busy
  <1>7. Tail(todo[r]) = <<>> /\ OnError(r) = <<>> /\ Op(r) # "unbind"
    <2>1. Op(r) \in Ops /\ todo[r] \in Course(Op(r))
      BY <1>5, Where
    <2>2. Tail(todo[r]) = <<>> /\ Head(todo[r]) = LastRow(Op(r))
      BY <1>5, NextCall
    <2>3. OnError(r) = <<>>
      BY <1>5 DEF OnError, NotFound
    <2> QED BY <1>5, <2>2, <2>3 DEF LastRow
  <1>8. /\ incus' = incus /\ shut' = shut /\ todo'[r] = <<>>
        /\ db' = d \/ (db' = db /\ v \in torn')
    <2>1. <<"bind", FALSE>> \in Tearing
      BY DEF Tearing
    <2> QED BY <1>1, <1>2, <1>7, <2>1, CallFrame
  <1>9. ASSUME NEW u \in VMs, u # v PROVE Recorded(u)
    <2>1. {c \in db'.bound : c[1] = u} = {c \in db.bound : c[1] = u}
      <3>1. <<v, g>>[1] # u
        BY <1>9
      <3> QED BY <1>4, <1>8, <3>1
    <2>2. db'.addr = db.addr
      BY <1>4, <1>8
    <2> QED BY <1>8, <2>1, <2>2 DEF Recorded, Bound
  <1>10. \A u \in VMs \ torn' : u # v => Kept(u) /\ Recorded(u)
    BY <1>8, <1>9 DEF Kept
  <1>11. ASSUME v \in incus'.living \ torn' PROVE Near(r, v)'
    <2>1. v \in incus.living \ torn /\ db' = d
      BY <1>5, <1>8, <1>11
    <2>2. Bound(v)' = Bound(v) \cup {Slug[g]}
      <3>1. <<v, g>>[1] = v /\ <<v, g>>[2] = g
        OBVIOUS
      <3>2. {c \in db'.bound : c[1] = v} = {c \in db.bound : c[1] = v} \cup {<<v, g>>}
        BY <1>4, <2>1, <3>1
      <3> QED BY <3>1, <3>2 DEF Bound
    <2>3. Free(v)' = Free(v)
      BY <1>4, <1>8, <2>1 DEF Free
    <2>4. /\ (incus.filtered[v] <=> Free(v))
          /\ incus.acls[v] = Bound(v) \cup {Slug[g]}
      BY <1>0, <1>5, <1>6, <1>7, <2>1 DEF CardTrue, Mutated, Acl, Op
    <2>5. r \notin Changing'
      BY <1>8 DEF Changing
    <2> QED BY <1>6, <1>8, <2>1, <2>2, <2>3, <2>4, <2>5 DEF Near
  <1>12. "bind" \in Busy /\ db.row \subseteq db'.row /\ db'.addr = db.addr
    BY <1>4, <1>8 DEF Busy
  <1> QED BY <1>1, <1>2, <1>10, <1>11, <1>12, CardCall

LEMMA UnbindCards ==
  ASSUME Structure, Structure', Cards, NEW r \in Threads, UnbindRow(r)
  PROVE  Cards'
  <1>1. PICK v : v = VM(r)
    OBVIOUS
  <1>0. PICK g : g = Group(r)
    OBVIOUS
  <1> DEFINE accepted == TRUE
             d == [db EXCEPT !.bound = @ \ {<<v, g>>}]
  <1>2. Call(r, "unbind", accepted, d, incus) /\ accepted \in BOOLEAN
    BY <1>1, <1>0 DEF UnbindRow
  <1>3. TablesOk(db) /\ IncusOk(incus)
    BY Parts
  <1>4. d.bound = db.bound \ {<<v, g>>} /\ d.row = db.row /\ d.addr = db.addr
    BY <1>3 DEF TablesOk
  <1> HIDE DEF accepted, d
  <1>5. todo[r] # <<>> /\ Head(todo[r]) = "unbind" /\ torn \subseteq torn'
    BY <1>2, CallFrame
  <1>6. /\ r \in Changing /\ v \in VMs
        /\ v \in incus.living \ torn => CardTrue(r, v)
        /\ v \in incus.living \ torn /\ v \in incus.running => incus.inForce[v] = incus.acls[v]
    BY <1>1, <1>5, Grounds DEF Busy
  <1>7. Tail(todo[r]) = <<>> /\ OnError(r) = <<>> /\ Op(r) = "unbind"
    <2>1. Op(r) \in Ops /\ todo[r] \in Course(Op(r))
      BY <1>5, Where
    <2>2. Tail(todo[r]) = <<>> /\ Head(todo[r]) = LastRow(Op(r))
      BY <1>5, NextCall
    <2>3. OnError(r) = <<>>
      BY <1>5 DEF OnError, NotFound
    <2> QED BY <1>5, <2>2, <2>3 DEF LastRow
  <1>8. /\ incus' = incus /\ shut' = shut /\ todo'[r] = <<>>
        /\ db' = d \/ (db' = db /\ v \in torn')
    <2>1. <<"unbind", FALSE>> \in Tearing
      BY DEF Tearing
    <2> QED BY <1>1, <1>2, <1>7, <2>1, CallFrame
  <1>9. ASSUME NEW u \in VMs, u # v PROVE Recorded(u)
    <2>1. {c \in db'.bound : c[1] = u} = {c \in db.bound : c[1] = u}
      <3>1. <<v, g>>[1] # u
        BY <1>9
      <3> QED BY <1>4, <1>8, <3>1
    <2>2. db'.addr = db.addr
      BY <1>4, <1>8
    <2> QED BY <1>8, <2>1, <2>2 DEF Recorded, Bound
  <1>10. \A u \in VMs \ torn' : u # v => Kept(u) /\ Recorded(u)
    BY <1>8, <1>9 DEF Kept
  <1>11. ASSUME v \in incus'.living \ torn' PROVE Near(r, v)'
    <2>1. v \in incus.living \ torn /\ db' = d
      BY <1>5, <1>8, <1>11
    <2>4. /\ (incus.filtered[v] <=> Free(v))
          /\ incus.acls[v] = Bound(v) \ {Slug[g]}
          /\ g \in db.row \/ Slug[g] \notin Bound(v)
      BY <1>0, <1>5, <1>6, <1>7, <2>1 DEF CardTrue, Mutated, Acl, Op
    <2>2. Bound(v)' = Bound(v) \ {Slug[g]}
      <3>1. <<v, g>>[1] = v /\ <<v, g>>[2] = g
        OBVIOUS
      <3>2. \A b \in db.bound : b[1] = v /\ b # <<v, g>> => Slug[b[2]] # Slug[g]
        <4> SUFFICES ASSUME NEW b \in db.bound, b[1] = v, Slug[b[2]] = Slug[g] PROVE b = <<v, g>>
          OBVIOUS
        <4>1. b \in VMs \X Groups /\ b[2] \in db.row
          BY <1>3 DEF TablesOk
        <4>2. Slug[g] \in Bound(v)
          BY DEF Bound
        <4>3. b[2] = g
          BY <1>3, <2>4, <4>1, <4>2 DEF TablesOk
        <4> QED BY <4>1, <4>3
      <3>3. Bound(v)' = {Slug[b[2]] : b \in {c \in db.bound \ {<<v, g>>} : c[1] = v}}
        BY <1>4, <2>1 DEF Bound
      <3>4. \A x : x \in Bound(v)' <=> \E b \in db.bound : b[1] = v /\ b # <<v, g>> /\ x = Slug[b[2]]
        BY <3>3
      <3>5. \A x : x \in Bound(v) <=> \E b \in db.bound : b[1] = v /\ x = Slug[b[2]]
        BY DEF Bound
      <3>6. \A x : x \in Bound(v)' <=> x \in Bound(v) \ {Slug[g]}
        BY <3>1, <3>2, <3>4, <3>5
      <3> QED BY <3>6
    <2>3. Free(v)' = Free(v)
      BY <1>4, <1>8, <2>1 DEF Free
    <2>5. r \notin Changing'
      BY <1>8 DEF Changing
    <2> QED BY <1>6, <1>8, <2>1, <2>2, <2>3, <2>4, <2>5 DEF Near
  <1>12. "unbind" \in Busy /\ db.row \subseteq db'.row /\ db'.addr = db.addr
    BY <1>4, <1>8 DEF Busy
  <1> QED BY <1>1, <1>2, <1>10, <1>11, <1>12, CardCall

\* The filter is opened for the address the request holds, or restored.
LEMMA FilterCards ==
  ASSUME Structure, Structure', Cards, NEW r \in Threads, OpenFilter(r) \/ CloseFilter(r)
  PROVE  Cards'
  <1>1. PICK v : v = VM(r)
    OBVIOUS
  <1> DEFINE list == seen[r].acls
             accepted == Writable(v, list)
             opened == Card(v, list, FALSE)
             closed == Card(v, list, TRUE)
  <1>2. PICK s, i : /\ Call(r, s, accepted, db, i)
                    /\ \/ s = "open" /\ i = opened
                       \/ s = "close" /\ i = closed
    BY <1>1 DEF OpenFilter, CloseFilter
  <1>20. accepted \in BOOLEAN
    BY DEF Writable
  <1>3. TablesOk(db) /\ IncusOk(incus)
    BY Parts
  <1>4. v \in VMs => /\ i.acls[v] = list /\ i.inForce = incus.inForce
                     /\ s = "open" => ~i.filtered[v]
                     /\ s = "close" => i.filtered[v]
                     /\ i.living = incus.living /\ i.running = incus.running
                     /\ \A u \in VMs : u # v => i.acls[u] = incus.acls[u] /\ i.filtered[u] = incus.filtered[u]
    <2>1. v \in VMs /\ i = opened => /\ i.acls[v] = list /\ i.inForce = incus.inForce /\ ~i.filtered[v]
                     /\ i.living = incus.living /\ i.running = incus.running
                     /\ \A u \in VMs : u # v => i.acls[u] = incus.acls[u] /\ i.filtered[u] = incus.filtered[u]
      BY <1>3 DEF IncusOk, Card
    <2>2. v \in VMs /\ i = closed => /\ i.acls[v] = list /\ i.inForce = incus.inForce /\ i.filtered[v]
                     /\ i.living = incus.living /\ i.running = incus.running
                     /\ \A u \in VMs : u # v => i.acls[u] = incus.acls[u] /\ i.filtered[u] = incus.filtered[u]
      BY <1>3 DEF IncusOk, Card
    <2> HIDE DEF opened, closed
    <2> QED BY <1>2, <2>1, <2>2
  <1> HIDE DEF accepted, opened, closed
  <1>5. todo[r] # <<>> /\ Head(todo[r]) = s /\ torn \subseteq torn' /\ s \in {"open", "close"}
    BY <1>2, <1>20, CallFrame
  <1>6. /\ r \in Changing /\ v \in VMs /\ job[r].address \in Addresses
        /\ v \in incus.living \ torn => CardTrue(r, v)
        /\ v \in incus.living \ torn /\ v \in incus.running => incus.inForce[v] = incus.acls[v]
    BY <1>1, <1>5, Grounds, Where DEF Busy, AtFilter
  <1>7. /\ s = "open" => Op(r) = "attach" /\ Tail(todo[r]) = <<>> /\ OnError(r) = <<"give">>
        /\ s = "close" => Op(r) = "detach" /\ Tail(todo[r]) = <<"give">> /\ OnError(r) = <<"give">>
    <2>1. Op(r) \in Ops /\ todo[r] \in Course(Op(r))
      BY <1>5, Where
    <2>2. s = "open" => Op(r) = "attach" /\ Tail(todo[r]) = <<>>
      BY <1>5, <2>1, Courses DEF CourseTrue
    <2>3. s = "close" => Op(r) = "detach" /\ Tail(todo[r]) = <<"give">>
      BY <1>5, <2>1, Courses DEF CourseTrue
    <2>4. s = "open" => OnError(r) = <<"give">>
      BY <1>5 DEF OnError, NotFound
    <2>5. s = "close" => OnError(r) = Tail(todo[r])
      BY <1>5 DEF OnError, NotFound
    <2> QED BY <2>2, <2>3, <2>4, <2>5
  <1>8. /\ db' = db
        /\ \/ incus' = incus /\ shut' = shut /\ todo'[r] = <<"give">> /\ (s = "close" => v \in torn')
           \/ incus' = i /\ shut' = ShutBy(r, s) /\ s = "open" /\ todo'[r] = <<>>
           \/ incus' = i /\ s = "open" /\ v \in torn'
           \/ incus' = i /\ shut' = ShutBy(r, s) /\ s = "close" /\ todo'[r] = <<"give">>
        /\ shut' = shut \/ shut' = ShutBy(r, s)
        /\ todo'[r] # <<>> => job'[r] = job[r] /\ seen'[r] = seen[r]
    <2>1. <<"open", TRUE>> \in Tearing /\ <<"close", FALSE>> \in Tearing
      BY DEF Tearing
    <2> QED BY <1>1, <1>2, <1>20, <1>5, <1>7, <2>1, CallFrame
  <1>9. \A u \in VMs : u # v => Recorded(u)
    BY <1>1, <1>8 DEF Recorded, Bound, ShutBy
  <1>10. \A u \in VMs \ torn' : u # v => Kept(u) /\ Recorded(u)
    BY <1>4, <1>6, <1>8, <1>9 DEF Kept
  <1>11. ASSUME v \in incus'.living \ torn' PROVE Near(r, v)'
    <2>1. v \in incus.living \ torn
      BY <1>4, <1>5, <1>6, <1>8, <1>11
    <2>2. Bound(v)' = Bound(v)
      BY <1>8 DEF Bound
    <2>3. /\ incus.acls[v] = Bound(v)
          /\ seen[r].acls = incus.acls[v]
          /\ s = "open" => (incus.filtered[v] <=> FreeBut(v, job[r].address))
          /\ s = "close" => (incus.filtered[v] <=> Free(v))
      BY <1>5, <1>6, <2>1 DEF CardTrue
    <2>4. incus'.acls[v] = incus.acls[v] /\ incus'.inForce[v] = incus.inForce[v] /\ incus'.running = incus.running
      BY <1>4, <1>6, <1>8, <2>3
    <2>5. v \in incus'.running => incus'.inForce[v] = incus'.acls[v]
      BY <1>6, <2>1, <2>4
    <2>6. CASE todo'[r] = <<"give">> /\ (incus'.filtered[v] <=> FreeBut(v, job[r].address)')
      <3>1. todo'[r] # <<>> /\ Head(todo'[r]) = "give" /\ job'[r] = job[r]
        BY <1>8, <2>6
      <3>2. Op(r)' = Op(r) /\ Op(r) \in {"attach", "detach"}
        BY <1>5, <1>7, <3>1 DEF Op
      <3>4. CardTrue(r, v)'
        BY <2>2, <2>3, <2>4, <2>6, <3>1, <3>2 DEF CardTrue
      <3>5. r \in Changing'
        BY <3>1, WhoIsAtACardAfter DEF Busy
      <3> QED BY <2>5, <3>4, <3>5 DEF Near
    <2>10. todo'[r] = <<"give">> => job'[r] = job[r]
      BY <1>8
    <2>7. CASE incus' = incus /\ shut' = shut /\ s = "open" /\ todo'[r] = <<"give">>
      <3>1. FreeBut(v, job[r].address)' <=> FreeBut(v, job[r].address)
        BY <1>8, <2>7, <2>10 DEF FreeBut
      <3> QED BY <2>3, <2>6, <2>7, <3>1
    <2>8. CASE incus' = i /\ shut' = ShutBy(r, "close") /\ s = "close" /\ todo'[r] = <<"give">>
      <3>1. FreeBut(v, job[r].address)'
        BY <1>1, <1>8, <2>8, <2>10 DEF FreeBut, ShutBy, Others
      <3> QED BY <1>4, <1>6, <2>6, <2>8, <3>1
    <2>9. CASE incus' = i /\ shut' = ShutBy(r, "open") /\ s = "open" /\ todo'[r] = <<>>
      <3>1. r \notin Changing'
        BY <2>9 DEF Changing
      <3>2. job[r].address # None
        BY <1>6, VMNetworkAssumption
      <3>3. db.addr[job[r].address] = v
        BY <1>1, <1>6, <2>1, <3>2 DEF Cards, HeldTrue
      <3>4. ~Free(v)'
        BY <1>1, <1>6, <1>8, <2>9, <3>3 DEF Free, ShutBy
      <3> QED BY <1>4, <1>6, <2>2, <2>3, <2>4, <2>5, <2>9, <3>1, <3>4 DEF Near
    <2> QED BY <1>5, <1>8, <1>11, <2>7, <2>8, <2>9
  <1>12. s \in Busy /\ db.row \subseteq db'.row /\ db'.addr = db.addr
    BY <1>5, <1>8 DEF Busy
  <1> QED BY <1>1, <1>2, <1>20, <1>10, <1>11, <1>12, CardCall

\* An address is given back.
LEMMA GiveCards ==
  ASSUME Structure, Structure', Cards, NEW r \in Threads, GiveAddress(r)
  PROVE  Cards'
  <1>1. PICK v : v = VM(r)
    OBVIOUS
  <1>0. PICK f : f = job[r].address
    OBVIOUS
  <1> DEFINE accepted == TRUE
             d == [db EXCEPT !.addr[f] = IF @ \in VMs THEN Available ELSE @]
  <1>2. Call(r, "give", accepted, d, incus) /\ accepted \in BOOLEAN
    BY <1>0 DEF GiveAddress
  <1>3. TablesOk(db) /\ IncusOk(incus) /\ Available \notin VMs
    BY Parts, VMNetworkAssumption
  <1>4. /\ d.bound = db.bound /\ d.row = db.row
        /\ f \in Addresses => d.addr[f] \notin VMs /\ (db.addr[f] \notin VMs => d.addr[f] = db.addr[f])
        /\ \A a \in Addresses : a # f => d.addr[a] = db.addr[a]
    BY <1>3 DEF TablesOk
  <1> HIDE DEF accepted, d
  <1>5. todo[r] # <<>> /\ Head(todo[r]) = "give" /\ torn \subseteq torn' /\ \A q \in Threads \ {r} : Same(q)
    BY <1>2, CallFrame
  <1>6. /\ r \in Changing /\ v \in VMs /\ f \in Addresses /\ f # None
        /\ v \in incus.living \ torn => CardTrue(r, v)
        /\ v \in incus.living \ torn /\ v \in incus.running => incus.inForce[v] = incus.acls[v]
    BY <1>0, <1>1, <1>5, Grounds, Where, VMNetworkAssumption DEF Busy, AtFilter
  <1>7. Tail(todo[r]) = <<>> /\ OnError(r) = <<>>
    <2>1. Op(r) \in Ops /\ todo[r] \in Course(Op(r))
      BY <1>5, Where
    <2>2. Tail(todo[r]) = <<>>
      BY <1>5, <2>1, Courses DEF CourseTrue
    <2>3. OnError(r) = <<>>
      BY <1>5 DEF OnError, NotFound
    <2> QED BY <2>2, <2>3
  <1>8. /\ incus' = incus /\ shut' = shut /\ todo'[r] = <<>>
        /\ db' = d \/ (db' = db /\ v \in torn')
    <2>1. <<"give", FALSE>> \in Tearing
      BY DEF Tearing
    <2> QED BY <1>1, <1>2, <1>7, <2>1, CallFrame
  <1>9. r \notin Changing'
    BY <1>8 DEF Changing
  <1>10. ASSUME NEW u \in VMs \ torn', u # v PROVE Kept(u) /\ Recorded(u)
    <2>1. HeldTrue(r)
      BY DEF Cards
    <2>2. db.addr[f] # u
      BY <1>0, <1>1, <1>5, <1>6, <1>10, <2>1 DEF HeldTrue
    <2>3. db' = d => db'.addr[f] # u
      BY <1>4, <1>6
    <2>4. \A a \in Addresses : db'.addr[a] = u <=> db.addr[a] = u
      BY <1>4, <1>8, <2>2, <2>3
    <2>5. db'.bound = db.bound
      BY <1>4, <1>8
    <2> QED BY <1>8, <2>4, <2>5 DEF Kept, Recorded, Bound
  <1>11. ASSUME v \in incus'.living \ torn' PROVE Near(r, v)'
    <2>1. v \in incus.living \ torn /\ db' = d
      BY <1>5, <1>8, <1>11
    <2>2. incus.acls[v] = Bound(v) /\ (incus.filtered[v] <=> FreeBut(v, f))
      BY <1>0, <1>5, <1>6, <2>1 DEF CardTrue
    <2>3. Bound(v)' = Bound(v)
      BY <1>4, <2>1 DEF Bound
    <2>4. Free(v)' <=> FreeBut(v, f)
      BY <1>4, <1>6, <1>8, <2>1 DEF Free, FreeBut
    <2> QED BY <1>6, <1>8, <1>9, <2>1, <2>2, <2>3, <2>4 DEF Near
  <1>12. ASSUME NEW q \in Threads PROVE HeldTrue(q)'
    <2>1. CASE q = r
      BY <1>9, <2>1 DEF HeldTrue
    <2>2. CASE q # r /\ q \in Changing /\ job[q].address = f
      <3>1. VM(q) \in torn
        BY <1>0, <1>6, <2>2 DEF Cards, Clashing
      <3>2. db' = d \/ db' = db
        BY <1>8
      <3>3. VM(q)' = VM(q) /\ job'[q].address = f
        BY <1>5, <2>2, SameCards
      <3>4. HeldTrue(q)
        BY DEF Cards
      <3>5. CASE db' = d
        BY <1>4, <1>5, <1>6, <3>1, <3>3, <3>5 DEF HeldTrue
      <3>6. CASE db' = db
        BY <1>5, <1>6, <2>2, <3>1, <3>3, <3>4, <3>6 DEF HeldTrue
      <3> QED BY <3>2, <3>5, <3>6
    <2>3. CASE q # r /\ ~(q \in Changing /\ job[q].address = f)
      <3>1. HeldTrue(q)
        BY DEF Cards
      <3>2. /\ q \in Changing' <=> q \in Changing
            /\ VM(q)' = VM(q) /\ job'[q].address = job[q].address
        BY <1>5, <2>3, SameCards
      <3>3. q \in Changing /\ job[q].address # None => job[q].address \in Addresses
        <4>1. job[q] \in JobType
          BY DEF Structure
        <4> QED BY <4>1 DEF JobType
      <3> QED BY <1>4, <1>5, <1>8, <2>3, <3>1, <3>2, <3>3 DEF HeldTrue
    <2> QED BY <2>1, <2>2, <2>3
  <1>13. "give" \in Busy /\ db.row \subseteq db'.row
    BY <1>4, <1>8 DEF Busy
  <1> QED BY <1>1, <1>2, <1>10, <1>11, <1>12, <1>13, CardCall

\* An address is taken, for the VM the request comes to.
LEMMA TakeCards ==
  ASSUME Structure, Structure', Cards, NEW r \in Threads, TakeAddress(r)
  PROVE  Cards'
  <1>1. PICK v : v = VM(r)
    OBVIOUS
  <1>0. PICK f : f = job[r].address
    OBVIOUS
  <1> DEFINE accepted == db.addr[f] = Available
             d == [db EXCEPT !.addr[f] = v]
  <1>2. Call(r, "take", accepted, d, incus) /\ accepted \in BOOLEAN
    BY <1>0, <1>1 DEF TakeAddress
  <1>3. TablesOk(db) /\ IncusOk(incus) /\ Available \notin VMs
    BY Parts, VMNetworkAssumption
  <1>4. /\ d.bound = db.bound /\ d.row = db.row
        /\ f \in Addresses => d.addr[f] = v
        /\ \A a \in Addresses : a # f => d.addr[a] = db.addr[a]
    BY <1>3 DEF TablesOk
  <1>40. accepted <=> db.addr[f] = Available
    OBVIOUS
  <1> HIDE DEF accepted, d
  <1>5. /\ todo[r] # <<>> /\ Head(todo[r]) = "take" /\ torn \subseteq torn' /\ Clashing' \subseteq torn'
        /\ \A q \in Threads \ {r} : Same(q)
    BY <1>2, CallFrame
  <1>6. v \in VMs /\ f \in Addresses /\ f # None
    BY <1>0, <1>1, <1>5, Where, VMNetworkAssumption DEF AtFilter
  <1>7. Tail(todo[r]) = <<"look", "open">> /\ OnError(r) = <<>> /\ Op(r) = "attach"
    <2>1. Op(r) \in Ops /\ todo[r] \in Course(Op(r))
      BY <1>5, Where
    <2>2. Tail(todo[r]) = <<"look", "open">> /\ Op(r) = "attach"
      BY <1>5, <2>1, Courses DEF CourseTrue
    <2>3. OnError(r) = <<>>
      BY <1>5 DEF OnError, NotFound
    <2> QED BY <2>2, <2>3
  <1>8. /\ incus' = incus /\ shut' = shut
        /\ \/ db' = db /\ todo'[r] = <<>>
           \/ db' = d /\ db.addr[f] = Available /\ (todo'[r] = <<"look", "open">> \/ (todo'[r] = <<>> /\ v \in torn'))
        /\ todo'[r] # <<>> => job'[r] = job[r] /\ seen'[r] = seen[r]
    <2>1. <<"take", TRUE>> \in Tearing
      BY DEF Tearing
    <2>2. /\ \/ UNCHANGED <<db, incus, shut>> /\ todo'[r] = OnError(r)
             \/ /\ accepted /\ db' = d /\ incus' = incus
                /\ \/ todo'[r] = Tail(todo[r])
                   \/ todo'[r] = OnError(r) /\ VM(r) \in torn'
          /\ shut' = shut
          /\ todo'[r] # <<>> => job'[r] = job[r] /\ seen'[r] = seen[r]
      BY <1>2, <2>1, CallFrame
    <2> QED BY <1>1, <1>40, <1>7, <2>2
  <1>9. r \notin Changing
    BY <1>5, WhoIsAtACard DEF Busy
  <1>10. /\ todo'[r] = <<>> => r \notin Changing'
         /\ todo'[r] = <<"look", "open">> => /\ r \in Changing' /\ VM(r)' = v /\ job'[r].address = f
                                             /\ Head(todo'[r]) = "look" /\ Op(r)' = "attach"
    <2>1. Head(<<"look", "open">>) = "look" /\ <<"look", "open">> # <<>>
      OBVIOUS
    <2>2. todo'[r] = <<"look", "open">> => r \in Changing'
      BY <2>1, WhoIsAtACardAfter DEF Busy
    <2> QED BY <1>0, <1>1, <1>7, <1>8, <2>1, <2>2 DEF Changing, VM, Op
  <1>11. ASSUME NEW u \in VMs \ torn', u # v \/ (r \notin Changing /\ r \notin Changing')
         PROVE  Kept(u) /\ Recorded(u)
    <2>1. db' = db \/ (db' = d /\ db.addr[f] = Available /\ u # v)
      BY <1>8, <1>9, <1>10, <1>11
    <2>2. db' = d /\ db.addr[f] = Available /\ u # v => db'.addr[f] # u /\ db.addr[f] # u
      BY <1>3, <1>4, <1>6
    <2>3. \A a \in Addresses : db'.addr[a] = u <=> db.addr[a] = u
      BY <1>4, <2>1, <2>2
    <2>4. db'.bound = db.bound
      BY <1>4, <1>8
    <2> QED BY <1>8, <2>3, <2>4 DEF Kept, Recorded, Bound
  <1>12. ASSUME r \in Changing', v \in incus'.living \ torn' PROVE Near(r, v)'
    <2>1. todo'[r] = <<"look", "open">> /\ db' = d /\ db.addr[f] = Available
      BY <1>8, <1>10, <1>12
    <2>2. v \in incus.living \ torn'
      BY <1>8, <1>12
    <2>3. /\ incus.acls[v] = Bound(v) /\ (incus.filtered[v] <=> Free(v))
          /\ v \in incus.running => incus.inForce[v] = incus.acls[v]
      BY <1>5, <1>6, <1>9, <1>10, <1>12, <2>1, <2>2, NobodyBefore
    <2>4. Bound(v)' = Bound(v)
      BY <1>4, <2>1 DEF Bound
    <2>5. FreeBut(v, job[r].address)' <=> Free(v)
      BY <1>3, <1>4, <1>6, <1>8, <1>10, <2>1 DEF Free, FreeBut
    <2>6. CardTrue(r, v)'
      BY <1>8, <1>10, <2>1, <2>3, <2>4, <2>5 DEF CardTrue
    <2> QED BY <1>8, <1>12, <2>3, <2>6 DEF Near
  <1>13. ASSUME NEW q \in Threads PROVE HeldTrue(q)'
    <2>1. CASE q = r
      <3>1. CASE todo'[r] = <<>>
        BY <1>10, <2>1, <3>1 DEF HeldTrue
      <3>2. CASE todo'[r] = <<"look", "open">> /\ db' = d
        BY <1>4, <1>6, <1>10, <2>1, <3>2 DEF HeldTrue
      <3> QED BY <1>8, <3>1, <3>2
    <2>2. CASE q # r
      <3>1. HeldTrue(q)
        BY DEF Cards
      <3>2. /\ q \in Changing' <=> q \in Changing
            /\ VM(q)' = VM(q) /\ job'[q].address = job[q].address
        BY <1>5, <2>2, SameCards
      <3>3. q \in Changing /\ job[q].address # None => job[q].address \in Addresses
        <4>1. job[q] \in JobType
          BY DEF Structure
        <4> QED BY <4>1 DEF JobType
      <3>4. CASE q \in Changing /\ job[q].address = f /\ db' = d /\ db.addr[f] = Available
        <4>1. VM(q) \in VMs
          BY <3>4, WhoIsAtACard
        <4>2. VM(q) \in torn
          BY <1>3, <1>6, <1>8, <3>1, <3>4, <4>1 DEF HeldTrue
        <4>3. v \in torn'
          <5>1. CASE todo'[r] = <<"look", "open">>
            <6>1. VM(r)' \in Clashing'
              BY <1>6, <1>10, <2>2, <3>2, <3>4, <5>1 DEF Clashing
            <6> QED BY <1>5, <1>10, <5>1, <6>1
          <5>2. CASE db' = db
            <6>1. d.addr[f] = Available
              BY <3>4, <5>2
            <6> QED BY <1>3, <1>4, <1>6, <6>1
          <5> QED BY <1>8, <5>1, <5>2
        <4> QED BY <1>4, <1>5, <1>6, <3>2, <3>4, <4>2, <4>3 DEF HeldTrue
      <3>5. CASE ~(q \in Changing /\ job[q].address = f /\ db' = d /\ db.addr[f] = Available)
        BY <1>4, <1>5, <1>8, <3>1, <3>2, <3>3, <3>5 DEF HeldTrue
      <3> QED BY <3>4, <3>5
    <2> QED BY <2>1, <2>2
  <1>14. NameTrue(r)'
    <2>1. todo'[r] = <<>> \/ Head(todo'[r]) # "get"
      BY <1>8, <1>10
    <2> QED BY <2>1, NotThere
  <1>15. db.row \subseteq db'.row
    BY <1>4, <1>8
  <1>16. r \in Changing' => VM(r)' = v
    BY <1>8, <1>10
  <1> QED BY <1>5, <1>9, <1>11, <1>12, <1>13, <1>14, <1>15, <1>16, CardsStep

\* The row of a free address goes.
LEMMA ReleaseCards ==
  ASSUME Structure, Structure', Cards, NEW r \in Threads, ReleaseAddress(r)
  PROVE  Cards'
  <1>0. PICK f : f = job[r].address
    OBVIOUS
  <1> DEFINE accepted == db.addr[f] = Available
             d == [db EXCEPT !.addr[f] = None]
  <1>2. Call(r, "release", accepted, d, incus) /\ accepted \in BOOLEAN
    BY <1>0 DEF ReleaseAddress
  <1>3. TablesOk(db) /\ IncusOk(incus) /\ Available \notin VMs /\ None \notin VMs
    BY Parts, VMNetworkAssumption
  <1>4. /\ d.bound = db.bound /\ d.row = db.row
        /\ f \in Addresses => d.addr[f] = None
        /\ \A a \in Addresses : a # f => d.addr[a] = db.addr[a]
    BY <1>3 DEF TablesOk
  <1>40. accepted <=> db.addr[f] = Available
    OBVIOUS
  <1> HIDE DEF accepted, d
  <1>5. /\ todo[r] # <<>> /\ Head(todo[r]) = "release" /\ torn \subseteq torn' /\ Clashing' \subseteq torn'
        /\ \A q \in Threads \ {r} : Same(q)
    BY <1>2, CallFrame
  <1>6. f \in Addresses /\ f # None
    BY <1>0, <1>5, Where, VMNetworkAssumption
  <1>7. Tail(todo[r]) = <<>> /\ OnError(r) = <<>>
    <2>1. Op(r) \in Ops /\ todo[r] \in Course(Op(r))
      BY <1>5, Where
    <2>2. Tail(todo[r]) = <<>>
      BY <1>5, <2>1, Courses DEF CourseTrue
    <2>3. OnError(r) = <<>>
      BY <1>5 DEF OnError, NotFound
    <2> QED BY <2>2, <2>3
  <1>8. /\ incus' = incus /\ shut' = shut /\ todo'[r] = <<>>
        /\ db' = db \/ (db' = d /\ db.addr[f] = Available)
    <2>1. /\ \/ UNCHANGED <<db, incus, shut>>
             \/ accepted /\ db' = d /\ incus' = incus
          /\ todo'[r] \in {Tail(todo[r]), OnError(r)} /\ shut' = shut
      BY <1>2, CallFrame
    <2> QED BY <1>40, <1>7, <2>1
  <1>9. r \notin Changing /\ r \notin Changing'
    <2>1. r \notin Changing
      BY <1>5, WhoIsAtACard DEF Busy
    <2> QED BY <1>8, <2>1 DEF Changing
  <1>11. ASSUME NEW u \in VMs PROVE Kept(u) /\ Recorded(u)
    <2>2. db' = d /\ db.addr[f] = Available => db'.addr[f] # u /\ db.addr[f] # u
      BY <1>3, <1>4, <1>6
    <2>3. \A a \in Addresses : db'.addr[a] = u <=> db.addr[a] = u
      BY <1>4, <1>8, <2>2
    <2>4. db'.bound = db.bound
      BY <1>4, <1>8
    <2> QED BY <1>8, <2>3, <2>4 DEF Kept, Recorded, Bound
  <1>13. ASSUME NEW q \in Threads PROVE HeldTrue(q)'
    <2>1. CASE q = r
      BY <1>9, <2>1 DEF HeldTrue
    <2>2. CASE q # r
      <3>1. HeldTrue(q)
        BY DEF Cards
      <3>2. /\ q \in Changing' <=> q \in Changing
            /\ VM(q)' = VM(q) /\ job'[q].address = job[q].address
        BY <1>5, <2>2, SameCards
      <3>3. q \in Changing /\ job[q].address # None => job[q].address \in Addresses
        <4>1. job[q] \in JobType
          BY DEF Structure
        <4> QED BY <4>1 DEF JobType
      <3>4. CASE q \in Changing /\ job[q].address = f /\ db' = d /\ db.addr[f] = Available
        <4>1. VM(q) \in VMs
          BY <3>4, WhoIsAtACard
        <4>2. VM(q) \in torn
          BY <1>3, <1>6, <1>8, <3>1, <3>4, <4>1 DEF HeldTrue
        <4> QED BY <1>3, <1>4, <1>5, <1>6, <3>2, <3>4, <4>2 DEF HeldTrue
      <3>5. CASE ~(q \in Changing /\ job[q].address = f /\ db' = d /\ db.addr[f] = Available)
        BY <1>4, <1>5, <1>8, <3>1, <3>2, <3>3, <3>5 DEF HeldTrue
      <3> QED BY <3>4, <3>5
    <2> QED BY <2>1, <2>2
  <1>14. NameTrue(r)'
    BY <1>8, NotThere
  <1>15. db.row \subseteq db'.row
    BY <1>4, <1>8
  <1>16. PICK v : v = None
    OBVIOUS
  <1> QED BY <1>5, <1>9, <1>11, <1>13, <1>14, <1>15, <1>16, CardsStep

\* What the outcomes of a read have in common.
LEMMA ReadFrame ==
  ASSUME Structure, NEW r \in Threads, NEW step, NEW s, NEW w, Read(r, step, s, w)
  PROVE  /\ todo[r] # <<>> /\ Head(todo[r]) = step
         /\ \A q \in Threads \ {r} : Same(q)
         /\ torn \subseteq torn' /\ Clashing' \subseteq torn'
         /\ UNCHANGED <<db, incus, shut>>
         /\ todo'[r] # <<>> => job'[r] = job[r]
         /\ \/ todo'[r] = s /\ (s # <<>> => seen'[r] = w)
            \/ /\ todo'[r] = OnError(r) /\ (<<step, FALSE>> \in Tearing => VM(r) \in torn')
               /\ todo'[r] # <<>> => seen'[r] = seen[r]
  <1>1. todo[r] # <<>> /\ Head(todo[r]) = step /\ UNCHANGED <<db, incus, shut>>
    BY DEF Read, Doing
  <1>2. CASE Proceed(r, s, w) /\ torn' = torn \cup Clashing'
    <2>1. Overtake(r, s, w, {})
      BY <1>2 DEF Proceed
    <2> QED BY <1>1, <1>2, <2>1, GoesOnCrosses, GoesOn
  <1>3. CASE /\ Proceed(r, OnError(r), seen[r])
             /\ torn' = torn \cup Clashing'
                  \cup (IF <<step, FALSE>> \in Tearing THEN {VM(r)} ELSE {})
    <2>1. Overtake(r, OnError(r), seen[r], {})
      BY <1>3 DEF Proceed
    <2> QED BY <1>1, <1>3, <2>1, GoesOnCrosses, GoesOn
  <1> QED BY <1>2, <1>3 DEF Read

\* A request that goes on with its card unseen leaves every card as it is.
LEMMA Untouched ==
  ASSUME UNCHANGED <<db, incus, shut>>, NEW v
  PROVE  Kept(v) /\ Recorded(v)
  BY DEF Kept, Recorded, Bound

\* The card is read, by a binding or its removal.
LEMMA GetCards ==
  ASSUME Structure, Structure', Cards, NEW r \in Threads, GetInstance(r)
  PROVE  Cards'
  <1>1. PICK v : v = VM(r)
    OBVIOUS
  <1>0. PICK row : row = todo[r][3]
    OBVIOUS
  <1> DEFINE s == IF v \notin incus.living THEN <<>>
                  ELSE IF Mutated(r, incus.acls[v]) = incus.acls[v] THEN <<row>>
                  ELSE IF v \in incus.running THEN <<"stop", "patch", "start", row>>
                  ELSE <<"patch", row>>
  <1>2. Read(r, "get", s, Sight(v))
    BY <1>0, <1>1 DEF GetInstance
  <1>3. \/ s = <<>>
        \/ s = <<row>> /\ Mutated(r, incus.acls[v]) = incus.acls[v]
        \/ s = <<"stop", "patch", "start", row>> /\ v \in incus.running
        \/ s = <<"patch", row>> /\ v \notin incus.running
    OBVIOUS
  <1> HIDE DEF s
  <1>4. /\ todo[r] # <<>> /\ Head(todo[r]) = "get"
        /\ \A q \in Threads \ {r} : Same(q)
        /\ torn \subseteq torn' /\ Clashing' \subseteq torn'
        /\ UNCHANGED <<db, incus, shut>>
        /\ todo'[r] # <<>> => job'[r] = job[r]
    BY <1>2, ReadFrame
  <1>5. /\ v \in VMs /\ job[r].address = None /\ Op(r) \in CardOps
        /\ TablesOk(db) /\ IncusOk(incus)
    BY <1>1, <1>4, Where, Parts DEF AtCard
  <1>6. OnError(r) = <<>>
    BY <1>4 DEF OnError, NotFound
  <1>7. row = LastRow(Op(r)) /\ row \in {"bind", "unbind"}
    <2>1. Op(r) \in Ops /\ todo[r] \in Course(Op(r))
      BY <1>4, Where
    <2> QED BY <1>0, <1>4, <2>1, Courses DEF CourseTrue, LastRow
  <1>8. todo'[r] = <<>> \/ (todo'[r] = s /\ s # <<>> /\ seen'[r] = Sight(v))
    BY <1>2, <1>6, ReadFrame
  <1>9. r \notin Changing
    BY <1>4, WhoIsAtACard DEF Busy
  <1>10. ASSUME r \in Changing'
         PROVE  /\ s # <<>> /\ todo'[r] = s /\ seen'[r] = Sight(v) /\ job'[r] = job[r] /\ VM(r)' = v
                /\ \/ Head(todo'[r]) = row /\ Mutated(r, incus.acls[v]) = incus.acls[v]
                   \/ Head(todo'[r]) = "stop"
                   \/ Head(todo'[r]) = "patch" /\ v \notin incus.running
    <2>1. s # <<>> /\ todo'[r] = s /\ seen'[r] = Sight(v) /\ job'[r] = job[r]
      BY <1>4, <1>8, <1>10 DEF Changing
    <2>2. /\ Head(<<row>>) = row /\ Head(<<"stop", "patch", "start", row>>) = "stop"
          /\ Head(<<"patch", row>>) = "patch"
      OBVIOUS
    <2> QED BY <1>1, <1>3, <2>1, <2>2 DEF VM
  <1>11. ASSUME r \in Changing', v \in incus'.living \ torn' PROVE Near(r, v)'
    <2>1. v \in incus.living \ torn'
      BY <1>4, <1>11
    <2>2. /\ incus.acls[v] = Bound(v) /\ (incus.filtered[v] <=> Free(v))
          /\ v \in incus.running => incus.inForce[v] = incus.acls[v]
      BY <1>4, <1>5, <1>9, <1>10, <1>11, <2>1, NobodyBefore
    <2>3. Op(r) = "unbind" => Group(r) \in db.row
      <3>1. NameTrue(r)
        BY DEF Cards
      <3> QED BY <1>1, <1>4, <2>1, <3>1 DEF NameTrue, Doing
    <2>4. Op(r)' = Op(r) /\ Group(r)' = Group(r) /\ Acl(r)' = Acl(r)
      BY <1>10, <1>11 DEF Op, Group, Acl
    <2>5. Bound(v)' = Bound(v) /\ Free(v)' = Free(v)
      BY <1>4 DEF Bound, Free
    <2>6. seen'[r].acls = incus.acls[v] /\ seen'[r].filtered = incus.filtered[v]
      BY <1>10, <1>11 DEF Sight
    <2>7. Mutated(r, Bound(v))' = Mutated(r, Bound(v))
      BY <1>10, <1>11, <2>4, <2>5 DEF Mutated
    <2>8. /\ Head(todo'[r]) \in {"bind", "unbind", "stop", "patch"}
          /\ Head(todo'[r]) \in {"bind", "unbind"} => Mutated(r, incus.acls[v]) = incus.acls[v]
          /\ Head(todo'[r]) = "patch" => v \notin incus.running
      BY <1>7, <1>10, <1>11
    <2>9. CardTrue(r, v)'
      BY <1>4, <2>2, <2>3, <2>4, <2>5, <2>6, <2>7, <2>8 DEF CardTrue
    <2> QED BY <1>4, <1>11, <2>2, <2>9 DEF Near
  <1>12. HeldTrue(r)'
    <2>1. r \in Changing' => job'[r].address = None
      BY <1>5, <1>10
    <2> QED BY <2>1 DEF HeldTrue
  <1>13. \A q \in Threads : HeldTrue(q)'
    BY <1>4, <1>12, HeldStep
  <1>14. NameTrue(r)'
    <2>1. todo'[r] = <<>> \/ Head(todo'[r]) # "get"
      <3>1. /\ Head(<<row>>) = row /\ Head(<<"stop", "patch", "start", row>>) = "stop"
            /\ Head(<<"patch", row>>) = "patch"
        OBVIOUS
      <3> QED BY <1>3, <1>7, <1>8, <3>1
    <2> QED BY <2>1, NotThere
  <1>15. \A u \in VMs : Kept(u) /\ Recorded(u)
    BY <1>4, Untouched
  <1>16. db.row \subseteq db'.row /\ (r \in Changing' => VM(r)' = v)
    BY <1>4, <1>10
  <1> QED BY <1>4, <1>9, <1>11, <1>13, <1>14, <1>15, <1>16, CardsStep

\* The card is read, by an attachment or a detachment.
LEMMA LookCards ==
  ASSUME Structure, Structure', Cards, NEW r \in Threads, LookAtCard(r)
  PROVE  Cards'
  <1>1. PICK v : v = VM(r)
    OBVIOUS
  <1>2. PICK step \in {"look", "find"} :
          Read(r, step, IF v \in incus.living THEN Tail(todo[r]) ELSE OnError(r), Sight(v))
    BY <1>1 DEF LookAtCard
  <1>3. /\ todo[r] # <<>> /\ Head(todo[r]) = step
        /\ \A q \in Threads \ {r} : Same(q)
        /\ torn \subseteq torn' /\ Clashing' \subseteq torn'
        /\ UNCHANGED <<db, incus, shut>>
        /\ todo'[r] # <<>> => job'[r] = job[r]
    BY <1>2, ReadFrame
  <1>4. /\ r \in Changing /\ v \in VMs /\ Op(r) \in Ops /\ todo[r] \in Course(Op(r))
        /\ v \in incus.living \ torn => CardTrue(r, v)
        /\ v \in incus.living \ torn /\ v \in incus.running => incus.inForce[v] = incus.acls[v]
    BY <1>1, <1>2, <1>3, Grounds DEF Busy
  <1>5. OnError(r) = <<"give">>
    BY <1>2, <1>3 DEF OnError, NotFound
  <1>6. /\ step = "look" => Op(r) = "attach" /\ Tail(todo[r]) = <<"open">>
        /\ step = "find" => Op(r) = "detach" /\ Tail(todo[r]) = <<"close", "give">>
    BY <1>3, NextCall
  <1>7. v \in incus.living =>
          \/ step = "look" /\ todo'[r] = <<"open">> /\ seen'[r] = Sight(v)
          \/ step = "find" /\ todo'[r] = <<"close", "give">> /\ seen'[r] = Sight(v)
          \/ step = "look" /\ todo'[r] = <<"give">>
          \/ step = "find" /\ v \in torn'
    <2>1. <<"find", FALSE>> \in Tearing
      BY DEF Tearing
    <2>2. ASSUME v \in incus.living PROVE Read(r, step, Tail(todo[r]), Sight(v))
      BY <1>2, <2>2
    <2>3. ASSUME v \in incus.living
          PROVE  \/ todo'[r] = Tail(todo[r]) /\ (Tail(todo[r]) # <<>> => seen'[r] = Sight(v))
                 \/ todo'[r] = OnError(r) /\ (<<step, FALSE>> \in Tearing => v \in torn')
      BY <1>1, <2>2, <2>3, ReadFrame
    <2>4. <<"open">> # <<>> /\ <<"close", "give">> # <<>>
      OBVIOUS
    <2>5. CASE step = "look"
      BY <1>5, <1>6, <2>3, <2>4, <2>5
    <2>6. CASE step = "find"
      BY <1>5, <1>6, <2>1, <2>3, <2>4, <2>6
    <2> QED BY <1>2, <2>5, <2>6
  <1>8. todo'[r] \in {<<"open">>, <<"close", "give">>, <<"give">>}
    <2>1. \/ todo'[r] = IF v \in incus.living THEN Tail(todo[r]) ELSE OnError(r)
          \/ todo'[r] = OnError(r)
      BY <1>2, ReadFrame
    <2> QED BY <1>2, <1>5, <1>6, <2>1
  <1>9. /\ todo'[r] = <<"open">> => Head(todo'[r]) = "open"
        /\ todo'[r] = <<"close", "give">> => Head(todo'[r]) = "close"
        /\ todo'[r] = <<"give">> => Head(todo'[r]) = "give"
    OBVIOUS
  <1>10. r \in Changing' /\ job'[r] = job[r] /\ VM(r)' = v
    <2>1. todo'[r] # <<>>
      <3>1. <<"open">> # <<>> /\ <<"close", "give">> # <<>> /\ <<"give">> # <<>>
        OBVIOUS
      <3> QED BY <1>8, <3>1
    <2> QED BY <1>1, <1>3, <1>8, <1>9, <2>1, WhoIsAtACardAfter DEF Busy, VM
  <1>11. ASSUME v \in incus'.living \ torn' PROVE Near(r, v)'
    <2>1. v \in incus.living \ torn
      BY <1>3, <1>11
    <2>2. Bound(v)' = Bound(v) /\ Free(v)' = Free(v)
      BY <1>3 DEF Bound, Free
    <2>3. /\ incus.acls[v] = Bound(v)
          /\ step = "look" => (incus.filtered[v] <=> FreeBut(v, job[r].address))
          /\ step = "find" => (incus.filtered[v] <=> Free(v))
      BY <1>2, <1>3, <1>4, <2>1 DEF CardTrue
    <2>4. Op(r)' = Op(r) /\ Op(r) \in {"attach", "detach"}
      BY <1>2, <1>6, <1>10 DEF Op
    <2>5. FreeBut(v, job[r].address)' <=> FreeBut(v, job[r].address)
      BY <1>3, <1>10 DEF FreeBut
    <2>6. seen'[r] = Sight(v) => seen'[r].acls = incus.acls[v] /\ seen'[r].filtered = incus.filtered[v]
      BY DEF Sight
    <2>7. CASE step = "look" /\ todo'[r] = <<"open">> /\ seen'[r] = Sight(v)
      <3>1. CardTrue(r, v)'
        BY <1>3, <1>9, <2>2, <2>3, <2>4, <2>5, <2>6, <2>7 DEF CardTrue
      <3> QED BY <1>3, <1>4, <1>10, <2>1, <3>1 DEF Near
    <2>8. CASE step = "find" /\ todo'[r] = <<"close", "give">> /\ seen'[r] = Sight(v)
      <3>1. CardTrue(r, v)'
        BY <1>3, <1>9, <2>2, <2>3, <2>4, <2>5, <2>6, <2>8 DEF CardTrue
      <3> QED BY <1>3, <1>4, <1>10, <2>1, <3>1 DEF Near
    <2>9. CASE step = "look" /\ todo'[r] = <<"give">>
      <3>1. CardTrue(r, v)'
        BY <1>3, <1>9, <2>2, <2>3, <2>4, <2>5, <2>9 DEF CardTrue
      <3> QED BY <1>3, <1>4, <1>10, <2>1, <3>1 DEF Near
    <2> QED BY <1>7, <1>11, <2>1, <2>7, <2>8, <2>9
  <1>12. HeldTrue(r)'
    BY <1>3, <1>4, <1>10, StillHeld
  <1>13. \A q \in Threads : HeldTrue(q)'
    BY <1>3, <1>12, HeldStep
  <1>14. NameTrue(r)'
    BY <1>8, <1>9, NotThere
  <1>15. \A u \in VMs : Kept(u) /\ Recorded(u)
    BY <1>3, Untouched
  <1>16. db.row \subseteq db'.row
    BY <1>3
  <1> QED BY <1>1, <1>3, <1>4, <1>10, <1>11, <1>13, <1>14, <1>15, <1>16, CardsStep

\* A detachment finds whose the address is.
LEMMA HolderCards ==
  ASSUME Structure, Structure', Cards, NEW r \in Threads, ReadHolder(r)
  PROVE  Cards'
  <1>0. PICK f : f = job[r].address
    OBVIOUS
  <1>1. PICK v : v = db.addr[f]
    OBVIOUS
  <1>2. /\ todo[r] # <<>> /\ Head(todo[r]) = "holder"
        /\ torn \subseteq torn' /\ Clashing' \subseteq torn'
        /\ UNCHANGED <<db, incus, seen, shut>>
    BY DEF ReadHolder, Doing
  <1>3. f \in Addresses /\ f # None /\ DOMAIN todo = Threads /\ DOMAIN job = Threads
    BY <1>0, <1>2, Where, VMNetworkAssumption DEF Structure, TypeOK
  <1>4. \A q \in Threads \ {r} : Same(q)
    BY <1>3 DEF ReadHolder, Same
  <1>5. Op(r) = "detach" /\ Tail(todo[r]) = <<"find", "close", "give">>
    <2>1. Op(r) \in Ops /\ todo[r] \in Course(Op(r))
      BY <1>2, Where
    <2> QED BY <1>2, <2>1, Courses DEF CourseTrue
  <1>6. \/ /\ v \in VMs /\ todo'[r] = <<"find", "close", "give">>
           /\ VM(r)' = v /\ job'[r].address = f /\ Op(r)' = "detach"
        \/ todo'[r] = <<>>
    <2>1. job[r] \in JobType
      BY DEF Structure
    <2>2. CASE v \in VMs
      <3>1. job'[r] = [job[r] EXCEPT !.vm = v] /\ todo'[r] = Tail(todo[r])
        BY <1>0, <1>1, <1>3, <2>2 DEF ReadHolder
      <3> QED BY <1>0, <1>5, <2>1, <2>2, <3>1 DEF JobType, VM, Op
    <2>3. CASE v \notin VMs
      BY <1>0, <1>1, <1>3, <2>3 DEF ReadHolder
    <2> QED BY <2>2, <2>3
  <1>7. Head(<<"find", "close", "give">>) = "find" /\ <<"find", "close", "give">> # <<>>
    OBVIOUS
  <1>8. r \notin Changing
    BY <1>2, WhoIsAtACard DEF Busy
  <1>9. r \in Changing' => /\ v \in VMs /\ VM(r)' = v /\ Head(todo'[r]) = "find"
                           /\ job'[r].address = f /\ Op(r)' = "detach"
    BY <1>6, <1>7 DEF Changing
  <1>10. ASSUME r \in Changing', v \in incus'.living \ torn' PROVE Near(r, v)'
    <2>1. v \in incus.living \ torn'
      BY <1>2, <1>10
    <2>2. /\ incus.acls[v] = Bound(v) /\ (incus.filtered[v] <=> Free(v))
          /\ v \in incus.running => incus.inForce[v] = incus.acls[v]
      BY <1>2, <1>4, <1>8, <1>9, <1>10, <2>1, NobodyBefore
    <2>3. Bound(v)' = Bound(v) /\ Free(v)' = Free(v)
      BY <1>2 DEF Bound, Free
    <2>4. CardTrue(r, v)'
      BY <1>2, <1>9, <1>10, <2>2, <2>3 DEF CardTrue
    <2> QED BY <1>2, <1>10, <2>2, <2>4 DEF Near
  <1>11. HeldTrue(r)'
    BY <1>1, <1>2, <1>9 DEF HeldTrue
  <1>12. \A q \in Threads : HeldTrue(q)'
    BY <1>2, <1>4, <1>11, HeldStep
  <1>13. NameTrue(r)'
    <2>1. todo'[r] = <<>> \/ Head(todo'[r]) # "get"
      BY <1>6, <1>7
    <2> QED BY <2>1, NotThere
  <1>14. \A u \in VMs : Kept(u) /\ Recorded(u)
    BY <1>2, Untouched
  <1>15. db.row \subseteq db'.row /\ (r \in Changing' => VM(r)' = v)
    BY <1>2, <1>9
  <1> QED BY <1>2, <1>4, <1>8, <1>10, <1>12, <1>13, <1>14, <1>15, CardsStep

-----------------------------------------------------------------------------
(* The steps of requests that are at no card *)

LEMMA FarCards ==
  ASSUME Structure, Structure', Cards, NEW r \in Threads, \A q \in Threads \ {r} : Same(q),
         torn \subseteq torn', Clashing' \subseteq torn', db.row \subseteq db'.row,
         r \notin Changing, r \notin Changing', \A u \in VMs : Kept(u) /\ Recorded(u),
         db'.addr = db.addr, NameTrue(r)'
  PROVE  Cards'
  <1>1. HeldTrue(r)'
    BY DEF HeldTrue
  <1>2. \A q \in Threads : HeldTrue(q)'
    BY <1>1, HeldStep
  <1>3. PICK v : v = None
    OBVIOUS
  <1> QED BY <1>2, <1>3, CardsStep

\* The calls that push rules, or delete an ACL.
LEMMA FarCall ==
  ASSUME Structure, Structure', Cards, NEW r \in Threads,
         NEW s \in {"insert", "rules", "put", "post", "unacl"}, NEW accepted \in BOOLEAN, NEW d, NEW i,
         Call(r, s, accepted, d, i), db.row \subseteq d.row, d.bound = db.bound, d.addr = db.addr,
         i.acls = incus.acls, i.inForce = incus.inForce, i.filtered = incus.filtered,
         i.living = incus.living, i.running = incus.running
  PROVE  Cards'
  <1>1. /\ todo[r] # <<>> /\ Head(todo[r]) = s
        /\ \A q \in Threads \ {r} : Same(q)
        /\ torn \subseteq torn' /\ Clashing' \subseteq torn'
        /\ todo'[r] \in {Tail(todo[r]), OnError(r)} /\ shut' = shut
    BY CallFrame
  <1>d. db' \in {db, d} /\ incus' \in {incus, i}
    <2>1. CASE Made(r, s, d, i)
      BY <2>1 DEF Made
    <2>2. ASSUME NEW done \in BOOLEAN, Failed(r, s, done, d, i)
          PROVE  db' \in {db, d} /\ incus' \in {incus, i}
      BY <2>2 DEF Failed
    <2> QED BY <2>1, <2>2, CallCases
  <1>2. r \notin Changing
    BY <1>1, WhoIsAtACard DEF Busy
  <1>3. todo'[r] \in {<<>>, <<"rules", "put">>, <<"put">>, <<"drop">>, <<"post">>}
    <2>1. Op(r) \in Ops /\ todo[r] \in Course(Op(r))
      BY <1>1, Where
    <2>2. Tail(todo[r]) \in {<<>>, <<"rules", "put">>, <<"put">>, <<"drop">>}
      <3>1. CASE s \in {"insert", "rules"}
        BY <1>1, <3>1, NextCall
      <3>2. CASE s \in {"put", "post", "unacl"}
        BY <1>1, <3>2, NextCall
      <3> QED BY <3>1, <3>2
    <2>3. OnError(r) \in {Tail(todo[r]), <<"post">>, <<>>}
      BY <1>1 DEF OnError
    <2> QED BY <1>1, <2>2, <2>3
  <1>4. todo'[r] = <<>> \/ Head(todo'[r]) \in {"rules", "put", "drop", "post"}
    <2>1. /\ Head(<<"rules", "put">>) = "rules" /\ Head(<<"put">>) = "put"
          /\ Head(<<"drop">>) = "drop" /\ Head(<<"post">>) = "post"
      OBVIOUS
    <2> QED BY <1>3, <2>1
  <1>5. r \notin Changing'
    BY <1>4, WhoIsAtACardAfter DEF Busy
  <1>6. NameTrue(r)'
    BY <1>4, NotThere
  <1>7. \A u \in VMs : Kept(u) /\ Recorded(u)
    <2>1. db'.bound = db.bound /\ db'.addr = db.addr
      BY <1>d
    <2>2. /\ incus'.acls = incus.acls /\ incus'.inForce = incus.inForce
          /\ incus'.filtered = incus.filtered /\ incus'.living = incus.living
          /\ incus'.running = incus.running
      BY <1>d
    <2> QED BY <1>1, <2>1, <2>2 DEF Kept, Recorded, Bound
  <1>8. db.row \subseteq db'.row /\ db'.addr = db.addr
    BY <1>d
  <1> QED BY <1>1, <1>2, <1>5, <1>6, <1>7, <1>8, FarCards

LEMMA FarCalls ==
  ASSUME Structure, Structure', Cards, NEW r \in Threads,
         InsertGroup(r) \/ ReplaceRules(r) \/ PutACL(r) \/ PostACL(r) \/ DeleteACL(r)
  PROVE  Cards'
  <1>1. TablesOk(db) /\ IncusOk(incus)
    BY Parts
  <1>2. CASE InsertGroup(r)
    <2> DEFINE accepted == Group(r) \notin db.used /\ \A g \in db.row : Slug[g] # Acl(r)
               d == [db EXCEPT !.row = @ \cup {Group(r)}, !.used = @ \cup {Group(r)}]
    <2>1. Call(r, "insert", accepted, d, incus) /\ accepted \in BOOLEAN
      BY <1>2 DEF InsertGroup
    <2>2. db.row \subseteq d.row /\ d.bound = db.bound /\ d.addr = db.addr
      BY <1>1 DEF TablesOk
    <2> HIDE DEF accepted, d
    <2> QED BY <2>1, <2>2, FarCall
  <1>3. CASE ReplaceRules(r)
    <2> DEFINE accepted == Group(r) \in db.row \/ job[r].rules = NoRules
               d == [db EXCEPT !.rules[Group(r)] = job[r].rules]
    <2>1. Call(r, "rules", accepted, d, incus) /\ accepted \in BOOLEAN
      BY <1>3 DEF ReplaceRules
    <2>2. db.row \subseteq d.row /\ d.bound = db.bound /\ d.addr = db.addr
      BY <1>1 DEF TablesOk
    <2> HIDE DEF accepted, d
    <2> QED BY <2>1, <2>2, FarCall
  <1>4. CASE PutACL(r) \/ PostACL(r)
    <2> DEFINE some == incus.acl[Acl(r)] # Absent
               none == incus.acl[Acl(r)] = Absent
               i == [incus EXCEPT !.acl[Acl(r)] = Latest(r)]
    <2>1. \/ Call(r, "put", some, db, i) /\ some \in BOOLEAN
          \/ Call(r, "post", none, db, i) /\ none \in BOOLEAN
      BY <1>4 DEF PutACL, PostACL
    <2>2. /\ i.acls = incus.acls /\ i.inForce = incus.inForce /\ i.filtered = incus.filtered
          /\ i.living = incus.living /\ i.running = incus.running
      BY <1>1 DEF IncusOk
    <2> HIDE DEF some, none, i
    <2> QED BY <2>1, <2>2, FarCall
  <1>5. CASE DeleteACL(r)
    <2> DEFINE accepted == \A v \in VMs : Acl(r) \notin incus.acls[v]
               i == [incus EXCEPT !.acl[Acl(r)] = Absent]
    <2>1. Call(r, "unacl", accepted, db, i) /\ accepted \in BOOLEAN
      BY <1>5 DEF DeleteACL
    <2>2. /\ i.acls = incus.acls /\ i.inForce = incus.inForce /\ i.filtered = incus.filtered
          /\ i.living = incus.living /\ i.running = incus.running
      BY <1>1 DEF IncusOk
    <2> HIDE DEF accepted, i
    <2> QED BY <2>1, <2>2, FarCall
  <1> QED BY <1>2, <1>3, <1>4, <1>5

\* Who leaves no card and comes to none clashes with nobody new.
LEMMA NoNewClash ==
  ASSUME NEW r \in Threads, \A q \in Threads \ {r} : Same(q), r \notin Changing'
  PROVE  Clashing' \subseteq Clashing
  <1>1. \A q \in Changing' : q \in Changing /\ VM(q)' = VM(q) /\ job'[q].address = job[q].address
    BY SameCards DEF Changing
  <1> SUFFICES ASSUME NEW v \in Clashing' PROVE v \in Clashing
    OBVIOUS
  <1>2. PICK p \in Changing' :
          /\ v = VM(p)'
          /\ \E q \in Changing' \ {p} :
               \/ VM(p)' = VM(q)'
               \/ job'[p].address = job'[q].address /\ job'[p].address # None
    BY DEF Clashing
  <1>3. PICK q \in Changing' \ {p} :
               \/ VM(p)' = VM(q)'
               \/ job'[p].address = job'[q].address /\ job'[p].address # None
    BY <1>2
  <1>4. p \in Changing /\ q \in Changing \ {p} /\ v = VM(p)
    BY <1>1, <1>2, <1>3
  <1>5. VM(p) = VM(q) \/ (job[p].address = job[q].address /\ job[p].address # None)
    BY <1>1, <1>3
  <1> QED BY <1>4, <1>5 DEF Clashing

\* Groups, rules and bindings are read, and loops go on.
LEMMA FarReads ==
  ASSUME Structure, Structure', Cards, NEW r \in Threads,
         GetGroup(r) \/ ListRules(r) \/ CountBindings(r) \/ ListGroups(r) \/ NextGroup(r)
  PROVE  Cards'
  <1>1. DOMAIN todo = Threads /\ DOMAIN job = Threads
    BY DEF Structure, TypeOK
  <1>2. ASSUME UNCHANGED <<db, incus, shut>>, \A q \in Threads \ {r} : Same(q),
               torn \subseteq torn', Clashing' \subseteq torn', r \notin Changing,
               todo'[r] = <<>> \/ Head(todo'[r]) \notin Busy, NameTrue(r)'
        PROVE  Cards'
    <2>1. \A u \in VMs : Kept(u) /\ Recorded(u)
      BY <1>2, Untouched
    <2>2. r \notin Changing'
      BY <1>2, WhoIsAtACardAfter
    <2> QED BY <1>2, <2>1, <2>2, FarCards
  <1>3. CASE GetGroup(r)
    <2> DEFINE s == IF Group(r) \in db.row THEN Tail(todo[r]) ELSE <<>>
    <2>1. Read(r, "group", s, seen[r])
      BY <1>3 DEF GetGroup
    <2>2. s = <<>> \/ (s = Tail(todo[r]) /\ Group(r) \in db.row)
      OBVIOUS
    <2> HIDE DEF s
    <2>3. /\ todo[r] # <<>> /\ Head(todo[r]) = "group"
          /\ \A q \in Threads \ {r} : Same(q)
          /\ torn \subseteq torn' /\ Clashing' \subseteq torn'
          /\ UNCHANGED <<db, incus, shut>>
          /\ todo'[r] # <<>> => job'[r] = job[r]
          /\ todo'[r] = s \/ todo'[r] = OnError(r)
      BY <2>1, ReadFrame
    <2>4. OnError(r) = <<>>
      BY <2>3 DEF OnError, NotFound
    <2>5. Head(Tail(todo[r])) \in {"rules", "list", "unacl", "count", "get"}
      <3>1. Op(r) \in Ops /\ todo[r] \in Course(Op(r))
        BY <2>3, Where
      <3> QED BY <2>3, <3>1, Courses DEF CourseTrue
    <2>6. r \notin Changing
      BY <2>3, WhoIsAtACard DEF Busy
    <2>7. todo'[r] = <<>> \/ Head(todo'[r]) \notin Busy
      BY <2>2, <2>3, <2>4, <2>5 DEF Busy
    <2>8. NameTrue(r)'
      <3>1. todo'[r] # <<>> => Group(r) \in db.row /\ Group(r)' = Group(r)
        BY <2>2, <2>3, <2>4 DEF Group
      <3> QED BY <2>3, <3>1 DEF NameTrue, Doing
    <2> QED BY <1>2, <2>3, <2>6, <2>7, <2>8
  <1>4. CASE CountBindings(r)
    <2> DEFINE s == IF \E b \in db.bound : b[2] = Group(r) THEN <<>> ELSE Tail(todo[r])
    <2>1. Read(r, "count", s, seen[r])
      BY <1>4 DEF CountBindings
    <2>2. s = <<>> \/ s = Tail(todo[r])
      OBVIOUS
    <2> HIDE DEF s
    <2>3. /\ todo[r] # <<>> /\ Head(todo[r]) = "count"
          /\ \A q \in Threads \ {r} : Same(q)
          /\ torn \subseteq torn' /\ Clashing' \subseteq torn'
          /\ UNCHANGED <<db, incus, shut>>
          /\ todo'[r] = s \/ todo'[r] = OnError(r)
      BY <2>1, ReadFrame
    <2>4. OnError(r) = <<>>
      BY <2>3 DEF OnError, NotFound
    <2>5. Tail(todo[r]) = <<"unacl", "drop">>
      <3>1. Op(r) \in Ops /\ todo[r] \in Course(Op(r))
        BY <2>3, Where
      <3> QED BY <2>3, <3>1, Courses DEF CourseTrue
    <2>6. r \notin Changing
      BY <2>3, WhoIsAtACard DEF Busy
    <2>7. todo'[r] = <<>> \/ Head(todo'[r]) = "unacl"
      <3>1. Head(<<"unacl", "drop">>) = "unacl"
        OBVIOUS
      <3> QED BY <2>2, <2>3, <2>4, <2>5, <3>1
    <2>8. NameTrue(r)'
      BY <2>7, NotThere
    <2> QED BY <1>2, <2>3, <2>6, <2>7, <2>8 DEF Busy
  <1>5. CASE ListRules(r)
    <2>1. todo[r] # <<>> /\ Head(todo[r]) = "list"
      BY <1>5 DEF ListRules, Doing
    <2>2. PICK n, x : Overtake(r, n, x, {}) /\ n \in {<<>>, Tail(todo[r])}
      BY <1>5 DEF ListRules, Proceed
    <2>3. \A q \in Threads \ {r} : Same(q)
      BY <2>2, GoesOnCrosses
    <2>4. UNCHANGED <<db, incus, shut>> /\ torn \subseteq torn' /\ Clashing' \subseteq torn'
      BY <1>5 DEF ListRules
    <2>5. Tail(todo[r]) = <<"put">>
      <3>1. Op(r) \in Ops /\ todo[r] \in Course(Op(r))
        BY <2>1, Where
      <3> QED BY <2>1, <3>1, Courses DEF CourseTrue
    <2>6. r \notin Changing
      BY <2>1, WhoIsAtACard DEF Busy
    <2>7. todo'[r] = <<>> \/ Head(todo'[r]) = "put"
      <3>1. Head(<<"put">>) = "put"
        OBVIOUS
      <3>2. todo'[r] = n
        BY <2>2, GoesOn
      <3> QED BY ONLY <2>2, <2>5, <3>1, <3>2
    <2>8. NameTrue(r)'
      BY <2>7, NotThere
    <2> QED BY <1>2, <2>3, <2>4, <2>6, <2>7, <2>8 DEF Busy
  <1>6. ASSUME r \notin Changing, todo'[r] = <<>> \/ Head(todo'[r]) \notin Busy,
               \A q \in Threads \ {r} : Same(q), UNCHANGED torn
        PROVE  torn \subseteq torn' /\ Clashing' \subseteq torn'
    <2>1. r \notin Changing'
      BY <1>6, WhoIsAtACardAfter
    <2> QED BY <1>6, <2>1, NoNewClash DEF Cards
  <1>7. CASE ListGroups(r)
    <2>1. todo[r] # <<>> /\ Head(todo[r]) = "groups"
      BY <1>7 DEF ListGroups, Doing
    <2>2. /\ \A q \in Threads \ {r} : Same(q)
          /\ todo'[r] = <<>> /\ UNCHANGED <<db, incus, torn, shut>>
      BY <1>1, <1>7 DEF ListGroups, Same
    <2>3. r \notin Changing
      BY <2>1, WhoIsAtACard DEF Busy
    <2>4. NameTrue(r)'
      BY <2>2, NotThere
    <2> QED BY <1>2, <1>6, <2>2, <2>3, <2>4
  <1>8. CASE NextGroup(r)
    <2>1. todo[r] = <<>> /\ more[r] # {} /\ Op(r) \in {"defaults", "reconcile"}
      BY <1>8 DEF NextGroup, Structure, Shaped
    <2>2. /\ \A q \in Threads \ {r} : Same(q)
          /\ todo'[r] = Program[Op(r)] /\ UNCHANGED <<db, incus, torn, shut>>
      BY <1>1, <1>8 DEF NextGroup, Same, Op
    <2>3. Program[Op(r)] \in {ApplyDefault, Reconcile}
      BY <2>1 DEF Program
    <2>4. Head(Program[Op(r)]) \in {"get", "list"}
      BY <2>3 DEF ApplyDefault, Reconcile
    <2>5. r \notin Changing
      BY <2>1 DEF Changing
    <2>6. Op(r)' # "unbind"
      <3>1. job[r] \in JobType
        BY DEF Structure
      <3>2. Op(r)' = Op(r)
        BY <1>1, <1>8, <3>1 DEF NextGroup, Op, JobType
      <3> QED BY <2>1, <3>2
    <2>7. NameTrue(r)'
      BY <2>6 DEF NameTrue
    <2>8. Head(todo'[r]) \notin Busy
      BY <2>2, <2>4 DEF Busy
    <2> QED BY <1>2, <1>6, <2>2, <2>5, <2>7, <2>8
  <1> QED BY <1>3, <1>4, <1>5, <1>7, <1>8

\* A group is deleted, with its bindings.
LEMMA DropCards ==
  ASSUME Structure, Structure', Cards, NEW r \in Threads, DropGroup(r)
  PROVE  Cards'
  <1>0. PICK g : g = Group(r)
    OBVIOUS
  <1> DEFINE accepted == TRUE
             d == [db EXCEPT !.row = @ \ {g}, !.rules[g] = NoRules, !.defaults = @ \ {g},
                             !.bound = {b \in @ : b[2] # g}]
  <1>1. Call(r, "drop", accepted, d, incus) /\ accepted \in BOOLEAN
    BY <1>0 DEF DropGroup
  <1>2. TablesOk(db) /\ IncusOk(incus)
    BY Parts
  <1>3. d.row = db.row \ {g} /\ d.bound = {b \in db.bound : b[2] # g} /\ d.addr = db.addr
    BY <1>2 DEF TablesOk
  <1> HIDE DEF accepted, d
  <1>4. /\ todo[r] # <<>> /\ Head(todo[r]) = "drop"
        /\ \A q \in Threads \ {r} : Same(q)
        /\ torn \subseteq torn' /\ Clashing' \subseteq torn'
        /\ todo'[r] \in {Tail(todo[r]), OnError(r)}
        /\ \/ UNCHANGED <<db, incus, shut>>
           \/ db' = d /\ incus' = incus /\ shut' = shut /\ Spoiled(r, "drop") \subseteq torn'
    BY <1>1, CallFrame
  <1>5. todo'[r] = <<>>
    <2>1. Op(r) \in Ops /\ todo[r] \in Course(Op(r))
      BY <1>4, Where
    <2>2. Tail(todo[r]) = <<>>
      BY <1>4, <2>1, Courses DEF CourseTrue
    <2>3. OnError(r) = <<>>
      BY <1>4 DEF OnError, NotFound
    <2> QED BY <1>4, <2>2, <2>3
  <1>6. r \notin Changing /\ r \notin Changing'
    BY <1>4, <1>5, WhoIsAtACard DEF Busy, Changing
  <1>7. NameTrue(r)'
    BY <1>5, NotThere
  <1>8. CASE UNCHANGED <<db, incus, shut>>
    <2>1. \A u \in VMs : Kept(u) /\ Recorded(u)
      BY <1>8, Untouched
    <2> QED BY <1>4, <1>6, <1>7, <1>8, <2>1, FarCards
  <1>9. CASE db' = d /\ incus' = incus /\ shut' = shut /\ Spoiled(r, "drop") \subseteq torn'
    <2>1. \A u \in VMs \ torn' : Slug[g] \notin incus.acls[u]
      BY <1>0, <1>9 DEF Spoiled, Acl
    <2>2. \A q \in Unbinding(r) : VM(q) \in torn'
      BY <1>9 DEF Spoiled
    <2>3. db'.row = db.row \ {g} /\ db'.bound = {b \in db.bound : b[2] # g} /\ db'.addr = db.addr
      BY <1>3, <1>9
    <2>4. ASSUME NEW u \in VMs
          PROVE  /\ Bound(u)' \subseteq Bound(u) /\ Bound(u) \subseteq Bound(u)' \cup {Slug[g]}
                 /\ g \in db.row => Slug[g] \notin Bound(u)'
      <3>1. \A x : x \in Bound(u)' <=> \E b \in db.bound : b[1] = u /\ b[2] # g /\ x = Slug[b[2]]
        BY <2>3 DEF Bound
      <3>2. \A x : x \in Bound(u) <=> \E b \in db.bound : b[1] = u /\ x = Slug[b[2]]
        BY DEF Bound
      <3>3. \A b \in db.bound : b[2] \in db.row
        BY <1>2 DEF TablesOk
      <3>4. \A h, k \in db.row : Slug[h] = Slug[k] => h = k
        BY <1>2 DEF TablesOk
      <3>5. g \in db.row => Slug[g] \notin Bound(u)'
        BY <3>1, <3>3, <3>4
      <3> QED BY <3>1, <3>2, <3>5
    <2>5. ASSUME NEW u \in VMs PROVE CardOk(u)'
      <3> SUFFICES ASSUME u \in incus'.living \ torn' PROVE CardOk(u)'
        BY DEF CardOk
      <3>1. u \in incus.living \ torn /\ Slug[g] \notin incus.acls[u] /\ CardOk(u)
        BY <1>4, <1>9, <2>1 DEF Cards
      <3>2. \A q \in Threads : q \in Changing' /\ VM(q)' = u <=> q \in Changing /\ VM(q) = u
        BY <1>4, <1>6, SameCards
      <3>3. Free(u)' <=> Free(u)
        BY <1>9, <2>3 DEF Free
      <3>4. u \in incus'.running => incus'.inForce[u] = incus'.acls[u]
        BY <1>9, <3>1 DEF CardOk
      <3>5. ASSUME NEW q \in Changing', VM(q)' = u PROVE CardTrue(q, u)'
        <4>1. q \in Threads /\ q \in Changing /\ VM(q) = u /\ q # r
          BY <1>6, <3>2, <3>5 DEF Changing
        <4>2. CardTrue(q, u)
          BY <3>1, <4>1 DEF CardOk
        <4>3. /\ Group(q)' = Group(q) /\ Acl(q)' = Acl(q) /\ Op(q)' = Op(q)
              /\ job'[q].address = job[q].address /\ todo'[q] = todo[q] /\ seen'[q] = seen[q]
              /\ \A list : Mutated(q, list)' = Mutated(q, list)
          BY <1>4, <4>1, SameCards DEF Same
        <4>4. FreeBut(u, job[q].address)' <=> FreeBut(u, job[q].address)
          BY <1>9, <2>3, <4>3 DEF FreeBut
        <4>5. Op(q) = "unbind" => Group(q)' \in db'.row \/ Acl(q)' \notin Bound(u)'
          BY <2>3, <2>4, <4>2, <4>3 DEF CardTrue, Acl
        <4>6. incus.acls[u] = Bound(u) => incus.acls[u] = Bound(u)'
          BY <2>4, <3>1
        <4>7. incus.acls[u] = Mutated(q, Bound(u)) => incus.acls[u] = Mutated(q, Bound(u))'
          <5>1. incus.acls[u] = Mutated(q, Bound(u)) => Mutated(q, Bound(u)) = IF Op(q) = "unbind" THEN Bound(u)' \ {Acl(q)} ELSE Bound(u)' \cup {Acl(q)}
            BY <2>4, <3>1 DEF Mutated, Op
          <5>2. Mutated(q, Bound(u))' = IF Op(q) = "unbind" THEN Bound(u)' \ {Acl(q)} ELSE Bound(u)' \cup {Acl(q)}
            BY <4>3 DEF Mutated, Op
          <5> QED BY <5>1, <5>2
        <4> QED BY <1>9, <3>3, <4>2, <4>3, <4>4, <4>5, <4>6, <4>7 DEF CardTrue
      <3>6. ASSUME \A q \in Changing' : VM(q)' # u
            PROVE  incus'.acls[u] = Bound(u)' /\ (incus'.filtered[u] <=> Free(u)')
        <4>1. \A q \in Changing : VM(q) # u
          BY <3>2, <3>6 DEF Changing
        <4>2. incus.acls[u] = Bound(u) /\ (incus.filtered[u] <=> Free(u))
          BY <3>1, <4>1 DEF CardOk
        <4>3. incus.acls[u] = Bound(u)'
          <5>1. Bound(u)' \subseteq Bound(u) /\ Bound(u) \subseteq Bound(u)' \cup {Slug[g]}
            BY <2>4
          <5>2. Slug[g] \notin Bound(u)
            BY <3>1, <4>2
          <5> QED BY ONLY <4>2, <5>1, <5>2
        <4> QED BY <1>9, <3>3, <4>2, <4>3
      <3> QED BY <3>4, <3>5, <3>6 DEF CardOk
    <2>6. HeldTrue(r)'
      BY <1>6 DEF HeldTrue
    <2>7. \A q \in Threads : HeldTrue(q)'
      BY <1>4, <2>3, <2>6, HeldStep
    <2>8. ASSUME NEW q \in Threads, q # r PROVE NameTrue(q)'
      <3>1. NameTrue(q) /\ Same(q)
        BY <1>4, <2>8 DEF Cards
      <3>2. /\ VM(q)' = VM(q) /\ Group(q)' = Group(q) /\ Op(q)' = Op(q)
            /\ Doing(q, "get")' <=> Doing(q, "get")
        BY <3>1, <2>8, SameCards
      <3>3. Doing(q, "get") /\ Op(q) = "unbind" /\ Group(q) = g => q \in Unbinding(r)
        BY <1>0 DEF Unbinding, Op
      <3> QED BY <1>4, <2>2, <2>3, <3>1, <3>2, <3>3 DEF NameTrue
    <2> QED BY <1>4, <1>7, <2>5, <2>7, <2>8 DEF Cards
  <1> QED BY <1>4, <1>8, <1>9

-----------------------------------------------------------------------------
(* What else happens, and the start *)

LEMMA AskCards ==
  ASSUME Structure, Structure', Cards, NEW j \in Calls, Ask(j)
  PROVE  Cards'
  <1>1. PICK r \in Requests :
           /\ Idle(r) /\ job'[r] = j
           /\ todo'[r] = IF j.op = "defaults" THEN <<"groups">> ELSE Program[j.op]
           /\ \A q \in Threads \ {r} : job'[q] = job[q] /\ todo'[q] = todo[q]
           /\ UNCHANGED <<db, incus, seen, more, faults, off, torn, shut, behind, crossed>>
    BY AskGives
  <1>2. r \in Threads /\ Head(todo'[r]) \notin Busy /\ Head(todo'[r]) # "get"
    BY <1>1, Asked, ThreadsOk DEF Busy
  <1>3. r \notin Changing /\ r \notin Changing'
    BY <1>1, <1>2, WhoIsAtACardAfter DEF Idle, Changing
  <1>4. \A q \in Threads \ {r} : Same(q)
    BY <1>1 DEF Same
  <1>5. NameTrue(r)'
    BY <1>2, NotThere
  <1>6. \A u \in VMs : Kept(u) /\ Recorded(u)
    BY <1>1, Untouched
  <1>7. torn \subseteq torn' /\ Clashing' \subseteq torn' /\ db' = db
    BY <1>1, <1>2, <1>3, <1>4, NoNewClash DEF Cards
  <1> QED BY <1>2, <1>3, <1>4, <1>5, <1>6, <1>7, FarCards

\* A card nobody touches, while no request moves.
LEMMA StillCard ==
  ASSUME Cards, UNCHANGED <<job, todo, seen, shut>>, torn \subseteq torn', db'.row = db.row, NEW v \in VMs,
         Recorded(v), v \in incus'.living => v \in incus.living,
         incus'.acls[v] = incus.acls[v], incus'.filtered[v] = incus.filtered[v],
         v \in incus'.running /\ v \in incus.living \ torn' => incus'.inForce[v] = incus'.acls[v],
         v \notin torn' /\ (\E q \in Changing : VM(q) = v) =>
           (v \in incus'.running => v \in incus.running)
  PROVE  CardOk(v)'
  <1> SUFFICES ASSUME v \in incus'.living \ torn' PROVE CardOk(v)'
    BY DEF CardOk
  <1>1. v \in incus.living \ torn /\ CardOk(v)
    BY DEF Cards
  <1>2. Bound(v)' = Bound(v) /\ (Free(v)' <=> Free(v))
    BY DEF Recorded, Free
  <1>3. Changing' = Changing /\ \A q \in Threads : VM(q)' = VM(q)
    BY DEF Changing, VM
  <1>4. v \in incus'.running => incus'.inForce[v] = incus'.acls[v]
    BY <1>1
  <1>5. ASSUME NEW q \in Changing, VM(q) = v PROVE CardTrue(q, v)'
    <2>1. CardTrue(q, v)
      BY <1>1, <1>5 DEF CardOk
    <2>2. Mutated(q, Bound(v))' = Mutated(q, Bound(v))
      BY <1>2 DEF Mutated, Acl, Group
    <2>3. FreeBut(v, job[q].address)' <=> FreeBut(v, job[q].address)
      BY DEF FreeBut, Recorded
    <2>4. Op(q)' = Op(q) /\ Group(q)' = Group(q) /\ Acl(q)' = Acl(q)
      BY DEF Op, Group, Acl
    <2>5. v \in incus'.running => v \in incus.running
      BY <1>5
    <2> QED BY <1>2, <2>1, <2>2, <2>3, <2>4, <2>5 DEF CardTrue
  <1>6. (\A q \in Changing : VM(q) # v) => incus'.acls[v] = Bound(v)' /\ (incus'.filtered[v] <=> Free(v)')
    BY <1>1, <1>2 DEF CardOk
  <1> QED BY <1>3, <1>4, <1>5, <1>6 DEF CardOk, Changing

\* What is left of the cards when no request moves.
LEMMA StillCards ==
  ASSUME Cards, UNCHANGED <<job, todo, seen, shut>>, torn \subseteq torn', db'.row = db.row,
         \A v \in VMs : CardOk(v)', db'.addr = db.addr \/ \A q \in Threads : HeldTrue(q)'
  PROVE  Cards'
  <1>1. Changing' = Changing /\ \A q \in Threads : VM(q)' = VM(q)
    BY DEF Changing, VM
  <1>2. Clashing' = Clashing
    BY <1>1 DEF Clashing, Changing, VM
  <1>3. \A q \in Threads : HeldTrue(q)'
    BY <1>1 DEF Cards, HeldTrue
  <1>4. \A q \in Threads : NameTrue(q)'
    BY <1>1 DEF Cards, NameTrue, Doing, Op, Group
  <1> QED BY <1>2, <1>3, <1>4 DEF Cards

\* A user stops a VM, or starts it.
LEMMA PowerCards ==
  ASSUME Structure, Cards, NEW v \in VMs, Power(v)
  PROVE  Cards'
  <1>1. IncusOk(incus)
    BY Parts
  <1>2. UNCHANGED <<db, job, todo, seen, shut>> /\ torn \subseteq torn' /\ v \in incus.living
    BY DEF Power
  <1>3. /\ incus'.acls = incus.acls /\ incus'.filtered = incus.filtered /\ incus'.living = incus.living
        /\ \/ incus'.running = incus.running \ {v} /\ incus'.inForce = incus.inForce
           \/ /\ incus'.running = incus.running \cup {v} /\ incus'.inForce[v] = incus.acls[v]
              /\ \A u \in VMs : u # v => incus'.inForce[u] = incus.inForce[u]
              /\ (\E q \in Changing : VM(q) = v) => v \in torn'
    <2>1. CASE v \in incus.running
      <3>1. incus' = [incus EXCEPT !.running = @ \ {v}]
        BY <2>1 DEF Power
      <3> QED BY <1>1, <3>1 DEF IncusOk
    <2>2. CASE v \notin incus.running
      <3>1. incus' = Started(v)
        BY <2>2 DEF Power
      <3>2. (\E q \in Changing : VM(q) = v) => v \in torn'
        BY <2>2 DEF Power
      <3> QED BY <1>1, <3>1, <3>2 DEF IncusOk, Started
    <2> QED BY <2>1, <2>2
  <1>4. ASSUME NEW u \in VMs PROVE CardOk(u)'
    <2>1. Recorded(u)
      BY <1>2 DEF Recorded, Bound
    <2>2. u \in incus.running /\ u \in incus.living \ torn => incus.inForce[u] = incus.acls[u]
      BY DEF Cards, CardOk
    <2>3. u \in incus'.running /\ u \in incus.living \ torn' => incus'.inForce[u] = incus'.acls[u]
      BY <1>2, <1>3, <2>2
    <2>4. u \notin torn' /\ (\E q \in Changing : VM(q) = u) =>
            (u \in incus'.running => u \in incus.running)
      BY <1>3
    <2> QED BY <1>2, <1>3, <2>1, <2>3, <2>4, StillCard
  <1> QED BY <1>2, <1>4, StillCards

\* An instance is deleted.
LEMMA DeletedCards ==
  ASSUME Structure, Cards, NEW v \in VMs, DeleteVM(v)
  PROVE  Cards'
  <1>1. IncusOk(incus)
    BY Parts
  <1>2. UNCHANGED <<db, job, todo, seen, torn, shut>>
    BY DEF DeleteVM
  <1>3. incus' = [incus EXCEPT !.living = @ \ {v}, !.running = @ \ {v},
                              !.acls[v] = {}, !.inForce[v] = {}, !.filtered[v] = TRUE]
    BY DEF DeleteVM
  <1>4. /\ incus'.living = incus.living \ {v} /\ incus'.running = incus.running \ {v}
        /\ \A u \in VMs : u # v => /\ incus'.acls[u] = incus.acls[u] /\ incus'.inForce[u] = incus.inForce[u]
                                   /\ incus'.filtered[u] = incus.filtered[u]
    BY <1>1, <1>3 DEF IncusOk
  <1>5. ASSUME NEW u \in VMs PROVE CardOk(u)'
    <2>1. CASE u = v
      BY <1>4, <2>1 DEF CardOk
    <2>2. CASE u # v
      <3>1. Recorded(u)
        BY <1>2 DEF Recorded, Bound
      <3>2. u \in incus.running /\ u \in incus.living \ torn => incus.inForce[u] = incus.acls[u]
        BY DEF Cards, CardOk
      <3> QED BY <1>2, <1>4, <2>2, <3>1, <3>2, StillCard
    <2> QED BY <2>1, <2>2
  <1> QED BY <1>2, <1>5, StillCards

LEMMA OtherCards ==
  ASSUME Structure, Structure', Cards,
         \/ \E G \in SUBSET Groups : ReplaceDefaults(G)
         \/ \E f \in Addresses : Allocate(f)
         \/ \E v \in VMs : Power(v) \/ DeleteVM(v)
         \/ Crash \/ UNCHANGED vars
  PROVE  Cards'
  <1>1. TablesOk(db) /\ IncusOk(incus)
    BY Parts
  <1>2. ASSUME NEW v \in VMs, v \in incus.living \ torn, v \in incus.running
        PROVE  incus.inForce[v] = incus.acls[v]
    BY <1>2 DEF Cards, CardOk
  <1>3. ASSUME UNCHANGED <<job, todo, seen, torn, shut, incus>>, db'.row = db.row,
               \A v \in VMs : Recorded(v), db'.addr = db.addr \/ \A q \in Threads : HeldTrue(q)'
        PROVE  Cards'
    <2>1. ASSUME NEW v \in VMs PROVE CardOk(v)'
      BY <1>2, <1>3, StillCard
    <2> QED BY <1>3, <2>1, StillCards
  <1>4. ASSUME NEW G \in SUBSET Groups, ReplaceDefaults(G) PROVE Cards'
    <2>1. db'.row = db.row /\ db'.bound = db.bound /\ db'.addr = db.addr /\ shut' = shut
      BY <1>1, <1>4 DEF ReplaceDefaults, TablesOk
    <2>2. \A v \in VMs : Recorded(v)
      BY <2>1 DEF Recorded, Bound
    <2> QED BY <1>3, <1>4, <2>1, <2>2 DEF ReplaceDefaults
  <1>5. ASSUME NEW f \in Addresses, Allocate(f) PROVE Cards'
    <2>1. /\ db'.row = db.row /\ db'.bound = db.bound /\ db'.addr[f] = Available /\ db.addr[f] = None
          /\ \A a \in Addresses : a # f => db'.addr[a] = db.addr[a]
      BY <1>1, <1>5 DEF Allocate, TablesOk
    <2>2. None \notin VMs /\ Available \notin VMs
      BY VMNetworkAssumption
    <2>3. \A v \in VMs : Recorded(v)
      BY <1>5, <2>1, <2>2 DEF Recorded, Bound, Allocate
    <2>4. UNCHANGED <<job, todo, seen, torn, shut, incus>>
      BY <1>5 DEF Allocate
    <2>5. ASSUME NEW q \in Threads PROVE HeldTrue(q)'
      <3>1. HeldTrue(q) /\ job[q] \in JobType
        BY DEF Cards, Structure
      <3>2. Changing' = Changing /\ VM(q)' = VM(q) /\ job'[q].address = job[q].address
        BY <2>4 DEF Changing, VM
      <3>3. q \in Changing => VM(q) \in VMs
        BY WhoIsAtACard
      <3>4. CASE job[q].address = f
        BY <2>1, <2>2, <2>4, <3>1, <3>2, <3>3, <3>4 DEF HeldTrue
      <3>5. CASE job[q].address # f
        <4>1. job[q].address # None => job[q].address \in Addresses
          BY <3>1 DEF JobType
        <4> QED BY <2>1, <2>4, <3>1, <3>2, <3>5, <4>1 DEF HeldTrue
      <3> QED BY <3>4, <3>5
    <2> QED BY <1>3, <2>1, <2>3, <2>4, <2>5
  <1>6. ASSUME NEW v \in VMs, Power(v) PROVE Cards'
    BY <1>6, PowerCards
  <1>7. ASSUME NEW v \in VMs, DeleteVM(v) PROVE Cards'
    BY <1>7, DeletedCards
  <1>8. ASSUME Crash PROVE Cards'
    <2>1. /\ UNCHANGED <<db, incus, shut>> /\ torn' = torn \cup {VM(r) : r \in Changing}
          /\ \A q \in Threads : todo'[q] = <<>> \/ todo'[q] = <<"groups">>
      BY <1>8 DEF Crash
    <2>2. Head(<<"groups">>) = "groups"
      OBVIOUS
    <2>3. Changing' = {} /\ \A q \in Threads : ~Doing(q, "get")'
      BY <2>1, <2>2 DEF Changing, Doing
    <2>4. ASSUME NEW u \in VMs PROVE CardOk(u)'
      <3> SUFFICES ASSUME u \in incus'.living \ torn' PROVE CardOk(u)'
        BY DEF CardOk
      <3>1. u \in incus.living \ torn /\ \A q \in Changing : VM(q) # u
        BY <2>1
      <3>2. Bound(u)' = Bound(u) /\ Free(u)' = Free(u)
        BY <2>1 DEF Bound, Free
      <3> QED BY <2>1, <2>3, <3>1, <3>2 DEF Cards, CardOk
    <2>5. Clashing' = {}
      BY <2>3 DEF Clashing
    <2> QED BY <2>3, <2>4, <2>5 DEF Cards, HeldTrue, NameTrue
  <1>9. ASSUME UNCHANGED vars PROVE Cards'
    <2>1. \A v \in VMs : Recorded(v)
      BY <1>9 DEF Recorded, Bound, vars
    <2> QED BY <1>3, <1>9, <2>1 DEF vars
  <1> QED BY <1>4, <1>5, <1>6, <1>7, <1>8, <1>9

LEMMA CardsKept ==
  ASSUME Structure, Cards, [Next]_vars
  PROVE  Cards'
  <1>1. Structure'
    BY StructureKept
  <1>2. ASSUME NEW r \in Threads, Step(r) PROVE Cards'
    BY <1>1, <1>2, FarCalls, FarReads, DropCards, GetCards, StopCards, PatchCards, StartCards, BindCards,
       UnbindCards, TakeCards, HolderCards, LookCards, FilterCards, GiveCards, ReleaseCards DEF Step
  <1>3. \/ \E j \in Calls : Ask(j)
        \/ \E r \in Threads : Step(r)
        \/ \E G \in SUBSET Groups : ReplaceDefaults(G)
        \/ \E f \in Addresses : Allocate(f)
        \/ \E v \in VMs : Power(v) \/ DeleteVM(v)
        \/ Crash \/ UNCHANGED vars
    BY DEF Next
  <1> QED BY <1>1, <1>2, <1>3, AskCards, OtherCards

LEMMA CardsAtFirst ==
  ASSUME Init
  PROVE  Cards
  <1>1. /\ \A q \in Threads : todo[q] = <<>> \/ todo[q] = <<"groups">>
        /\ torn = {} /\ shut = {}
    BY DEF Init
  <1>2. Head(<<"groups">>) = "groups"
    OBVIOUS
  <1>3. Changing = {} /\ \A q \in Threads : ~Doing(q, "get")
    BY <1>1, <1>2 DEF Changing, Doing
  <1>4. PICK s \in Starts :
          /\ db.bound = s.bound /\ db.addr = s.addr
          /\ incus.acls = [v \in VMs |-> {Slug[b[2]] : b \in {c \in s.bound : c[1] = v}}]
          /\ incus.inForce = [v \in VMs |-> {Slug[b[2]] : b \in {c \in s.bound : c[1] = v}}]
          /\ incus.filtered = [v \in VMs |-> \A f \in Addresses : s.addr[f] # v]
    BY DEF Init
  <1>5. ASSUME NEW v \in VMs PROVE CardOk(v)
    <2>1. incus.acls[v] = Bound(v) /\ incus.inForce[v] = Bound(v)
      BY <1>4 DEF Bound
    <2>2. incus.filtered[v] <=> Free(v)
      BY <1>1, <1>4 DEF Free
    <2> QED BY <1>3, <2>1, <2>2 DEF CardOk
  <1>6. Clashing = {}
    BY <1>3 DEF Clashing
  <1> QED BY <1>3, <1>5, <1>6 DEF Cards, HeldTrue, NameTrue

-----------------------------------------------------------------------------
(* What the cards have *)

\* The tables, the ACLs and the cards are always as IInv says.
THEOREM NetworkSound == Spec => []IInv
  <1>1. Init => IInv
    BY StructureAtFirst, PushesAtFirst, CardsAtFirst DEF IInv
  <1>2. IInv /\ [Next]_vars => IInv'
    BY StructureKept, PushesKept, CardsKept DEF IInv
  <1> QED BY <1>1, <1>2, PTL DEF Spec

\* A card in order that nobody is at is as the database says.
LEMMA CardsAtRest ==
  ASSUME Cards, NEW v \in VMs \ torn, Still(v)
  PROVE  incus.acls[v] = Bound(v) /\ (incus.filtered[v] <=> Free(v))
  BY DEF Cards, CardOk, Still

\* The bindings in the database are the ACLs the card lists, whatever is served meanwhile, as long
\* as no call failed between the card and the row, no two requests were at the card at once, and
\* no group in use, or about to be taken off, was deleted (BindVM, UnbindVM, portalRunBatch,
\* applyDefaultFirewall, DeleteGroup).
THEOREM CardsListBindings == Spec => []BindingsMatch
  <1>1. IInv => BindingsMatch
    BY CardsAtRest DEF IInv, BindingsMatch, Bound
  <1> QED BY <1>1, NetworkSound, PTL

\* The filter of a card at rest is open exactly while an address is attached to the VM, but for a
\* card on which the detachment of one of two addresses has closed it, or a call has failed half
\* way, or two requests have met (attachVerified, detachVerified and the roll back of an attachment
\* that failed).
THEOREM FiltersFollowAddresses == Spec => []FilterMatch
  <1>1. IInv => FilterMatch
    BY CardsAtRest DEF IInv, FilterMatch, Free
  <1> QED BY <1>1, NetworkSound, PTL

\* A VM that runs is guarded by the ACLs its card lists: no card in order was changed while its VM
\* ran (updateVMACLs stops it, changes the card and starts it).
THEOREM ListedIsInForce == Spec => []InForce
  <1>1. IInv => InForce
    <2> SUFFICES ASSUME IInv, NEW v \in incus.running \ torn PROVE incus.inForce[v] = incus.acls[v]
      BY DEF InForce
    <2>1. v \in VMs /\ v \in incus.living
      BY DEF IInv, Structure, TypeOK
    <2> QED BY <2>1 DEF IInv, Cards, CardOk
  <1> QED BY <1>1, NetworkSound, PTL
=============================================================================
