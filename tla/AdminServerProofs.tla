------------------------- MODULE AdminServerProofs -------------------------
(***************************************************************************)
(* What AdminServer.tla promises for every number of threads, users,       *)
(* tokens, clusters, pools and failures: the types; a token and its        *)
(* renewals are valid one at a time; an address is handed out once; nobody *)
(* is given more than the cap within a day; and a cluster that was added   *)
(* is there until it is removed.                                           *)
(***************************************************************************)
EXTENDS AdminServer, TLAPS, WellFoundedInduction, FiniteSetTheorems

-----------------------------------------------------------------------------
(* Threads: what a step does to those that are not its own                 *)

Fields == {"at", "ask", "read", "todo", "n", "alone"}

\* A thread is a record, and one that is at work has a request.
ThreadInv ==
  /\ asks \subseteq Request
  /\ DOMAIN th = Threads
  /\ \A t \in Threads : DOMAIN th[t] = Fields /\ (th[t].at # "idle" => th[t].ask \in Request)

\* A thread that is at p after a step was there before, with the same data.
Stays(t, p) ==
  th'[t].at = p => th[t].at = p /\ th'[t].todo = th[t].todo /\ th'[t].n = th[t].n

\* Nobody but LockToken comes to "renew" and nobody but Take to "assign".
Arrivals ==
  \A t \in Threads : (Stays(t, "renew") \/ LockToken(t)) /\ (Stays(t, "assign") \/ Take(t))

\* No thread is at work when the process starts.
LEMMA ThreadInvInit == Init => ThreadInv
  BY ServerAssumption DEF Init, ThreadInv, Idle, Fields

\* The start of a request makes no thread arrive.
LEMMA Begins ==
  ASSUME ThreadInv, NEW t \in Threads, NEW q \in asks, NEW p, NEW r, Begin(t, q, p, r),
         p \notin {"renew", "assign"}
  PROVE  ThreadInv' /\ Arrivals
  <1>1. q \in Request
    BY DEF ThreadInv
  <1>2. \A s \in Threads : DOMAIN th[s] = Fields
    BY DEF ThreadInv
  <1>3. \A s \in Threads \ {t} :
          /\ th'[s].at = th[s].at /\ th'[s].todo = th[s].todo /\ th'[s].n = th[s].n
          /\ th'[s].ask = th[s].ask /\ DOMAIN th'[s] = Fields
    BY <1>2 DEF Begin, Crowd, Fields
  <1>4. th'[t].at = p /\ th'[t].ask = q /\ DOMAIN th'[t] = Fields
    BY DEF Begin, Crowd, Idle, Fields
  <1>5. DOMAIN th' = Threads
    BY DEF Begin, Crowd
  <1>6. asks' = asks
    BY DEF Begin
  <1>7. ThreadInv'
    BY <1>1, <1>3, <1>4, <1>5, <1>6 DEF ThreadInv
  <1>8. Arrivals
    BY <1>3, <1>4 DEF Arrivals, Stays
  <1> QED BY <1>7, <1>8

\* A step of one thread that is neither LockToken nor Take makes none arrive.
LEMMA OwnStep ==
  ASSUME ThreadInv, NEW t \in Threads, NEW r, With(t, r), asks' = asks, DOMAIN r = Fields,
         r.at # "idle" => r.ask \in Request, r.at \notin {"renew", "assign"}
  PROVE  ThreadInv' /\ Arrivals
  BY DEF ThreadInv, With, Arrivals, Stays

\* A thread that ends its request is idle.
LEMMA Ending ==
  ASSUME ThreadInv, NEW t \in Threads, Ends(t), asks' = asks
  PROVE  ThreadInv' /\ Arrivals
  <1>1. With(t, Idle) /\ DOMAIN Idle = Fields /\ Idle.at = "idle"
    BY DEF Ends, With, Idle, Fields
  <1> QED BY <1>1, OwnStep

\* A thread that goes to its next call keeps its request.
LEMMA Going ==
  ASSUME ThreadInv, NEW t \in Threads, NEW p, th[t].at # "idle", Goes(t, p), asks' = asks,
         p \notin {"renew", "assign"}
  PROVE  ThreadInv' /\ Arrivals
  <1>1. With(t, [th[t] EXCEPT !.at = p])
    BY DEF Goes, With, ThreadInv
  <1>2. DOMAIN [th[t] EXCEPT !.at = p] = Fields /\ [th[t] EXCEPT !.at = p].at = p
        /\ [th[t] EXCEPT !.at = p].ask = th[t].ask
    BY DEF ThreadInv, Fields
  <1>3. th[t].ask \in Request
    BY DEF ThreadInv
  <1> QED BY <1>1, <1>2, <1>3, OwnStep

\* r is what thread t becomes when it goes on to p with other data.
Works(t, r, p) == DOMAIN r = Fields /\ r.at = p /\ r.ask = th[t].ask

\* The same where the step leaves data for the next call.
LEMMA Working ==
  ASSUME ThreadInv, NEW t \in Threads, NEW r, NEW p, th[t].at # "idle", Works(t, r, p),
         With(t, r), asks' = asks
  PROVE  /\ ThreadInv'
         /\ p \notin {"renew", "assign"} => Arrivals
         /\ \A s \in Threads \ {t} : th'[s] = th[s]
         /\ th'[t] = r
  <1>1. th[t].ask \in Request
    BY DEF ThreadInv
  <1> QED BY <1>1 DEF ThreadInv, Works, With, Arrivals, Stays

\* The next user of a batch, or the end.
LEMMA GoingOn ==
  ASSUME ThreadInv, NEW t \in Threads, NEW p, th[t].at # "idle", NextUser(t, p), asks' = asks,
         p \notin {"renew", "assign"}
  PROVE  ThreadInv' /\ Arrivals
  <1> DEFINE r == [th[t] EXCEPT !.at = p, !.todo = Tail(@), !.n = 0]
  <1>1. CASE Ends(t)
    BY <1>1, Ending
  <1>2. CASE With(t, r)
    <2>1. DOMAIN r = Fields /\ r.at = p /\ r.ask = th[t].ask
      BY DEF ThreadInv, Fields
    <2>2. th[t].ask \in Request
      BY DEF ThreadInv
    <2> QED BY <1>2, <2>1, <2>2, OwnStep
  <1> QED BY <1>1, <1>2 DEF NextUser

\* A step of the environment changes no thread.
LEMMA NoThread ==
  ASSUME ThreadInv, th' = th, asks' = asks
  PROVE  ThreadInv' /\ Arrivals
  BY DEF ThreadInv, Arrivals, Stays

\* Every step of a thread.
LEMMA ThreadStep ==
  ASSUME ThreadInv, NEW t \in Threads,
         Authenticate(t) \/ AccountStep(t) \/ ClusterStep(t)
  PROVE  ThreadInv' /\ Arrivals
  <1>RoleOf. CASE RoleOf(t)
    <2> DEFINE r == [th[t] EXCEPT !.at = "gate", !.read = role[Ask(t).by]]
    <2>1. Works(t, r, "gate")
      BY DEF Works, ThreadInv, Fields
    <2> QED BY <1>RoleOf, <2>1, Working DEF RoleOf, At, Other
  <1>InsertTheUser. CASE InsertTheUser(t)
    <2> DEFINE r == [th[t] EXCEPT !.at = "insertQuota",
                       !.read = IF Ask(t).by \in AdminEmails THEN "admin" ELSE "customer"]
    <2>1. Works(t, r, "insertQuota")
      BY DEF Works, ThreadInv, Fields
    <2> QED BY <1>InsertTheUser, <2>1, Ending, Working DEF InsertTheUser, At, Other
  <1>InsertTheQuota. CASE InsertTheQuota(t)
    BY <1>InsertTheQuota, Ending, Going DEF InsertTheQuota, At, Other
  <1>Fails. CASE Fails(t)
    BY <1>Fails, Ending DEF Fails, At, Other
  <1>LockUser. CASE LockUser(t)
    BY <1>LockUser, GoingOn, Going DEF LockUser, At, Other
  <1>SumDeposits. CASE SumDeposits(t)
    BY <1>SumDeposits, GoingOn, Going DEF SumDeposits, At, Other
  <1>DepositAndCommit. CASE DepositAndCommit(t)
    BY <1>DepositAndCommit, GoingOn, Going DEF DepositAndCommit, At, Other
  <1>DepositFails. CASE DepositFails(t)
    BY <1>DepositFails, GoingOn, Going DEF DepositFails, At, Other
  <1>SetRole. CASE SetRole(t)
    BY <1>SetRole, GoingOn, Going DEF SetRole, At, Other
  <1>MintToken. CASE MintToken(t)
    BY <1>MintToken, Ending DEF MintToken, At, Other
  <1>RenewToken. CASE RenewToken(t)
    BY <1>RenewToken, Ending DEF RenewToken, At, Other
  <1>DeleteToken. CASE DeleteToken(t)
    BY <1>DeleteToken, Ending DEF DeleteToken, At, Other
  <1>NoToken. CASE NoToken(t)
    BY <1>NoToken, Ending DEF NoToken, At, Other
  <1>StartStepUp. CASE StartStepUp(t)
    BY <1>StartStepUp, Ending DEF StartStepUp, At, Other
  <1>Exchange. CASE Exchange(t)
    <2> DEFINE r == [th[t] EXCEPT !.at = "stamp", !.read = login[Ask(t).by]]
    <2>1. Works(t, r, "stamp")
      BY DEF Works, ThreadInv, Fields
    <2> QED BY <1>Exchange, <2>1, Ending, Working DEF Exchange, At, Other
  <1>Stamp. CASE Stamp(t)
    BY <1>Stamp, Ending DEF Stamp, At, Other
  <1>Dial. CASE Dial(t)
    BY <1>Dial, Ending, Going DEF Dial, At, Other
  <1>Persist. CASE Persist(t)
    <2> DEFINE r == [th[t] EXCEPT !.at = "setId", !.n = Written(Cluster(t), <<>>)[Cluster(t)].id]
    <2>1. Works(t, r, "setId")
      BY DEF Works, ThreadInv, Fields
    <2> QED BY <1>Persist, <2>1, Going, Working DEF Persist, At, Other
  <1>Undo. CASE Undo(t)
    BY <1>Undo, Ending DEF Undo, At, Other
  <1>NoteId. CASE NoteId(t)
    BY <1>NoteId, Ending DEF NoteId, At, Other
  <1>Drop. CASE Drop(t)
    BY <1>Drop, Ending, Going DEF Drop, At, Other
  <1>DeleteRow. CASE DeleteRow(t)
    BY <1>DeleteRow, Ending DEF DeleteRow, At, Other
  <1>ReadConfig. CASE ReadConfig(t)
    <2> DEFINE r == [th[t] EXCEPT !.at = "writeConfig",
                       !.todo = IF Ask(t).op = "addPool"
                                THEN Append(Config(Cluster(t)).pools, Ask(t).pool)
                                ELSE Without(Config(Cluster(t)).pools, Ask(t).pool)]
    <2>1. Works(t, r, "writeConfig")
      BY DEF Works, ThreadInv, Fields
    <2> QED BY <1>ReadConfig, <2>1, Ending, Working DEF ReadConfig, At, Other
  <1>WriteConfig. CASE WriteConfig(t)
    BY <1>WriteConfig, Ending DEF WriteConfig, At, Other
  <1>ReadPools. CASE ReadPools(t)
    <2> DEFINE r == [th[t] EXCEPT !.at = "pool", !.todo = Config(Cluster(t)).pools]
    <2>1. Works(t, r, "pool")
      BY DEF Works, ThreadInv, Fields
    <2> QED BY <1>ReadPools, <2>1, Ending, Working DEF ReadPools, At, Other
  <1>FindPool. CASE FindPool(t)
    BY <1>FindPool, Ending, Going DEF FindPool, At, Other
  <1>Ensure. CASE Ensure(t)
    <2> DEFINE r == [th[t] EXCEPT !.at = "seed", !.n = 1]
    <2>1. Works(t, r, "seed")
      BY DEF Works, ThreadInv, Fields
    <2> QED BY <1>Ensure, <2>1, Ending, Working DEF Ensure, At, Other
  <1>AssignAndCommit. CASE AssignAndCommit(t)
    BY <1>AssignAndCommit, Ending DEF AssignAndCommit, At, Other
  <1>Gate. CASE Gate(t)
    <2> DEFINE p == FirstPoint(Ask(t).op)
               r == [th[t] EXCEPT !.at = p, !.todo = Ask(t).users]
    <2>1. Works(t, r, p)
      BY DEF Works, ThreadInv, Fields
    <2>2. CASE Passes(t) /\ Ask(t).op \notin {"visit", "callback"}
      <3>1. Ask(t).op \in Ops \ {"visit", "callback"}
        BY <1>Gate, <2>2 DEF Gate, At, ThreadInv, Request, Ask
      <3>2. p \notin {"renew", "assign"}
        BY <3>1 DEF FirstPoint, Ops
      <3> QED BY <1>Gate, <2>1, <2>2, <3>2, Working DEF Gate, At, Other
    <2> QED BY <1>Gate, <2>2, Ending DEF Gate, At, Other
  <1>Seed. CASE Seed(t)
    <2> DEFINE end == th[t].n = Len(InPool[Pool(t)])
               r == [th[t] EXCEPT !.at = IF end THEN "take" ELSE @, !.n = IF end THEN 0 ELSE @ + 1]
               d == [th[t] EXCEPT !.at = "take", !.n = 0]
    <2>1. Works(t, r, IF end THEN "take" ELSE "seed") /\ Works(t, d, "take")
      BY <1>Seed DEF Works, ThreadInv, Fields, Seed, At
    <2> QED BY <1>Seed, <2>1, Working DEF Seed, At, Other
  <1>LockToken. CASE LockToken(t)
    <2>1. ASSUME NEW i PROVE Works(t, [th[t] EXCEPT !.at = "renew", !.n = i], "renew")
      BY DEF Works, ThreadInv, Fields
    <2>2. CASE Ends(t)
      BY <1>LockToken, <2>2, Ending DEF LockToken, Other
    <2>3. ASSUME NEW i, With(t, [th[t] EXCEPT !.at = "renew", !.n = i]) PROVE ThreadInv' /\ Arrivals
      <3>1. /\ ThreadInv' /\ th'[t].at = "renew"
            /\ \A s \in Threads \ {t} : th'[s] = th[s]
        BY <1>LockToken, <2>1, <2>3, Working DEF LockToken, At, Other, Works
      <3> QED BY <1>LockToken, <3>1 DEF Arrivals, Stays
    <2> QED BY <1>LockToken, <2>2, <2>3 DEF LockToken
  <1>Take. CASE Take(t)
    <2>0. th[t].at # "idle" /\ asks' = asks
      BY <1>Take DEF Take, At, Other
    <2>1. ASSUME NEW i PROVE Works(t, [th[t] EXCEPT !.at = "assign", !.n = i], "assign")
      BY DEF Works, ThreadInv, Fields
    <2>2. Works(t, [th[t] EXCEPT !.at = "pool", !.todo = Tail(@)], "pool")
      BY DEF Works, ThreadInv, Fields
    <2>3. CASE Ends(t)
      BY <1>Take, <2>3, Ending DEF Take, Other
    <2>4. ASSUME NEW i, With(t, [th[t] EXCEPT !.at = "assign", !.n = i])
          PROVE  ThreadInv' /\ Arrivals
      <3>1. /\ ThreadInv' /\ th'[t].at = "assign"
            /\ \A s \in Threads \ {t} : th'[s] = th[s]
        BY <2>1, <2>4, <2>0, Working DEF Works
      <3> QED BY <1>Take, <3>1 DEF Arrivals, Stays
    <2>5. CASE With(t, [th[t] EXCEPT !.at = "pool", !.todo = Tail(@)])
      BY <2>2, <2>5, <2>0, Working
    <2> QED BY <1>Take, <2>3, <2>4, <2>5 DEF Take
  <1>SignIn. ASSUME NEW q \in asks, SignIn(t, q) PROVE ThreadInv' /\ Arrivals
    BY <1>SignIn, Begins DEF SignIn
  <1>CallBack. ASSUME NEW q \in asks, CallBack(t, q) PROVE ThreadInv' /\ Arrivals
    BY <1>CallBack, Begins DEF CallBack
  <1>UseToken. ASSUME NEW q \in asks, NEW i, UseToken(t, q, i) PROVE ThreadInv' /\ Arrivals
    BY <1>UseToken, Begins DEF UseToken
  <1>1. CASE Authenticate(t)
    BY <1>1, <1>SignIn, <1>CallBack, <1>UseToken, <1>RoleOf, <1>InsertTheUser,
       <1>InsertTheQuota, <1>Fails, <1>Gate
    DEF Authenticate
  <1>2. CASE AccountStep(t)
    BY <1>2, <1>LockUser, <1>SumDeposits, <1>DepositAndCommit, <1>DepositFails, <1>SetRole,
       <1>MintToken, <1>RenewToken, <1>DeleteToken, <1>NoToken, <1>StartStepUp,
       <1>Exchange, <1>Stamp, <1>LockToken
    DEF AccountStep
  <1>3. CASE ClusterStep(t)
    BY <1>3, <1>Dial, <1>Persist, <1>Undo, <1>NoteId, <1>Drop, <1>DeleteRow, <1>ReadConfig,
       <1>WriteConfig, <1>ReadPools, <1>FindPool, <1>Ensure, <1>AssignAndCommit,
       <1>Seed, <1>Take
    DEF ClusterStep
  <1> QED BY <1>1, <1>2, <1>3

\* The threads keep their form, and arrive where they should.
LEMMA ThreadInvStep == ThreadInv /\ [Next]_vars => ThreadInv' /\ Arrivals
  <1> SUFFICES ASSUME ThreadInv, [Next]_vars PROVE ThreadInv' /\ Arrivals
    OBVIOUS
  <1>1. CASE \E t \in Threads : Authenticate(t) \/ AccountStep(t) \/ ClusterStep(t)
    BY <1>1, ThreadStep
  <1>2. CASE \E u \in Users : Reauthenticate(u) \/ StepUpAges(u)
    BY <1>2, NoThread DEF Reauthenticate, StepUpAges
  <1>3. CASE Ages
    BY <1>3, NoThread DEF Ages
  <1>4. CASE Cleanup \/ UNCHANGED vars
    BY <1>4, NoThread DEF Cleanup, vars, server
  <1>5. CASE Restart
    <2>1. asks' = asks /\ th' = [t \in Threads |-> Idle]
      BY <1>5 DEF Restart
    <2> QED BY <2>1 DEF ThreadInv, Arrivals, Stays, Idle, Fields
  <1> QED BY <1>1, <1>2, <1>3, <1>4, <1>5 DEF Next

-----------------------------------------------------------------------------
(* Addresses                                                               *)

\* The address that a thread at "assign" has locked.
Held(t) == InPool[Pool(t)][th[t].n]

\* What was handed out is assigned; what is locked is available, by one thread.
AddressInv ==
  /\ address \in [Addresses -> {"absent", "available", "assigned"}]
  /\ given \in [Addresses -> Nat]
  /\ \A a \in Addresses : given[a] = 0 \/ (given[a] = 1 /\ address[a] = "assigned")
  /\ \A t \in Threads : At(t, "assign") /\ Held(t) \in Addresses => address[Held(t)] = "available"
  /\ \A t, s \in Threads : t # s /\ At(t, "assign") /\ At(s, "assign") => Held(t) # Held(s)

\* No address is in the database at first.
LEMMA AddressInvInit == Init => AddressInv
  BY DEF Init, RegistryInit, AddressInv, At, Idle

\* Nobody else writes ip_addresses.
LEMMA AddressFrame ==
  ASSUME [Next]_vars
  PROVE  UNCHANGED <<address, given>> \/ \E t \in Threads : Seed(t) \/ AssignAndCommit(t)
  <1>1. ASSUME NEW t \in Threads, Authenticate(t) PROVE UNCHANGED <<address, given>>
    BY <1>1
    DEF Authenticate, SignIn, CallBack, UseToken, Begin, RoleOf, InsertTheUser, InsertTheQuota,
        Gate, Fails, Other, registry
  <1>2. ASSUME NEW t \in Threads, AccountStep(t) PROVE UNCHANGED <<address, given>>
    BY <1>2
    DEF AccountStep, LockUser, SumDeposits, DepositAndCommit, DepositFails, SetRole, MintToken,
        LockToken, RenewToken, DeleteToken, NoToken, StartStepUp, Exchange, Stamp, Other, registry
  <1>3. ASSUME NEW t \in Threads, ClusterStep(t), ~ Seed(t), ~ AssignAndCommit(t)
        PROVE  UNCHANGED <<address, given>>
    <2>1. CASE Dial(t) \/ Persist(t) \/ Undo(t) \/ NoteId(t) \/ Drop(t) \/ DeleteRow(t)
      BY <2>1
      DEF Dial, Persist, Undo, NoteId, Drop, DeleteRow, AddToManager, CreateFull,
          RemoveFromManager, SetID, DeleteByName, Other, registry
    <2>2. CASE ReadConfig(t) \/ WriteConfig(t) \/ ReadPools(t) \/ FindPool(t) \/ Ensure(t)
               \/ Take(t)
      BY <2>2
      DEF ReadConfig, WriteConfig, UpdateConfig, ReadPools, FindPool, Ensure, EnsurePool, Take,
          Other, registry
    <2> QED BY <1>3, <2>1, <2>2 DEF ClusterStep
  <1>4. ASSUME NEW u \in Users, Reauthenticate(u) \/ StepUpAges(u)
        PROVE  UNCHANGED <<address, given>>
    BY <1>4 DEF Reauthenticate, StepUpAges, registry
  <1>5. CASE Ages \/ Cleanup \/ UNCHANGED vars
    BY <1>5 DEF Ages, Cleanup, vars, registry, server
  <1>6. CASE Restart
    BY <1>6 DEF Restart, Start
  <1> QED BY <1>1, <1>2, <1>3, <1>4, <1>5, <1>6 DEF Next

\* Threads come to "assign" with an available address that nobody else has locked.
LEMMA AddressInvKept ==
  ASSUME ThreadInv, AddressInv, Arrivals, given' = given,
         address' \in [Addresses -> {"absent", "available", "assigned"}],
         \A a \in Addresses : address[a] # "absent" => address'[a] = address[a]
  PROVE  AddressInv'
  <1>1. \A a \in Addresses : given'[a] = 0 \/ (given'[a] = 1 /\ address'[a] = "assigned")
    BY DEF AddressInv
  <1>2. ASSUME NEW t \in Threads, Take(t), At(t, "assign")'
        PROVE  /\ address[Held(t)'] = "available"
               /\ \A s \in Threads \ {t} : At(s, "assign") => Held(s) # Held(t)'
               /\ \A s \in Threads \ {t} : th'[s] = th[s]
    <2>1. DOMAIN th = Threads /\ DOMAIN th[t] = Fields /\ At(t, "take") /\ th'[t].at = "assign"
      BY <1>2 DEF Take, ThreadInv, At
    <2>2. ~ Ends(t)
      BY <2>1 DEF Ends, Idle
    <2>3. ~ With(t, [th[t] EXCEPT !.at = "pool", !.todo = Tail(@)])
      BY <2>1 DEF With, Fields
    <2>4. PICK i \in Free(t) : With(t, [th[t] EXCEPT !.at = "assign", !.n = i])
      BY <1>2, <2>2, <2>3 DEF Take
    <2>5. th'[t].todo = th[t].todo /\ th'[t].n = i /\ \A s \in Threads \ {t} : th'[s] = th[s]
      BY <2>1, <2>4 DEF With, Fields
    <2>6. Held(t)' = InPool[Pool(t)][i]
      BY <2>5 DEF Held, Pool
    <2>7. address[Held(t)'] = "available" /\ AddressFree(t, Held(t)')
      BY <2>6 DEF Free
    <2>8. \A s \in Threads \ {t} : At(s, "assign") => Held(s) # Held(t)'
      BY <2>7 DEF AddressFree, Held, Pool
    <2> QED BY <2>7, <2>8, <2>5
  <1>3. \A t \in Threads : At(t, "assign")' /\ Stays(t, "assign") =>
          At(t, "assign") /\ Held(t)' = Held(t)
    BY DEF At, Stays, Held, Pool
  <1>4. ASSUME NEW t \in Threads, At(t, "assign")', Held(t)' \in Addresses
        PROVE  address'[Held(t)'] = "available"
    BY <1>2, <1>3, <1>4 DEF AddressInv, Arrivals
  <1>5. ASSUME NEW t \in Threads, NEW s \in Threads, t # s, At(t, "assign")', At(s, "assign")'
        PROVE  Held(t)' # Held(s)'
    <2>1. CASE Stays(t, "assign") /\ Stays(s, "assign")
      BY <1>3, <1>5, <2>1 DEF AddressInv
    <2>2. CASE Take(t)
      <3>1. th'[s] = th[s]
        BY <1>2, <1>5, <2>2
      <3>2. At(s, "assign") /\ Held(s)' = Held(s)
        BY <1>5, <3>1 DEF At, Held, Pool
      <3> QED BY <1>2, <1>5, <2>2, <3>2
    <2>3. CASE Take(s)
      <3>1. th'[t] = th[t]
        BY <1>2, <1>5, <2>3
      <3>2. At(t, "assign") /\ Held(t)' = Held(t)
        BY <1>5, <3>1 DEF At, Held, Pool
      <3> QED BY <1>2, <1>5, <2>3, <3>2
    <2> QED BY <2>1, <2>2, <2>3 DEF Arrivals
  <1> QED BY <1>1, <1>4, <1>5 DEF AddressInv

\* SeedPool leaves what is there alone, and an assignment ends the lock on the address.
LEMMA AddressInvStep == ThreadInv /\ AddressInv /\ [Next]_vars => AddressInv'
  <1> SUFFICES ASSUME ThreadInv, AddressInv, [Next]_vars PROVE AddressInv'
    OBVIOUS
  <1>1. Arrivals
    BY ThreadInvStep
  <1>2. CASE UNCHANGED <<address, given>>
    BY <1>1, <1>2, AddressInvKept DEF AddressInv
  <1>3. ASSUME NEW t \in Threads, Seed(t) PROVE AddressInv'
    <2>1. given' = given
      BY <1>3 DEF Seed, Other
    <2>2. address' = address \/ \E a : SeedOne(a)
      BY <1>3 DEF Seed, registry
    <2>3. /\ address' \in [Addresses -> {"absent", "available", "assigned"}]
          /\ \A a \in Addresses : address[a] # "absent" => address'[a] = address[a]
      BY <2>2 DEF SeedOne, AddressInv
    <2> QED BY <1>1, <2>1, <2>3, AddressInvKept
  <1>4. ASSUME NEW t \in Threads, AssignAndCommit(t) PROVE AddressInv'
    <2> DEFINE a == Held(t)
    <2>1. /\ At(t, "assign") /\ th' = [th EXCEPT ![t] = Idle]
          /\ address' = [address EXCEPT ![a] = "assigned"]
          /\ given' = [given EXCEPT ![a] = @ + 1]
      BY <1>4 DEF AssignAndCommit, Ends, Assign, Held, Pool
    <2>2. \A s \in Threads : At(s, "assign")' => s # t /\ At(s, "assign") /\ Held(s)' = Held(s)
      BY <2>1 DEF At, Held, Pool, Idle, ThreadInv
    <2>3. a \in Addresses => given[a] = 0
      BY <2>1 DEF AddressInv
    <2>4. /\ address' \in [Addresses -> {"absent", "available", "assigned"}]
          /\ given' \in [Addresses -> Nat]
      <3>1. address \in [Addresses -> {"absent", "available", "assigned"}]
        BY DEF AddressInv
      <3>2. given \in [Addresses -> Nat]
        BY DEF AddressInv
      <3> HIDE DEF a
      <3>3. address' \in [Addresses -> {"absent", "available", "assigned"}]
        BY <2>1, <3>1
      <3>4. CASE a \in Addresses
        BY <2>1, <3>2, <3>3, <3>4
      <3>5. CASE a \notin Addresses
        <4>1. given' = given
          BY <2>1, <3>2, <3>5
        <4> QED BY <3>2, <3>3, <4>1
      <3> QED BY <3>4, <3>5
    <2>5. \A b \in Addresses : given'[b] = 0 \/ (given'[b] = 1 /\ address'[b] = "assigned")
      BY <2>1, <2>3 DEF AddressInv
    <2>6. \A s \in Threads : At(s, "assign")' /\ Held(s)' \in Addresses =>
                             address'[Held(s)'] = "available"
      BY <2>1, <2>2 DEF AddressInv
    <2>7. \A s, r \in Threads : s # r /\ At(s, "assign")' /\ At(r, "assign")' =>
                                Held(s)' # Held(r)'
      BY <2>2 DEF AddressInv
    <2> QED BY <2>4, <2>5, <2>6, <2>7 DEF AddressInv
  <1> QED BY <1>2, <1>3, <1>4, AddressFrame

\* Whoever asks for addresses while the pool is created and seeded, by however many
\* requests at once and however often it fails: allocateFromPool hands none out twice.
THEOREM AddressesGivenOnce == Spec => []NeverGivenTwice
  <1>1. ThreadInv /\ AddressInv => NeverGivenTwice
    BY DEF AddressInv, NeverGivenTwice
  <1> QED
    BY <1>1, ThreadInvInit, AddressInvInit, ThreadInvStep, AddressInvStep, PTL DEF Spec

-----------------------------------------------------------------------------
(* Tokens                                                                  *)

TokenRow == [owner : Users, chain : Nat, state : {"live", "expired", "old", "deleted"}]

\* A token that a thread renews is the only one of its chain that may be valid, and
\* no other thread renews one of the chain.
TokenInv ==
  /\ tokens \in Seq(TokenRow)
  /\ \A i \in 1..Len(tokens) : tokens[i].chain <= Len(tokens)
  /\ \A i, j \in 1..Len(tokens) :
       tokens[i].chain = tokens[j].chain /\ Live(i) /\ Live(j) => i = j
  /\ \A t \in Threads : At(t, "renew") =>
       /\ th[t].n \in 1..Len(tokens)
       /\ \A i \in 1..Len(tokens) :
            tokens[i].chain = tokens[th[t].n].chain /\ Live(i) => i = th[t].n
  /\ \A t, s \in Threads : t # s /\ At(t, "renew") /\ At(s, "renew") =>
       tokens[th[t].n].chain # tokens[th[s].n].chain

\* The tokens of the start are of different chains.
LEMMA TokenInvInit == Init => TokenInv
  <1> SUFFICES ASSUME Init PROVE TokenInv
    OBVIOUS
  <1>1. PICK s \in Setups : tokens = [i \in DOMAIN s.tokens |-> NewToken(s.tokens[i], i)]
    BY DEF Init
  <1>2. s.tokens \in Seq(Users)
    BY ServerAssumption
  <1>3. /\ Len(s.tokens) \in Nat /\ DOMAIN s.tokens = 1..Len(s.tokens)
        /\ \A i \in 1..Len(s.tokens) : s.tokens[i] \in Users
    BY <1>2
  <1>4. \A i \in 1..Len(s.tokens) : NewToken(s.tokens[i], i) \in TokenRow
    BY <1>3 DEF NewToken, TokenRow
  <1>5. /\ tokens \in Seq(TokenRow) /\ Len(tokens) = Len(s.tokens)
        /\ \A i \in 1..Len(tokens) : tokens[i].chain = i
    <2>1. tokens \in [1..Len(s.tokens) -> TokenRow]
      BY <1>1, <1>3, <1>4
    <2>2. tokens \in Seq(TokenRow) /\ Len(tokens) = Len(s.tokens)
      BY <1>3, <2>1
    <2>3. \A i \in 1..Len(s.tokens) : tokens[i].chain = i
      BY <1>1, <1>3 DEF NewToken
    <2> QED BY <2>2, <2>3
  <1>6. \A t \in Threads : ~ At(t, "renew")
    BY DEF Init, At, Idle
  <1> QED BY <1>3, <1>5, <1>6 DEF TokenInv

\* Nobody else writes api_tokens.
LEMMA TokenFrame ==
  ASSUME [Next]_vars
  PROVE  \/ UNCHANGED tokens
         \/ \E t \in Threads : MintToken(t) \/ RenewToken(t) \/ DeleteToken(t)
         \/ Ages \/ Cleanup
  <1>1. ASSUME NEW t \in Threads, Authenticate(t) PROVE UNCHANGED tokens
    BY <1>1
    DEF Authenticate, SignIn, CallBack, UseToken, Begin, RoleOf, InsertTheUser, InsertUser,
        InsertTheQuota, InsertQuota, Gate, Fails, Other, accounts
  <1>2. ASSUME NEW t \in Threads, AccountStep(t),
               ~ (MintToken(t) \/ RenewToken(t) \/ DeleteToken(t))
        PROVE  UNCHANGED tokens
    BY <1>2
    DEF AccountStep, LockUser, SumDeposits, DepositAndCommit, Deposit, DepositFails, SetRole,
        UpdateRole, LockToken, NoToken, StartStepUp, Exchange, Stamp, SetStepUpAuthAt, accounts
  <1>3. ASSUME NEW t \in Threads, ClusterStep(t) PROVE UNCHANGED tokens
    <2>1. CASE Dial(t) \/ Persist(t) \/ Undo(t) \/ NoteId(t) \/ Drop(t) \/ DeleteRow(t)
      BY <2>1 DEF Dial, Persist, Undo, NoteId, Drop, DeleteRow, accounts
    <2>2. CASE ~ (Dial(t) \/ Persist(t) \/ Undo(t) \/ NoteId(t) \/ Drop(t) \/ DeleteRow(t))
      BY <1>3, <2>2
      DEF ClusterStep, ReadConfig, WriteConfig, ReadPools, FindPool, Ensure, Seed, Take,
          AssignAndCommit, accounts
    <2> QED BY <2>1, <2>2
  <1>4. ASSUME NEW u \in Users, Reauthenticate(u) \/ StepUpAges(u) PROVE UNCHANGED tokens
    BY <1>4 DEF Reauthenticate, StepUpAges, accounts
  <1>5. CASE Restart \/ UNCHANGED vars
    BY <1>5 DEF Restart, vars, accounts
  <1> QED BY <1>1, <1>2, <1>3, <1>4, <1>5 DEF Next

\* LockToken takes a valid token that no other thread renews.
LEMMA Arrival ==
  ASSUME ThreadInv, NEW t \in Threads, LockToken(t), At(t, "renew")'
  PROVE  /\ th'[t].n \in DOMAIN tokens /\ Live(th'[t].n) /\ TokenFree(t, th'[t].n)
         /\ \A s \in Threads \ {t} : th'[s] = th[s]
  <1>1. DOMAIN th = Threads /\ DOMAIN th[t] = Fields
    BY DEF ThreadInv
  <1>2. ~ Ends(t)
    BY <1>1 DEF Ends, Idle, At
  <1>3. PICK i \in OwnTokens(t) :
          TokenFree(t, i) /\ Live(i) /\ With(t, [th[t] EXCEPT !.at = "renew", !.n = i])
    BY <1>2 DEF LockToken
  <1>4. th'[t].n = i /\ \A s \in Threads \ {t} : th'[s] = th[s]
    BY <1>1, <1>3 DEF With, Fields
  <1> QED BY <1>3, <1>4 DEF OwnTokens

\* Rows that end, or go, and threads that arrive keep the invariant.
LEMMA TokenInvKept ==
  ASSUME ThreadInv, TokenInv, Arrivals, tokens' \in Seq(TokenRow), Len(tokens') = Len(tokens),
         \A i \in 1..Len(tokens) :
           tokens'[i].chain = tokens[i].chain /\ (Live(i)' => Live(i))
  PROVE  TokenInv'
  <1> DEFINE Only(t) == /\ th'[t].n \in 1..Len(tokens)
                         /\ \A i \in 1..Len(tokens) :
                              tokens[i].chain = tokens[th'[t].n].chain /\ Live(i) => i = th'[t].n
  <1>0. DOMAIN tokens = 1..Len(tokens)
    BY DEF TokenInv
  <1>1. ASSUME NEW t \in Threads, At(t, "renew")' PROVE Only(t)
    <2>1. CASE Stays(t, "renew")
      BY <1>1, <2>1 DEF Stays, TokenInv, At
    <2>2. CASE LockToken(t)
      BY <1>1, <2>2, <1>0, Arrival DEF TokenInv
    <2> QED BY <2>1, <2>2 DEF Arrivals
  <1>2. ASSUME NEW t \in Threads, NEW s \in Threads, t # s, At(t, "renew")', At(s, "renew")',
               LockToken(t)
        PROVE  tokens[th'[t].n].chain # tokens[th'[s].n].chain
    <2>1. th'[s] = th[s] /\ TokenFree(t, th'[t].n) /\ Live(th'[t].n) /\ th'[t].n \in 1..Len(tokens)
      BY <1>2, <1>0, Arrival
    <2>2. th[s].n # th'[t].n /\ At(s, "renew")
      BY <1>2, <2>1 DEF TokenFree, At
    <2> QED BY <2>1, <2>2 DEF TokenInv
  <1>3. ASSUME NEW t \in Threads, NEW s \in Threads, t # s, At(t, "renew")', At(s, "renew")'
        PROVE  tokens[th'[t].n].chain # tokens[th'[s].n].chain
    <2>1. CASE Stays(t, "renew") /\ Stays(s, "renew")
      BY <1>3, <2>1 DEF Stays, TokenInv, At
    <2> QED BY <1>2, <1>3, <2>1 DEF Arrivals
  <1>4. \A i, j \in 1..Len(tokens') :
          tokens'[i].chain = tokens'[j].chain /\ Live(i)' /\ Live(j)' => i = j
    BY DEF TokenInv
  <1>5. \A t \in Threads : At(t, "renew")' =>
          /\ th'[t].n \in 1..Len(tokens')
          /\ \A i \in 1..Len(tokens') :
               tokens'[i].chain = tokens'[th'[t].n].chain /\ Live(i)' => i = th'[t].n
    BY <1>1
  <1>6. \A t, s \in Threads : t # s /\ At(t, "renew")' /\ At(s, "renew")' =>
          tokens'[th'[t].n].chain # tokens'[th'[s].n].chain
    BY <1>1, <1>3
  <1>7. \A i \in 1..Len(tokens') : tokens'[i].chain <= Len(tokens')
    BY DEF TokenInv
  <1> QED BY <1>4, <1>5, <1>6, <1>7 DEF TokenInv

\* A row that a transaction appends: nobody is at "renew" with a token of its chain, and
\* none of its chain is valid any more.
LEMMA TokenInvAppended ==
  ASSUME ThreadInv, TokenInv, NEW t \in Threads, th' = [th EXCEPT ![t] = Idle],
         NEW old \in Seq(TokenRow), NEW new \in TokenRow,
         tokens' = Append(old, new), Len(old) = Len(tokens),
         \A i \in 1..Len(tokens) :
           /\ old[i].chain = tokens[i].chain
           /\ old[i].state = "live" => Live(i) /\ old[i].chain # new.chain,
         new.chain <= Len(tokens) + 1,
         \A s \in Threads \ {t} : At(s, "renew") => tokens[th[s].n].chain # new.chain
  PROVE  TokenInv'
  <1> DEFINE k == Len(tokens)
  <1>1. /\ Len(tokens') = k + 1 /\ k \in Nat /\ tokens' \in Seq(TokenRow)
        /\ tokens'[k + 1] = new /\ \A i \in 1..k : tokens'[i] = old[i]
    BY DEF TokenInv
  <1>2. \A i \in 1..k : tokens'[i].chain = tokens[i].chain /\ (Live(i)' => Live(i))
    BY <1>1 DEF Live
  <1>3. \A i \in 1..k : Live(i)' => tokens'[i].chain # new.chain
    BY <1>1 DEF Live
  <1>4. \A i \in 1..(k + 1) : i \in 1..k \/ i = k + 1
    BY <1>1
  <1>5. \A i \in 1..(k + 1) : tokens'[i].chain <= k + 1
    <2>1. new.chain \in Nat /\ \A i \in 1..k : tokens[i].chain \in Nat
      <3>1. \A i \in 1..k : tokens[i] \in TokenRow
        BY DEF TokenInv
      <3> QED BY <3>1 DEF TokenRow
    <2>2. \A i \in 1..k : tokens[i].chain <= k
      BY DEF TokenInv
    <2> QED BY <1>1, <1>2, <1>4, <2>1, <2>2
  <1>6. \A i, j \in 1..(k + 1) :
          tokens'[i].chain = tokens'[j].chain /\ Live(i)' /\ Live(j)' => i = j
    BY <1>1, <1>2, <1>3, <1>4 DEF TokenInv
  <1>7. \A s \in Threads : At(s, "renew")' => s # t /\ At(s, "renew") /\ th'[s] = th[s]
    BY DEF At, Idle, ThreadInv
  <1>8. ASSUME NEW s \in Threads, At(s, "renew")'
        PROVE  /\ th'[s].n \in 1..(k + 1)
               /\ \A i \in 1..(k + 1) :
                    tokens'[i].chain = tokens'[th'[s].n].chain /\ Live(i)' => i = th'[s].n
    <2>1. s # t /\ At(s, "renew") /\ th'[s] = th[s] /\ th[s].n \in 1..k
      BY <1>7, <1>8 DEF TokenInv
    <2>2. tokens[th[s].n].chain # new.chain
      BY <2>1
    <2>3. \A i \in 1..k : tokens'[i].chain = tokens'[th[s].n].chain /\ Live(i)' => i = th[s].n
      BY <1>2, <2>1 DEF TokenInv
    <2> QED BY <1>1, <1>2, <1>4, <2>1, <2>2, <2>3
  <1>9. ASSUME NEW s \in Threads, NEW r \in Threads, s # r, At(s, "renew")', At(r, "renew")'
        PROVE  tokens'[th'[s].n].chain # tokens'[th'[r].n].chain
    <2>1. At(s, "renew") /\ th'[s] = th[s] /\ At(r, "renew") /\ th'[r] = th[r]
      BY <1>7, <1>9
    <2>2. th[s].n \in 1..k /\ th[r].n \in 1..k /\ tokens[th[s].n].chain # tokens[th[r].n].chain
      BY <1>9, <2>1 DEF TokenInv
    <2> QED BY <1>2, <2>1, <2>2
  <1> HIDE DEF k
  <1>10. Len(tokens') = k + 1 /\ tokens' \in Seq(TokenRow)
    BY <1>1
  <1>11. \A s \in Threads : At(s, "renew")' =>
           /\ th'[s].n \in 1..(k + 1)
           /\ \A i \in 1..(k + 1) :
                tokens'[i].chain = tokens'[th'[s].n].chain /\ Live(i)' => i = th'[s].n
    BY <1>8
  <1>12. \A s, r \in Threads : s # r /\ At(s, "renew")' /\ At(r, "renew")' =>
           tokens'[th'[s].n].chain # tokens'[th'[r].n].chain
    BY <1>9
  <1> QED BY ONLY <1>5, <1>6, <1>10, <1>11, <1>12 DEF TokenInv

\* Creating, renewing, deleting, expiring and cleaning up tokens keep the invariant.
LEMMA TokenInvStep == ThreadInv /\ TokenInv /\ [Next]_vars => TokenInv'
  <1> SUFFICES ASSUME ThreadInv, TokenInv, [Next]_vars PROVE TokenInv'
    OBVIOUS
  <1> DEFINE k == Len(tokens)
  <1>1. Arrivals
    BY ThreadInvStep
  <1>2. /\ tokens \in Seq(TokenRow) /\ k \in Nat /\ DOMAIN tokens = 1..k
        /\ \A i \in 1..k : tokens[i] \in TokenRow
    BY DEF TokenInv
  <1>3. CASE UNCHANGED tokens
    BY <1>1, <1>2, <1>3, TokenInvKept DEF Live
  <1>4. ASSUME \E i \in 1..k, st \in {"expired", "old", "deleted"} :
                 tokens' = [tokens EXCEPT ![i].state = st]
        PROVE  TokenInv'
    <2>1. PICK i \in 1..k, st \in {"expired", "old", "deleted"} :
                 tokens' = [tokens EXCEPT ![i].state = st]
      BY <1>4
    <2>2. tokens[i] \in TokenRow
      BY <1>2
    <2>3. /\ [tokens[i] EXCEPT !.state = st] \in TokenRow
          /\ [tokens[i] EXCEPT !.state = st].chain = tokens[i].chain
          /\ [tokens[i] EXCEPT !.state = st].state = st
      BY <2>2 DEF TokenRow
    <2>4. tokens' = [tokens EXCEPT ![i] = [tokens[i] EXCEPT !.state = st]]
      BY <2>1
    <2>5. tokens' \in Seq(TokenRow) /\ Len(tokens') = k
      BY <1>2, <2>3, <2>4
    <2>6. \A j \in 1..k : tokens'[j].chain = tokens[j].chain /\ (Live(j)' => Live(j))
      BY <1>2, <2>3, <2>4 DEF Live
    <2> QED BY <1>1, <2>5, <2>6, TokenInvKept
  <1>5. ASSUME NEW t \in Threads, MintToken(t) PROVE TokenInv'
    <2> DEFINE new == NewToken(Ask(t).by, k + 1)
    <2>1. th' = [th EXCEPT ![t] = Idle] /\ tokens' = Append(tokens, new)
      BY <1>5 DEF MintToken, Ends, Create
    <2>2. Ask(t).by \in Users
      BY <1>5 DEF MintToken, At, ThreadInv, Ask, Request
    <2>3. new \in TokenRow /\ new.chain = k + 1
      BY <1>2, <2>2 DEF NewToken, TokenRow
    <2>4. \A i \in 1..k : tokens[i].chain \in Nat /\ tokens[i].chain <= k
      BY <1>2 DEF TokenInv, TokenRow
    <2>5. \A i \in 1..k : tokens[i].chain # k + 1
      BY <1>2, <2>4
    <2>6. \A s \in Threads : At(s, "renew") => tokens[th[s].n].chain # new.chain
      BY <2>3, <2>5 DEF TokenInv
    <2> HIDE DEF new
    <2>7. \A i \in 1..Len(tokens) :
            /\ tokens[i].chain = tokens[i].chain
            /\ tokens[i].state = "live" => Live(i) /\ tokens[i].chain # new.chain
      BY <2>3, <2>5 DEF Live
    <2>8. new.chain <= Len(tokens) + 1
      BY <1>2, <2>3
    <2>9. \A s \in Threads \ {t} : At(s, "renew") => tokens[th[s].n].chain # new.chain
      BY <2>6
    <2> QED BY <1>2, <2>1, <2>3, <2>7, <2>8, <2>9, TokenInvAppended
  <1>6. ASSUME NEW t \in Threads, RenewToken(t) PROVE TokenInv'
    <2> DEFINE i == th[t].n
               old == IF Live(i) THEN [tokens EXCEPT ![i].state = "expired"] ELSE tokens
               new == NewToken(tokens[i].owner, tokens[i].chain)
    <2>1. /\ At(t, "renew") /\ th' = [th EXCEPT ![t] = Idle] /\ tokens' = Append(old, new)
      BY <1>6 DEF RenewToken, Ends, Renew
    <2>2. i \in 1..k /\ tokens[i] \in TokenRow
      BY <1>2, <2>1 DEF TokenInv
    <2>3. new \in TokenRow /\ new.chain = tokens[i].chain
      BY <2>2 DEF NewToken, TokenRow
    <2>4. /\ [tokens[i] EXCEPT !.state = "expired"] \in TokenRow
          /\ [tokens[i] EXCEPT !.state = "expired"].chain = tokens[i].chain
          /\ [tokens[i] EXCEPT !.state = "expired"].state = "expired"
      BY <2>2 DEF TokenRow
    <2>5. old = IF Live(i) THEN [tokens EXCEPT ![i] = [tokens[i] EXCEPT !.state = "expired"]]
                ELSE tokens
      OBVIOUS
    <2>6. old \in Seq(TokenRow) /\ Len(old) = k /\ ~ (old[i].state = "live")
      BY <1>2, <2>2, <2>4, <2>5 DEF Live
    <2>7. \A j \in 1..k : old[j].chain = tokens[j].chain /\ (j # i => old[j] = tokens[j])
      BY <1>2, <2>2, <2>4, <2>5
    <2>8. \A j \in 1..k : Live(j) /\ tokens[j].chain = tokens[i].chain => j = i
      BY <2>1 DEF TokenInv
    <2>9. \A j \in 1..k : old[j].state = "live" => Live(j) /\ old[j].chain # new.chain
      BY <2>3, <2>6, <2>7, <2>8 DEF Live
    <2>10. new.chain <= k + 1
      <3>1. tokens[i].chain \in Nat /\ tokens[i].chain <= k
        BY <2>2 DEF TokenInv, TokenRow
      <3> QED BY <1>2, <2>3, <3>1
    <2>11. \A s \in Threads \ {t} : At(s, "renew") => tokens[th[s].n].chain # new.chain
      BY <2>1, <2>3 DEF TokenInv
    <2>12. \A j \in 1..Len(tokens) :
             /\ old[j].chain = tokens[j].chain
             /\ old[j].state = "live" => Live(j) /\ old[j].chain # new.chain
      BY <2>7, <2>9
    <2> HIDE DEF old, new
    <2> QED BY <2>1, <2>3, <2>6, <2>10, <2>11, <2>12, TokenInvAppended
  <1>7. ASSUME NEW t \in Threads, DeleteToken(t) PROVE TokenInv'
    BY <1>2, <1>4, <1>7 DEF DeleteToken, OwnTokens, Delete
  <1>8. CASE Ages
    <2>1. UNCHANGED tokens \/ \E i \in DOMAIN tokens : TokenAges(i)
      BY <1>8 DEF Ages, DayPasses, StampAges
    <2>2. ASSUME NEW i \in 1..k, TokenAges(i)
          PROVE  \E st \in {"expired", "old", "deleted"} :
                   tokens' = [tokens EXCEPT ![i].state = st]
      BY <2>2 DEF TokenAges
    <2> QED BY <1>2, <1>3, <1>4, <2>1, <2>2
  <1>9. CASE Cleanup
    <2>1. tokens' = [i \in DOMAIN tokens |->
            IF tokens[i].state = "old" THEN [tokens[i] EXCEPT !.state = "deleted"] ELSE tokens[i]]
      BY <1>9 DEF Cleanup, DeleteExpiredBefore
    <2>2. ASSUME NEW i \in 1..k
          PROVE  /\ [tokens[i] EXCEPT !.state = "deleted"] \in TokenRow
                 /\ [tokens[i] EXCEPT !.state = "deleted"].chain = tokens[i].chain
                 /\ [tokens[i] EXCEPT !.state = "deleted"].state = "deleted"
      BY <1>2 DEF TokenRow
    <2>3. tokens' \in [1..k -> TokenRow]
      BY <1>2, <2>1, <2>2
    <2>4. tokens' \in Seq(TokenRow) /\ Len(tokens') = k
      BY <1>2, <2>3
    <2>5. \A j \in 1..k : tokens'[j].chain = tokens[j].chain /\ (Live(j)' => Live(j))
      BY <1>2, <2>1, <2>2 DEF Live
    <2> QED BY <1>1, <2>4, <2>5, TokenInvKept
  <1> QED BY <1>3, <1>5, <1>6, <1>7, <1>8, <1>9, TokenFrame

\* Of a token and all its renewals, by however many requests at once, at most one is
\* valid: APITokenRepo.Renew ends the old one in the transaction that makes the new one.
THEOREM OneTokenPerChain == Spec => []OneLivePerChain
  <1>1. TokenInv => OneLivePerChain
    BY DEF TokenInv, OneLivePerChain
  <1> QED
    BY <1>1, ThreadInvInit, TokenInvInit, ThreadInvStep, TokenInvStep, PTL DEF Spec

-----------------------------------------------------------------------------
(* Sums *)

\* A set of numbers has a least one.
LEMMA Least ==
  ASSUME NEW T \in SUBSET Nat, T # {}
  PROVE  \E m \in T : \A k \in T : m <= k
  <1> DEFINE R == OpToRel(<, Nat)
  <1>1. IsWellFoundedOn(R, Nat)
    BY NatLessThanWellFounded
  <1>2. \A x, y \in Nat : x < y => <<x, y>> \in R
    BY DEF OpToRel
  <1> HIDE DEF R
  <1>3. PICK m \in T : \A y \in T : ~ (<<y, m>> \in R)
    BY <1>1, WFMin
  <1>4. \A k \in T : m <= k
    <2> TAKE k \in T
    <2>1. m \in Nat /\ k \in Nat
      OBVIOUS
    <2>2. ~ (k < m)
      BY <1>2, <1>3, <2>1
    <2> QED BY <2>1, <2>2
  <1> QED BY <1>4

\* What holds of 0, and of every next number up to n, holds up to n.
LEMMA UpTo ==
  ASSUME NEW n \in Nat, NEW S, 0 \in S, \A k \in 1..n : k - 1 \in S => k \in S
  PROVE  \A k \in 0..n : k \in S
  <1> DEFINE T == {k \in 0..n : k \notin S}
  <1> SUFFICES ASSUME T # {} PROVE FALSE
    OBVIOUS
  <1>0. T \in SUBSET Nat
    OBVIOUS
  <1>1. PICK m \in T : \A k \in T : m <= k
    <2> HIDE DEF T
    <2> QED BY <1>0, Least
  <1>2. m \in 1..n /\ m - 1 \in 0..n /\ ~ (m <= m - 1)
    BY <1>1
  <1>3. m - 1 \in S
    BY <1>1, <1>2
  <1> QED BY <1>1, <1>2, <1>3

\* f has the sums of the beginnings of s.
Sums(f, s) == f = [i \in 0..Len(s) |-> IF i = 0 THEN 0 ELSE f[i - 1] + s[i]]

\* The definition of Total has a function to choose.
LEMMA SumsExist ==
  ASSUME NEW s \in Seq(Int)
  PROVE  \E f : Sums(f, s)
  <1> DEFINE n == Len(s)
             Part(f, k) == /\ f \in [0..k -> Int] /\ f[0] = 0
                           /\ \A i \in 1..k : f[i] = f[i - 1] + s[i]
             S == {k \in 0..n : \E f : Part(f, k)}
  <1>0. n \in Nat /\ \A i \in 1..n : s[i] \in Int
    OBVIOUS
  <1>1. 0 \in S
    <2>1. Part([i \in 0..0 |-> 0], 0)
      OBVIOUS
    <2>2. 0 \in 0..n
      BY <1>0
    <2> QED BY <2>1, <2>2
  <1>2. ASSUME NEW k \in 1..n, k - 1 \in S PROVE k \in S
    <2>1. PICK f : Part(f, k - 1)
      BY <1>2
    <2> DEFINE g == [i \in 0..k |-> IF i = k THEN f[k - 1] + s[k] ELSE f[i]]
    <2>2. k - 1 \in 0..(k - 1) /\ s[k] \in Int /\ f[k - 1] \in Int
      BY <1>0, <2>1
    <2>3. \A i \in 0..k : i # k => i \in 0..(k - 1)
      BY <1>0
    <2>4. g \in [0..k -> Int] /\ g[0] = 0
      BY <2>1, <2>2, <2>3
    <2>5. ASSUME NEW i \in 1..k PROVE g[i] = g[i - 1] + s[i]
      <3>1. i \in 0..k /\ i - 1 \in 0..k /\ i - 1 # k /\ (i # k => i \in 1..(k - 1))
        BY <1>0
      <3>2. g[i - 1] = f[i - 1] /\ g[i] = IF i = k THEN f[k - 1] + s[k] ELSE f[i]
        BY <3>1
      <3> QED BY <2>1, <3>1, <3>2
    <2> HIDE DEF g
    <2>6. Part(g, k)
      BY <2>4, <2>5
    <2>7. k \in 0..n
      BY <1>0
    <2> QED BY <2>6, <2>7
  <1> HIDE DEF S
  <1>3. n \in S
    <2>1. \A k \in 0..n : k \in S
      BY <1>0, <1>1, <1>2, UpTo
    <2> QED BY <1>0, <2>1
  <1>4. PICK f : Part(f, n)
    BY <1>3 DEF S
  <1>5. ASSUME NEW i \in 0..n PROVE f[i] = IF i = 0 THEN 0 ELSE f[i - 1] + s[i]
    <2>1. i = 0 \/ i \in 1..n
      BY <1>0
    <2> QED BY <1>4, <2>1
  <1>6. f = [i \in 0..n |-> IF i = 0 THEN 0 ELSE f[i - 1] + s[i]]
    BY <1>4, <1>5
  <1> QED BY <1>6 DEF Sums

\* What Total computes.
LEMMA TotalIs ==
  ASSUME NEW s \in Seq(Int)
  PROVE  \E f : Sums(f, s) /\ f \in [0..Len(s) -> Int] /\ Total(s) = f[Len(s)]
  <1> DEFINE g == CHOOSE f : Sums(f, s)
  <1>1. Sums(g, s)
    BY SumsExist
  <1>2. Total(s) = g[Len(s)]
    BY DEF Total, Sums
  <1> HIDE DEF g
  <1>3. Len(s) \in Nat /\ \A i \in 1..Len(s) : s[i] \in Int
    OBVIOUS
  <1>4. g[0] = 0 /\ \A i \in 1..Len(s) : g[i] = g[i - 1] + s[i]
    <2>1. g = [i \in 0..Len(s) |-> IF i = 0 THEN 0 ELSE g[i - 1] + s[i]]
      BY <1>1 DEF Sums
    <2>2. 0 \in 0..Len(s) /\ \A i \in 1..Len(s) : i \in 0..Len(s) /\ i # 0
      BY <1>3
    <2> QED BY ONLY <2>1, <2>2
  <1>5. \A k \in 0..Len(s) : k \in {i \in 0..Len(s) : g[i] \in Int}
    <2> DEFINE S == {i \in 0..Len(s) : g[i] \in Int}
    <2>1. 0 \in S
      BY <1>3, <1>4
    <2>2. \A k \in 1..Len(s) : k - 1 \in S => k \in S
      BY <1>3, <1>4
    <2> HIDE DEF S
    <2>3. \A k \in 0..Len(s) : k \in S
      BY <1>3, <2>1, <2>2, UpTo
    <2> QED BY <2>3 DEF S
  <1>6. g \in [0..Len(s) -> Int]
    <2>1. g = [i \in 0..Len(s) |-> g[i]]
      BY <1>1 DEF Sums
    <2> QED BY <1>5, <2>1
  <1> QED BY <1>1, <1>2, <1>6

\* A sum by its parts.
LEMMA SumsAre ==
  ASSUME NEW s \in Seq(Int), NEW f, Sums(f, s)
  PROVE  f[0] = 0 /\ \A i \in 1..Len(s) : f[i] = f[i - 1] + s[i]
  <1>1. Len(s) \in Nat
    OBVIOUS
  <1> QED BY <1>1 DEF Sums

\* No deposits come to nothing.
LEMMA TotalOfNone == Total(<<>>) = 0
  <1>1. <<>> \in Seq(Int) /\ Len(<<>>) = 0
    OBVIOUS
  <1>2. PICK f : Sums(f, <<>>) /\ Total(<<>>) = f[Len(<<>>)]
    BY <1>1, TotalIs
  <1> QED BY <1>1, <1>2, SumsAre

\* A further deposit adds its amount.
LEMMA TotalOfAppend ==
  ASSUME NEW s \in Seq(Int), NEW x \in Int
  PROVE  Total(Append(s, x)) = Total(s) + x
  <1> DEFINE n == Len(s)
             u == Append(s, x)
  <1>1. /\ n \in Nat /\ Len(s) = n /\ u \in Seq(Int) /\ Len(u) = n + 1
        /\ u[n + 1] = x /\ \A i \in 1..n : u[i] = s[i]
    OBVIOUS
  <1> HIDE DEF u, n
  <1>2. PICK f : Sums(f, s) /\ f \in [0..n -> Int] /\ Total(s) = f[n]
    BY <1>1, TotalIs
  <1>3. PICK g : Sums(g, u) /\ g \in [0..Len(u) -> Int] /\ Total(u) = g[n + 1]
    BY <1>1, TotalIs
  <1>4. f[0] = 0 /\ \A i \in 1..n : f[i] = f[i - 1] + s[i]
    BY <1>1, <1>2, SumsAre
  <1>5. g[0] = 0 /\ \A i \in 1..(n + 1) : g[i] = g[i - 1] + u[i]
    <2>1. u \in Seq(Int) /\ Sums(g, u) /\ Len(u) = n + 1
      BY <1>1, <1>3
    <2>2. g[0] = 0 /\ \A i \in 1..Len(u) : g[i] = g[i - 1] + u[i]
      BY ONLY <2>1, SumsAre
    <2> QED BY <2>1, <2>2
  <1> DEFINE S == {i \in 0..n : g[i] = f[i]}
  <1>6. 0 \in S
    BY <1>1, <1>4, <1>5
  <1>7. ASSUME NEW k \in 1..n, k - 1 \in S PROVE k \in S
    <2>1. k \in 1..(n + 1) /\ k \in 0..n
      BY <1>1
    <2> QED BY <1>1, <1>4, <1>5, <1>7, <2>1
  <1> HIDE DEF S
  <1>8. n \in S
    <2>1. \A k \in 0..n : k \in S
      BY <1>1, <1>6, <1>7, UpTo
    <2> QED BY <1>1, <2>1
  <1>9. g[n] = f[n]
    BY <1>8 DEF S
  <1>10. n + 1 \in 1..(n + 1) /\ (n + 1) - 1 = n
    BY <1>1
  <1>11. g[n + 1] = g[n] + x
    BY <1>1, <1>5, <1>10
  <1> QED BY <1>2, <1>3, <1>9, <1>11 DEF u

\* A total of positive amounts is not negative.
LEMMA TotalType ==
  ASSUME NEW s \in Seq(Nat)
  PROVE  Total(s) \in Nat
  <1> DEFINE n == Len(s)
  <1>1. n \in Nat /\ s \in Seq(Int) /\ \A i \in 1..n : s[i] \in Nat
    OBVIOUS
  <1>2. PICK f : Sums(f, s) /\ f \in [0..n -> Int] /\ Total(s) = f[n]
    BY <1>1, TotalIs
  <1>3. f[0] = 0 /\ \A i \in 1..n : f[i] = f[i - 1] + s[i]
    BY <1>1, <1>2, SumsAre
  <1> DEFINE S == {i \in 0..n : f[i] \in Nat}
  <1>4. 0 \in S
    BY <1>1, <1>3
  <1>5. \A k \in 1..n : k - 1 \in S => k \in S
    BY <1>1, <1>3
  <1> HIDE DEF S
  <1>6. n \in S
    <2>1. \A k \in 0..n : k \in S
      BY <1>1, <1>4, <1>5, UpTo
    <2> QED BY <1>1, <2>1
  <1> QED BY <1>2, <1>6 DEF S

\* Without the oldest deposit the total is not more.
LEMMA TotalOfTail ==
  ASSUME NEW s \in Seq(Nat), s # <<>>
  PROVE  Total(Tail(s)) <= Total(s)
  <1> DEFINE n == Len(s) - 1
             u == Tail(s)
  <1>1. /\ n \in Nat /\ u \in Seq(Int) /\ s \in Seq(Int) /\ Len(u) = n /\ Len(s) = n + 1
        /\ \A i \in 1..n : u[i] = s[i + 1]
        /\ s[1] \in Nat
    OBVIOUS
  <1> HIDE DEF u, n
  <1>2. PICK f : Sums(f, s) /\ f \in [0..Len(s) -> Int] /\ Total(s) = f[n + 1]
    BY <1>1, TotalIs
  <1>3. PICK g : Sums(g, u) /\ g \in [0..n -> Int] /\ Total(u) = g[n]
    BY <1>1, TotalIs
  <1>4. f[0] = 0 /\ \A i \in 1..(n + 1) : f[i] = f[i - 1] + s[i]
    <2>1. f[0] = 0 /\ \A i \in 1..Len(s) : f[i] = f[i - 1] + s[i]
      BY <1>1, <1>2, SumsAre
    <2> QED BY <1>1, <2>1
  <1>5. g[0] = 0 /\ \A i \in 1..n : g[i] = g[i - 1] + u[i]
    BY <1>1, <1>3, SumsAre
  <1> DEFINE S == {i \in 0..n : g[i] = f[i + 1] - s[1]}
  <1>6. 0 \in S
    <2>1. f[1] = f[0] + s[1]
      BY <1>1, <1>4
    <2> QED BY <1>1, <1>4, <1>5, <2>1
  <1>7. ASSUME NEW k \in 1..n, k - 1 \in S PROVE k \in S
    <2>1. k \in 0..n /\ k + 1 \in 1..(n + 1) /\ (k + 1) - 1 = k /\ (k - 1) + 1 = k
      BY <1>1
    <2>2. f[k + 1] = f[k] + s[k + 1] /\ g[k] = g[k - 1] + s[k + 1] /\ g[k - 1] = f[k] - s[1]
      BY <1>1, <1>4, <1>5, <1>7, <2>1
    <2>3. f[k] \in Int /\ s[k + 1] \in Int
      BY <1>1, <1>2, <2>1
    <2> QED BY <1>1, <2>1, <2>2, <2>3
  <1> HIDE DEF S
  <1>8. n \in S
    <2>1. \A k \in 0..n : k \in S
      BY <1>1, <1>6, <1>7, UpTo
    <2> QED BY <1>1, <2>1
  <1>9. g[n] = f[n + 1] - s[1] /\ f[n + 1] \in Int
    BY <1>1, <1>2, <1>8 DEF S
  <1> QED BY <1>1, <1>2, <1>3, <1>9 DEF u

-----------------------------------------------------------------------------
(* What becomes of a thread                                                *)

\* r is what thread t becomes when it goes on with its request.
Leads(t, r) ==
  /\ th[t].at # "idle"
  /\ DOMAIN r = Fields /\ r.ask = th[t].ask /\ r.alone = th[t].alone
  /\ \/ r.at = "gate" /\ th[t].at \in {"roleOf", "insertQuota"}
     \/ r.at = "insertQuota" /\ InsertUser(Ask(t).by)
     \/ /\ At(t, "gate") /\ Ask(t).op \notin {"visit", "callback"}
        /\ r.at = FirstPoint(Ask(t).op) /\ r.todo = Ask(t).users
     \/ /\ r.at = "lock" /\ th[t].at \in {"lock", "sum", "deposit"}
        /\ Len(th[t].todo) # 1 /\ r.todo = Tail(th[t].todo)
     \/ /\ r.at = "setRole" /\ At(t, "setRole")
        /\ Len(th[t].todo) # 1 /\ r.todo = Tail(th[t].todo)
     \/ r.at = "sum" /\ LockUser(t) /\ r.todo = th[t].todo
     \/ /\ r.at = "deposit" /\ SumDeposits(t) /\ r.todo = th[t].todo
        /\ ~ OverCap(Total(deposits[Head(th[t].todo)]), Ask(t).amount)
     \/ r.at = "renew" /\ At(t, "lockToken")
     \/ r.at = "stamp" /\ r.read \in {"recent", "stale"} /\ role[Ask(t).by] # "absent"
     \/ /\ r.at = "persist" /\ At(t, "dial") /\ source # "nothing" /\ Cluster(t) \notin clients
        /\ AddToManager(Cluster(t), AskedPools(t))
     \/ /\ r.at = "setId" /\ At(t, "persist") /\ CreateFull(Cluster(t), AskedPools(t))
        /\ r.n = Written(Cluster(t), <<>>)[Cluster(t)].id
     \/ r.at = "undo" /\ At(t, "persist")
     \/ r.at = "deleteRow" /\ At(t, "drop") /\ kept' = kept \ {Cluster(t)}
     \/ /\ r.at = "writeConfig" /\ At(t, "readConfig") /\ Cluster(t) \in Configured
        /\ r.todo \in {Append(Config(Cluster(t)).pools, Ask(t).pool),
                       Without(Config(Cluster(t)).pools, Ask(t).pool)}
     \/ /\ r.at = "pool" /\ At(t, "readPools") /\ Cluster(t) \in Configured
        /\ r.todo = Config(Cluster(t)).pools /\ r.todo # <<>>
     \/ /\ r.at = "pool" /\ At(t, "take") /\ Len(th[t].todo) # 1 /\ r.todo = Tail(th[t].todo)
     \/ /\ th[t].at \in {"pool", "ensure", "seed", "take"}
        /\ r.at \in {"ensure", "seed", "take", "assign"} /\ r.todo = th[t].todo

GoesOn(t) == \E r : With(t, r) /\ Leads(t, r)

\* A request for what the user has a row, or will have.
Starts(t) ==
  \E q \in asks : \E r :
    \/ Begin(t, q, "insertUser", r) \/ Begin(t, q, "exchange", r)
    \/ Begin(t, q, "gate", r) /\ role[q.by] # "absent"
    \/ Begin(t, q, "roleOf", r) /\ \E i \in DOMAIN tokens : tokens[i].owner = q.by

\* Going to another point is a change of the record.
LEMMA GoesWith ==
  ASSUME ThreadInv, NEW t \in Threads, NEW p, Goes(t, p)
  PROVE  /\ With(t, [th[t] EXCEPT !.at = p])
         /\ DOMAIN [th[t] EXCEPT !.at = p] = Fields
         /\ [th[t] EXCEPT !.at = p].at = p
         /\ \A f \in Fields \ {"at"} : [th[t] EXCEPT !.at = p][f] = th[t][f]
  BY DEF Goes, With, ThreadInv, Fields

\* The same with its fields named.
LEMMA GoesTo ==
  ASSUME ThreadInv, NEW t \in Threads, NEW p, Goes(t, p)
  PROVE  \E r : /\ With(t, r) /\ DOMAIN r = Fields /\ r.at = p /\ r.ask = th[t].ask
                /\ r.alone = th[t].alone /\ r.todo = th[t].todo
  <1>1. DOMAIN th[t] = Fields
    BY DEF ThreadInv
  <1> DEFINE r == [th[t] EXCEPT !.at = p]
  <1>2. With(t, r)
    BY GoesWith
  <1>3. /\ DOMAIN r = Fields /\ r.at = p /\ r.ask = th[t].ask
        /\ r.alone = th[t].alone /\ r.todo = th[t].todo
    BY <1>1 DEF Fields
  <1> QED BY <1>2, <1>3

\* The next user of a batch.
LEMMA NextUserLeads ==
  ASSUME ThreadInv, NEW t \in Threads, NEW p, NextUser(t, p), th[t].at # "idle",
         \/ p = "lock" /\ th[t].at \in {"lock", "sum", "deposit"}
         \/ p = "setRole" /\ At(t, "setRole")
  PROVE  Ends(t) \/ GoesOn(t)
  <1> DEFINE r == [th[t] EXCEPT !.at = p, !.todo = Tail(@), !.n = 0]
  <1>1. DOMAIN th[t] = Fields
    BY DEF ThreadInv
  <1>2. /\ DOMAIN r = Fields /\ r.at = p /\ r.ask = th[t].ask
        /\ r.alone = th[t].alone /\ r.todo = Tail(th[t].todo)
    BY <1>1 DEF Fields
  <1>3. CASE Len(th[t].todo) # 1
    <2>1. With(t, r)
      BY <1>3 DEF NextUser
    <2> HIDE DEF r
    <2>2. Leads(t, r)
      BY <1>2, <1>3 DEF Leads
    <2> QED BY <2>1, <2>2 DEF GoesOn
  <1> QED BY <1>3 DEF NextUser

\* Every step of a thread begins a request, ends it or goes on with it.
LEMMA ThreadMoves ==
  ASSUME ThreadInv, NEW t \in Threads,
         Authenticate(t) \/ AccountStep(t) \/ ClusterStep(t)
  PROVE  Starts(t) \/ Ends(t) \/ GoesOn(t)
  <1>0. DOMAIN th[t] = Fields
    BY DEF ThreadInv
  <1>RoleOf. CASE RoleOf(t)
    <2> DEFINE r == [th[t] EXCEPT !.at = "gate", !.read = role[Ask(t).by]]
    <2>1. DOMAIN r = Fields /\ r.at = "gate" /\ r.ask = th[t].ask /\ r.alone = th[t].alone
          /\ TRUE
      BY <1>0 DEF Fields
    <2> HIDE DEF r
    <2>2. ASSUME With(t, r) PROVE GoesOn(t)
      <3>1. Leads(t, r)
        BY <1>RoleOf, <2>1, <2>2 DEF RoleOf, Leads, At
      <3> QED BY <2>2, <3>1 DEF GoesOn
    <2> QED BY <1>RoleOf, <2>2 DEF RoleOf, r
  <1>InsertTheUser. CASE InsertTheUser(t)
    <2> DEFINE r == [th[t] EXCEPT !.at = "insertQuota",
                       !.read = IF Ask(t).by \in AdminEmails THEN "admin" ELSE "customer"]
    <2>1. DOMAIN r = Fields /\ r.at = "insertQuota" /\ r.ask = th[t].ask /\ r.alone = th[t].alone
          /\ TRUE
      BY <1>0 DEF Fields
    <2> HIDE DEF r
    <2>2. ASSUME With(t, r), InsertUser(Ask(t).by) PROVE GoesOn(t)
      <3>1. Leads(t, r)
        BY <1>InsertTheUser, <2>1, <2>2 DEF InsertTheUser, Leads, At
      <3> QED BY <2>2, <3>1 DEF GoesOn
    <2> QED BY <1>InsertTheUser, <2>2 DEF InsertTheUser, r
  <1>InsertTheQuota. CASE InsertTheQuota(t)
    <2>1. ASSUME Goes(t, "gate") PROVE GoesOn(t)
      <3>1. PICK r : /\ With(t, r) /\ DOMAIN r = Fields /\ r.at = "gate" /\ r.ask = th[t].ask
                     /\ r.alone = th[t].alone /\ r.todo = th[t].todo
        BY <2>1, GoesTo
      <3>2. Leads(t, r)
        BY <1>InsertTheQuota, <2>1, <3>1 DEF InsertTheQuota, Leads, At
      <3> QED BY <3>1, <3>2 DEF GoesOn
    <2> QED BY <1>InsertTheQuota, <2>1 DEF InsertTheQuota
  <1>Fails. CASE Fails(t)
    BY <1>Fails DEF Fails
  <1>LockUser. CASE LockUser(t)
    <2>1. ASSUME Goes(t, "sum") PROVE GoesOn(t)
      <3>1. PICK r : /\ With(t, r) /\ DOMAIN r = Fields /\ r.at = "sum" /\ r.ask = th[t].ask
                     /\ r.alone = th[t].alone /\ r.todo = th[t].todo
        BY <2>1, GoesTo
      <3>2. Leads(t, r)
        BY <1>LockUser, <2>1, <3>1 DEF LockUser, Leads, At
      <3> QED BY <3>1, <3>2 DEF GoesOn
    <2> QED BY <1>LockUser, <2>1, NextUserLeads DEF LockUser, At
  <1>SumDeposits. CASE SumDeposits(t)
    <2>1. ASSUME Goes(t, "deposit"), ~ OverCap(Total(deposits[Head(th[t].todo)]), Ask(t).amount)
          PROVE  GoesOn(t)
      <3>1. PICK r : /\ With(t, r) /\ DOMAIN r = Fields /\ r.at = "deposit" /\ r.ask = th[t].ask
                     /\ r.alone = th[t].alone /\ r.todo = th[t].todo
        BY <2>1, GoesTo
      <3>2. Leads(t, r)
        BY <1>SumDeposits, <2>1, <3>1 DEF SumDeposits, Leads, At
      <3> QED BY <3>1, <3>2 DEF GoesOn
    <2> QED BY <1>SumDeposits, <2>1, NextUserLeads DEF SumDeposits, At
  <1>DepositAndCommit. CASE DepositAndCommit(t)
    BY <1>DepositAndCommit, NextUserLeads DEF DepositAndCommit, At
  <1>DepositFails. CASE DepositFails(t)
    BY <1>DepositFails, NextUserLeads DEF DepositFails, At
  <1>SetRole. CASE SetRole(t)
    BY <1>SetRole, NextUserLeads DEF SetRole, At
  <1>MintToken. CASE MintToken(t)
    BY <1>MintToken DEF MintToken
  <1>RenewToken. CASE RenewToken(t)
    BY <1>RenewToken DEF RenewToken
  <1>DeleteToken. CASE DeleteToken(t)
    BY <1>DeleteToken DEF DeleteToken
  <1>NoToken. CASE NoToken(t)
    BY <1>NoToken DEF NoToken
  <1>StartStepUp. CASE StartStepUp(t)
    BY <1>StartStepUp DEF StartStepUp
  <1>Stamp. CASE Stamp(t)
    BY <1>Stamp DEF Stamp
  <1>Undo. CASE Undo(t)
    BY <1>Undo DEF Undo
  <1>NoteId. CASE NoteId(t)
    BY <1>NoteId DEF NoteId
  <1>DeleteRow. CASE DeleteRow(t)
    BY <1>DeleteRow DEF DeleteRow
  <1>WriteConfig. CASE WriteConfig(t)
    BY <1>WriteConfig DEF WriteConfig
  <1>AssignAndCommit. CASE AssignAndCommit(t)
    BY <1>AssignAndCommit DEF AssignAndCommit
  <1>Exchange. CASE Exchange(t)
    <2> DEFINE r == [th[t] EXCEPT !.at = "stamp", !.read = login[Ask(t).by]]
    <2>1. DOMAIN r = Fields /\ r.at = "stamp" /\ r.ask = th[t].ask /\ r.alone = th[t].alone
          /\ r.read = login[Ask(t).by]
      BY <1>0 DEF Fields
    <2> HIDE DEF r
    <2>2. ASSUME With(t, r), login[Ask(t).by] \in {"recent", "stale"}, role[Ask(t).by] # "absent"
          PROVE  GoesOn(t)
      <3>1. Leads(t, r)
        BY <1>Exchange, <2>1, <2>2 DEF Exchange, Leads, At
      <3> QED BY <2>2, <3>1 DEF GoesOn
    <2> QED BY <1>Exchange, <2>2 DEF Exchange, r
  <1>Dial. CASE Dial(t)
    <2>1. ASSUME Goes(t, "persist"), source # "nothing", Cluster(t) \notin clients,
                 AddToManager(Cluster(t), AskedPools(t))
          PROVE  GoesOn(t)
      <3>1. PICK r : /\ With(t, r) /\ DOMAIN r = Fields /\ r.at = "persist" /\ r.ask = th[t].ask
                     /\ r.alone = th[t].alone /\ r.todo = th[t].todo
        BY <2>1, GoesTo
      <3>2. Leads(t, r)
        BY <1>Dial, <2>1, <3>1 DEF Dial, Leads, At
      <3> QED BY <3>1, <3>2 DEF GoesOn
    <2> QED BY <1>Dial, <2>1 DEF Dial, NoManager
  <1>Drop. CASE Drop(t)
    <2>1. ASSUME Goes(t, "deleteRow"), kept' = kept \ {Cluster(t)} PROVE GoesOn(t)
      <3>1. PICK r : /\ With(t, r) /\ DOMAIN r = Fields /\ r.at = "deleteRow" /\ r.ask = th[t].ask
                     /\ r.alone = th[t].alone /\ r.todo = th[t].todo
        BY <2>1, GoesTo
      <3>2. Leads(t, r)
        BY <1>Drop, <2>1, <3>1 DEF Drop, Leads, At
      <3> QED BY <3>1, <3>2 DEF GoesOn
    <2> QED BY <1>Drop, <2>1 DEF Drop
  <1>FindPool. CASE FindPool(t)
    <2>1. ASSUME Goes(t, (IF Pool(t) \in poolRow THEN "take" ELSE "ensure")) PROVE GoesOn(t)
      <3>1. PICK r : /\ With(t, r) /\ DOMAIN r = Fields
                     /\ r.at = (IF Pool(t) \in poolRow THEN "take" ELSE "ensure")
                     /\ r.ask = th[t].ask
                     /\ r.alone = th[t].alone /\ r.todo = th[t].todo
        BY <2>1, GoesTo
      <3>2. Leads(t, r)
        BY <1>FindPool, <2>1, <3>1 DEF FindPool, Leads, At
      <3> QED BY <3>1, <3>2 DEF GoesOn
    <2> QED BY <1>FindPool, <2>1 DEF FindPool
  <1>Ensure. CASE Ensure(t)
    <2> DEFINE r == [th[t] EXCEPT !.at = "seed", !.n = 1]
    <2>1. DOMAIN r = Fields /\ r.at = "seed" /\ r.ask = th[t].ask /\ r.alone = th[t].alone
          /\ r.todo = th[t].todo
      BY <1>0 DEF Fields
    <2> HIDE DEF r
    <2>2. ASSUME With(t, r) PROVE GoesOn(t)
      <3>1. Leads(t, r)
        BY <1>Ensure, <2>1, <2>2 DEF Ensure, Leads, At
      <3> QED BY <2>2, <3>1 DEF GoesOn
    <2> QED BY <1>Ensure, <2>2 DEF Ensure, r
  <1>ReadConfig. CASE ReadConfig(t)
    <2> DEFINE r == [th[t] EXCEPT !.at = "writeConfig",
                       !.todo = IF Ask(t).op = "addPool"
                                THEN Append(Config(Cluster(t)).pools, Ask(t).pool)
                                ELSE Without(Config(Cluster(t)).pools, Ask(t).pool)]
    <2>1. DOMAIN r = Fields /\ r.at = "writeConfig" /\ r.ask = th[t].ask /\ r.alone = th[t].alone
          /\ r.todo \in {Append(Config(Cluster(t)).pools, Ask(t).pool),
                       Without(Config(Cluster(t)).pools, Ask(t).pool)}
      BY <1>0 DEF Fields
    <2> HIDE DEF r
    <2>2. ASSUME With(t, r), Cluster(t) \in Configured PROVE GoesOn(t)
      <3>1. Leads(t, r)
        BY <1>ReadConfig, <2>1, <2>2 DEF ReadConfig, Leads, At
      <3> QED BY <2>2, <3>1 DEF GoesOn
    <2> QED BY <1>ReadConfig, <2>2 DEF ReadConfig, r
  <1>ReadPools. CASE ReadPools(t)
    <2> DEFINE r == [th[t] EXCEPT !.at = "pool", !.todo = Config(Cluster(t)).pools]
    <2>1. DOMAIN r = Fields /\ r.at = "pool" /\ r.ask = th[t].ask /\ r.alone = th[t].alone
          /\ r.todo = Config(Cluster(t)).pools
      BY <1>0 DEF Fields
    <2> HIDE DEF r
    <2>2. ASSUME With(t, r), Cluster(t) \in Configured, Config(Cluster(t)).pools # <<>>
          PROVE  GoesOn(t)
      <3>1. Leads(t, r)
        BY <1>ReadPools, <2>1, <2>2 DEF ReadPools, Leads, At
      <3> QED BY <2>2, <3>1 DEF GoesOn
    <2> QED BY <1>ReadPools, <2>2 DEF ReadPools, r
  <1>Persist. CASE Persist(t)
    <2> DEFINE n == Cluster(t)
               r == [th[t] EXCEPT !.at = "setId", !.n = Written(n, <<>>)[n].id]
    <2>1. /\ DOMAIN r = Fields /\ r.at = "setId" /\ r.ask = th[t].ask /\ r.alone = th[t].alone
          /\ r.n = Written(n, <<>>)[n].id
      BY <1>0 DEF Fields
    <2>2. ASSUME With(t, r), CreateFull(n, AskedPools(t)) PROVE GoesOn(t)
      <3> HIDE DEF r
      <3>1. Leads(t, r)
        BY <1>Persist, <2>1, <2>2 DEF Persist, Leads, At
      <3> QED BY <2>2, <3>1 DEF GoesOn
    <2>3. ASSUME Goes(t, "undo") PROVE GoesOn(t)
      <3>1. PICK u : /\ With(t, u) /\ DOMAIN u = Fields /\ u.at = "undo" /\ u.ask = th[t].ask
                     /\ u.alone = th[t].alone /\ u.todo = th[t].todo
        BY <2>3, GoesTo
      <3>2. Leads(t, u)
        BY <1>Persist, <3>1 DEF Persist, Leads, At
      <3> QED BY <3>1, <3>2 DEF GoesOn
    <2> QED BY <1>Persist, <2>2, <2>3 DEF Persist
  <1>Gate. CASE Gate(t)
    <2> DEFINE r == [th[t] EXCEPT !.at = FirstPoint(Ask(t).op), !.todo = Ask(t).users]
    <2>1. /\ DOMAIN r = Fields /\ r.at = FirstPoint(Ask(t).op) /\ r.ask = th[t].ask
          /\ r.alone = th[t].alone /\ r.todo = Ask(t).users
      BY <1>0 DEF Fields
    <2> HIDE DEF r
    <2>2. ASSUME With(t, r), Ask(t).op \notin {"visit", "callback"} PROVE GoesOn(t)
      <3>1. Leads(t, r)
        BY <1>Gate, <2>1, <2>2 DEF Gate, Leads, At
      <3> QED BY <2>2, <3>1 DEF GoesOn
    <2> QED BY <1>Gate, <2>2 DEF Gate, r
  <1>LockToken. CASE LockToken(t)
    <2>1. ASSUME NEW i, With(t, [th[t] EXCEPT !.at = "renew", !.n = i]) PROVE GoesOn(t)
      <3> DEFINE r == [th[t] EXCEPT !.at = "renew", !.n = i]
      <3>1. DOMAIN r = Fields /\ r.at = "renew" /\ r.ask = th[t].ask /\ r.alone = th[t].alone
        BY <1>0 DEF Fields
      <3> HIDE DEF r
      <3>2. Leads(t, r)
        BY <1>LockToken, <3>1 DEF LockToken, Leads, At
      <3> QED BY <2>1, <3>2 DEF GoesOn, r
    <2> QED BY <1>LockToken, <2>1 DEF LockToken
  <1>Seed. CASE Seed(t)
    <2>1. ASSUME NEW p \in {"seed", "take"}, NEW i, With(t, [th[t] EXCEPT !.at = p, !.n = i])
          PROVE  GoesOn(t)
      <3> DEFINE r == [th[t] EXCEPT !.at = p, !.n = i]
      <3>1. /\ DOMAIN r = Fields /\ r.at = p /\ r.ask = th[t].ask /\ r.alone = th[t].alone
            /\ r.todo = th[t].todo
        BY <1>0 DEF Fields
      <3> HIDE DEF r
      <3>2. Leads(t, r)
        BY <1>Seed, <3>1 DEF Seed, Leads, At
      <3> QED BY <2>1, <3>2 DEF GoesOn, r
    <2> DEFINE end == th[t].n = Len(InPool[Pool(t)])
    <2>2. th[t].at = "seed"
      BY <1>Seed DEF Seed, At
    <2>3. \/ With(t, [th[t] EXCEPT !.at = IF end THEN "take" ELSE @,
                                   !.n = IF end THEN 0 ELSE @ + 1])
          \/ With(t, [th[t] EXCEPT !.at = "take", !.n = 0])
      BY <1>Seed DEF Seed
    <2> HIDE DEF end
    <2>4. CASE end
      BY <2>1, <2>3, <2>4
    <2>5. CASE ~ end
      <3>1. \/ With(t, [th[t] EXCEPT !.at = "seed", !.n = th[t].n + 1])
            \/ With(t, [th[t] EXCEPT !.at = "take", !.n = 0])
        BY <2>2, <2>3, <2>5
      <3> QED BY <2>1, <3>1
    <2> QED BY <2>4, <2>5
  <1>Take. CASE Take(t)
    <2>1. ASSUME NEW i, With(t, [th[t] EXCEPT !.at = "assign", !.n = i]) PROVE GoesOn(t)
      <3> DEFINE r == [th[t] EXCEPT !.at = "assign", !.n = i]
      <3>1. /\ DOMAIN r = Fields /\ r.at = "assign" /\ r.ask = th[t].ask /\ r.alone = th[t].alone
            /\ r.todo = th[t].todo
        BY <1>0 DEF Fields
      <3> HIDE DEF r
      <3>2. Leads(t, r)
        BY <1>Take, <3>1 DEF Take, Leads, At
      <3> QED BY <2>1, <3>2 DEF GoesOn, r
    <2>2. ASSUME With(t, [th[t] EXCEPT !.at = "pool", !.todo = Tail(@)]), Len(th[t].todo) # 1
          PROVE  GoesOn(t)
      <3> DEFINE r == [th[t] EXCEPT !.at = "pool", !.todo = Tail(@)]
      <3>1. /\ DOMAIN r = Fields /\ r.at = "pool" /\ r.ask = th[t].ask /\ r.alone = th[t].alone
            /\ r.todo = Tail(th[t].todo)
        BY <1>0 DEF Fields
      <3> HIDE DEF r
      <3>2. Leads(t, r)
        BY <1>Take, <2>2, <3>1 DEF Take, Leads, At
      <3> QED BY <2>2, <3>2 DEF GoesOn, r
    <2> QED BY <1>Take, <2>1, <2>2 DEF Take
  <1>SignIn. ASSUME NEW q \in asks, SignIn(t, q) PROVE Starts(t)
    BY <1>SignIn DEF SignIn, Starts
  <1>CallBack. ASSUME NEW q \in asks, CallBack(t, q) PROVE Starts(t)
    BY <1>CallBack DEF CallBack, Starts
  <1>UseToken. ASSUME NEW q \in asks, NEW i \in DOMAIN tokens, UseToken(t, q, i) PROVE Starts(t)
    BY <1>UseToken DEF UseToken, ValidToken, Starts
  <1>1. CASE Authenticate(t)
    BY <1>1, <1>SignIn, <1>CallBack, <1>UseToken, <1>RoleOf, <1>InsertTheUser,
       <1>InsertTheQuota, <1>Fails, <1>Gate
    DEF Authenticate
  <1>2. CASE AccountStep(t)
    BY <1>2, <1>LockUser, <1>SumDeposits, <1>DepositAndCommit, <1>DepositFails, <1>SetRole,
       <1>MintToken, <1>RenewToken, <1>DeleteToken, <1>NoToken, <1>StartStepUp,
       <1>Exchange, <1>Stamp, <1>LockToken
    DEF AccountStep
  <1>3. CASE ClusterStep(t)
    BY <1>3, <1>Dial, <1>Persist, <1>Undo, <1>NoteId, <1>Drop, <1>DeleteRow, <1>ReadConfig,
       <1>WriteConfig, <1>ReadPools, <1>FindPool, <1>Ensure, <1>AssignAndCommit,
       <1>Seed, <1>Take
    DEF ClusterStep
  <1> QED BY <1>1, <1>2, <1>3

\* Every step, seen by the threads.
LEMMA Moves ==
  ASSUME ThreadInv, [Next]_vars
  PROVE  \/ th' = th \/ Restart
         \/ \E t \in Threads : Starts(t) \/ Ends(t) \/ GoesOn(t)
  BY ThreadMoves DEF Next, Reauthenticate, StepUpAges, Ages, Cleanup, vars, server

-----------------------------------------------------------------------------
(* Configurations and pools                                                *)

ConfigRow == [name : Names, pools : Seq(Pools)]

\* First finds a configuration of the cluster.
LEMMA FirstIs ==
  ASSUME configs \in Seq(ConfigRow), NEW n \in Configured
  PROVE  /\ First(n) \in 1..Len(configs) /\ configs[First(n)].name = n
         /\ Config(n).pools \in Seq(Pools)
  <1> DEFINE T == {i \in 1..Len(configs) : configs[i].name = n}
  <1>1. Len(configs) \in Nat /\ DOMAIN configs = 1..Len(configs)
    OBVIOUS
  <1>2. T # {} /\ T \in SUBSET Nat
    BY <1>1 DEF Configured
  <1>3. PICK m \in T : \A k \in T : m <= k
    <2> HIDE DEF T
    <2> QED BY <1>2, Least
  <1>4. m \in 1..Len(configs) /\ configs[m].name = n
    BY <1>3
  <1>5. \A j \in 1..(m - 1) : configs[j].name # n
    <2> SUFFICES ASSUME NEW j \in 1..(m - 1), configs[j].name = n PROVE FALSE
      OBVIOUS
    <2>1. j \in 1..Len(configs) /\ ~ (m <= j)
      BY <1>1, <1>4
    <2>2. j \in T
      BY <2>1
    <2> QED BY <1>3, <2>1, <2>2
  <1>6. First(n) \in 1..Len(configs) /\ configs[First(n)].name = n
    BY <1>1, <1>4, <1>5 DEF First
  <1>7. configs[First(n)] \in ConfigRow
    BY <1>6
  <1> QED BY <1>6, <1>7 DEF Config, ConfigRow

\* f has what is left of the beginnings of s.
Rests(f, s, p) ==
  f = [i \in 0..Len(s) |->
        IF i = 0 THEN <<>> ELSE IF s[i] = p THEN f[i - 1] ELSE Append(f[i - 1], s[i])]

\* The definition of Without has a function to choose, and leaves pools.
LEMMA RestsExist ==
  ASSUME NEW s \in Seq(Pools), NEW p
  PROVE  \E f : Rests(f, s, p)
  <1> DEFINE n == Len(s)
             Next1(f, i) == IF s[i] = p THEN f[i - 1] ELSE Append(f[i - 1], s[i])
             Part(f, k) == /\ f \in [0..k -> Seq(Pools)] /\ f[0] = <<>>
                           /\ \A i \in 1..k : f[i] = Next1(f, i)
             S == {k \in 0..n : \E f : Part(f, k)}
  <1>0. n \in Nat /\ \A i \in 1..n : s[i] \in Pools
    OBVIOUS
  <1>1. 0 \in S
    <2>1. Part([i \in 0..0 |-> <<>>], 0)
      OBVIOUS
    <2>2. 0 \in 0..n
      BY <1>0
    <2> QED BY <2>1, <2>2
  <1>2. ASSUME NEW k \in 1..n, k - 1 \in S PROVE k \in S
    <2>1. PICK f : Part(f, k - 1)
      BY <1>2
    <2> DEFINE x == Next1(f, k)
               g == [i \in 0..k |-> IF i = k THEN x ELSE f[i]]
    <2>2. x \in Seq(Pools)
      <3>1. k - 1 \in 0..(k - 1) /\ s[k] \in Pools
        BY <1>0
      <3>2. f[k - 1] \in Seq(Pools)
        BY <2>1, <3>1
      <3> QED BY <3>1, <3>2
    <2>3. \A i \in 0..k : i # k => i \in 0..(k - 1)
      BY <1>0
    <2>4. g \in [0..k -> Seq(Pools)] /\ g[0] = <<>>
      <3> HIDE DEF x
      <3>1. \A i \in 0..k : g[i] \in Seq(Pools)
        BY <2>1, <2>2, <2>3
      <3>2. 0 \in 0..k /\ 0 # k
        BY <1>0
      <3> QED BY <2>1, <3>1, <3>2
    <2>5. ASSUME NEW i \in 1..k PROVE g[i] = Next1(g, i)
      <3>1. i \in 0..k /\ i - 1 \in 0..k /\ i - 1 # k /\ (i # k => i \in 1..(k - 1))
        BY <1>0
      <3>2. g[i - 1] = f[i - 1] /\ g[i] = IF i = k THEN x ELSE f[i]
        <4> HIDE DEF x
        <4> QED BY <3>1
      <3> QED BY <2>1, <3>1, <3>2
    <2> HIDE DEF g
    <2>6. Part(g, k)
      BY <2>4, <2>5
    <2>7. k \in 0..n
      BY <1>0
    <2> QED BY <2>6, <2>7
  <1> HIDE DEF S
  <1>3. n \in S
    <2>1. \A k \in 0..n : k \in S
      BY <1>0, <1>1, <1>2, UpTo
    <2> QED BY <1>0, <2>1
  <1>4. PICK f : Part(f, n)
    BY <1>3 DEF S
  <1>5. ASSUME NEW i \in 0..n PROVE f[i] = IF i = 0 THEN <<>> ELSE Next1(f, i)
    <2>1. i = 0 \/ i \in 1..n
      BY <1>0
    <2> QED BY <1>4, <1>0, <2>1
  <1>6. f = [i \in 0..n |-> IF i = 0 THEN <<>> ELSE Next1(f, i)]
    BY <1>4, <1>5
  <1> QED BY <1>6 DEF Rests

\* Without leaves pools.
LEMMA WithoutType ==
  ASSUME NEW s \in Seq(Pools), NEW p
  PROVE  Without(s, p) \in Seq(Pools)
  <1> DEFINE g == CHOOSE f : Rests(f, s, p)
             n == Len(s)
  <1>1. Rests(g, s, p)
    BY RestsExist
  <1>2. Without(s, p) = g[n]
    BY DEF Without, Rests
  <1> HIDE DEF g
  <1>3. n \in Nat /\ \A i \in 1..n : s[i] \in Pools
    OBVIOUS
  <1>4. /\ g[0] = <<>>
        /\ \A i \in 1..n : g[i] = IF s[i] = p THEN g[i - 1] ELSE Append(g[i - 1], s[i])
    <2>1. \A i \in 0..n : g[i] = IF i = 0 THEN <<>> ELSE IF s[i] = p THEN g[i - 1]
                                ELSE Append(g[i - 1], s[i])
      BY <1>1 DEF Rests
    <2>2. 0 \in 0..n /\ \A i \in 1..n : i \in 0..n /\ i # 0
      BY <1>3
    <2> QED BY <2>1, <2>2
  <1> DEFINE S == {i \in 0..n : g[i] \in Seq(Pools)}
  <1>5. 0 \in S
    <2>1. 0 \in 0..n /\ <<>> \in Seq(Pools)
      BY <1>3
    <2> QED BY <1>4, <2>1
  <1>6. ASSUME NEW k \in 1..n, k - 1 \in S PROVE k \in S
    <2>1. g[k - 1] \in Seq(Pools) /\ s[k] \in Pools /\ k \in 0..n
      BY <1>3, <1>6
    <2>2. g[k] = IF s[k] = p THEN g[k - 1] ELSE Append(g[k - 1], s[k])
      BY <1>4
    <2>3. g[k] \in Seq(Pools)
      <3> HIDE <1>4
      <3> QED BY <2>1, <2>2
    <2> QED BY <2>1, <2>3
  <1> HIDE DEF S
  <1>7. n \in S
    <2>1. \A k \in 0..n : k \in S
      BY <1>3, <1>5, <1>6, UpTo
    <2> QED BY <1>3, <2>1
  <1> QED BY <1>2, <1>7 DEF S

\* What RemoveAt leaves.
LEMMA RemoveAtIs ==
  ASSUME NEW S, NEW s \in Seq(S), NEW i \in 1..Len(s)
  PROVE  /\ RemoveAt(s, i) \in Seq(S) /\ Len(RemoveAt(s, i)) = Len(s) - 1
         /\ \A j \in 1..(Len(s) - 1) : RemoveAt(s, i)[j] = IF j < i THEN s[j] ELSE s[j + 1]
  <1> DEFINE n == Len(s)
             a == SubSeq(s, 1, i - 1)
             b == SubSeq(s, i + 1, n)
  <1>1. n \in Nat /\ i \in 1..n /\ \A j \in 1..n : s[j] \in S
    OBVIOUS
  <1>2. a \in Seq(S) /\ Len(a) = i - 1 /\ \A j \in 1..(i - 1) : a[j] = s[j]
    BY <1>1
  <1>3. b \in Seq(S) /\ Len(b) = n - i /\ \A j \in 1..(n - i) : b[j] = s[j + i]
    BY <1>1
  <1> HIDE DEF a, b
  <1>4. /\ a \o b \in Seq(S) /\ Len(a \o b) = n - 1
        /\ \A j \in 1..(n - 1) : (a \o b)[j] = IF j < i THEN s[j] ELSE s[j + 1]
    <2>1. a \o b \in Seq(S) /\ Len(a \o b) = n - 1
      <3>1. a \in Seq(S) /\ b \in Seq(S)
        BY <1>2, <1>3
      <3>2. a \o b \in Seq(S) /\ Len(a \o b) = Len(a) + Len(b)
        BY ONLY <3>1
      <3> QED BY <1>1, <1>2, <1>3, <3>2
    <2>2. ASSUME NEW j \in 1..(n - 1) PROVE (a \o b)[j] = IF j < i THEN s[j] ELSE s[j + 1]
      <3>1. (a \o b)[j] = IF j <= Len(a) THEN a[j] ELSE b[j - Len(a)]
        BY <1>1, <1>2, <1>3
      <3>2. CASE j < i
        BY <1>1, <1>2, <3>1, <3>2
      <3>3. CASE ~ (j < i)
        <4>1. ~ (j <= Len(a)) /\ j - Len(a) \in 1..(n - i) /\ (j - Len(a)) + i = j + 1
          BY <1>1, <1>2, <3>3
        <4> QED BY <1>3, <3>1, <3>3, <4>1
      <3> QED BY <3>2, <3>3
    <2> QED BY <2>1, <2>2
  <1> QED BY <1>4 DEF RemoveAt, a, b

\* SetToSeq makes a sequence of all of a finite set.
LEMMA SetToSeqIs ==
  ASSUME NEW S, IsFiniteSet(S)
  PROVE  /\ SetToSeq(S) \in Seq(S)
         /\ \A x \in S : \E i \in DOMAIN SetToSeq(S) : SetToSeq(S)[i] = x
  <1> DEFINE n == Cardinality(S)
             f == SetToSeq(S)
  <1>1. n \in Nat /\ ExistsBijection(1..n, S)
    BY FS_CardinalityType
  <1>2. PICK g \in [1..n -> S] : IsInjective(g)
    BY <1>1 DEF ExistsBijection, Bijection, Injection, IsInjective
  <1>3. f \in [1..n -> S] /\ IsInjective(f)
    BY <1>2 DEF SetToSeq
  <1> HIDE DEF f
  <1>4. f \in Injection(1..n, S)
    BY <1>3 DEF Injection, IsInjective
  <1>5. IsFiniteSet(1..n) /\ Cardinality(1..n) = n
    BY <1>1, FS_Interval
  <1>6. f \in Surjection(1..n, S)
    BY <1>4, <1>5, FS_Injection
  <1>7. \A x \in S : \E i \in 1..n : f[i] = x
    BY <1>6 DEF Surjection
  <1>8. f \in Seq(S) /\ DOMAIN f = 1..n
    BY <1>1, <1>3
  <1> QED BY <1>7, <1>8 DEF f

-----------------------------------------------------------------------------
(* The data of a thread                                                    *)

\* What the handlers accept: a batch is not empty, and an amount is positive.
Asked ==
  {q \in Request :
     /\ q.op \in {"topUp", "batchTopUp", "role", "batchRole"} => q.users # <<>>
     /\ q.op \in {"topUp", "batchTopUp"} => q.amount > 0}

\* What a thread has for the call it is at.
Form(r) ==
  /\ r.at \in Points
  /\ r.at = "idle" => r = Idle
  /\ r.at # "idle" => r.ask \in Asked
  /\ r.at \in {"lock", "sum", "deposit"} => r.ask.op \in {"topUp", "batchTopUp"}
  /\ r.at \in {"lock", "sum", "deposit", "setRole"} => r.todo \in Seq(Users) /\ r.todo # <<>>
  /\ r.at = "writeConfig" => r.todo \in Seq(Pools)
  /\ r.at \in {"pool", "ensure", "seed", "take", "assign"} =>
       r.todo \in Seq(Pools) /\ r.todo # <<>>
  /\ r.at = "stamp" => r.read \in {"recent", "stale"}

Forms == asks \subseteq Asked /\ \A t \in Threads : Form(th[t])

\* A thread that is not at work has the form.
LEMMA IdleForm == Form(Idle)
  BY DEF Form, Idle, Points

\* Nobody is at work when the process starts.
LEMMA FormsInit == Init => Forms
  BY IdleForm, ServerAssumption DEF Init, Forms, Asked

\* Sequences with more than one member.
LEMMA Longer ==
  ASSUME NEW S, NEW s \in Seq(S), s # <<>>, Len(s) # 1
  PROVE  Tail(s) \in Seq(S) /\ Tail(s) # <<>>
  <1>1. Len(s) \in Nat /\ Len(s) # 0
    OBVIOUS
  <1>2. Tail(s) \in Seq(S) /\ Len(Tail(s)) = Len(s) - 1
    OBVIOUS
  <1>3. Len(Tail(s)) # Len(<<>>)
    BY <1>1, <1>2
  <1> QED BY <1>2, <1>3

\* A request goes on with the form.
LEMMA FormKept ==
  ASSUME ThreadInv, Forms, configs \in Seq(ConfigRow), NEW t \in Threads, NEW r, Leads(t, r)
  PROVE  Form(r)
  <1> DEFINE q == Ask(t)
  <1>1. Form(th[t]) /\ th[t].at # "idle" /\ r.ask = q /\ th[t].ask = q
    BY DEF Forms, Leads, Ask
  <1>2. q \in Asked /\ q \in Request /\ r.ask \in Asked
    BY <1>1 DEF Form, Asked
  <1>3. q.op \in Ops /\ q.users \in Seq(Users) /\ q.cluster \in Names /\ q.pool \in Pools
    BY <1>2 DEF Request
  <1> HIDE DEF q
  <1>4. CASE r.at \in {"gate", "insertQuota", "renew", "persist", "setId", "undo", "deleteRow"}
    BY <1>2, <1>4 DEF Form, Points
  <1>5. CASE r.at = "stamp" /\ r.read \in {"recent", "stale"}
    BY <1>2, <1>5 DEF Form, Points
  <1>6. CASE At(t, "gate") /\ q.op \notin {"visit", "callback"} /\ r.at = FirstPoint(q.op)
             /\ r.todo = q.users
    <2>1. /\ r.at \in {"lock", "setRole", "mint", "lockToken", "delete", "start", "dial", "drop",
                       "readConfig", "readPools"}
          /\ r.at = "lock" => q.op \in {"topUp", "batchTopUp"}
          /\ r.at = "setRole" => q.op \in {"role", "batchRole"}
      BY <1>3, <1>6 DEF FirstPoint, Ops
    <2>2. r.at \in {"lock", "setRole"} => q.users # <<>>
      BY <1>2, <2>1 DEF Asked
    <2> QED BY <1>1, <1>2, <1>3, <1>6, <2>1, <2>2 DEF Form, Points
  <1>7. CASE /\ r.at \in {"lock", "setRole"} /\ Len(th[t].todo) # 1 /\ r.todo = Tail(th[t].todo)
             /\ th[t].at \in {"lock", "sum", "deposit", "setRole"}
             /\ r.at = "lock" => th[t].at \in {"lock", "sum", "deposit"}
    <2>1. th[t].todo \in Seq(Users) /\ th[t].todo # <<>>
      BY <1>1, <1>7 DEF Form
    <2>2. r.todo \in Seq(Users) /\ r.todo # <<>>
      BY <1>7, <2>1, Longer
    <2>3. r.at = "lock" => r.ask.op \in {"topUp", "batchTopUp"}
      BY <1>1, <1>7 DEF Form
    <2> QED BY <1>2, <1>7, <2>2, <2>3 DEF Form, Points
  <1>8. CASE /\ r.at \in {"sum", "deposit"} /\ th[t].at \in {"lock", "sum"} /\ r.todo = th[t].todo
    BY <1>1, <1>2, <1>8 DEF Form, Points
  <1>9. CASE /\ r.at \in {"writeConfig"} /\ Cluster(t) \in Configured
             /\ r.todo \in {Append(Config(Cluster(t)).pools, Ask(t).pool),
                            Without(Config(Cluster(t)).pools, Ask(t).pool)}
    <2>1. Config(Cluster(t)).pools \in Seq(Pools) /\ Ask(t).pool \in Pools
      BY <1>3, <1>9, FirstIs DEF q
    <2>2. /\ Append(Config(Cluster(t)).pools, Ask(t).pool) \in Seq(Pools)
          /\ Without(Config(Cluster(t)).pools, Ask(t).pool) \in Seq(Pools)
      BY ONLY <2>1, WithoutType
    <2>3. r.todo \in Seq(Pools)
      BY <1>9, <2>2
    <2> QED BY <1>2, <1>9, <2>3 DEF Form, Points
  <1>10. CASE /\ r.at = "pool" /\ Cluster(t) \in Configured
              /\ r.todo = Config(Cluster(t)).pools /\ r.todo # <<>>
    <2>1. r.todo \in Seq(Pools)
      BY <1>10, FirstIs
    <2> QED BY <1>2, <1>10, <2>1 DEF Form, Points
  <1>11. CASE r.at = "pool" /\ At(t, "take") /\ Len(th[t].todo) # 1 /\ r.todo = Tail(th[t].todo)
    <2>1. th[t].todo \in Seq(Pools) /\ th[t].todo # <<>>
      BY <1>1, <1>11 DEF Form, At
    <2>2. r.todo \in Seq(Pools) /\ r.todo # <<>>
      BY <1>11, <2>1, Longer
    <2> QED BY <1>2, <1>11, <2>2 DEF Form, Points
  <1>12. CASE /\ th[t].at \in {"pool", "ensure", "seed", "take"}
              /\ r.at \in {"ensure", "seed", "take", "assign"} /\ r.todo = th[t].todo
    BY <1>1, <1>2, <1>12 DEF Form, Points
  <1> QED
    BY <1>4, <1>5, <1>6, <1>7, <1>8, <1>9, <1>10, <1>11, <1>12
    DEF Leads, LockUser, SumDeposits, At, q

\* What a step does to the threads that are not its own: a new request for their
\* cluster leaves them not alone.
LEMMA Others ==
  ASSUME ThreadInv, NEW t \in Threads, NEW s \in Threads \ {t},
         Starts(t) \/ Ends(t) \/ GoesOn(t)
  PROVE  /\ th'[s].at = th[s].at /\ th'[s].ask = th[s].ask /\ th'[s].read = th[s].read
         /\ th'[s].todo = th[s].todo /\ th'[s].n = th[s].n
         /\ th'[s].alone => th[s].alone
         /\ th[s].ask = None \/ ~ Starts(t) => th'[s] = th[s]
  <1>1. DOMAIN th = Threads /\ DOMAIN th[s] = Fields
    BY DEF ThreadInv
  <1>2. CASE Ends(t) \/ GoesOn(t)
    <2>1. th'[s] = th[s]
      BY <1>1, <1>2 DEF Ends, GoesOn, With
    <2> QED BY <2>1
  <1>3. ASSUME NEW q, NEW p, NEW r, Begin(t, q, p, r)
        PROVE  th'[s] = IF th[s].ask # None /\ Ask(s).cluster = q.cluster
                        THEN [th[s] EXCEPT !.alone = FALSE] ELSE th[s]
    BY <1>3 DEF Begin, Crowd
  <1>4. CASE Starts(t)
    <2>1. th'[s] = th[s] \/ (th[s].ask # None /\ th'[s] = [th[s] EXCEPT !.alone = FALSE])
      BY <1>3, <1>4 DEF Starts
    <2> QED BY <1>1, <1>4, <2>1 DEF Fields
  <1> QED BY <1>2, <1>4

\* What a new request is.
LEMMA Begun ==
  ASSUME ThreadInv, NEW t \in Threads, NEW q, NEW p, NEW r, Begin(t, q, p, r)
  PROVE  /\ th[t].at = "idle"
         /\ th'[t].at = p /\ th'[t].ask = q /\ th'[t].read = r
         /\ th'[t].alone => \A s \in Threads : th[s].ask = None \/ Ask(s).cluster # q.cluster
         /\ DOMAIN th'[t] = Fields
  BY DEF Begin, Crowd, Idle, Fields, ThreadInv, At

\* Every step keeps the forms.
LEMMA FormsStep == ThreadInv /\ Forms /\ configs \in Seq(ConfigRow) /\ [Next]_vars => Forms'
  <1> SUFFICES ASSUME ThreadInv, Forms, configs \in Seq(ConfigRow), [Next]_vars PROVE Forms'
    OBVIOUS
  <1>1. asks' = asks
    <2>1. ASSUME NEW t \in Threads, Authenticate(t) \/ AccountStep(t) \/ ClusterStep(t)
          PROVE  asks' = asks
      BY <2>1
      DEF Authenticate, SignIn, CallBack, UseToken, Begin, RoleOf, InsertTheUser, InsertTheQuota,
          Gate, Fails, AccountStep, LockUser, SumDeposits, DepositAndCommit, DepositFails,
          SetRole, MintToken, LockToken, RenewToken, DeleteToken, NoToken, StartStepUp, Exchange,
          Stamp, ClusterStep, Dial, Persist, Undo, NoteId, Drop, DeleteRow, ReadConfig,
          WriteConfig, ReadPools, FindPool, Ensure, Seed, Take, AssignAndCommit, Other
    <2> QED BY <2>1 DEF Next, Reauthenticate, StepUpAges, Ages, Cleanup, Restart, vars, server
  <1>2. ASSUME NEW t \in Threads, Starts(t) \/ Ends(t) \/ GoesOn(t), NEW s \in Threads
        PROVE  Form(th'[s])
    <2>0. DOMAIN th = Threads /\ Form(th[s]) /\ Form(th[t])
      BY DEF ThreadInv, Forms
    <2>1. CASE s # t
      <3>1. CASE th[s].at = "idle"
        <4>1. th[s].ask = None
          BY <2>0, <3>1 DEF Form, Idle
        <4> QED BY <1>2, <2>0, <2>1, <4>1, Others
      <3>2. CASE th[s].at # "idle"
        <4>1. /\ th'[s].at = th[s].at /\ th'[s].ask = th[s].ask /\ th'[s].read = th[s].read
              /\ th'[s].todo = th[s].todo
          BY <1>2, <2>1, Others
        <4> QED BY <2>0, <3>2, <4>1 DEF Form
      <3> QED BY <3>1, <3>2
    <2>2. CASE s = t /\ Ends(t)
      BY <2>0, <2>2, IdleForm DEF Ends
    <2>3. CASE s = t /\ GoesOn(t)
      <3>1. PICK r : With(t, r) /\ Leads(t, r)
        BY <2>3 DEF GoesOn
      <3>2. th'[t] = r
        BY <2>0, <3>1 DEF With
      <3> QED BY <2>3, <3>1, <3>2, FormKept
    <2>4. CASE s = t /\ Starts(t)
      <3>1. PICK q \in asks : \E p \in {"insertUser", "exchange", "gate", "roleOf"} :
                                \E r : Begin(t, q, p, r)
        BY <2>4 DEF Starts
      <3>2. PICK p \in {"insertUser", "exchange", "gate", "roleOf"} : \E r : Begin(t, q, p, r)
        BY <3>1
      <3>3. th'[t].at = p /\ th'[t].ask = q
        <4>1. PICK r : Begin(t, q, p, r)
          BY <3>2
        <4>2. th'[t].at = p /\ th'[t].ask = q
          BY <4>1, Begun
        <4> QED BY <4>2
      <3>4. q \in Asked
        BY DEF Forms
      <3> QED BY <2>4, <3>3, <3>4 DEF Form, Points
    <2> QED BY <1>2, <2>1, <2>2, <2>3, <2>4
  <1>3. CASE th' = th
    BY <1>1, <1>3 DEF Forms
  <1>4. CASE Restart
    BY <1>1, <1>4, IdleForm DEF Restart, Forms
  <1> QED BY <1>1, <1>2, <1>3, <1>4, Moves DEF Forms

-----------------------------------------------------------------------------
(* Deposits                                                                *)

Pays(t) == th[t].at \in {"sum", "deposit"}

\* A user's row is locked by one top-up, and what that one has found to fit still fits.
MoneyInv ==
  /\ deposits \in [Users -> Seq(1..Cap)]
  /\ \A u \in Users : Total(deposits[u]) <= Cap
  /\ \A t \in Threads : At(t, "deposit") =>
       Total(deposits[Head(th[t].todo)]) + Ask(t).amount <= Cap
  /\ \A t, s \in Threads : t # s /\ Pays(t) /\ Pays(s) => Head(th[t].todo) # Head(th[s].todo)

\* Sequences over a set are sequences over a larger one.
LEMMA SeqWider ==
  ASSUME NEW S, NEW T, S \subseteq T, NEW s \in Seq(S)
  PROVE  s \in Seq(T)
  <1>1. Len(s) \in Nat /\ s \in [1..Len(s) -> S]
    OBVIOUS
  <1>2. s \in [1..Len(s) -> T]
    BY <1>1
  <1> QED BY <1>1, <1>2

\* Nothing is deposited at first.
LEMMA MoneyInit == Init => MoneyInv
  <1>1. <<>> \in Seq(1..Cap)
    OBVIOUS
  <1> QED BY <1>1, AccountsAssumption, TotalOfNone DEF Init, MoneyInv, Idle, At, Pays

\* Nobody else writes deposits.
LEMMA MoneyFrame ==
  ASSUME [Next]_vars
  PROVE  \/ UNCHANGED deposits
         \/ \E t \in Threads : DepositAndCommit(t)
         \/ \E u \in Users : DayPasses(u) /\ th' = th
  <1>1. ASSUME NEW t \in Threads, Authenticate(t) PROVE UNCHANGED deposits
    BY <1>1
    DEF Authenticate, SignIn, CallBack, UseToken, Begin, RoleOf, InsertTheUser, InsertUser,
        InsertTheQuota, InsertQuota, Gate, Fails, Other, accounts
  <1>2. ASSUME NEW t \in Threads, AccountStep(t), ~ DepositAndCommit(t) PROVE UNCHANGED deposits
    BY <1>2
    DEF AccountStep, LockUser, SumDeposits, DepositFails, SetRole, UpdateRole, MintToken, Create,
        LockToken, RenewToken, Renew, DeleteToken, Delete, NoToken, StartStepUp, Exchange, Stamp,
        SetStepUpAuthAt, accounts
  <1>3. ASSUME NEW t \in Threads, ClusterStep(t) PROVE UNCHANGED deposits
    <2>1. CASE Dial(t) \/ Persist(t) \/ Undo(t) \/ NoteId(t) \/ Drop(t) \/ DeleteRow(t)
      BY <2>1 DEF Dial, Persist, Undo, NoteId, Drop, DeleteRow, accounts
    <2>2. CASE ~ (Dial(t) \/ Persist(t) \/ Undo(t) \/ NoteId(t) \/ Drop(t) \/ DeleteRow(t))
      BY <1>3, <2>2
      DEF ClusterStep, ReadConfig, WriteConfig, ReadPools, FindPool, Ensure, Seed, Take,
          AssignAndCommit, accounts
    <2> QED BY <2>1, <2>2
  <1>4. ASSUME NEW u \in Users, Reauthenticate(u) \/ StepUpAges(u) PROVE UNCHANGED deposits
    BY <1>4 DEF Reauthenticate, StepUpAges, accounts
  <1>5. CASE Ages
    BY <1>5 DEF Ages, StampAges, TokenAges
  <1>6. CASE Restart \/ Cleanup \/ UNCHANGED vars
    BY <1>6 DEF Restart, Cleanup, DeleteExpiredBefore, vars, accounts
  <1> QED BY <1>1, <1>2, <1>3, <1>4, <1>5, <1>6 DEF Next

\* Who has a user's row locked has had it, or found it free.
LEMMA Payers ==
  ASSUME ThreadInv, Forms, [Next]_vars, NEW s \in Threads, Pays(s)'
  PROVE  /\ th'[s].todo = th[s].todo /\ th'[s].ask = th[s].ask
         /\ \/ Pays(s)
            \/ /\ UserFree(s, Head(th[s].todo)) /\ \A r \in Threads \ {s} : th'[r] = th[r]
         /\ \/ th'[s].at = th[s].at
            \/ th'[s].at = "sum"
            \/ /\ UNCHANGED deposits
               /\ ~ OverCap(Total(deposits[Head(th[s].todo)]), Ask(s).amount)
  <1>1. CASE th' = th
    BY <1>1 DEF Pays
  <1>2. CASE Restart
    BY <1>2 DEF Restart, Pays, Idle
  <1>3. ASSUME NEW t \in Threads \ {s}, Starts(t) \/ Ends(t) \/ GoesOn(t)
        PROVE  th'[s].todo = th[s].todo /\ th'[s].ask = th[s].ask /\ th'[s].at = th[s].at
    BY <1>3, Others
  <1>4. CASE Starts(s)
    <2>1. PICK q \in asks, p \in {"insertUser", "exchange", "gate", "roleOf"} :
            \E r : Begin(s, q, p, r)
      BY <1>4 DEF Starts
    <2>2. PICK r : Begin(s, q, p, r)
      BY <2>1
    <2>3. th'[s].at = p
      BY <2>2, Begun
    <2> QED BY <2>3 DEF Pays
  <1>5. CASE Ends(s)
    BY <1>5 DEF Ends, Pays, Idle, ThreadInv
  <1>6. CASE GoesOn(s)
    <2>1. PICK r : With(s, r) /\ Leads(s, r)
      BY <1>6 DEF GoesOn
    <2>2. th'[s] = r /\ \A v \in Threads \ {s} : th'[v] = th[v]
      BY <2>1 DEF With, ThreadInv
    <2>3. r.at \in {"sum", "deposit"} /\ r.ask = th[s].ask
      BY <2>1, <2>2 DEF Pays, Leads
    <2>4. At(s, "gate") /\ Ask(s).op \notin {"visit", "callback"} =>
            FirstPoint(Ask(s).op) \notin {"sum", "deposit"}
      <3>1. At(s, "gate") => Ask(s).op \in Ops
        BY DEF At, ThreadInv, Ask, Request
      <3> QED BY <3>1 DEF FirstPoint, Ops
    <2>5. CASE r.at = "sum" /\ LockUser(s) /\ r.todo = th[s].todo
      BY <2>2, <2>3, <2>5 DEF LockUser, At
    <2>6. CASE /\ r.at = "deposit" /\ SumDeposits(s) /\ r.todo = th[s].todo
               /\ ~ OverCap(Total(deposits[Head(th[s].todo)]), Ask(s).amount)
      BY <2>2, <2>3, <2>6 DEF SumDeposits, At, Pays, accounts
    <2> QED BY <2>1, <2>3, <2>4, <2>5, <2>6 DEF Leads
  <1> QED BY <1>1, <1>2, <1>3, <1>4, <1>5, <1>6, Moves DEF Pays

\* A top-up is of somebody, by some amount.
LEMMA PayersHave ==
  ASSUME Forms, NEW t \in Threads, Pays(t)
  PROVE  Head(th[t].todo) \in Users /\ Ask(t).amount \in Nat /\ Ask(t).amount > 0
  <1>1. Form(th[t]) /\ Ask(t) = th[t].ask
    BY DEF Forms, Ask
  <1>2. /\ th[t].todo \in Seq(Users) /\ th[t].todo # <<>>
        /\ Ask(t) \in Asked /\ Ask(t).op \in {"topUp", "batchTopUp"}
    BY <1>1 DEF Form, Pays
  <1>3. Head(th[t].todo) \in Users
    <2>1. \A z \in Seq(Users) : z # <<>> => Head(z) \in Users
      OBVIOUS
    <2> QED BY <1>2, <2>1
  <1>4. Ask(t).amount \in Nat /\ Ask(t).amount > 0
    BY <1>2 DEF Asked, Request
  <1> QED BY <1>3, <1>4

\* Every step keeps the deposits under the cap.
LEMMA MoneyStep == ThreadInv /\ Forms /\ MoneyInv /\ Forms' /\ [Next]_vars => MoneyInv'
  <1> SUFFICES ASSUME ThreadInv, Forms, MoneyInv, Forms', [Next]_vars PROVE MoneyInv'
    OBVIOUS
  <1>1. ASSUME NEW t \in Threads, NEW s \in Threads, t # s, Pays(t)', Pays(s)'
        PROVE  Head(th'[t].todo) # Head(th'[s].todo)
    <2>1. CASE Pays(t) /\ Pays(s)
      BY <1>1, <2>1, Payers DEF MoneyInv
    <2>2. ASSUME NEW a \in Threads, NEW b \in Threads, a # b, Pays(a)', Pays(b)', ~ Pays(a)
          PROVE  Head(th'[a].todo) # Head(th'[b].todo)
      <3>1. UserFree(a, Head(th[a].todo)) /\ th'[b] = th[b] /\ th'[a].todo = th[a].todo
        BY <2>2, Payers
      <3> QED BY <2>2, <3>1 DEF UserFree, Pays
    <2> QED BY <1>1, <2>1, <2>2
  <1>2. ASSUME NEW u \in Users PROVE deposits[u] \in Seq(Nat) /\ deposits[u] \in Seq(Int)
                                      /\ Total(deposits[u]) \in Nat
    <2>1. deposits[u] \in Seq(1..Cap)
      BY DEF MoneyInv
    <2>2. deposits[u] \in Seq(Nat)
      <3>1. 1..Cap \subseteq Nat
        OBVIOUS
      <3> QED BY ONLY <2>1, <3>1, SeqWider
    <2>3. deposits[u] \in Seq(Int)
      <3>1. 1..Cap \subseteq Int
        OBVIOUS
      <3> QED BY ONLY <2>1, <3>1, SeqWider
    <2> QED BY <2>2, <2>3, TotalType
  <1>3. Cap \in Nat
    BY AccountsAssumption
  <1>4. ASSUME NEW t \in Threads, At(t, "deposit")', ~ At(t, "deposit")
        PROVE  Total(deposits'[Head(th'[t].todo)]) + Ask(t)'.amount <= Cap
    <2>1. Pays(t)' /\ th[t].at # th'[t].at /\ th'[t].at # "sum"
      BY <1>4 DEF At, Pays
    <2>2. /\ th'[t].todo = th[t].todo /\ th'[t].ask = th[t].ask /\ deposits' = deposits
          /\ ~ OverCap(Total(deposits[Head(th[t].todo)]), Ask(t).amount)
      BY <2>1, Payers
    <2>3. Head(th'[t].todo) \in Users /\ Ask(t)'.amount \in Nat
      BY <2>1, PayersHave DEF Forms, Form, Asked, Request, Pays, Ask
    <2> QED BY <1>2, <1>3, <2>2, <2>3 DEF OverCap, Ask
  <1>5. CASE UNCHANGED deposits
    <2>1. ASSUME NEW t \in Threads, At(t, "deposit")'
          PROVE  Total(deposits'[Head(th'[t].todo)]) + Ask(t)'.amount <= Cap
      <3>1. CASE At(t, "deposit")
        <4>1. Pays(t)'
          BY <2>1 DEF At, Pays
        <4>2. th'[t].todo = th[t].todo /\ th'[t].ask = th[t].ask
          BY <4>1, Payers
        <4> QED BY <1>5, <3>1, <4>2 DEF MoneyInv, Ask
      <3> QED BY <1>4, <2>1, <3>1
    <2> QED BY <1>1, <1>5, <2>1 DEF MoneyInv
  <1>6. ASSUME NEW t \in Threads, DepositAndCommit(t) PROVE MoneyInv'
    <2> DEFINE u == Head(th[t].todo)
               a == Ask(t).amount
    <2>1. At(t, "deposit") /\ Pays(t) /\ deposits' = [deposits EXCEPT ![u] = Append(@, a)]
      BY <1>6 DEF DepositAndCommit, Deposit, At, Pays
    <2>2. u \in Users /\ a \in Nat /\ a > 0
      BY <2>1, PayersHave
    <2>3. Total(deposits[u]) + a <= Cap
      BY <2>1 DEF MoneyInv
    <2> HIDE DEF u, a
    <2>4. a \in 1..Cap /\ a \in Int
      BY <1>2, <1>3, <2>2, <2>3
    <2>5. deposits \in [Users -> Seq(1..Cap)]
      BY DEF MoneyInv
    <2>6. deposits' \in [Users -> Seq(1..Cap)]
      <3>1. Append(deposits[u], a) \in Seq(1..Cap)
        BY <2>2, <2>4, <2>5
      <3> QED BY <2>1, <2>5, <3>1
    <2>7. /\ deposits'[u] = Append(deposits[u], a)
          /\ \A v \in Users : v # u => deposits'[v] = deposits[v]
      BY <2>1, <2>2, <2>5
    <2>8. Total(deposits'[u]) <= Cap
      BY <1>2, <2>2, <2>3, <2>4, <2>7, TotalOfAppend
    <2>9. ~ Pays(t)' \/ th'[t].at = "lock" \/ th'[t].at = "idle"
      <3>1. NextUser(t, "lock") /\ DOMAIN th = Threads /\ DOMAIN th[t] = Fields
        BY <1>6 DEF DepositAndCommit, ThreadInv
      <3>2. CASE Ends(t)
        BY <3>1, <3>2 DEF Ends, Idle
      <3>3. CASE With(t, [th[t] EXCEPT !.at = "lock", !.todo = Tail(@), !.n = 0])
        BY <3>1, <3>3 DEF With, Fields
      <3> QED BY <3>1, <3>2, <3>3 DEF NextUser
    <2>10. ASSUME NEW s \in Threads, At(s, "deposit")'
           PROVE  Total(deposits'[Head(th'[s].todo)]) + Ask(s)'.amount <= Cap
      <3>1. CASE At(s, "deposit")
        <4>1. Pays(s)' /\ Pays(s) /\ s # t
          BY <2>9, <2>10, <3>1 DEF At, Pays
        <4>2. th'[s].todo = th[s].todo /\ th'[s].ask = th[s].ask
          BY <4>1, Payers
        <4>3. Head(th[s].todo) # u /\ Head(th[s].todo) \in Users
          BY <2>1, <4>1, PayersHave DEF MoneyInv, u
        <4> QED BY <2>7, <3>1, <4>2, <4>3 DEF MoneyInv, Ask
      <3> QED BY <1>4, <2>10, <3>1
    <2> QED BY <1>1, <2>6, <2>7, <2>8, <2>10 DEF MoneyInv
  <1>7. ASSUME NEW u \in Users, DayPasses(u), th' = th PROVE MoneyInv'
    <2>1. deposits[u] # <<>> /\ deposits' = [deposits EXCEPT ![u] = Tail(@)]
      BY <1>7 DEF DayPasses
    <2>2. deposits \in [Users -> Seq(1..Cap)]
      BY DEF MoneyInv
    <2>3. Tail(deposits[u]) \in Seq(1..Cap) /\ deposits[u] \in Seq(1..Cap)
      BY <2>1, <2>2
    <2>4. deposits' \in [Users -> Seq(1..Cap)]
      BY <2>1, <2>2, <2>3
    <2>5. deposits'[u] = Tail(deposits[u]) /\ \A v \in Users : v # u => deposits'[v] = deposits[v]
      BY <2>1, <2>2
    <2>6. Tail(deposits[u]) \in Seq(Nat)
      <3>1. 1..Cap \subseteq Nat
        OBVIOUS
      <3> QED BY ONLY <2>3, <3>1, SeqWider
    <2>7. \A v \in Users : Total(deposits'[v]) <= Total(deposits[v]) /\ Total(deposits'[v]) \in Nat
      <3>1. Total(deposits'[u]) <= Total(deposits[u]) /\ Total(deposits'[u]) \in Nat
        BY <1>2, <2>1, <2>5, <2>6, TotalOfTail, TotalType
      <3> QED BY <1>2, <2>5, <3>1
    <2>8. \A v \in Users : Total(deposits'[v]) <= Cap
      BY <1>2, <1>3, <2>7 DEF MoneyInv
    <2>9. ASSUME NEW s \in Threads, At(s, "deposit")'
          PROVE  Total(deposits'[Head(th'[s].todo)]) + Ask(s)'.amount <= Cap
      <3>1. At(s, "deposit") /\ Pays(s) /\ Ask(s)' = Ask(s) /\ th'[s].todo = th[s].todo
        BY <1>7, <2>9 DEF At, Pays, Ask
      <3>2. Head(th[s].todo) \in Users /\ Ask(s).amount \in Nat
        BY <3>1, PayersHave
      <3>3. Total(deposits[Head(th[s].todo)]) + Ask(s).amount <= Cap
        BY <3>1 DEF MoneyInv
      <3> QED BY <1>2, <1>3, <2>7, <3>1, <3>2, <3>3
    <2> QED BY <1>1, <2>4, <2>8, <2>9 DEF MoneyInv
  <1> QED BY <1>5, <1>6, <1>7, MoneyFrame

-----------------------------------------------------------------------------
(* Clusters                                                                *)

\* Nobody else writes rows, pools and the manager, or says what is kept.
LEMMA RegistryFrame ==
  ASSUME [Next]_vars
  PROVE  \/ UNCHANGED <<registry, kept>>
         \/ \E t \in Threads : \/ Dial(t) \/ Persist(t) \/ Undo(t) \/ NoteId(t) \/ Drop(t)
                               \/ DeleteRow(t) \/ WriteConfig(t) \/ Ensure(t) \/ Seed(t)
                               \/ AssignAndCommit(t)
         \/ Restart
  <1>1. ASSUME NEW t \in Threads, Authenticate(t) PROVE UNCHANGED <<registry, kept>>
    BY <1>1
    DEF Authenticate, SignIn, CallBack, UseToken, Begin, RoleOf, InsertTheUser, InsertTheQuota,
        Gate, Fails, Other
  <1>2. ASSUME NEW t \in Threads, AccountStep(t) PROVE UNCHANGED <<registry, kept>>
    BY <1>2
    DEF AccountStep, LockUser, SumDeposits, DepositAndCommit, DepositFails, SetRole, MintToken,
        LockToken, RenewToken, DeleteToken, NoToken, StartStepUp, Exchange, Stamp, Other
  <1>3. ASSUME NEW t \in Threads, ReadConfig(t) \/ ReadPools(t) \/ FindPool(t) \/ Take(t)
        PROVE  UNCHANGED <<registry, kept>>
    BY <1>3 DEF ReadConfig, ReadPools, FindPool, Take, Other
  <1>4. ASSUME NEW u \in Users, Reauthenticate(u) \/ StepUpAges(u)
        PROVE  UNCHANGED <<registry, kept>>
    BY <1>4 DEF Reauthenticate, StepUpAges
  <1>5. CASE Ages \/ Cleanup \/ UNCHANGED vars
    BY <1>5 DEF Ages, Cleanup, vars, server
  <1> QED BY <1>1, <1>2, <1>3, <1>4, <1>5 DEF Next, ClusterStep

\* The rows and the manager have their types, and a pool has a row only where a cluster
\* had one.
Reg == RegistryTypeOK /\ (poolRow # {} => serial >= 1)

\* A cluster has two configurations.
Twice(n) == \E i, j \in DOMAIN configs : i # j /\ configs[i].name = n /\ configs[j].name = n

\* A cluster that is added is configured.
LEMMA AddToManagerIs ==
  ASSUME Reg, NEW n \in Names, NEW pools \in Seq(Pools), AddToManager(n, pools)
  PROVE  /\ Reg' /\ Configured' = Configured \cup {n} /\ UNCHANGED <<row, serial, source, ids>>
         /\ Len(configs') = Len(configs) + 1 /\ configs'[Len(configs) + 1].name = n
         /\ \A i \in 1..Len(configs) : configs'[i] = configs[i]
  <1> DEFINE c == [name |-> n, pools |-> pools]
  <1>1. configs \in Seq(ConfigRow) /\ c \in ConfigRow /\ configs' = Append(configs, c) /\ c.name = n
    BY DEF Reg, RegistryTypeOK, ConfigRow, AddToManager
  <1> HIDE DEF c
  <1>2. /\ Len(configs) \in Nat /\ Len(configs') = Len(configs) + 1
        /\ configs' \in Seq(ConfigRow) /\ configs'[Len(configs) + 1] = c
        /\ \A i \in 1..Len(configs) : configs'[i] = configs[i]
    BY <1>1
  <1>3. DOMAIN configs = 1..Len(configs) /\ DOMAIN configs' = 1..(Len(configs) + 1)
    BY <1>1, <1>2
  <1>4. \A i \in DOMAIN configs' : i \in DOMAIN configs \/ i = Len(configs) + 1
    BY <1>2, <1>3
  <1>5. DOMAIN configs \subseteq DOMAIN configs' /\ Len(configs) + 1 \in DOMAIN configs'
    BY <1>2, <1>3
  <1>6. Configured' = Configured \cup {n}
    <2>1. \A x : x \in Configured' <=> x \in Configured \/ x = n
      BY <1>1, <1>2, <1>3, <1>4, <1>5 DEF Configured
    <2> QED BY <2>1
  <1>7. /\ UNCHANGED <<row, serial, referenced, source, ids, poolRow, address>>
        /\ clients' = clients \cup {n}
    BY DEF AddToManager
  <1> QED BY <1>1, <1>2, <1>6, <1>7 DEF Reg, RegistryTypeOK, Rows, ConfigRow

\* A cluster that is removed has one configuration less, and the others have theirs.
LEMMA RemoveFromManagerIs ==
  ASSUME Reg, NEW n \in Names, RemoveFromManager(n)
  PROVE  /\ Reg' /\ UNCHANGED <<row, serial, source, ids>> /\ clients' = clients \ {n}
         /\ configs' = IF n \in Configured THEN RemoveAt(configs, First(n)) ELSE configs
         /\ Configured \ {n} \subseteq Configured'
         /\ \A m : Twice(m) => m \in Configured' /\ (m # n => Twice(m)')
  <1> DEFINE k == First(n)
             c == RemoveAt(configs, k)
             s(i) == IF i < k THEN i ELSE i - 1
  <1>1. configs \in Seq(ConfigRow) /\ clients \subseteq Configured
    BY DEF Reg, RegistryTypeOK, ConfigRow
  <1>2. /\ UNCHANGED <<row, serial, referenced, source, ids, poolRow, address>>
        /\ clients' = clients \ {n}
        /\ configs' = IF n \in Configured THEN c ELSE configs
    BY DEF RemoveFromManager
  <1>3. DOMAIN configs = 1..Len(configs) /\ Len(configs) \in Nat
    BY <1>1
  <1>4. ASSUME n \in Configured
        PROVE  /\ configs' \in Seq(ConfigRow) /\ configs' = c
               /\ k \in 1..Len(configs) /\ configs[k].name = n
               /\ \A i \in DOMAIN configs : i # k =>
                    s(i) \in DOMAIN configs' /\ configs'[s(i)] = configs[i]
    <2>1. k \in 1..Len(configs) /\ configs[k].name = n
      BY <1>1, <1>4, FirstIs
    <2> HIDE DEF k
    <2>2. /\ c \in Seq(ConfigRow) /\ Len(c) = Len(configs) - 1
          /\ \A j \in 1..(Len(configs) - 1) : c[j] = IF j < k THEN configs[j] ELSE configs[j + 1]
      BY <1>1, <2>1, RemoveAtIs
    <2>3. configs' = c
      BY <1>2, <1>4 DEF k
    <2> HIDE DEF c
    <2>4. DOMAIN c = 1..(Len(configs) - 1)
      BY <2>2
    <2>5. ASSUME NEW i \in DOMAIN configs, i # k
          PROVE  s(i) \in DOMAIN c /\ c[s(i)] = configs[i]
      <3>1. CASE i < k
        BY <1>3, <2>1, <2>2, <2>4, <3>1
      <3>2. CASE ~ (i < k)
        <4>1. i - 1 \in 1..(Len(configs) - 1) /\ ~ (i - 1 < k) /\ (i - 1) + 1 = i
          BY <1>3, <2>1, <2>5, <3>2
        <4> QED BY <2>2, <2>4, <3>2, <4>1
      <3> QED BY <3>1, <3>2
    <2> QED BY <2>1, <2>2, <2>3, <2>5
  <1>5. \A i, j \in DOMAIN configs : n \in Configured /\ i # k /\ j # k /\ i # j => s(i) # s(j)
    <2>1. n \in Configured => k \in Nat
      BY <1>3, <1>4
    <2> HIDE DEF k
    <2> QED BY <1>3, <2>1
  <1> HIDE DEF k, c, s
  <1>6. Configured \ {n} \subseteq Configured'
    <2>1. CASE n \in Configured
      <3>1. ASSUME NEW m \in Configured, m # n PROVE m \in Configured'
        <4>1. PICK i \in DOMAIN configs : configs[i].name = m
          BY <3>1 DEF Configured
        <4>2. s(i) \in DOMAIN configs' /\ configs'[s(i)] = configs[i]
          BY <1>4, <2>1, <3>1, <4>1
        <4> QED BY <4>1, <4>2 DEF Configured
      <3> QED BY <3>1
    <2>2. CASE n \notin Configured
      BY <1>2, <2>2 DEF Configured
    <2> QED BY <2>1, <2>2
  <1>7. ASSUME NEW m, Twice(m) PROVE m \in Configured' /\ (m # n => Twice(m)')
    <2>1. PICK i, j \in DOMAIN configs : i # j /\ configs[i].name = m /\ configs[j].name = m
      BY <1>7 DEF Twice
    <2>2. CASE n \in Configured
      <3>1. ASSUME NEW x \in DOMAIN configs, x # k, configs[x].name = m PROVE m \in Configured'
        <4>1. s(x) \in DOMAIN configs' /\ configs'[s(x)] = configs[x]
          BY <1>4, <2>2, <3>1
        <4> QED BY <3>1, <4>1 DEF Configured
      <3>2. m \in Configured'
        BY <2>1, <3>1
      <3>3. ASSUME m # n PROVE Twice(m)'
        <4>1. i # k /\ j # k
          BY <1>4, <2>1, <2>2, <3>3
        <4>2. /\ s(i) \in DOMAIN configs' /\ configs'[s(i)] = configs[i]
              /\ s(j) \in DOMAIN configs' /\ configs'[s(j)] = configs[j]
          BY <1>4, <2>1, <2>2, <4>1
        <4>3. s(i) # s(j)
          BY <1>5, <2>1, <2>2, <4>1
        <4> QED BY <2>1, <4>2, <4>3 DEF Twice
      <3> QED BY <3>2, <3>3
    <2>3. CASE n \notin Configured
      BY <1>2, <2>1, <2>3 DEF Configured, Twice
    <2> QED BY <2>2, <2>3
  <1>8. configs' \in Seq(ConfigRow)
    BY <1>1, <1>2, <1>4
  <1>9. clients' \subseteq Configured'
    BY <1>1, <1>2, <1>6
  <1> QED BY <1>2, <1>6, <1>7, <1>8, <1>9 DEF Reg, RegistryTypeOK, Rows, ConfigRow, c, k

\* New pools for a cluster leave the names of the configurations.
LEMMA UpdateConfigIs ==
  ASSUME Reg, NEW n \in Names, NEW pools \in Seq(Pools), UpdateConfig(n, pools)
  PROVE  /\ Reg' /\ UNCHANGED <<row, serial, source, ids, clients>>
         /\ DOMAIN configs' = DOMAIN configs
         /\ \A i \in DOMAIN configs : configs'[i].name = configs[i].name
         /\ Configured' = Configured
  <1> DEFINE k == First(n)
             c == [configs[k] EXCEPT !.pools = pools]
  <1>1. configs \in Seq(ConfigRow) /\ clients \subseteq Configured
    BY DEF Reg, RegistryTypeOK, ConfigRow
  <1>2. DOMAIN configs = 1..Len(configs) /\ Len(configs) \in Nat
    BY <1>1
  <1>3. /\ configs' \in Seq(ConfigRow) /\ DOMAIN configs' = DOMAIN configs
        /\ \A i \in DOMAIN configs : configs'[i].name = configs[i].name
    <2>1. CASE n \in Configured
      <3>1. k \in 1..Len(configs)
        BY <1>1, <2>1, FirstIs
      <3> HIDE DEF k
      <3>2. configs' = [configs EXCEPT ![k] = c]
        BY <2>1 DEF UpdateConfig, k
      <3>3. configs[k] \in ConfigRow
        BY <1>1, <3>1
      <3>4. c \in ConfigRow /\ c.name = configs[k].name
        BY <3>3 DEF ConfigRow
      <3> HIDE DEF c
      <3> QED BY <1>1, <1>2, <3>1, <3>2, <3>4
    <2>2. CASE n \notin Configured
      BY <1>1, <2>2 DEF UpdateConfig
    <2> QED BY <2>1, <2>2
  <1>4. Configured' = Configured
    <2>1. \A x : x \in Configured' <=> x \in Configured
      BY <1>3 DEF Configured
    <2> QED BY <2>1
  <1>5. UNCHANGED <<row, serial, referenced, source, clients, ids, poolRow, address>>
    BY DEF UpdateConfig
  <1> QED BY <1>1, <1>3, <1>4, <1>5 DEF Reg, RegistryTypeOK, Rows, ConfigRow

\* A row is written with the id it has, or with a new one.
LEMMA WrittenIs ==
  ASSUME Reg, NEW n \in Names, NEW pools \in Seq(Pools), NEW serial2 \in Nat,
         serial2 = IF row[n].id = 0 THEN serial + 1 ELSE serial
  PROVE  /\ Written(n, pools) \in [Names -> [id : 0..serial2, pools : Seq(Pools)]]
         /\ Written(n, pools)[n].id = (IF row[n].id = 0 THEN serial + 1 ELSE row[n].id)
         /\ Written(n, pools)[n].id # 0 /\ Written(n, pools)[n].id \in 1..serial2
         /\ \A m \in Names : m # n => Written(n, pools)[m] = row[m]
         /\ \A m \in Names : row[m].id # 0 => Written(n, pools)[m].id = row[m].id
         /\ \A m, k \in Names :
              Written(n, pools)[m].id # 0 /\ Written(n, pools)[m].id = Written(n, pools)[k].id
                => m = k
  <1> DEFINE w == Written(n, pools)
             id == IF row[n].id = 0 THEN serial + 1 ELSE row[n].id
  <1>1. serial \in Nat /\ row \in [Names -> [id : 0..serial, pools : Seq(Pools)]]
    BY DEF Reg, RegistryTypeOK
  <1>2. \A m \in Names : row[m] \in [id : 0..serial, pools : Seq(Pools)] /\ row[m].id \in 0..serial
    BY <1>1
  <1>3. /\ w[n] = [id |-> id, pools |-> pools] /\ \A m \in Names : m # n => w[m] = row[m]
        /\ w = [m \in Names |-> w[m]]
    BY <1>1 DEF Written
  <1>4. id \in 1..serial2 /\ id # 0 /\ serial <= serial2
    BY <1>1, <1>2
  <1> HIDE DEF w
  <1>5. w[n].id = id
    BY <1>3
  <1> HIDE DEF id
  <1>6. \A m \in Names : w[m] \in [id : 0..serial2, pools : Seq(Pools)]
    <2>1. w[n] \in [id : 0..serial2, pools : Seq(Pools)]
      BY <1>3, <1>4
    <2>2. ASSUME NEW m \in Names, m # n PROVE w[m] \in [id : 0..serial2, pools : Seq(Pools)]
      <3>1. row[m].id \in 0..serial2 /\ row[m] \in [id : 0..serial, pools : Seq(Pools)]
        BY <1>1, <1>2, <1>4
      <3> QED BY <1>3, <2>2, <3>1
    <2> QED BY <2>1, <2>2
  <1>7. w \in [Names -> [id : 0..serial2, pools : Seq(Pools)]]
    BY <1>3, <1>6
  <1>8. ASSUME NEW m \in Names, NEW k \in Names, row[m].id # 0, row[m].id = row[k].id PROVE m = k
    BY <1>8 DEF Reg, RegistryTypeOK, Rows
  <1>9. \A m \in Names : m # n => w[m].id # id
    <2> SUFFICES ASSUME NEW m \in Names, m # n, w[m].id = id PROVE FALSE
      OBVIOUS
    <2>1. row[m].id = id
      BY <1>3
    <2>2. CASE row[n].id = 0
      <3>1. id = serial + 1
        BY <2>2 DEF id
      <3> QED BY <1>1, <1>2, <2>1, <3>1
    <2>3. CASE row[n].id # 0
      <3>1. id = row[n].id
        BY <2>3 DEF id
      <3> QED BY <1>8, <2>1, <2>3, <3>1
    <2> QED BY <2>2, <2>3
  <1>10. \A m, k \in Names : w[m].id # 0 /\ w[m].id = w[k].id => m = k
    <2> SUFFICES ASSUME NEW m \in Names, NEW k \in Names, w[m].id # 0, w[m].id = w[k].id
                 PROVE m = k
      OBVIOUS
    <2>1. CASE m # n /\ k # n
      BY <1>3, <1>8, <2>1
    <2> QED BY <1>5, <1>9, <2>1
  <1>11. \A m \in Names : row[m].id # 0 => w[m].id = row[m].id
    BY <1>3, <1>5 DEF id
  <1>12. /\ w[n].id = (IF row[n].id = 0 THEN serial + 1 ELSE row[n].id)
         /\ w[n].id # 0 /\ w[n].id \in 1..serial2
    <2>1. id = IF row[n].id = 0 THEN serial + 1 ELSE row[n].id
      BY DEF id
    <2> QED BY <1>4, <1>5, <2>1
  <1>13. \A m \in Names : m # n => w[m] = row[m]
    BY <1>3
  <1>14. w = Written(n, pools)
    BY DEF w
  <1> HIDE DEF w
  <1> QED BY ONLY <1>7, <1>10, <1>11, <1>12, <1>13, <1>14

\* A row that is written for a cluster leaves the others.
LEMMA CreateFullIs ==
  ASSUME Reg, NEW n \in Names, NEW pools \in Seq(Pools), CreateFull(n, pools)
  PROVE  /\ Reg' /\ UNCHANGED memory /\ serial <= serial'
         /\ row'[n].id = Written(n, <<>>)[n].id /\ row'[n].id \in 1..serial' /\ row'[n].id # 0
         /\ \A m \in Names : (m # n \/ row[m].id # 0) => row'[m].id = row[m].id
  <1>1. /\ row' = Written(n, pools) /\ serial' = IF row[n].id = 0 THEN serial + 1 ELSE serial
        /\ UNCHANGED <<referenced, memory, poolRow, address>>
    BY DEF CreateFull
  <1>2. serial \in Nat
    BY DEF Reg, RegistryTypeOK
  <1>3. serial' \in Nat /\ serial <= serial'
    BY <1>1, <1>2
  <1>4. /\ row' \in [Names -> [id : 0..serial', pools : Seq(Pools)]]
        /\ row'[n].id = (IF row[n].id = 0 THEN serial + 1 ELSE row[n].id)
        /\ row'[n].id # 0 /\ row'[n].id \in 1..serial'
        /\ \A m \in Names : m # n => row'[m] = row[m]
        /\ \A m \in Names : row[m].id # 0 => row'[m].id = row[m].id
        /\ \A m, k \in Names : row'[m].id # 0 /\ row'[m].id = row'[k].id => m = k
    BY <1>1, <1>3, WrittenIs
  <1>5. Written(n, <<>>)[n].id = (IF row[n].id = 0 THEN serial + 1 ELSE row[n].id)
    <2>1. row \in [Names -> [id : 0..serial, pools : Seq(Pools)]]
      BY DEF Reg, RegistryTypeOK
    <2> QED BY <2>1 DEF Written
  <1>6. referenced' \subseteq 1..serial' /\ ids' \in [Names -> 0..serial']
    <2>1. referenced \subseteq 1..serial /\ ids \in [Names -> 0..serial]
      BY DEF Reg, RegistryTypeOK
    <2>2. 1..serial \subseteq 1..serial' /\ 0..serial \subseteq 0..serial'
      BY <1>2, <1>3
    <2> QED BY <1>1, <2>1, <2>2 DEF memory
  <1>7. \A m, k \in Rows' : row'[m].id = row'[k].id => m = k
    BY <1>4 DEF Rows
  <1>8. poolRow' # {} => serial' >= 1
    BY <1>1, <1>2, <1>3 DEF Reg
  <1>9. UNCHANGED <<source, clients, configs, ids>> /\ Configured' = Configured
    BY <1>1 DEF memory, Configured
  <1> QED BY <1>1, <1>3, <1>4, <1>5, <1>6, <1>7, <1>8, <1>9 DEF Reg, RegistryTypeOK

\* A row that is deleted leaves the others.
LEMMA DeleteByNameIs ==
  ASSUME Reg, NEW n \in Names, DeleteByName(n)
  PROVE  /\ Reg' /\ UNCHANGED <<serial, memory>>
         /\ \A m \in Names : m # n => row'[m] = row[m]
  <1>1. row' = (IF row[n].id \in referenced THEN row ELSE [row EXCEPT ![n] = NoRow])
        /\ UNCHANGED <<serial, referenced, memory, poolRow, address>>
    BY DEF DeleteByName
  <1>2. serial \in Nat /\ row \in [Names -> [id : 0..serial, pools : Seq(Pools)]]
    BY DEF Reg, RegistryTypeOK
  <1>3. NoRow \in [id : 0..serial, pools : Seq(Pools)] /\ NoRow.id = 0
    BY <1>2 DEF NoRow
  <1>4. /\ row' \in [Names -> [id : 0..serial, pools : Seq(Pools)]]
        /\ \A m \in Names : m # n => row'[m] = row[m]
        /\ row'[n] = row[n] \/ row'[n] = NoRow
    BY <1>1, <1>2, <1>3
  <1>5. \A m \in Names : row'[m].id # 0 => row'[m] = row[m]
    BY <1>3, <1>4
  <1>6. \A m, k \in Rows' : row'[m].id = row'[k].id => m = k
    BY <1>5 DEF Rows, Reg, RegistryTypeOK
  <1> QED BY <1>1, <1>4, <1>6 DEF Reg, RegistryTypeOK, memory, Configured

\* Nothing depends on which id is noted.
LEMMA SetIDIs ==
  ASSUME Reg, NEW n \in Names, NEW id \in 0..serial, SetID(n, id)
  PROVE  /\ Reg' /\ UNCHANGED <<row, serial, source, clients, configs>>
         /\ ids'[n] = id /\ \A m \in Names : m # n => ids'[m] = ids[m]
  BY DEF SetID, Reg, RegistryTypeOK, Configured, Rows

\* The first pool comes after the first cluster.
LEMMA EnsurePoolIs ==
  ASSUME Reg, NEW p \in Pools, PoolInsertable(p), EnsurePool(p)
  PROVE  Reg' /\ UNCHANGED <<row, serial, source, clients, configs, ids>>
  <1>1. serial >= 1 /\ serial \in Nat
    <2>1. CASE p \in poolRow
      BY <2>1 DEF Reg, RegistryTypeOK
    <2>2. CASE \E n \in Names : row[n].id = 1
      <3>1. serial \in Nat /\ row \in [Names -> [id : 0..serial, pools : Seq(Pools)]]
        BY DEF Reg, RegistryTypeOK
      <3>2. \A n \in Names : row[n].id \in 0..serial
        BY <3>1
      <3> QED BY <2>2, <3>1, <3>2
    <2> QED BY <2>1, <2>2 DEF PoolInsertable
  <1>2. referenced' = referenced \cup {1} /\ poolRow' = poolRow \cup {p}
        /\ UNCHANGED <<row, serial, memory, address>>
    BY DEF EnsurePool
  <1>3. 1 \in 1..serial
    BY <1>1
  <1> QED BY <1>1, <1>2, <1>3 DEF Reg, RegistryTypeOK, memory, Configured, Rows

\* An address has one of its states.
LEMMA AddressIs ==
  ASSUME Reg, NEW a, SeedOne(a) \/ Assign(a)
  PROVE  Reg' /\ UNCHANGED <<row, serial, source, clients, configs, ids>>
  <1>1. UNCHANGED <<row, serial, referenced, memory, poolRow>>
        /\ address' \in [Addresses -> {"absent", "available", "assigned"}]
    BY DEF SeedOne, Assign, Reg, RegistryTypeOK
  <1> QED BY <1>1 DEF Reg, RegistryTypeOK, memory, Configured, Rows

\* The environment configures one cluster at most.
LEMMA EnvIs == \A m, n \in Env : m = n
  <1>1. IsFiniteSet(Env) /\ Cardinality(Env) \in Nat /\ Cardinality(Env) <= 1
    BY RegistryAssumption, FS_Subset, FS_CardinalityType
  <1>2. CASE Cardinality(Env) = 0
    BY <1>1, <1>2, FS_EmptySet
  <1>3. CASE Cardinality(Env) = 1
    BY <1>1, <1>3, FS_Singleton
  <1> QED BY <1>1, <1>2, <1>3

\* What the environment's cluster is written to.
LEMMA UpsertedIs ==
  ASSUME Reg, NEW bad, NEW serial2,
         serial2 = IF \E n \in Env : Upserted(bad)[n].id > serial THEN serial + 1 ELSE serial
  PROVE  /\ serial2 \in Nat /\ serial <= serial2
         /\ Upserted(bad) \in [Names -> [id : 0..serial2, pools : Seq(Pools)]]
         /\ \A m \in Names : row[m].id # 0 => Upserted(bad)[m].id = row[m].id
         /\ \A m, k \in Names :
              Upserted(bad)[m].id # 0 /\ Upserted(bad)[m].id = Upserted(bad)[k].id => m = k
  <1> DEFINE rows == Upserted(bad)
  <1>1. serial \in Nat /\ row \in [Names -> [id : 0..serial, pools : Seq(Pools)]]
        /\ \A m, k \in Names : row[m].id # 0 /\ row[m].id = row[k].id => m = k
    BY DEF Reg, RegistryTypeOK, Rows
  <1>2. /\ Env \subseteq Names /\ EnvPools \in Seq(Pools)
        /\ \A n \in Names : row[n].id \in 0..serial
    BY <1>1, RegistryAssumption
  <1>3. CASE \A n \in Env : <<"write", n>> = bad
    <2>1. rows = row
      BY <1>1, <1>3 DEF Upserted
    <2> HIDE DEF rows
    <2>2. serial2 = serial
      BY <1>1, <1>2, <2>1 DEF rows
    <2> QED BY <1>1, <2>1, <2>2 DEF rows
  <1>4. CASE \E n \in Env : <<"write", n>> # bad
    <2>1. PICK e \in Env : <<"write", e>> # bad
      BY <1>4
    <2>2. Env = {e} /\ e \in Names
      BY <1>2, EnvIs
    <2> DEFINE w == Written(e, EnvPools)
    <2>3. w = [n \in Names |-> w[n]] /\ \A n \in Names : n # e => w[n] = row[n]
      BY <1>1 DEF Written
    <2> HIDE DEF w
    <2>4. rows = [n \in Names |-> IF n = e THEN w[n] ELSE row[n]]
      BY <2>1, <2>2 DEF Upserted, w
    <2> HIDE DEF rows
    <2>5. rows = w
      BY <2>3, <2>4
    <2>6. (\E n \in Env : rows[n].id > serial) <=> row[e].id = 0
      <3>1. w[e].id = IF row[e].id = 0 THEN serial + 1 ELSE row[e].id
        BY <1>1, <2>2 DEF Written, w
      <3>2. row[e].id \in 0..serial
        BY <1>2, <2>2
      <3> QED BY <1>1, <2>2, <2>5, <3>1, <3>2
    <2>7. serial2 = IF row[e].id = 0 THEN serial + 1 ELSE serial
      BY <2>6 DEF rows
    <2>8. serial2 \in Nat /\ serial <= serial2
      BY <1>1, <2>7
    <2>9. /\ w \in [Names -> [id : 0..serial2, pools : Seq(Pools)]]
          /\ \A m \in Names : row[m].id # 0 => w[m].id = row[m].id
          /\ \A m, k \in Names : w[m].id # 0 /\ w[m].id = w[k].id => m = k
      BY <1>2, <2>2, <2>7, <2>8, WrittenIs DEF w
    <2> QED BY <2>5, <2>8, <2>9 DEF rows
  <1> QED BY <1>3, <1>4

\* A process that starts knows the rows it has read, and notes their ids or none.
LEMMA StartIs ==
  ASSUME Reg, NEW bad, Start(bad)
  PROVE  /\ Reg' /\ serial <= serial'
         /\ \A m \in Names : row[m].id # 0 => row'[m].id = row[m].id
         /\ source' = "database" =>
              \A n \in Rows' : n \in Configured' /\ ids'[n] \in {0, row'[n].id}
  <1> DEFINE rows == Upserted(bad)
             list == IF bad = <<"list">> THEN [n \in Env |-> EnvPools]
                     ELSE [n \in {k \in Names : rows[k].id # 0} |-> rows[n].pools]
             reached == {n \in DOMAIN list : <<"connect", n>> # bad}
             C == {[name |-> n, pools |-> list[n]] : n \in DOMAIN list}
             D == DOMAIN list
  <1>1. /\ row' = rows
        /\ serial' = IF \E n \in Env : rows[n].id > serial THEN serial + 1 ELSE serial
        /\ source' = IF reached = {} THEN "nothing"
                     ELSE IF bad = <<"list">> THEN "environment" ELSE "database"
        /\ clients' = reached
        /\ configs' = IF reached = {} THEN <<>> ELSE SetToSeq(C)
        /\ ids' = [n \in Names |->
             IF n \in DOMAIN list /\ reached # {} /\ <<"note", n>> # bad THEN rows[n].id ELSE 0]
        /\ UNCHANGED <<referenced, poolRow, address>>
    BY DEF Start
  <1>2. /\ serial' \in Nat /\ serial <= serial' /\ serial \in Nat
        /\ rows \in [Names -> [id : 0..serial', pools : Seq(Pools)]]
        /\ \A m \in Names : row[m].id # 0 => rows[m].id = row[m].id
        /\ \A m, k \in Names : rows[m].id # 0 /\ rows[m].id = rows[k].id => m = k
    <2>1. serial \in Nat
      BY DEF Reg, RegistryTypeOK
    <2> QED BY <1>1, <2>1, UpsertedIs
  <1> HIDE DEF rows
  <1>3. \A n \in Names : rows[n].id \in 0..serial' /\ rows[n].pools \in Seq(Pools)
    BY <1>2
  <1>4. D \subseteq Names /\ \A n \in D : list[n] \in Seq(Pools)
    <2>1. CASE bad = <<"list">>
      BY <2>1, RegistryAssumption
    <2>2. CASE bad # <<"list">>
      BY <1>3, <2>2
    <2> QED BY <2>1, <2>2
  <1>5. bad # <<"list">> => D = {k \in Names : rows[k].id # 0}
    OBVIOUS
  <1> HIDE DEF list
  <1>6. /\ C \subseteq ConfigRow /\ \A n \in D : \E c \in C : c.name = n
    <2>1. ASSUME NEW n \in D
          PROVE  [name |-> n, pools |-> list[n]] \in ConfigRow
                 /\ \E c \in C : c.name = n
      <3>1. [name |-> n, pools |-> list[n]] \in C
        OBVIOUS
      <3> QED BY <1>4, <3>1 DEF ConfigRow
    <2> QED BY <2>1
  <1>7. IsFiniteSet(C)
    <2>1. IsFiniteSet(D)
      BY <1>4, RegistryAssumption, FS_Subset
    <2> DEFINE f == [n \in D |-> [name |-> n, pools |-> list[n]]]
    <2>2. f \in Surjection(D, C)
      BY DEF Surjection
    <2> QED BY <2>1, <2>2, FS_Surjection
  <1> HIDE DEF C
  <1>8. SetToSeq(C) \in Seq(C) /\ \A x \in C : \E i \in DOMAIN SetToSeq(C) : SetToSeq(C)[i] = x
    BY <1>7, SetToSeqIs
  <1>9. SetToSeq(C) \in Seq(ConfigRow)
    BY ONLY <1>6, <1>8, SeqWider
  <1>10. configs' \in Seq(ConfigRow)
    BY <1>1, <1>9
  <1>11. reached \subseteq D /\ (reached # {} => D \subseteq Configured')
    <2>1. ASSUME reached # {}, NEW n \in D PROVE n \in Configured'
      <3>1. PICK c \in C : c.name = n
        BY <1>6
      <3>2. PICK i \in DOMAIN SetToSeq(C) : SetToSeq(C)[i] = c
        BY <1>8
      <3>3. configs' = SetToSeq(C)
        BY <1>1, <2>1
      <3>4. i \in DOMAIN configs' /\ configs'[i].name = n
        BY <3>1, <3>2, <3>3
      <3> QED BY <3>4 DEF Configured
    <2> QED BY <2>1
  <1> HIDE DEF reached, D
  <1>12. clients' \subseteq Configured'
    BY <1>1, <1>11
  <1>13. ids' \in [Names -> 0..serial']
    <2>1. 0 \in 0..serial'
      BY <1>2
    <2> QED BY <1>1, <1>3, <2>1
  <1>14. source' \in {"database", "environment", "nothing"}
    BY <1>1
  <1>15. \A m, k \in Rows' : row'[m].id = row'[k].id => m = k
    BY <1>1, <1>2 DEF Rows
  <1>16. referenced' \subseteq 1..serial' /\ (poolRow' # {} => serial' >= 1)
         /\ poolRow' \subseteq Pools
         /\ address' \in [Addresses -> {"absent", "available", "assigned"}]
    <2>1. referenced \subseteq 1..serial /\ (poolRow # {} => serial >= 1) /\ poolRow \subseteq Pools
          /\ address \in [Addresses -> {"absent", "available", "assigned"}]
      BY DEF Reg, RegistryTypeOK
    <2>2. 1..serial \subseteq 1..serial' /\ (serial >= 1 => serial' >= 1)
      BY <1>2
    <2> QED BY <1>1, <2>1, <2>2
  <1>17. Reg'
    BY <1>1, <1>2, <1>10, <1>12, <1>13, <1>14, <1>15, <1>16 DEF Reg, RegistryTypeOK, ConfigRow
  <1>18. ASSUME source' = "database", NEW n \in Rows'
         PROVE  n \in Configured' /\ ids'[n] \in {0, row'[n].id}
    <2>1. reached # {} /\ bad # <<"list">>
      BY <1>1, <1>18
    <2>2. n \in D /\ n \in Names
      BY <1>1, <1>5, <1>18, <2>1 DEF Rows
    <2> QED BY <1>1, <1>11, <2>1, <2>2
  <1> QED BY <1>1, <1>2, <1>17, <1>18

\* The first start.
LEMMA RegInit == Init => Reg
  <1> SUFFICES ASSUME Init PROVE Reg
    OBVIOUS
  <1>0. PICK vms : RegistryInit(vms)
    BY DEF Init
  <1> DEFINE C == {[name |-> n, pools |-> EnvPools] : n \in Env}
  <1>1. IsFiniteSet(Env) /\ Cardinality(Env) \in Nat /\ Cardinality(Env) <= 1
    BY RegistryAssumption, FS_Subset, FS_CardinalityType
  <1>2. \A n \in Env : Cardinality(Env) = 1
    BY <1>1, FS_EmptySet
  <1>3. Env \subseteq Names /\ EnvPools \in Seq(Pools) /\ <<>> \in Seq(Pools)
    BY RegistryAssumption
  <1>4. /\ row = [n \in Names |-> IF n \in Env THEN [id |-> 1, pools |-> EnvPools] ELSE NoRow]
        /\ serial = Cardinality(Env) /\ referenced = IF vms THEN 1..serial ELSE {}
        /\ source = IF Env = {} THEN "nothing" ELSE "database"
        /\ clients = Env /\ configs = SetToSeq(C) /\ ids = [n \in Names |-> row[n].id]
        /\ poolRow = {} /\ address = [a \in Addresses |-> "absent"]
    BY <1>0 DEF RegistryInit
  <1>5. \A n \in Names : row[n] \in [id : 0..serial, pools : Seq(Pools)] /\ row[n].id \in 0..serial
                         /\ (row[n].id # 0 => n \in Env)
    <2>1. ASSUME NEW n \in Names, n \in Env PROVE row[n] \in [id : 0..serial, pools : Seq(Pools)]
                                                  /\ row[n].id \in 0..serial
      <3>1. serial = 1 /\ 1 \in 0..1 /\ row[n] = [id |-> 1, pools |-> EnvPools]
        BY <1>2, <1>4, <2>1
      <3> QED BY <1>3, <3>1
    <2>2. ASSUME NEW n \in Names, n \notin Env PROVE row[n] \in [id : 0..serial, pools : Seq(Pools)]
                                                     /\ row[n].id = 0 /\ row[n].id \in 0..serial
      <3>1. 0 \in 0..serial /\ row[n] = [id |-> 0, pools |-> <<>>]
        BY <1>1, <1>4, <2>2 DEF NoRow
      <3> QED BY <1>3, <3>1
    <2> QED BY <2>1, <2>2
  <1>6. row \in [Names -> [id : 0..serial, pools : Seq(Pools)]] /\ ids \in [Names -> 0..serial]
    BY <1>4, <1>5
  <1>7. \A m, k \in Rows : row[m].id = row[k].id => m = k
    BY <1>5, EnvIs DEF Rows
  <1>8. C \subseteq ConfigRow /\ \A n \in Env : \E c \in C : c.name = n
    <2>1. ASSUME NEW n \in Env
          PROVE  [name |-> n, pools |-> EnvPools] \in ConfigRow /\ \E c \in C : c.name = n
      <3>1. [name |-> n, pools |-> EnvPools] \in C
        OBVIOUS
      <3> QED BY <1>3, <3>1 DEF ConfigRow
    <2> QED BY <2>1
  <1>9. IsFiniteSet(C)
    <2> DEFINE f == [n \in Env |-> [name |-> n, pools |-> EnvPools]]
    <2>1. f \in Surjection(Env, C)
      BY DEF Surjection
    <2> QED BY <1>1, <2>1, FS_Surjection
  <1> HIDE DEF C
  <1>10. configs \in Seq(C) /\ \A x \in C : \E i \in DOMAIN configs : configs[i] = x
    BY <1>4, <1>9, SetToSeqIs
  <1>11. configs \in Seq(ConfigRow)
    BY ONLY <1>8, <1>10, SeqWider
  <1>12. clients \subseteq Configured
    <2>1. ASSUME NEW n \in Env PROVE n \in Configured
      <3>1. PICK c \in C : c.name = n
        BY <1>8
      <3>2. PICK i \in DOMAIN configs : configs[i] = c
        BY <1>10
      <3> QED BY <3>1, <3>2 DEF Configured
    <2> QED BY <1>4, <2>1
  <1>13. referenced \subseteq 1..serial
    BY <1>4
  <1> QED BY <1>1, <1>4, <1>6, <1>7, <1>11, <1>12, <1>13 DEF Reg, RegistryTypeOK, ConfigRow

-----------------------------------------------------------------------------
(* Clusters that were added                                                *)

\* Thread t works on a request for cluster n.
For(t, n) == th[t].at # "idle" /\ Ask(t).cluster = n

Writing == {"persist", "undo", "setId", "deleteRow"}

\* Thread s is where it was, with the same request and data.
Same(s) ==
  th'[s].at = th[s].at /\ th'[s].ask = th[s].ask /\ th'[s].n = th[s].n
  /\ (th'[s].alone => th[s].alone)

\* How thread s comes to one of the writes of a cluster.
Comes(s) ==
  /\ th[s].at # "idle" /\ th'[s].ask = th[s].ask /\ th'[s].alone = th[s].alone
  /\ \A v \in Threads \ {s} : th'[v] = th[v]
  /\ \/ /\ th'[s].at = "persist" /\ At(s, "dial") /\ Cluster(s) \notin clients
        /\ AddToManager(Cluster(s), AskedPools(s))
     \/ /\ th'[s].at = "setId" /\ At(s, "persist") /\ CreateFull(Cluster(s), AskedPools(s))
        /\ th'[s].n = Written(Cluster(s), <<>>)[Cluster(s)].id
     \/ th'[s].at = "undo" /\ At(s, "persist")
     \/ th'[s].at = "deleteRow" /\ kept' = kept \ {Cluster(s)}

\* A thread at a write was there, or came there.
LEMMA Writers ==
  ASSUME ThreadInv, Forms, [Next]_vars, NEW s \in Threads, th'[s].at \in Writing
  PROVE  Same(s) \/ Comes(s)
  <1>1. CASE th' = th
    BY <1>1 DEF Same
  <1>2. CASE Restart
    BY <1>2 DEF Restart, Writing, Idle
  <1>3. ASSUME NEW t \in Threads \ {s}, Starts(t) \/ Ends(t) \/ GoesOn(t)
        PROVE  Same(s)
    BY <1>3, Others DEF Same
  <1>4. CASE Starts(s)
    <2>1. PICK q \in asks, p \in {"insertUser", "exchange", "gate", "roleOf"} :
            \E r : Begin(s, q, p, r)
      BY <1>4 DEF Starts
    <2>2. PICK r : Begin(s, q, p, r)
      BY <2>1
    <2>3. th'[s].at = p
      BY <2>2, Begun
    <2> QED BY <2>3 DEF Writing
  <1>5. CASE Ends(s)
    BY <1>5 DEF Ends, Writing, Idle, ThreadInv
  <1>6. CASE GoesOn(s)
    <2>1. PICK r : With(s, r) /\ Leads(s, r)
      BY <1>6 DEF GoesOn
    <2>2. th'[s] = r /\ \A v \in Threads \ {s} : th'[v] = th[v]
      BY <2>1 DEF With, ThreadInv
    <2>3. /\ r.at \in Writing /\ r.ask = th[s].ask /\ r.alone = th[s].alone /\ th[s].at # "idle"
      BY <2>1, <2>2 DEF Leads
    <2>4. At(s, "gate") /\ Ask(s).op \notin {"visit", "callback"} =>
            FirstPoint(Ask(s).op) \notin Writing
      <3>1. At(s, "gate") => Ask(s).op \in Ops
        BY DEF At, ThreadInv, Ask, Request
      <3> QED BY <3>1 DEF FirstPoint, Ops, Writing
    <2>5. CASE r.at = "persist" /\ At(s, "dial") /\ Cluster(s) \notin clients
               /\ AddToManager(Cluster(s), AskedPools(s))
      BY <2>2, <2>3, <2>5 DEF Comes
    <2>6. CASE r.at = "setId" /\ At(s, "persist") /\ CreateFull(Cluster(s), AskedPools(s))
               /\ r.n = Written(Cluster(s), <<>>)[Cluster(s)].id
      BY <2>2, <2>3, <2>6 DEF Comes
    <2>7. CASE r.at = "undo" /\ At(s, "persist")
      BY <2>2, <2>3, <2>7 DEF Comes
    <2>8. CASE r.at = "deleteRow" /\ kept' = kept \ {Cluster(s)}
      BY <2>2, <2>3, <2>8 DEF Comes
    <2> QED BY <2>1, <2>3, <2>4, <2>5, <2>6, <2>7, <2>8 DEF Leads, Writing
  <1> QED BY <1>1, <1>2, <1>3, <1>4, <1>5, <1>6, Moves

\* A thread that notes an id has an id.
Noting == \A t \in Threads : At(t, "setId") => th[t].n \in 1..serial

\* What a request at work is for.
LEMMA ClusterIs ==
  ASSUME ThreadInv, NEW t \in Threads, th[t].at # "idle"
  PROVE  /\ Ask(t) = th[t].ask /\ Cluster(t) = Ask(t).cluster /\ Cluster(t) \in Names
         /\ AskedPools(t) \in Seq(Pools) /\ For(t, Cluster(t))
  BY DEF ThreadInv, Ask, Cluster, AskedPools, Request, For

\* What a step does to cluster n, and who does it.
Effects(n) ==
  /\ source' = source
  /\ \/ row'[n].id = row[n].id
     \/ \E u \in Threads : For(u, n) /\ (At(u, "deleteRow") \/ (At(u, "persist") /\ row[n].id = 0))
  /\ \/ /\ n \in Configured => n \in Configured'
        /\ n \in clients => n \in clients'
        /\ Twice(n) => Twice(n)'
     \/ \E u \in Threads : /\ For(u, n) /\ (Twice(n) => n \in Configured')
                           /\ At(u, "undo") \/ (At(u, "drop") /\ n \notin kept')
                           /\ At(u, "undo") => th'[u].at = "idle"
  /\ \/ ids'[n] = ids[n]
     \/ \E u \in Threads : For(u, n) /\ At(u, "setId") /\ ids'[n] = th[u].n
  /\ n \in kept' =>
       \/ n \in kept
       \/ \E u \in Threads : /\ For(u, n) /\ At(u, "setId") /\ th[u].alone /\ th'[u].at = "idle"
                             /\ row' = row /\ configs' = configs /\ ids'[n] = th[u].n

\* Nothing that concerns cluster n changes.
LEMMA NoEffects ==
  ASSUME NEW n, UNCHANGED <<source, row, configs, clients, ids, kept>>
  PROVE  Effects(n)
  BY DEF Effects, Configured, Twice

\* Every step keeps the types of the registry, and a running process does to a cluster
\* what one of its requests does.
LEMMA RegStep ==
  ASSUME ThreadInv, Forms, Reg, Noting, [Next]_vars
  PROVE  /\ Reg' /\ serial <= serial'
         /\ Restart \/ \A n \in Names : Effects(n)
  <1>0. serial \in Nat /\ configs \in Seq(ConfigRow) /\ DOMAIN configs = 1..Len(configs)
        /\ Len(configs) \in Nat
    BY DEF Reg, RegistryTypeOK, ConfigRow
  <1>1. ASSUME UNCHANGED registry, kept' = kept
        PROVE  Reg' /\ serial <= serial' /\ \A n \in Names : Effects(n)
    <2>1. Reg' /\ serial' = serial
      BY <1>1 DEF registry, Reg, RegistryTypeOK, Rows, Configured
    <2>2. \A n \in Names : Effects(n)
      BY <1>1, NoEffects DEF registry
    <2> QED BY <1>0, <2>1, <2>2
  <1>2. ASSUME NEW t \in Threads, Dial(t)
        PROVE  Reg' /\ serial <= serial' /\ \A n \in Names : Effects(n)
    <2>1. At(t, "dial") /\ kept' = kept
          /\ (UNCHANGED registry \/ AddToManager(Cluster(t), AskedPools(t)))
      BY <1>2 DEF Dial, Other
    <2>2. CASE UNCHANGED registry
      BY <1>1, <2>1, <2>2
    <2>3. CASE AddToManager(Cluster(t), AskedPools(t))
      <3>1. Cluster(t) \in Names /\ AskedPools(t) \in Seq(Pools)
        BY <2>1, ClusterIs DEF At
      <3>2. /\ Reg' /\ Configured' = Configured \cup {Cluster(t)}
            /\ UNCHANGED <<row, serial, source, ids>>
            /\ Len(configs') = Len(configs) + 1
            /\ \A i \in 1..Len(configs) : configs'[i] = configs[i]
        BY <2>3, <3>1, AddToManagerIs
      <3>3. clients \subseteq clients'
        BY <2>3 DEF AddToManager
      <3>4. \A n : Twice(n) => Twice(n)'
        <4>1. DOMAIN configs \subseteq DOMAIN configs'
          <5>1. configs' \in Seq(ConfigRow)
            BY <3>2 DEF Reg, RegistryTypeOK, ConfigRow
          <5>2. DOMAIN configs' = 1..(Len(configs) + 1)
            BY <3>2, <5>1
          <5> QED BY <1>0, <5>2
        <4> QED BY <1>0, <3>2, <4>1 DEF Twice
      <3>5. \A n \in Names : Effects(n)
        BY <2>1, <3>2, <3>3, <3>4 DEF Effects
      <3> QED BY <1>0, <3>2, <3>5
    <2> QED BY <2>1, <2>2, <2>3
  <1>3. ASSUME NEW t \in Threads, Persist(t)
        PROVE  Reg' /\ serial <= serial' /\ \A n \in Names : Effects(n)
    <2>1. At(t, "persist") /\ kept' = kept
          /\ (UNCHANGED registry \/ CreateFull(Cluster(t), AskedPools(t)))
      BY <1>3 DEF Persist, Other
    <2>2. CASE UNCHANGED registry
      BY <1>1, <2>1, <2>2
    <2>3. CASE CreateFull(Cluster(t), AskedPools(t))
      <3>1. Cluster(t) \in Names /\ AskedPools(t) \in Seq(Pools) /\ For(t, Cluster(t))
        BY <2>1, ClusterIs DEF At
      <3>2. /\ Reg' /\ UNCHANGED memory /\ serial <= serial'
            /\ \A m \in Names : (m # Cluster(t) \/ row[m].id # 0) => row'[m].id = row[m].id
        BY <2>3, <3>1, CreateFullIs
      <3>3. \A n \in Names : Effects(n)
        BY <2>1, <3>1, <3>2 DEF Effects, memory, Configured, Twice
      <3> QED BY <3>2, <3>3
    <2> QED BY <2>1, <2>2, <2>3
  <1>4. ASSUME NEW t \in Threads, NEW n \in Names, n = Cluster(t), RemoveFromManager(n), For(t, n),
               \/ At(t, "undo") /\ kept' = kept /\ th'[t].at = "idle"
               \/ At(t, "drop") /\ kept' = kept \ {n}
        PROVE  Reg' /\ serial <= serial' /\ \A m \in Names : Effects(m)
    <2>1. /\ Reg' /\ UNCHANGED <<row, serial, source, ids>> /\ clients' = clients \ {n}
          /\ Configured \ {n} \subseteq Configured'
          /\ \A m : Twice(m) => m \in Configured' /\ (m # n => Twice(m)')
      BY <1>4, RemoveFromManagerIs
    <2>2. ASSUME NEW m \in Names, m # n PROVE Effects(m)
      BY <1>4, <2>1, <2>2 DEF Effects
    <2>3. Effects(n)
      <3>1. \E u \in Threads : /\ For(u, n) /\ (Twice(n) => n \in Configured')
                               /\ At(u, "undo") \/ (At(u, "drop") /\ n \notin kept')
                               /\ At(u, "undo") => th'[u].at = "idle"
        BY <1>4, <2>1 DEF At
      <3>2. n \in kept' => n \in kept
        BY <1>4
      <3> QED BY <2>1, <3>1, <3>2 DEF Effects
    <2> QED BY <1>0, <2>1, <2>2, <2>3
  <1>5. ASSUME NEW t \in Threads, Undo(t)
        PROVE  Reg' /\ serial <= serial' /\ \A n \in Names : Effects(n)
    <2>1. At(t, "undo") /\ kept' = kept /\ Ends(t)
          /\ (UNCHANGED registry \/ RemoveFromManager(Cluster(t)))
      BY <1>5 DEF Undo, Other
    <2>2. Cluster(t) \in Names /\ For(t, Cluster(t)) /\ th'[t].at = "idle"
      BY <2>1, ClusterIs DEF At, Ends, Idle, ThreadInv
    <2> QED BY <1>1, <1>4, <2>1, <2>2
  <1>6. ASSUME NEW t \in Threads, NoteId(t)
        PROVE  Reg' /\ serial <= serial' /\ \A n \in Names : Effects(n)
    <2>1. At(t, "setId") /\ SetID(Cluster(t), th[t].n) /\ Ends(t)
          /\ kept' = IF th[t].alone THEN kept \cup {Cluster(t)} ELSE kept
      BY <1>6 DEF NoteId
    <2>2. Cluster(t) \in Names /\ For(t, Cluster(t)) /\ th'[t].at = "idle" /\ th[t].n \in 0..serial
      BY <1>0, <2>1, ClusterIs DEF At, Ends, Idle, ThreadInv, Noting
    <2>3. /\ Reg' /\ UNCHANGED <<row, serial, source, clients, configs>>
          /\ ids'[Cluster(t)] = th[t].n /\ \A m \in Names : m # Cluster(t) => ids'[m] = ids[m]
      BY <2>1, <2>2, SetIDIs
    <2>4. Configured' = Configured /\ \A n : Twice(n) => Twice(n)'
      BY <2>3 DEF Configured, Twice
    <2>5. ASSUME NEW n \in Names, n # Cluster(t) PROVE Effects(n)
      BY <2>1, <2>3, <2>4, <2>5 DEF Effects
    <2>6. ASSUME NEW n \in Names, n = Cluster(t) PROVE Effects(n)
      <3>1. /\ For(t, n) /\ At(t, "setId") /\ th'[t].at = "idle" /\ ids'[n] = th[t].n
            /\ source' = source /\ row' = row /\ configs' = configs /\ clients' = clients
        BY <2>1, <2>2, <2>3, <2>6
      <3>2. n \in kept' => n \in kept \/ th[t].alone
        BY <2>1, <2>6
      <3>3. (n \in Configured => n \in Configured') /\ (Twice(n) => Twice(n)')
        BY <2>4
      <3> QED BY <3>1, <3>2, <3>3 DEF Effects
    <2> QED BY <1>0, <2>3, <2>5, <2>6
  <1>7. ASSUME NEW t \in Threads, Drop(t)
        PROVE  Reg' /\ serial <= serial' /\ \A n \in Names : Effects(n)
    <2>1. /\ At(t, "drop")
          /\ \/ UNCHANGED registry /\ kept' = kept
             \/ RemoveFromManager(Cluster(t)) /\ kept' = kept \ {Cluster(t)}
      BY <1>7 DEF Drop
    <2>2. Cluster(t) \in Names /\ For(t, Cluster(t))
      BY <2>1, ClusterIs DEF At
    <2> QED BY <1>1, <1>4, <2>1, <2>2
  <1>8. ASSUME NEW t \in Threads, DeleteRow(t)
        PROVE  Reg' /\ serial <= serial' /\ \A n \in Names : Effects(n)
    <2>1. At(t, "deleteRow") /\ kept' = kept /\ (UNCHANGED registry \/ DeleteByName(Cluster(t)))
      BY <1>8 DEF DeleteRow, Other
    <2>2. Cluster(t) \in Names /\ For(t, Cluster(t))
      BY <2>1, ClusterIs DEF At
    <2>3. CASE UNCHANGED registry
      BY <1>1, <2>1, <2>3
    <2>4. CASE DeleteByName(Cluster(t))
      <3>1. /\ Reg' /\ UNCHANGED <<serial, memory>>
            /\ \A m \in Names : m # Cluster(t) => row'[m] = row[m]
        BY <2>2, <2>4, DeleteByNameIs
      <3>2. \A n \in Names : Effects(n)
        BY <2>1, <2>2, <3>1 DEF Effects, memory, Configured, Twice
      <3> QED BY <1>0, <3>1, <3>2
    <2> QED BY <2>1, <2>3, <2>4
  <1>9. ASSUME NEW t \in Threads, WriteConfig(t)
        PROVE  Reg' /\ serial <= serial' /\ \A n \in Names : Effects(n)
    <2>1. At(t, "writeConfig") /\ kept' = kept /\ UpdateConfig(Cluster(t), th[t].todo)
      BY <1>9 DEF WriteConfig, Other
    <2>2. Cluster(t) \in Names /\ th[t].todo \in Seq(Pools)
      BY <2>1, ClusterIs DEF At, Forms, Form
    <2>3. /\ Reg' /\ UNCHANGED <<row, serial, source, ids, clients>> /\ Configured' = Configured
          /\ DOMAIN configs' = DOMAIN configs
          /\ \A i \in DOMAIN configs : configs'[i].name = configs[i].name
      BY <2>1, <2>2, UpdateConfigIs
    <2>4. \A n : Twice(n) => Twice(n)'
      BY <2>3 DEF Twice
    <2>5. \A n \in Names : Effects(n)
      BY <2>1, <2>3, <2>4 DEF Effects
    <2> QED BY <1>0, <2>3, <2>5
  <1>10. ASSUME NEW t \in Threads, Ensure(t) \/ Seed(t) \/ AssignAndCommit(t)
         PROVE  Reg' /\ serial <= serial' /\ \A n \in Names : Effects(n)
    <2>1. kept' = kept
      BY <1>10 DEF Ensure, Seed, AssignAndCommit, Other
    <2>2. CASE UNCHANGED registry
      BY <1>1, <2>1, <2>2
    <2>3. CASE ~ UNCHANGED registry
      <3>1. Reg' /\ UNCHANGED <<row, serial, source, clients, configs, ids>>
        <4>1. CASE Ensure(t)
          <5>1. At(t, "ensure") /\ PoolInsertable(Pool(t)) /\ EnsurePool(Pool(t))
            BY <2>3, <4>1 DEF Ensure
          <5>2. th[t].todo \in Seq(Pools) /\ th[t].todo # <<>>
            BY <5>1 DEF At, Forms, Form
          <5>3. Pool(t) \in Pools
            <6>1. \A z \in Seq(Pools) : z # <<>> => Head(z) \in Pools
              OBVIOUS
            <6> QED BY <5>2, <6>1 DEF Pool
          <5> QED BY <5>1, <5>3, EnsurePoolIs
        <4>2. CASE Seed(t)
          BY <2>3, <4>2, AddressIs DEF Seed
        <4>3. CASE AssignAndCommit(t)
          BY <4>3, AddressIs DEF AssignAndCommit
        <4> QED BY <1>10, <4>1, <4>2, <4>3
      <3>2. \A n \in Names : Effects(n)
        BY <2>1, <3>1, NoEffects
      <3> QED BY <1>0, <3>1, <3>2
    <2> QED BY <2>2, <2>3
  <1>11. CASE Restart
    <2>1. PICK bad : Start(bad)
      BY <1>11 DEF Restart
    <2> QED BY <1>11, <2>1, StartIs
  <1> QED BY <1>1, <1>2, <1>3, <1>5, <1>6, <1>7, <1>8, <1>9, <1>10, <1>11, RegistryFrame

\* An id that a thread is to note is one that was given.
LEMMA NotingStep ==
  ASSUME ThreadInv, Forms, Reg, Noting, [Next]_vars
  PROVE  Noting'
  <1> SUFFICES ASSUME NEW s \in Threads, At(s, "setId")' PROVE th'[s].n \in 1..serial'
    BY DEF Noting
  <1>1. serial \in Nat /\ serial' \in Nat /\ serial <= serial'
    BY RegStep DEF Reg, RegistryTypeOK
  <1>2. CASE Same(s)
    <2>1. th'[s].n = th[s].n /\ th[s].n \in 1..serial
      BY <1>2 DEF Same, At, Noting
    <2> QED BY <1>1, <2>1
  <1>3. CASE Comes(s)
    <2>1. /\ At(s, "persist") /\ CreateFull(Cluster(s), AskedPools(s))
          /\ th'[s].n = Written(Cluster(s), <<>>)[Cluster(s)].id
      BY <1>3 DEF Comes, At
    <2>2. Cluster(s) \in Names /\ AskedPools(s) \in Seq(Pools)
      BY <2>1, ClusterIs DEF At
    <2> QED BY <2>1, <2>2, CreateFullIs
  <1> QED BY <1>2, <1>3, Writers DEF At, Writing

\* A request that has been alone with its cluster from its start is the only one.
Alone == \A t, s \in Threads : th[t].alone /\ For(s, Cluster(t)) => s = t

\* What a thread becomes that ends, or goes on.
LEMMA Keeps ==
  ASSUME ThreadInv, NEW u \in Threads, Ends(u) \/ GoesOn(u)
  PROVE  /\ \A v \in Threads \ {u} : th'[v] = th[v]
         /\ \/ th'[u] = Idle
            \/ th[u].at # "idle" /\ th'[u].ask = th[u].ask /\ th'[u].alone = th[u].alone
  <1>1. DOMAIN th = Threads
    BY DEF ThreadInv
  <1>2. CASE Ends(u)
    BY <1>1, <1>2 DEF Ends
  <1>3. CASE GoesOn(u)
    BY <1>1, <1>3 DEF GoesOn, With, Leads
  <1> QED BY <1>2, <1>3

\* A new request for the cluster of another leaves neither of them alone.
LEMMA Crowded ==
  ASSUME ThreadInv, NEW u \in Threads, NEW q, NEW p, NEW r, Begin(u, q, p, r),
         NEW s \in Threads \ {u}, th[s].ask # None, Ask(s).cluster = q.cluster
  PROVE  ~ th'[s].alone /\ ~ th'[u].alone
  <1>1. DOMAIN th = Threads /\ DOMAIN th[s] = Fields
    BY DEF ThreadInv
  <1>2. th'[s] = [th[s] EXCEPT !.alone = FALSE]
    BY <1>1 DEF Begin, Crowd
  <1> QED BY <1>1, <1>2, Begun DEF Fields

\* A thread that is alone, or works for a cluster, has a request.
LEMMA HasAsk ==
  ASSUME ThreadInv, Forms, NEW t \in Threads, th[t].alone \/ th[t].at # "idle"
  PROVE  th[t].at # "idle" /\ th[t].ask # None /\ Cluster(t) = th[t].ask.cluster
  <1>1. th[t].at # "idle"
    BY DEF Forms, Form, Idle
  <1> QED BY <1>1, ServerAssumption DEF ThreadInv, Cluster, Ask

\* Every step keeps who is alone alone.
LEMMA AloneStep == ThreadInv /\ Forms /\ Forms' /\ ThreadInv' /\ Alone /\ [Next]_vars => Alone'
  <1> SUFFICES ASSUME ThreadInv, Forms, ThreadInv', Forms', Alone, [Next]_vars,
                      NEW t \in Threads, NEW s \in Threads, th'[t].alone, th'[s].at # "idle",
                      th'[s].ask.cluster = th'[t].ask.cluster, s # t
               PROVE  FALSE
    BY DEF Alone, For, Cluster, Ask
  <1>0. th'[t].at # "idle" /\ th'[t] # Idle /\ th'[s] # Idle
    BY DEF Forms, Form, Idle
  <1>1. CASE th' = th
    BY <1>1 DEF Alone, For, Cluster, Ask
  <1>2. CASE Restart
    BY <1>0, <1>2 DEF Restart
  <1>3. ASSUME NEW u \in Threads, Ends(u) \/ GoesOn(u) PROVE FALSE
    <2>1. th[t].alone /\ th[t].ask = th'[t].ask /\ th[s].at # "idle" /\ th[s].ask = th'[s].ask
      BY <1>0, <1>3, Keeps
    <2> QED BY <2>1 DEF Alone, For, Cluster, Ask
  <1>4. ASSUME NEW u \in Threads, Starts(u) PROVE FALSE
    <2>1. PICK q : \E p, r : Begin(u, q, p, r)
      BY <1>4 DEF Starts
    <2>2. PICK p, r : Begin(u, q, p, r)
      BY <2>1
    <2>3. th'[u].ask = q
      BY <2>2, Begun
    <2>4. \A v \in Threads \ {u} :
            th'[v].at = th[v].at /\ th'[v].ask = th[v].ask /\ (th'[v].alone => th[v].alone)
      BY <1>4, Others
    <2>5. CASE t # u /\ s # u
      BY <2>4, <2>5 DEF Alone, For, Cluster, Ask
    <2>6. CASE t = u
      <3>1. th[s].at # "idle" /\ th[s].ask.cluster = q.cluster
        BY <2>3, <2>4, <2>6
      <3>2. th[s].ask # None
        BY <3>1, HasAsk
      <3> QED BY <2>2, <2>6, <3>1, <3>2, Crowded DEF Ask
    <2>7. CASE s = u
      <3>1. th[t].alone /\ th[t].ask.cluster = q.cluster
        BY <2>3, <2>4, <2>7
      <3>2. th[t].ask # None
        BY <3>1, HasAsk
      <3> QED BY <2>2, <2>7, <3>1, <3>2, Crowded DEF Ask
    <2> QED BY <2>5, <2>6, <2>7
  <1> QED BY <1>1, <1>2, <1>3, <1>4, Moves

\* A cluster that a request is adding alone is configured, and the row whose id is
\* still to be noted is there.
Sole ==
  \A t \in Threads : th[t].alone =>
    /\ th[t].at \in {"persist", "setId"} => Cluster(t) \in Configured
    /\ At(t, "setId") => th[t].n = row[Cluster(t)].id /\ th[t].n # 0

\* Nobody removes it while it is added.
LEMMA SoleStep ==
  ASSUME ThreadInv, Forms, Reg, Noting, Alone, Sole, [Next]_vars
  PROVE  Sole'
  <1> SUFFICES ASSUME NEW t \in Threads, th'[t].alone, th'[t].at \in {"persist", "setId"}
               PROVE  /\ Cluster(t)' \in Configured'
                      /\ th'[t].at = "setId" =>
                           th'[t].n = row'[Cluster(t)'].id /\ th'[t].n # 0
    BY DEF Sole, At
  <1>1. Same(t) \/ Comes(t)
    BY Writers DEF Writing
  <1>2. /\ th[t].at # "idle" /\ th[t].alone /\ th'[t].ask = th[t].ask
        /\ Cluster(t)' = Cluster(t)
    BY <1>1 DEF Same, Comes, Cluster, Ask
  <1>3. /\ Cluster(t) \in Names /\ AskedPools(t) \in Seq(Pools)
        /\ \A u \in Threads : For(u, Cluster(t)) => u = t
    BY <1>2, ClusterIs DEF Alone
  <1>4. Effects(Cluster(t))
    <2>1. ~ Restart
      BY DEF Restart, Idle
    <2> QED BY <1>3, <2>1, RegStep
  <1>5. th[t].at \notin {"undo", "drop"} /\ Cluster(t) \in Configured => Cluster(t) \in Configured'
    BY <1>3, <1>4 DEF Effects, At
  <1>6. At(t, "setId") => row'[Cluster(t)].id = row[Cluster(t)].id
    BY <1>3, <1>4 DEF Effects, At
  <1>7. CASE Same(t)
    <2>1. th[t].at = th'[t].at /\ th'[t].n = th[t].n
      BY <1>7 DEF Same
    <2> QED BY <1>2, <1>5, <1>6, <2>1 DEF Sole, At
  <1>8. CASE At(t, "dial") /\ th'[t].at = "persist" /\ AddToManager(Cluster(t), AskedPools(t))
    <2>1. Cluster(t) \in Configured'
      BY <1>3, <1>8, AddToManagerIs
    <2> QED BY <1>2, <1>8, <2>1
  <1>9. CASE /\ At(t, "persist") /\ th'[t].at = "setId" /\ CreateFull(Cluster(t), AskedPools(t))
             /\ th'[t].n = Written(Cluster(t), <<>>)[Cluster(t)].id
    <2>1. th'[t].n = row'[Cluster(t)].id /\ th'[t].n # 0
      BY <1>3, <1>9, CreateFullIs
    <2>2. Cluster(t) \in Configured'
      BY <1>2, <1>5, <1>9 DEF Sole, At
    <2> QED BY <1>2, <2>1, <2>2
  <1> QED BY <1>1, <1>7, <1>8, <1>9 DEF Comes

\* Thread t has cluster n in memory and not yet, or not for long, in the database.
Adding(t, n) == For(t, n) /\ th[t].at \in {"persist", "undo"}

\* A cluster that was added and not removed: nobody is about to delete its row, what is
\* noted is the id of the row, and whoever adds it again has a configuration of its own
\* to take back.
Remains(n) ==
  /\ row[n].id # 0
  /\ source = "database" => n \in Configured /\ ids[n] \in {0, row[n].id}
  /\ \A t \in Threads : For(t, n) =>
       /\ ~ At(t, "deleteRow")
       /\ At(t, "setId") => th[t].n = row[n].id
       /\ th[t].at \in {"persist", "undo"} => n \in clients /\ (source = "database" => Twice(n))
  /\ \A t, s \in Threads : Adding(t, n) /\ Adding(s, n) => t = s

KeptInv ==
  /\ kept \subseteq Names /\ Reg /\ Noting /\ Alone /\ Sole
  /\ \A n \in kept : Remains(n)

\* Nothing was added when the process starts.
LEMMA KeptInit == Init => KeptInv
  <1> SUFFICES ASSUME Init PROVE KeptInv
    OBVIOUS
  <1>1. kept = {} /\ \A t \in Threads : th[t] = Idle
    BY DEF Init
  <1>2. Noting /\ Alone /\ Sole
    BY <1>1 DEF Noting, Alone, Sole, At, Idle
  <1> QED BY <1>1, <1>2, RegInit DEF KeptInv

\* A step by another, or by nobody, leaves a cluster that stays kept as it is.
LEMMA StaysAdded ==
  ASSUME ThreadInv, NEW n \in kept, Remains(n), n \in kept', Effects(n)
  PROVE  /\ row'[n].id = row[n].id /\ source' = source
         /\ source = "database" => n \in Configured' /\ ids'[n] \in {0, row[n].id}
         /\ \/ (n \in clients => n \in clients') /\ (Twice(n) => Twice(n)')
            \/ \E u \in Threads : Adding(u, n) /\ At(u, "undo") /\ th'[u].at = "idle"
  <1>1. row'[n].id = row[n].id /\ source' = source
    BY DEF Effects, Remains, At
  <1>2. source = "database" => ids'[n] \in {0, row[n].id}
    BY DEF Effects, Remains
  <1>3. CASE /\ n \in Configured => n \in Configured'
             /\ n \in clients => n \in clients'
             /\ Twice(n) => Twice(n)'
    BY <1>1, <1>2, <1>3 DEF Remains
  <1>4. ASSUME NEW u \in Threads, For(u, n), Twice(n) => n \in Configured',
               At(u, "undo"), th'[u].at = "idle"
        PROVE  /\ source = "database" => n \in Configured'
               /\ Adding(u, n)
    BY <1>4 DEF Remains, Adding, At
  <1>5. \/ /\ n \in Configured => n \in Configured'
           /\ n \in clients => n \in clients'
           /\ Twice(n) => Twice(n)'
        \/ \E u \in Threads : /\ For(u, n) /\ (Twice(n) => n \in Configured')
                              /\ At(u, "undo") /\ th'[u].at = "idle"
    BY DEF Effects
  <1> QED BY <1>1, <1>2, <1>3, <1>4, <1>5

\* What is there of it while others add it again.
LEMMA RemainsKept ==
  ASSUME ThreadInv, Forms, KeptInv, [Next]_vars, NEW n \in kept, n \in kept', n \in Names,
         Effects(n), ~ Restart
  PROVE  Remains(n)'
  <1>0. Remains(n) /\ Reg /\ Noting
    BY DEF KeptInv
  <1>1. /\ row'[n].id = row[n].id /\ source' = source
        /\ source = "database" => n \in Configured' /\ ids'[n] \in {0, row[n].id}
        /\ \/ (n \in clients => n \in clients') /\ (Twice(n) => Twice(n)')
           \/ \E u \in Threads : Adding(u, n) /\ At(u, "undo") /\ th'[u].at = "idle"
    BY <1>0, StaysAdded
  <1>2. ASSUME NEW t \in Threads, Adding(t, n), th'[t].at # "idle"
        PROVE  n \in clients' /\ (source = "database" => Twice(n)')
    <2>1. n \in clients /\ (source = "database" => Twice(n))
      BY <1>0, <1>2 DEF Remains, Adding
    <2>2. \A u \in Threads : Adding(u, n) => u = t
      BY <1>0, <1>2 DEF Remains
    <2> QED BY <1>1, <1>2, <2>1, <2>2
  <1>3. ASSUME NEW t \in Threads, th'[t].at \in Writing, For(t, n)'
        PROVE  For(t, n) /\ Cluster(t) = n /\ Cluster(t) \in Names /\ AskedPools(t) \in Seq(Pools)
               /\ (Same(t) \/ Comes(t))
    <2>1. Same(t) \/ Comes(t)
      BY <1>3, Writers
    <2>2. For(t, n)
      BY <1>3, <2>1 DEF Same, Comes, For, Ask, Writing
    <2>3. th[t].at # "idle"
      BY <2>2 DEF For
    <2> QED BY <2>1, <2>2, <2>3, ClusterIs DEF For
  <1>4. ASSUME NEW t \in Threads, Cluster(t) = n, Cluster(t) \in Names,
               AskedPools(t) \in Seq(Pools), At(t, "dial"), AddToManager(n, AskedPools(t))
        PROVE  n \in clients' /\ (source = "database" => Twice(n)')
    <2>1. n \in clients'
      BY <1>4 DEF AddToManager
    <2>2. ASSUME source = "database" PROVE Twice(n)'
      <3>1. n \in Configured
        BY <1>0, <2>2 DEF Remains
      <3>2. PICK i \in DOMAIN configs : configs[i].name = n
        BY <3>1 DEF Configured
      <3>3. /\ Reg' /\ Len(configs') = Len(configs) + 1 /\ configs'[Len(configs) + 1].name = n
            /\ \A j \in 1..Len(configs) : configs'[j] = configs[j]
        BY <1>0, <1>4, AddToManagerIs
      <3>4. configs \in Seq(ConfigRow) /\ configs' \in Seq(ConfigRow)
        BY <1>0, <3>3 DEF Reg, RegistryTypeOK, ConfigRow
      <3>5. i \in 1..Len(configs) /\ Len(configs) \in Nat
            /\ DOMAIN configs' = 1..(Len(configs) + 1)
        BY <3>2, <3>3, <3>4
      <3>6. configs'[i].name = n /\ i # Len(configs) + 1 /\ i \in DOMAIN configs'
            /\ Len(configs) + 1 \in DOMAIN configs'
        BY <3>2, <3>3, <3>5
      <3> QED BY <3>3, <3>6 DEF Twice
    <2> QED BY <2>1, <2>2
  <1>5. ASSUME NEW t \in Threads, For(t, n)'
        PROVE  /\ ~ At(t, "deleteRow")'
               /\ At(t, "setId")' => th'[t].n = row'[n].id
               /\ th'[t].at \in {"persist", "undo"} =>
                    n \in clients' /\ (source' = "database" => Twice(n)')
    <2>0. /\ At(t, "deleteRow") /\ For(t, n) => FALSE
          /\ At(t, "setId") /\ For(t, n) => th[t].n = row[n].id
      BY <1>0 DEF Remains
    <2>1. CASE th'[t].at \notin Writing
      BY <2>1 DEF Writing, At
    <2>2. CASE th'[t].at \in Writing /\ Same(t)
      <3>1. For(t, n) /\ th'[t].at = th[t].at /\ th'[t].n = th[t].n
        BY <1>3, <1>5, <2>2 DEF Same
      <3>2. th'[t].at \in {"persist", "undo"} =>
              n \in clients' /\ (source = "database" => Twice(n)')
        BY <1>2, <3>1 DEF Adding
      <3> QED BY <1>1, <2>0, <3>1, <3>2 DEF At
    <2>3. CASE th'[t].at \in Writing /\ Comes(t)
      <3>1. For(t, n) /\ Cluster(t) = n /\ Cluster(t) \in Names /\ AskedPools(t) \in Seq(Pools)
        BY <1>3, <1>5, <2>3
      <3>2. CASE th'[t].at = "persist" /\ At(t, "dial") /\ AddToManager(Cluster(t), AskedPools(t))
        BY <1>1, <1>4, <3>1, <3>2 DEF At
      <3>3. CASE /\ th'[t].at = "setId" /\ At(t, "persist") /\ CreateFull(Cluster(t), AskedPools(t))
                 /\ th'[t].n = Written(Cluster(t), <<>>)[Cluster(t)].id
        <4>1. th'[t].n = row'[n].id
          BY <1>0, <3>1, <3>3, CreateFullIs
        <4> QED BY <3>3, <4>1 DEF At
      <3>4. CASE th'[t].at = "undo" /\ At(t, "persist")
        <4>1. Adding(t, n) /\ th'[t].at # "idle"
          BY <3>1, <3>4 DEF Adding, At
        <4> QED BY <1>1, <1>2, <3>4, <4>1 DEF At
      <3>5. CASE kept' = kept \ {Cluster(t)}
        BY <3>1, <3>5
      <3> QED BY <2>3, <3>2, <3>3, <3>4, <3>5 DEF Comes
    <2> QED BY <1>3, <1>5, <2>1, <2>2, <2>3
  <1>6. ASSUME NEW t \in Threads, NEW s \in Threads, t # s, Adding(t, n)', Adding(s, n)',
               Comes(t), th'[t].at = "persist"
        PROVE  FALSE
    <2>1. th'[s] = th[s] /\ Adding(s, n) /\ n \notin clients
      <3>1. Cluster(t) = n
        BY <1>3, <1>6 DEF Adding, Writing
      <3>2. th'[s] = th[s] /\ n \notin clients
        BY <1>6, <3>1 DEF Comes
      <3> QED BY <1>6, <3>2 DEF Adding, For, Ask
    <2> QED BY <1>0, <2>1 DEF Remains, Adding
  <1>7. ASSUME NEW t \in Threads, Adding(t, n)', ~ (Comes(t) /\ th'[t].at = "persist")
        PROVE  Adding(t, n)
    <2>1. For(t, n) /\ (Same(t) \/ Comes(t)) /\ th'[t].at \in {"persist", "undo"}
      BY <1>3, <1>7 DEF Adding, Writing
    <2> QED BY <1>7, <2>1 DEF Same, Comes, Adding, At
  <1>8. ASSUME NEW t \in Threads, NEW s \in Threads, Adding(t, n)', Adding(s, n)' PROVE t = s
    <2>1. Adding(t, n) /\ Adding(s, n) => t = s
      BY <1>0 DEF Remains
    <2> QED BY <1>6, <1>7, <1>8, <2>1
  <1>9. row'[n].id # 0 /\ (source' = "database" => n \in Configured' /\ ids'[n] \in {0, row'[n].id})
    BY <1>0, <1>1 DEF Remains
  <1> QED BY <1>5, <1>8, <1>9 DEF Remains

\* What is there of a cluster whose addition has just succeeded, alone.
LEMMA RemainsAdded ==
  ASSUME ThreadInv, Forms, KeptInv, [Next]_vars, NEW n \in Names,
         NEW u \in Threads, For(u, n), At(u, "setId"), th[u].alone, th'[u].at = "idle",
         row' = row, configs' = configs, ids'[n] = th[u].n
  PROVE  Remains(n)'
  <1>1. Cluster(u) = n /\ \A s \in Threads : For(s, n) => s = u
    BY DEF For, Cluster, KeptInv, Alone
  <1>2. n \in Configured /\ th[u].n = row[n].id /\ th[u].n # 0
    BY <1>1 DEF KeptInv, Sole, At
  <1>3. n \in Configured' /\ row'[n].id # 0 /\ ids'[n] = row'[n].id
    BY <1>2 DEF Configured
  <1>4. ASSUME NEW t \in Threads, For(t, n)' PROVE th'[t].at \notin Writing
    <2> SUFFICES ASSUME th'[t].at \in Writing PROVE FALSE
      OBVIOUS
    <2>1. For(t, n)
      BY <1>4, Writers DEF Same, Comes, For, Ask, Writing
    <2>2. t = u
      BY <1>1, <2>1
    <2> QED BY <2>2 DEF Writing
  <1> QED BY <1>3, <1>4 DEF Remains, Adding, Writing, At

\* Every step keeps what is added.
LEMMA KeptStep ==
  ThreadInv /\ Forms /\ ThreadInv' /\ Forms' /\ KeptInv /\ [Next]_vars => KeptInv'
  <1> SUFFICES ASSUME ThreadInv, Forms, ThreadInv', Forms', KeptInv, [Next]_vars PROVE KeptInv'
    OBVIOUS
  <1>1. kept \subseteq Names /\ Reg /\ Noting /\ Alone /\ Sole /\ \A n \in kept : Remains(n)
    BY DEF KeptInv
  <1>2. Reg' /\ (Restart \/ \A n \in Names : Effects(n))
    BY <1>1, RegStep
  <1>3. Noting' /\ Alone' /\ Sole'
    BY <1>1, NotingStep, AloneStep, SoleStep
  <1>4. kept' \subseteq Names /\ \A n \in kept' : Remains(n)'
    <2>1. CASE Restart
      <3>1. PICK bad : Start(bad)
        BY <2>1 DEF Restart
      <3>2. kept' = kept /\ \A t \in Threads : th'[t] = Idle
        BY <2>1 DEF Restart
      <3>3. ASSUME NEW n \in kept PROVE Remains(n)'
        <4>1. n \in Names /\ row[n].id # 0
          BY <1>1 DEF Remains
        <4>2. row'[n].id # 0
              /\ (source' = "database" => n \in Configured' /\ ids'[n] \in {0, row'[n].id})
          BY <1>1, <3>1, <4>1, StartIs DEF Rows
        <4> QED BY <3>2, <4>2 DEF Remains, Adding, For, Idle
      <3> QED BY <1>1, <3>2, <3>3
    <2>2. CASE ~ Restart
      <3>0. kept' \subseteq Names
        <4>1. kept' = kept \/ \E t \in Threads : NoteId(t) \/ Drop(t)
          <5>1. ASSUME NEW t \in Threads, Dial(t) \/ Persist(t) \/ Undo(t) \/ DeleteRow(t)
                         \/ WriteConfig(t) \/ Ensure(t) \/ Seed(t) \/ AssignAndCommit(t)
                PROVE  kept' = kept
            BY <5>1 DEF Dial, Persist, Undo, DeleteRow, WriteConfig, Ensure, Seed,
                 AssignAndCommit, Other
          <5> QED BY <2>2, <5>1, RegistryFrame
        <4>2. ASSUME NEW t \in Threads, NoteId(t) PROVE kept' \subseteq Names
          <5>1. At(t, "setId") /\ kept' = IF th[t].alone THEN kept \cup {Cluster(t)} ELSE kept
            BY <4>2 DEF NoteId
          <5>2. Cluster(t) \in Names
            BY <5>1, ClusterIs DEF At
          <5> QED BY <1>1, <5>1, <5>2
        <4>3. ASSUME NEW t \in Threads, Drop(t) PROVE kept' \subseteq Names
          BY <1>1, <4>3 DEF Drop
        <4> QED BY <1>1, <4>1, <4>2, <4>3
      <3>1. ASSUME NEW n \in kept' PROVE Remains(n)'
        <4>1. n \in Names /\ Effects(n)
          BY <1>2, <2>2, <3>0
        <4>2. CASE n \in kept
          BY <2>2, <4>1, <4>2, RemainsKept
        <4>3. ASSUME n \notin kept PROVE Remains(n)'
          <5>1. PICK u \in Threads :
                  /\ For(u, n) /\ At(u, "setId") /\ th[u].alone /\ th'[u].at = "idle"
                  /\ row' = row /\ configs' = configs /\ ids'[n] = th[u].n
            BY <3>1, <4>1, <4>3 DEF Effects
          <5> QED BY <4>1, <5>1, RemainsAdded
        <4> QED BY <4>2, <4>3
      <3> QED BY <3>0, <3>1
    <2> QED BY <2>1, <2>2
  <1> QED BY <1>2, <1>3, <1>4 DEF KeptInv

\* AdminServer keeps ThreadInv, Forms, MoneyInv and KeptInv.
LEMMA WorkInv == Spec => [](ThreadInv /\ Forms /\ MoneyInv /\ KeptInv)
  <1>1. Init => ThreadInv /\ Forms /\ MoneyInv /\ KeptInv
    BY ThreadInvInit, FormsInit, MoneyInit, KeptInit
  <1>2. ThreadInv /\ Forms /\ MoneyInv /\ KeptInv /\ [Next]_vars
        => (ThreadInv /\ Forms /\ MoneyInv /\ KeptInv)'
    <2> SUFFICES ASSUME ThreadInv, Forms, MoneyInv, KeptInv, [Next]_vars
                 PROVE  ThreadInv' /\ Forms' /\ MoneyInv' /\ KeptInv'
      OBVIOUS
    <2>1. configs \in Seq(ConfigRow)
      BY DEF KeptInv, Reg, RegistryTypeOK, ConfigRow
    <2>2. ThreadInv' /\ Forms'
      BY <2>1, ThreadInvStep, FormsStep
    <2> QED BY <2>2, MoneyStep, KeptStep
  <1> QED BY <1>1, <1>2, PTL DEF Spec

\* However many administrators and batches top a user up at the same time, the user is
\* given MaxTopUpPerDay within 24 hours at most: the sum is taken and the deposit made
\* with the user's row locked (TopUpWithDailyCap).
THEOREM TopUpsCapped == Spec => []CapKept
  <1>1. MoneyInv => CapKept
    BY DEF MoneyInv, CapKept
  <1> QED BY <1>1, WorkInv, PTL

\* A cluster whose addition was answered with success is there until someone removes
\* it, through other additions of the name that fail and are taken back, through
\* removals of others and through restarts whatever part of them fails; the process
\* knows it, unless it could not read the database, and under the id of its row.
THEOREM AddedIsNotLost == Spec => []AddedSurvives
  <1>1. KeptInv => AddedSurvives
    BY DEF KeptInv, Remains, AddedSurvives, Rows
  <1> QED BY <1>1, WorkInv, PTL

-----------------------------------------------------------------------------
(* Users, sign-ins and bounds                                              *)

\* Nobody else writes the rows of users and their quotas.
LEMMA RowFrame ==
  ASSUME [Next]_vars
  PROVE  \/ UNCHANGED <<role, quota>>
         \/ \E t \in Threads : InsertTheUser(t) \/ InsertTheQuota(t) \/ SetRole(t)
  <1>1. ASSUME NEW t \in Threads, Authenticate(t), ~ InsertTheUser(t), ~ InsertTheQuota(t)
        PROVE  UNCHANGED <<role, quota>>
    BY <1>1 DEF Authenticate, SignIn, CallBack, UseToken, Begin, RoleOf, Gate, Fails, accounts
  <1>2. ASSUME NEW t \in Threads, AccountStep(t), ~ SetRole(t)
        PROVE  UNCHANGED <<role, quota>>
    BY <1>2
    DEF AccountStep, LockUser, SumDeposits, DepositAndCommit, Deposit, DepositFails, MintToken,
        Create, LockToken, RenewToken, Renew, DeleteToken, Delete, NoToken, StartStepUp,
        Exchange, Stamp, SetStepUpAuthAt, accounts
  <1>3. ASSUME NEW t \in Threads, ClusterStep(t) PROVE UNCHANGED <<role, quota>>
    BY <1>3
    DEF ClusterStep, Dial, Persist, Undo, NoteId, Drop, DeleteRow, ReadConfig, WriteConfig,
        ReadPools, FindPool, Ensure, Seed, Take, AssignAndCommit, accounts
  <1> QED
    BY <1>1, <1>2, <1>3
    DEF Next, Reauthenticate, StepUpAges, Ages, DayPasses, StampAges, TokenAges, Cleanup,
        DeleteExpiredBefore, Restart, vars, accounts

\* Past its sign-in a request is of a user with a row, and so are tokens and quotas.
Present ==
  /\ role \in [Users -> {"absent", "customer", "admin"}]
  /\ quota \subseteq {u \in Users : role[u] # "absent"}
  /\ \A i \in 1..Len(tokens) : role[tokens[i].owner] # "absent" /\ tokens[i].chain \in 1..i
  /\ \A t \in Threads :
       th[t].at \notin {"idle", "insertUser", "exchange"} => role[Ask(t).by] # "absent"

\* Those who are known at first have rows.
LEMMA PresentInit == Init => Present
  <1> SUFFICES ASSUME Init PROVE Present
    OBVIOUS
  <1>1. PICK s \in Setups :
          /\ role = [u \in Users |-> IF u \notin s.known THEN "absent"
                                     ELSE IF u \in AdminEmails THEN "admin" ELSE "customer"]
          /\ quota = s.known
          /\ tokens = [i \in DOMAIN s.tokens |-> NewToken(s.tokens[i], i)]
    BY DEF Init
  <1>2. s.tokens \in Seq(s.known) /\ s.known \subseteq Users
    BY ServerAssumption
  <1>3. /\ Len(s.tokens) \in Nat /\ DOMAIN s.tokens = 1..Len(s.tokens)
        /\ \A i \in 1..Len(s.tokens) : s.tokens[i] \in s.known
    BY <1>2
  <1>4. /\ Len(tokens) = Len(s.tokens)
        /\ \A i \in 1..Len(tokens) : tokens[i].owner = s.tokens[i] /\ tokens[i].chain = i
    <2>1. tokens \in Seq(TokenRow)
      BY TokenInvInit DEF TokenInv
    <2>2. DOMAIN tokens = 1..Len(s.tokens)
      BY <1>1, <1>3
    <2>3. Len(tokens) = Len(s.tokens)
      BY <1>3, <2>1, <2>2
    <2> QED BY <1>1, <1>3, <2>3 DEF NewToken
  <1>5. \A t \in Threads : th[t].at = "idle"
    BY DEF Init, Idle
  <1>6. \A u \in Users : role[u] \in {"absent", "customer", "admin"}
                          /\ (u \in s.known => role[u] # "absent")
    BY <1>1
  <1>7. role \in [Users -> {"absent", "customer", "admin"}]
    BY <1>1
  <1>8. \A i \in 1..Len(tokens) : tokens[i].owner \in s.known /\ tokens[i].chain \in 1..i
    BY <1>3, <1>4
  <1> QED BY <1>1, <1>2, <1>5, <1>6, <1>7, <1>8 DEF Present

\* A row of users stays; its role is changed.
LEMMA RolesKept ==
  ASSUME ThreadInv, Present, [Next]_vars
  PROVE  /\ role' \in [Users -> {"absent", "customer", "admin"}]
         /\ \A u \in Users : role[u] # "absent" => role'[u] # "absent"
         /\ quota' \subseteq {u \in Users : role'[u] # "absent"}
  <1>0. /\ role \in [Users -> {"absent", "customer", "admin"}]
        /\ quota \subseteq {u \in Users : role[u] # "absent"}
    BY DEF Present
  <1>1. CASE UNCHANGED <<role, quota>>
    BY <1>0, <1>1
  <1>2. ASSUME NEW t \in Threads, InsertTheUser(t)
        PROVE  /\ role' \in [Users -> {"absent", "customer", "admin"}] /\ quota' = quota
               /\ \A u \in Users : role[u] # "absent" => role'[u] # "absent"
    BY <1>0, <1>2 DEF InsertTheUser, InsertUser, accounts
  <1>3. ASSUME NEW t \in Threads, InsertTheQuota(t)
        PROVE  role' = role /\ quota' \subseteq {u \in Users : role[u] # "absent"}
    <2>1. At(t, "insertQuota") /\ InsertQuota(Ask(t).by)
      BY <1>3 DEF InsertTheQuota
    <2>2. role[Ask(t).by] # "absent" /\ Ask(t).by \in Users
      BY <2>1 DEF Present, At, ThreadInv, Ask, Request
    <2> QED BY <1>0, <2>1, <2>2 DEF InsertQuota
  <1>4. ASSUME NEW t \in Threads, SetRole(t)
        PROVE  /\ role' \in [Users -> {"absent", "customer", "admin"}] /\ quota' = quota
               /\ \A u \in Users : role[u] # "absent" => role'[u] # "absent"
    <2>1. Ask(t).to \in {"customer", "admin"}
      BY <1>4 DEF SetRole, At, ThreadInv, Ask, Request
    <2> QED BY <1>0, <1>4, <2>1 DEF SetRole, UpdateRole, accounts
  <1> QED BY <1>0, <1>1, <1>2, <1>3, <1>4, RowFrame

\* The rows of s are those of the tokens, as to their owners and chains.
SameTokens(s) ==
  /\ Len(s) = Len(tokens)
  /\ \A i \in 1..Len(tokens) : s[i].owner = tokens[i].owner /\ s[i].chain = tokens[i].chain

\* A token keeps its owner and its chain; a new one is of a request's user and begins a
\* chain, or continues one of the same user.
LEMMA TokensGrow ==
  ASSUME ThreadInv, TokenInv, [Next]_vars
  PROVE  \/ SameTokens(tokens')
         \/ \E old \in Seq(TokenRow), new \in TokenRow :
              /\ SameTokens(old) /\ tokens' = Append(old, new)
              /\ \/ \E t \in Threads :
                      At(t, "mint") /\ new.owner = Ask(t).by /\ new.chain = Len(tokens) + 1
                 \/ \E j \in 1..Len(tokens) :
                      new.owner = tokens[j].owner /\ new.chain = tokens[j].chain
  <1> DEFINE k == Len(tokens)
  <1>0. /\ tokens \in Seq(TokenRow) /\ k \in Nat /\ DOMAIN tokens = 1..k
        /\ \A i \in 1..k : tokens[i] \in TokenRow
    BY DEF TokenInv
  <1>1. ASSUME NEW i \in 1..k, NEW st \in {"expired", "old", "deleted"}
        PROVE  LET s == [tokens EXCEPT ![i].state = st]
               IN  SameTokens(s) /\ s \in Seq(TokenRow)
    <2> DEFINE new == [tokens[i] EXCEPT !.state = st]
    <2>1. new \in TokenRow /\ new.owner = tokens[i].owner /\ new.chain = tokens[i].chain
      BY <1>0 DEF TokenRow
    <2>2. [tokens EXCEPT ![i].state = st] = [tokens EXCEPT ![i] = new]
      OBVIOUS
    <2> HIDE DEF new
    <2> QED BY <1>0, <2>1, <2>2 DEF SameTokens
  <1>2. SameTokens(tokens)
    BY DEF SameTokens
  <1>3. ASSUME NEW t \in Threads, MintToken(t)
        PROVE  \E new \in TokenRow :
                 /\ tokens' = Append(tokens, new)
                 /\ At(t, "mint") /\ new.owner = Ask(t).by /\ new.chain = k + 1
    <2>1. At(t, "mint") /\ tokens' = Append(tokens, NewToken(Ask(t).by, k + 1))
      BY <1>3 DEF MintToken, Create
    <2>2. Ask(t).by \in Users
      BY <2>1 DEF At, ThreadInv, Ask, Request
    <2>3. /\ NewToken(Ask(t).by, k + 1) \in TokenRow
          /\ NewToken(Ask(t).by, k + 1).owner = Ask(t).by
          /\ NewToken(Ask(t).by, k + 1).chain = k + 1
      BY <1>0, <2>2 DEF NewToken, TokenRow
    <2> QED BY <2>1, <2>3
  <1>4. ASSUME NEW t \in Threads, RenewToken(t)
        PROVE  \E old \in Seq(TokenRow), new \in TokenRow :
                 /\ SameTokens(old) /\ tokens' = Append(old, new)
                 /\ \E j \in 1..k : new.owner = tokens[j].owner /\ new.chain = tokens[j].chain
    <2> DEFINE i == th[t].n
               old == IF Live(i) THEN [tokens EXCEPT ![i].state = "expired"] ELSE tokens
               new == NewToken(tokens[i].owner, tokens[i].chain)
    <2>1. At(t, "renew") /\ tokens' = Append(old, new)
      BY <1>4 DEF RenewToken, Renew
    <2>2. i \in 1..k /\ tokens[i] \in TokenRow
      BY <1>0, <2>1 DEF TokenInv
    <2>3. new \in TokenRow /\ new.owner = tokens[i].owner /\ new.chain = tokens[i].chain
      BY <2>2 DEF NewToken, TokenRow
    <2>4. SameTokens(old) /\ old \in Seq(TokenRow)
      BY <1>0, <1>1, <1>2, <2>2
    <2> HIDE DEF old, new
    <2> QED BY <2>1, <2>2, <2>3, <2>4
  <1>5. ASSUME NEW t \in Threads, DeleteToken(t) PROVE SameTokens(tokens')
    <2>1. PICK i \in 1..k : tokens' = [tokens EXCEPT ![i].state = "deleted"]
      BY <1>0, <1>5 DEF DeleteToken, OwnTokens, Delete
    <2> QED BY <1>1, <2>1
  <1>6. CASE Ages
    <2>1. UNCHANGED tokens \/ \E i \in 1..k : TokenAges(i)
      BY <1>0, <1>6 DEF Ages, DayPasses, StampAges
    <2>2. ASSUME NEW i \in 1..k, TokenAges(i)
          PROVE  SameTokens(tokens')
      <3>1. PICK st \in {"expired", "old", "deleted"} : tokens' = [tokens EXCEPT ![i].state = st]
        BY <2>2 DEF TokenAges
      <3> QED BY <1>1, <3>1
    <2>3. UNCHANGED tokens => SameTokens(tokens')
      BY <1>2
    <2> QED BY <2>1, <2>2, <2>3
  <1>7. CASE Cleanup
    <2>1. tokens' = [i \in DOMAIN tokens |->
            IF tokens[i].state = "old" THEN [tokens[i] EXCEPT !.state = "deleted"] ELSE tokens[i]]
      BY <1>7 DEF Cleanup, DeleteExpiredBefore
    <2>2. ASSUME NEW i \in 1..k
          PROVE  /\ [tokens[i] EXCEPT !.state = "deleted"] \in TokenRow
                 /\ [tokens[i] EXCEPT !.state = "deleted"].chain = tokens[i].chain
                 /\ [tokens[i] EXCEPT !.state = "deleted"].owner = tokens[i].owner
      BY <1>0 DEF TokenRow
    <2>3. tokens' \in [1..k -> TokenRow]
      BY <1>0, <2>1, <2>2
    <2>4. Len(tokens') = k
      BY <1>0, <2>3
    <2> QED BY <1>0, <2>1, <2>2, <2>4 DEF SameTokens
  <1> QED BY <1>0, <1>2, <1>3, <1>4, <1>5, <1>6, <1>7, TokenFrame

\* What a thread past its sign-in knows of its user.
LEMMA ThreadsPresent ==
  ASSUME ThreadInv, Present, [Next]_vars, NEW s \in Threads,
         th'[s].at \notin {"idle", "insertUser", "exchange"}
  PROVE  role'[th'[s].ask.by] # "absent"
  <1>0. /\ \A u \in Users : role[u] # "absent" => role'[u] # "absent"
        /\ role \in [Users -> {"absent", "customer", "admin"}]
    BY RolesKept DEF Present
  <1>1. ASSUME th[s].at \notin {"idle", "insertUser", "exchange"}, th'[s].ask = th[s].ask
        PROVE  role'[th'[s].ask.by] # "absent"
    <2>1. role[th[s].ask.by] # "absent" /\ th[s].ask.by \in Users
      BY <1>1 DEF Present, Ask, ThreadInv, Request
    <2> QED BY <1>0, <1>1, <2>1
  <1>2. CASE th' = th
    BY <1>1, <1>2
  <1>3. CASE Restart
    BY <1>3 DEF Restart, Idle
  <1>4. ASSUME NEW t \in Threads \ {s}, Starts(t) \/ Ends(t) \/ GoesOn(t)
        PROVE  role'[th'[s].ask.by] # "absent"
    <2>1. th'[s].at = th[s].at /\ th'[s].ask = th[s].ask
      BY <1>4, Others
    <2> QED BY <1>1, <2>1
  <1>5. CASE Ends(s)
    BY <1>5 DEF Ends, Idle, ThreadInv
  <1>6. CASE Starts(s)
    <2>1. PICK q \in asks : \E r :
            \/ Begin(s, q, "insertUser", r) \/ Begin(s, q, "exchange", r)
            \/ Begin(s, q, "gate", r) /\ role[q.by] # "absent"
            \/ Begin(s, q, "roleOf", r) /\ \E i \in DOMAIN tokens : tokens[i].owner = q.by
      BY <1>6 DEF Starts
    <2>2. PICK r :
            \/ Begin(s, q, "insertUser", r) \/ Begin(s, q, "exchange", r)
            \/ Begin(s, q, "gate", r) /\ role[q.by] # "absent"
            \/ Begin(s, q, "roleOf", r) /\ \E i \in DOMAIN tokens : tokens[i].owner = q.by
      BY <2>1
    <2>3. q.by \in Users
      BY DEF ThreadInv, Request
    <2>4. th'[s].ask = q
      BY <2>2, Begun
    <2>5. ~ Begin(s, q, "insertUser", r) /\ ~ Begin(s, q, "exchange", r)
      BY Begun
    <2>6. role[q.by] # "absent"
      BY <2>2, <2>5 DEF Present
    <2> QED BY <1>0, <2>3, <2>4, <2>6
  <1>7. CASE GoesOn(s)
    <2>1. PICK r : With(s, r) /\ Leads(s, r)
      BY <1>7 DEF GoesOn
    <2>2. th'[s] = r /\ r.ask = th[s].ask
      BY <2>1 DEF With, ThreadInv, Leads
    <2>3. th[s].ask.by \in Users
      BY <2>1 DEF Leads, ThreadInv, Request
    <2>4. CASE th[s].at \notin {"idle", "insertUser", "exchange"}
      BY <1>1, <2>2, <2>4
    <2>5. CASE r.at = "insertQuota" /\ InsertUser(Ask(s).by)
      BY <1>0, <2>2, <2>3, <2>5 DEF InsertUser, Ask
    <2>6. CASE r.at = "stamp" /\ role[Ask(s).by] # "absent"
      BY <1>0, <2>2, <2>3, <2>6 DEF Ask
    <2> QED BY <2>1, <2>4, <2>5, <2>6 DEF Leads, At, LockUser, SumDeposits
  <1> QED BY <1>2, <1>3, <1>4, <1>5, <1>6, <1>7, Moves

\* Every step keeps it.
LEMMA PresentStep ==
  ASSUME ThreadInv, TokenInv, TokenInv', Present, [Next]_vars
  PROVE  Present'
  <1> DEFINE k == Len(tokens)
  <1>0. /\ role' \in [Users -> {"absent", "customer", "admin"}]
        /\ \A u \in Users : role[u] # "absent" => role'[u] # "absent"
        /\ quota' \subseteq {u \in Users : role'[u] # "absent"}
    BY RolesKept
  <1>1. /\ tokens \in Seq(TokenRow) /\ k \in Nat
        /\ \A i \in 1..k : tokens[i].owner \in Users /\ role'[tokens[i].owner] # "absent"
                           /\ tokens[i].chain \in 1..i
    <2>1. tokens \in Seq(TokenRow) /\ k \in Nat /\ \A i \in 1..k : tokens[i] \in TokenRow
      BY DEF TokenInv
    <2>2. \A i \in 1..k : tokens[i].owner \in Users
      BY <2>1 DEF TokenRow
    <2> QED BY <1>0, <2>1, <2>2 DEF Present
  <1>2. \A i \in 1..Len(tokens') : role'[tokens'[i].owner] # "absent" /\ tokens'[i].chain \in 1..i
    <2>1. CASE SameTokens(tokens')
      BY <1>1, <2>1 DEF SameTokens
    <2>2. ASSUME NEW old \in Seq(TokenRow), NEW new \in TokenRow,
                 SameTokens(old), tokens' = Append(old, new),
                 \/ \E t \in Threads :
                      At(t, "mint") /\ new.owner = Ask(t).by /\ new.chain = Len(tokens) + 1
                 \/ \E j \in 1..Len(tokens) :
                      new.owner = tokens[j].owner /\ new.chain = tokens[j].chain
          PROVE  \A i \in 1..Len(tokens') :
                   role'[tokens'[i].owner] # "absent" /\ tokens'[i].chain \in 1..i
      <3>1. Len(tokens') = k + 1 /\ tokens'[k + 1] = new /\ \A i \in 1..k : tokens'[i] = old[i]
        BY <1>1, <2>2 DEF SameTokens
      <3>2. role'[new.owner] # "absent" /\ new.chain \in 1..(k + 1)
        <4>1. ASSUME NEW t \in Threads, At(t, "mint"), new.owner = Ask(t).by, new.chain = k + 1
              PROVE  role'[new.owner] # "absent" /\ new.chain \in 1..(k + 1)
          <5>1. role[Ask(t).by] # "absent" /\ Ask(t).by \in Users
            BY <4>1 DEF Present, At, Ask, ThreadInv, Request
          <5> QED BY <1>0, <1>1, <4>1, <5>1
        <4>2. ASSUME NEW j \in 1..k, new.owner = tokens[j].owner, new.chain = tokens[j].chain
              PROVE  role'[new.owner] # "absent" /\ new.chain \in 1..(k + 1)
          BY <1>1, <4>2
        <4> QED BY <2>2, <4>1, <4>2
      <3>3. \A i \in 1..k : role'[tokens'[i].owner] # "absent" /\ tokens'[i].chain \in 1..i
        BY <1>1, <2>2, <3>1 DEF SameTokens
      <3>4. \A i \in 1..(k + 1) : i \in 1..k \/ i = k + 1
        BY <1>1
      <3> QED BY <3>1, <3>2, <3>3, <3>4
    <2> QED BY <2>1, <2>2, TokensGrow
  <1>3. \A t \in Threads : th'[t].at \notin {"idle", "insertUser", "exchange"} =>
          role'[Ask(t)'.by] # "absent"
    BY ThreadsPresent DEF Ask
  <1> QED BY <1>0, <1>2, <1>3 DEF Present

\* A verifier is of a step-up that has begun.
Logins ==
  /\ stamp \in [Users -> {"never", "recent", "stale"}]
  /\ login \in [Users -> {"none", "started", "recent", "stale"}]
  /\ verifier \subseteq {u \in Users : login[u] # "none"}

\* Nobody else has to do with step-ups.
LEMMA LoginFrame ==
  ASSUME [Next]_vars
  PROVE  \/ UNCHANGED <<stamp, login, verifier>>
         \/ \E t \in Threads : StartStepUp(t) \/ Exchange(t) \/ Stamp(t)
         \/ \E u \in Users : Reauthenticate(u) \/ StepUpAges(u)
         \/ Ages \/ Restart
  <1>1. ASSUME NEW t \in Threads, Authenticate(t) PROVE UNCHANGED <<stamp, login, verifier>>
    BY <1>1
    DEF Authenticate, SignIn, CallBack, UseToken, Begin, RoleOf, InsertTheUser, InsertUser,
        InsertTheQuota, InsertQuota, Gate, Fails, Other, accounts
  <1>2. ASSUME NEW t \in Threads, AccountStep(t), ~ StartStepUp(t), ~ Exchange(t), ~ Stamp(t)
        PROVE  UNCHANGED <<stamp, login, verifier>>
    BY <1>2
    DEF AccountStep, LockUser, SumDeposits, DepositAndCommit, Deposit, DepositFails, SetRole,
        UpdateRole, MintToken, Create, LockToken, RenewToken, Renew, DeleteToken, Delete,
        NoToken, Other, accounts
  <1>3. ASSUME NEW t \in Threads, ClusterStep(t) PROVE UNCHANGED <<stamp, login, verifier>>
    BY <1>3
    DEF ClusterStep, Dial, Persist, Undo, NoteId, Drop, DeleteRow, ReadConfig, WriteConfig,
        ReadPools, FindPool, Ensure, Seed, Take, AssignAndCommit, Other, accounts
  <1> QED
    BY <1>1, <1>2, <1>3
    DEF Next, Cleanup, DeleteExpiredBefore, vars, accounts, server

\* Every step keeps it.
LEMMA LoginsStep == ASSUME ThreadInv, Forms, Logins, [Next]_vars PROVE Logins'
  <1>0. /\ stamp \in [Users -> {"never", "recent", "stale"}]
        /\ login \in [Users -> {"none", "started", "recent", "stale"}]
        /\ verifier \subseteq {u \in Users : login[u] # "none"}
    BY DEF Logins
  <1>1. CASE UNCHANGED <<stamp, login, verifier>>
    BY <1>0, <1>1 DEF Logins
  <1>2. ASSUME NEW t \in Threads, StartStepUp(t) PROVE Logins'
    <2>1. Ask(t).by \in Users
      BY <1>2 DEF StartStepUp, At, ThreadInv, Ask, Request
    <2> QED BY <1>0, <1>2, <2>1 DEF StartStepUp, Logins, accounts
  <1>3. ASSUME NEW t \in Threads, Exchange(t) PROVE Logins'
    <2>1. Ask(t).by \in Users
      BY <1>3 DEF Exchange, At, ThreadInv, Ask, Request
    <2> QED BY <1>0, <1>3, <2>1 DEF Exchange, Logins, accounts
  <1>4. ASSUME NEW t \in Threads, Stamp(t) PROVE Logins'
    <2>1. th[t].read \in {"recent", "stale"}
      BY <1>4 DEF Stamp, At, Forms, Form
    <2> QED BY <1>0, <1>4, <2>1 DEF Stamp, SetStepUpAuthAt, Other, Logins
  <1>5. ASSUME NEW u \in Users, Reauthenticate(u) \/ StepUpAges(u) PROVE Logins'
    BY <1>0, <1>5 DEF Reauthenticate, StepUpAges, Logins, accounts
  <1>6. CASE Ages
    BY <1>0, <1>6 DEF Ages, DayPasses, StampAges, TokenAges, Logins
  <1>7. CASE Restart
    BY <1>0, <1>7 DEF Restart, Logins, accounts
  <1> QED BY <1>1, <1>2, <1>3, <1>4, <1>5, <1>6, <1>7, LoginFrame

\* What is bounded.
Counts == spent \in 0..Budget /\ days \in 0..MaxDays /\ faults \in 0..MaxFaults

\* A failed call is one of those to come, a request one of the budget.
LEMMA CountsStep == ASSUME Counts, [Next]_vars PROVE Counts'
  <1>0. /\ spent \in 0..Budget /\ days \in 0..MaxDays /\ faults \in 0..MaxFaults
        /\ Budget \in Nat /\ MaxDays \in Nat /\ MaxFaults \in Nat
    BY ServerAssumption DEF Counts
  <1>1. Sound \/ Fault => faults' \in 0..MaxFaults
    BY <1>0 DEF Sound, Fault
  <1>2. ASSUME NEW t \in Threads, NEW q, NEW p, NEW r, Begin(t, q, p, r) PROVE Counts'
    BY <1>0, <1>1, <1>2 DEF Begin, Counts
  <1>3. ASSUME NEW t \in Threads, NEW q \in asks,
               SignIn(t, q) \/ CallBack(t, q) \/ \E i \in DOMAIN tokens : UseToken(t, q, i)
        PROVE  Counts'
    BY <1>2, <1>3 DEF SignIn, CallBack, UseToken
  <1>4. ASSUME UNCHANGED <<spent, days>>, Sound \/ Fault PROVE Counts'
    BY <1>0, <1>1, <1>4 DEF Counts
  <1>5. ASSUME NEW t \in Threads, Authenticate(t) PROVE Counts'
    <2>1. RoleOf(t) \/ InsertTheUser(t) \/ InsertTheQuota(t) \/ Gate(t) \/ Fails(t) =>
            UNCHANGED <<spent, days>> /\ (Sound \/ Fault)
      BY DEF RoleOf, InsertTheUser, InsertTheQuota, Gate, Fails, Other
    <2> QED BY <1>3, <1>4, <1>5, <2>1 DEF Authenticate
  <1>6. ASSUME NEW t \in Threads, AccountStep(t) PROVE Counts'
    <2>1. UNCHANGED <<spent, days>> /\ (Sound \/ Fault)
      BY <1>6
      DEF AccountStep, LockUser, SumDeposits, DepositAndCommit, DepositFails, SetRole,
          MintToken, LockToken, RenewToken, DeleteToken, NoToken, StartStepUp, Exchange, Stamp,
          Other
    <2> QED BY <1>4, <2>1
  <1>7. ASSUME NEW t \in Threads, ClusterStep(t) PROVE Counts'
    <2>1. UNCHANGED <<spent, days>> /\ (Sound \/ Fault)
      BY <1>7
      DEF ClusterStep, Dial, Persist, Undo, NoteId, Drop, DeleteRow, ReadConfig, WriteConfig,
          ReadPools, FindPool, Ensure, Seed, Take, AssignAndCommit, Other
    <2> QED BY <1>4, <2>1
  <1>8. ASSUME NEW u \in Users, Reauthenticate(u) \/ StepUpAges(u) PROVE Counts'
    BY <1>0, <1>8 DEF Reauthenticate, StepUpAges, Counts
  <1>9. CASE Ages \/ Cleanup \/ Restart \/ UNCHANGED vars
    BY <1>0, <1>9 DEF Ages, Cleanup, Restart, vars, server, Counts
  <1> QED BY <1>5, <1>6, <1>7, <1>8, <1>9 DEF Next

\* Nobody has begun a step-up at first, and no request has come.
LEMMA SignInInit == Init => Logins /\ Counts
  <1> SUFFICES ASSUME Init PROVE Logins /\ Counts
    OBVIOUS
  <1>1. PICK s \in Setups :
          /\ stamp = [u \in Users |-> IF u \in s.proven THEN "recent" ELSE "never"]
          /\ faults = s.faults
    BY DEF Init
  <1>2. /\ login = [u \in Users |-> "none"] /\ verifier = {} /\ spent = 0 /\ days = 0
        /\ faults \in 0..MaxFaults /\ Budget \in Nat /\ MaxDays \in Nat
    BY <1>1, ServerAssumption DEF Init
  <1> QED BY <1>1, <1>2 DEF Logins, Counts

\* All the parts of the inductive invariant, and with them the types: in particular
\* every token and quota is of a user with a row, a verifier is of a step-up that has
\* begun, no two clusters have one id, and every client has a configuration.
THEOREM AdminServerTypeCorrect == Spec => []TypeOK
  <1> DEFINE I == /\ ThreadInv /\ Forms /\ MoneyInv /\ KeptInv /\ TokenInv /\ AddressInv
                  /\ Present /\ Logins /\ Counts
  <1>1. Init => I
    BY ThreadInvInit, FormsInit, MoneyInit, KeptInit, TokenInvInit, AddressInvInit,
       PresentInit, SignInInit
  <1>2. I /\ [Next]_vars => I'
    <2> SUFFICES ASSUME I, [Next]_vars PROVE I'
      OBVIOUS
    <2>1. configs \in Seq(ConfigRow)
      BY DEF KeptInv, Reg, RegistryTypeOK, ConfigRow
    <2>2. ThreadInv' /\ Forms' /\ TokenInv' /\ AddressInv'
      BY <2>1, ThreadInvStep, FormsStep, TokenInvStep, AddressInvStep
    <2>3. MoneyInv' /\ KeptInv'
      BY <2>2, MoneyStep, KeptStep
    <2>4. Present' /\ Logins' /\ Counts'
      BY <2>2, PresentStep, LoginsStep, CountsStep
    <2> QED BY <2>2, <2>3, <2>4
  <1>3. I => TypeOK
    <2> SUFFICES ASSUME I PROVE TypeOK
      OBVIOUS
    <2>1. AccountsTypeOK
      <3>1. tokens \in Seq(TokenRow)
        BY DEF TokenInv
      <3>2. DOMAIN tokens = 1..Len(tokens) /\ \A i \in 1..Len(tokens) : tokens[i] \in TokenRow
        BY <3>1
      <3>3. \A i \in 1..Len(tokens) :
              tokens[i].owner \in Users /\ tokens[i].state \in {"live", "expired", "old", "deleted"}
        BY <3>2 DEF TokenRow
      <3> QED BY <3>2, <3>3 DEF AccountsTypeOK, MoneyInv, Present, Logins
    <2>2. RegistryTypeOK /\ kept \subseteq Names
      BY DEF KeptInv, Reg
    <2>3. \A t \in Threads : th[t].at \in Points /\ (th[t].at = "idle") = (th[t] = Idle)
      <3> SUFFICES ASSUME NEW t \in Threads
                   PROVE  th[t].at \in Points /\ (th[t].at = "idle") = (th[t] = Idle)
        OBVIOUS
      <3>1. th[t].at \in Points /\ (th[t].at = "idle" => th[t] = Idle)
        BY DEF Forms, Form
      <3>2. Idle.at = "idle"
        BY DEF Idle
      <3> QED BY <3>1, <3>2
    <2>4. given \in [Addresses -> Nat]
      BY DEF AddressInv
    <2> QED BY <2>1, <2>2, <2>3, <2>4 DEF TypeOK, Logins, Counts
  <1> QED BY <1>1, <1>2, <1>3, PTL DEF Spec
=============================================================================
