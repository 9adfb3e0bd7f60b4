---------------------------- MODULE AdminServer ----------------------------
(***************************************************************************)
(* The server's own requests: a request is authenticated by its API token  *)
(* or by the email the proxy hands over, whose user is made on the first   *)
(* visit; administration asks for the role, and for some of it a recent    *)
(* step-up; then the handler runs, one database call or one use of the     *)
(* cluster manager at a time, among other requests. Any database call may  *)
(* fail, with its effect or without, and the process may be restarted.     *)
(***************************************************************************)
EXTENDS Accounts, ClusterRegistry

CONSTANTS
  Threads,   \* requests at work at the same time
  Setups,    \* who exists and what is asked for, see MCAdminServer
  Budget,    \* bound on requests
  MaxDays,   \* bound on what ages
  MaxFaults, \* bound on failed calls and restarts of any setup
  None

Ops == {"visit", "topUp", "batchTopUp", "role", "batchRole", "createToken", "renewToken",
        "deleteToken", "stepUp", "callback", "addCluster", "removeCluster", "addPool",
        "removePool", "allocate"}

Request == [op : Ops, by : Users, via : {"proxy", "token"}, users : Seq(Users),
            to : {"customer", "admin"}, amount : Nat, cluster : Names, pool : Pools]

ASSUME ServerAssumption ==
  /\ \A s \in Setups :
       /\ s.asks \subseteq Request /\ s.faults \in 0..MaxFaults
       /\ s.known \subseteq Users /\ s.proven \subseteq s.known /\ s.vms \in BOOLEAN
       /\ s.tokens \in Seq(s.known)
       /\ \A q \in s.asks : q.op \in {"topUp", "batchTopUp", "role", "batchRole"} =>
            q.users # <<>> /\ (q.op \in {"topUp", "role"} => Len(q.users) = 1)
       /\ \A q \in s.asks : q.op \in {"topUp", "batchTopUp"} => q.amount > 0
  /\ None \notin Request
  /\ Budget \in Nat /\ MaxDays \in Nat /\ MaxFaults \in Nat

VARIABLES
  asks,      \* the requests that come
  th,        \* what each thread is at
  login,     \* how far the browser of each user has come with a step-up
  verifier,  \* users whose verifier is in the pkceStore
  spent,     \* requests so far
  days,      \* what has aged so far
  faults,    \* failed calls and restarts to come at most
  given,     \* how often an address was handed out
  kept       \* clusters that were added, and that nobody has removed since

server == <<asks, th, login, verifier, spent, days, faults, given, kept>>
vars   == <<accounts, registry, server>>

\* What a request has read: a role, or when the user proved who it is.
Idle == [at |-> "idle", ask |-> None, read |-> "absent", todo |-> <<>>, n |-> 0,
         alone |-> FALSE]

Points == {"idle", "insertUser", "insertQuota", "roleOf", "gate", "lock", "sum", "deposit",
           "setRole", "mint", "lockToken", "renew", "delete", "start", "exchange", "stamp",
           "dial", "persist", "undo", "setId", "drop", "deleteRow", "readConfig",
           "writeConfig", "readPools", "pool", "ensure", "seed", "take", "assign"}

TypeOK ==
  /\ AccountsTypeOK /\ RegistryTypeOK
  /\ \A t \in Threads : th[t].at \in Points /\ (th[t].at = "idle") = (th[t] = Idle)
  /\ login \in [Users -> {"none", "started", "recent", "stale"}]
  /\ verifier \subseteq {u \in Users : login[u] # "none"}
  /\ spent \in 0..Budget /\ days \in 0..MaxDays /\ faults \in 0..MaxFaults
  /\ given \in [Addresses -> Nat] /\ kept \subseteq Names

-----------------------------------------------------------------------------
(***************************************************************************)
(* Threads.                                                                *)
(***************************************************************************)
At(t, p) == th[t].at = p
Ask(t)   == th[t].ask
Goes(t, p) == th' = [th EXCEPT ![t].at = p]
With(t, r) == th' = [th EXCEPT ![t] = r]
Ends(t)  == th' = [th EXCEPT ![t] = Idle]

Sound == UNCHANGED faults
Fault == faults > 0 /\ faults' = faults - 1

\* The next user of a batch.
NextUser(t, p) ==
  IF Len(th[t].todo) = 1 THEN Ends(t)
  ELSE With(t, [th[t] EXCEPT !.at = p, !.todo = Tail(@), !.n = 0])

Other == UNCHANGED <<asks, login, verifier, spent, days, given, kept>>

\* Variant: SELECT without FOR UPDATE.
UserUnlocked(t, u) == TRUE
\* A row that another transaction has locked makes a statement wait.
UserFree(t, u) ==
  \A s \in Threads \ {t} : th[s].at \in {"sum", "deposit"} => Head(th[s].todo) # u
\* Variant: SELECT without FOR UPDATE.
TokenUnlocked(t, i) == TRUE
TokenFree(t, i) == \A s \in Threads \ {t} : At(s, "renew") => th[s].n # i
\* FOR UPDATE SKIP LOCKED
AddressFree(t, a) ==
  \A s \in Threads \ {t} : At(s, "assign") => InPool[Head(th[s].todo)][th[s].n] # a

-----------------------------------------------------------------------------
(***************************************************************************)
(* Authentication.                                                         *)
(***************************************************************************)
AdminOps  == {"topUp", "batchTopUp", "role", "batchRole", "addCluster", "removeCluster",
              "addPool", "removePool"}
\* sensitiveRoutes
Sensitive == {"topUp", "batchTopUp", "batchRole"}

\* Requests for one cluster at the same time are not alone.
Crowd(n) == [s \in Threads |->
  IF th[s].ask # None /\ Ask(s).cluster = n THEN [th[s] EXCEPT !.alone = FALSE] ELSE th[s]]

Begin(t, q, p, r) ==
  /\ At(t, "idle") /\ spent < Budget /\ spent' = spent + 1
  /\ th' = [Crowd(q.cluster) EXCEPT ![t] =
       [Idle EXCEPT !.at = p, !.ask = q, !.read = r,
          !.alone = \A s \in Threads : th[s].ask = None \/ Ask(s).cluster # q.cluster]]
  /\ Sound /\ UNCHANGED <<accounts, registry, asks, login, verifier, days, given, kept>>

\* FindOrCreate finds the user, or will insert one.
SignIn(t, q) ==
  /\ q.via = "proxy" /\ q.op # "callback"
  /\ Begin(t, q, IF role[q.by] = "absent" THEN "insertUser" ELSE "gate", role[q.by])

\* ValidateToken; a token that is not valid ends the request.
UseToken(t, q, i) ==
  /\ q.via = "token" /\ ValidToken(q.by, i)
  /\ Begin(t, q, "roleOf", "absent")

\* roleLookup
RoleOf(t) ==
  /\ At(t, "roleOf") /\ Sound /\ Other
  /\ With(t, [th[t] EXCEPT !.at = "gate", !.read = role[Ask(t).by]])
  /\ UNCHANGED <<accounts, registry>>

\* INSERT INTO users: email is unique.
InsertTheUser(t) ==
  LET u == Ask(t).by IN
  /\ At(t, "insertUser") /\ Other /\ UNCHANGED registry
  /\ \/ /\ role[u] = "absent" /\ InsertUser(u)
        /\ \/ With(t, [th[t] EXCEPT !.at = "insertQuota",
                         !.read = IF u \in AdminEmails THEN "admin" ELSE "customer"]) /\ Sound
           \/ Ends(t) /\ Fault
     \/ role[u] # "absent" /\ Ends(t) /\ Sound /\ UNCHANGED accounts

InsertTheQuota(t) ==
  /\ At(t, "insertQuota") /\ Other /\ UNCHANGED registry
  /\ InsertQuota(Ask(t).by)
  /\ \/ Goes(t, "gate") /\ Sound
     \/ Ends(t) /\ Fault

\* RequireRole goes by the role that was read; RequireRecentAuthOnSensitive reads the
\* time of the step-up. BatchUsers and TopUpBalance refuse what concerns oneself.
Passes(t) ==
  LET q == Ask(t) IN
  /\ q.op \in AdminOps => th[t].read = "admin"
  /\ q.op \in Sensitive => stamp[q.by] = "recent" /\ q.by \notin ToSet(q.users)

FirstPoint(op) ==
  CASE op \in {"topUp", "batchTopUp"} -> "lock"
    [] op \in {"role", "batchRole"}   -> "setRole"
    [] op = "createToken"             -> "mint"
    [] op = "renewToken"              -> "lockToken"
    [] op = "deleteToken"             -> "delete"
    [] op = "stepUp"                  -> "start"
    [] op = "addCluster"              -> "dial"
    [] op = "removeCluster"           -> "drop"
    [] op \in {"addPool", "removePool"} -> "readConfig"
    [] op = "allocate"                -> "readPools"

Gate(t) ==
  /\ At(t, "gate") /\ Sound /\ Other
  /\ IF Passes(t) /\ Ask(t).op \notin {"visit", "callback"}
     THEN With(t, [th[t] EXCEPT !.at = FirstPoint(Ask(t).op), !.todo = Ask(t).users])
     ELSE Ends(t)
  /\ UNCHANGED <<accounts, registry>>

\* A call fails, or the client leaves, where that just ends the request.
Fails(t) ==
  /\ th[t].at \in {"insertUser", "insertQuota", "roleOf", "gate", "mint", "lockToken", "renew",
                   "delete", "exchange", "stamp", "dial", "pool", "ensure", "take", "assign"}
  /\ Ends(t) /\ Fault /\ Other
  /\ UNCHANGED <<accounts, registry>>

-----------------------------------------------------------------------------
(***************************************************************************)
(* UserHandler: TopUpBalance and UpdateRole for one user, BatchUsers for   *)
(* several, each in a transaction of its own.                              *)
(***************************************************************************)
\* SELECT ... FOR UPDATE of TopUpWithDailyCap
LockUser(t) ==
  LET u == Head(th[t].todo) IN
  /\ At(t, "lock") /\ UserFree(t, u) /\ Sound /\ Other
  /\ IF role[u] = "absent" THEN NextUser(t, "lock") ELSE Goes(t, "sum")
  /\ UNCHANGED <<accounts, registry>>

\* The sum of the window, and what becomes of the request.
SumDeposits(t) ==
  LET sum == Total(deposits[Head(th[t].todo)]) IN
  /\ At(t, "sum") /\ Sound /\ Other
  /\ IF OverCap(sum, Ask(t).amount) THEN NextUser(t, "lock") ELSE Goes(t, "deposit")
  /\ UNCHANGED <<accounts, registry>>

DepositAndCommit(t) ==
  /\ At(t, "deposit") /\ NextUser(t, "lock") /\ Sound /\ Other
  /\ Deposit(Head(th[t].todo), Ask(t).amount)
  /\ UNCHANGED registry

\* A failed transaction of a batch, rolled back.
DepositFails(t) ==
  /\ th[t].at \in {"lock", "sum", "deposit"} /\ NextUser(t, "lock") /\ Fault /\ Other
  /\ UNCHANGED <<accounts, registry>>

SetRole(t) ==
  LET u == Head(th[t].todo) IN
  /\ At(t, "setRole") /\ UserFree(t, u) /\ NextUser(t, "setRole") /\ Other
  /\ \/ UpdateRole(u, Ask(t).to) /\ Sound
     \/ Fault /\ UNCHANGED accounts
  /\ UNCHANGED registry

-----------------------------------------------------------------------------
(***************************************************************************)
(* APITokenHandler.                                                        *)
(***************************************************************************)
MintToken(t) ==
  /\ At(t, "mint") /\ Ends(t) /\ Sound /\ Other
  /\ Create(Ask(t).by)
  /\ UNCHANGED registry

OwnTokens(t) == {i \in DOMAIN tokens : tokens[i].owner = Ask(t).by /\ tokens[i].state # "deleted"}

\* Renew locks the old token and refuses one that has expired.
LockToken(t) ==
  /\ At(t, "lockToken") /\ Sound /\ Other
  /\ \E i \in OwnTokens(t) :
       /\ TokenFree(t, i)
       /\ IF Live(i) THEN With(t, [th[t] EXCEPT !.at = "renew", !.n = i]) ELSE Ends(t)
  /\ UNCHANGED <<accounts, registry>>

RenewToken(t) ==
  /\ At(t, "renew") /\ Ends(t) /\ Sound /\ Other
  /\ Renew(th[t].n)
  /\ UNCHANGED registry

DeleteToken(t) ==
  /\ At(t, "delete") /\ Ends(t) /\ Sound /\ Other
  /\ \E i \in OwnTokens(t) : TokenFree(t, i) /\ Delete(i)
  /\ UNCHANGED registry

\* The id is of no token, or of nobody's any more.
NoToken(t) ==
  /\ th[t].at \in {"lockToken", "delete"} /\ OwnTokens(t) = {}
  /\ Ends(t) /\ Sound /\ Other
  /\ UNCHANGED <<accounts, registry>>

-----------------------------------------------------------------------------
(***************************************************************************)
(* Step-up: Start keeps a verifier in memory and sends the browser to the  *)
(* identity provider, whose callback needs the verifier. A user has one    *)
(* step-up at a time; both ends forget it after stateTTL.                  *)
(***************************************************************************)
StartStepUp(t) ==
  LET u == Ask(t).by IN
  /\ At(t, "start") /\ Ends(t) /\ Sound
  /\ login' = [login EXCEPT ![u] = "started"] /\ verifier' = verifier \cup {u}
  /\ UNCHANGED <<accounts, registry, asks, spent, days, given, kept>>

\* The user enters the password at the identity provider.
Reauthenticate(u) ==
  /\ login[u] = "started" /\ login' = [login EXCEPT ![u] = "recent"]
  /\ UNCHANGED <<accounts, registry, asks, th, verifier, spent, days, faults, given, kept>>

CallBack(t, q) ==
  /\ q.op = "callback" /\ login[q.by] \in {"recent", "stale"}
  /\ Begin(t, q, "exchange", "absent")

\* take and VerifyCode, GetByEmail; the provider refuses a code without its verifier.
Exchange(t) ==
  LET u == Ask(t).by IN
  /\ At(t, "exchange") /\ Sound
  /\ verifier' = verifier \ {u} /\ login' = [login EXCEPT ![u] = "none"]
  /\ IF u \in verifier /\ role[u] # "absent" /\ login[u] \in {"recent", "stale"}
     THEN With(t, [th[t] EXCEPT !.at = "stamp", !.read = login[u]])
     ELSE Ends(t)
  /\ UNCHANGED <<accounts, registry, asks, spent, days, given, kept>>

Stamp(t) ==
  LET u == Ask(t).by IN
  /\ At(t, "stamp") /\ UserFree(t, u) /\ Ends(t) /\ Other /\ Sound
  /\ SetStepUpAuthAt(u, th[t].read)
  /\ UNCHANGED registry

-----------------------------------------------------------------------------
(***************************************************************************)
(* ClusterMgmtHandler and IPPoolHandler.                                   *)
(***************************************************************************)
Cluster(t) == Ask(t).cluster
NoManager  == source = "nothing"
AskedPools(t) == <<Ask(t).pool>>

\* AddCluster: first in memory. Without a manager it panics.
Dial(t) ==
  LET n == Cluster(t) IN
  /\ At(t, "dial") /\ Sound /\ Other /\ UNCHANGED accounts
  /\ IF NoManager \/ n \in clients
     THEN Ends(t) /\ UNCHANGED registry
     ELSE Goes(t, "persist") /\ AddToManager(n, AskedPools(t))

\* Variant: an error is only logged.
PersistAnyhow(t) ==
  LET n == Cluster(t) IN
  /\ At(t, "persist") /\ Other /\ UNCHANGED accounts
  /\ With(t, [th[t] EXCEPT !.at = "setId", !.n = Written(n, <<>>)[n].id])
  /\ \/ CreateFull(n, AskedPools(t)) /\ Sound
     \/ UNCHANGED registry /\ Fault

\* ... then in the database ...
Persist(t) ==
  LET n == Cluster(t) IN
  /\ At(t, "persist") /\ Other /\ UNCHANGED accounts
  /\ \/ /\ CreateFull(n, AskedPools(t))
        /\ \/ With(t, [th[t] EXCEPT !.at = "setId", !.n = Written(n, <<>>)[n].id]) /\ Sound
           \/ Goes(t, "undo") /\ Fault
     \/ UNCHANGED registry /\ Goes(t, "undo") /\ Fault

\* ... and if that fails out of memory again.
Undo(t) ==
  /\ At(t, "undo") /\ Ends(t) /\ Sound /\ Other /\ UNCHANGED accounts
  /\ IF Cluster(t) \in clients THEN RemoveFromManager(Cluster(t)) ELSE UNCHANGED registry

NoteId(t) ==
  LET n == Cluster(t) IN
  /\ At(t, "setId") /\ Ends(t) /\ Sound /\ UNCHANGED accounts
  /\ SetID(n, th[t].n)
  /\ kept' = IF th[t].alone THEN kept \cup {n} ELSE kept
  /\ UNCHANGED <<asks, login, verifier, spent, days, given>>

\* RemoveCluster: first in memory, then in the database, where an error is only
\* logged.
Drop(t) ==
  LET n == Cluster(t) IN
  /\ At(t, "drop") /\ Sound /\ UNCHANGED accounts
  /\ IF NoManager \/ n \notin clients
     THEN Ends(t) /\ UNCHANGED <<registry, kept>>
     ELSE Goes(t, "deleteRow") /\ RemoveFromManager(n) /\ kept' = kept \ {n}
  /\ UNCHANGED <<asks, login, verifier, spent, days, given>>

DeleteRow(t) ==
  /\ At(t, "deleteRow") /\ Ends(t) /\ Other /\ UNCHANGED accounts
  /\ \/ DeleteByName(Cluster(t)) /\ Sound
     \/ UNCHANGED registry /\ Fault

\* AddPool and RemovePool: the configuration is read, and written back changed.
ReadConfig(t) ==
  LET n == Cluster(t)
      p == Ask(t).pool
      pools == Config(n).pools
  IN
  /\ At(t, "readConfig") /\ Sound /\ Other
  /\ IF NoManager \/ n \notin Configured THEN Ends(t)
     ELSE With(t, [th[t] EXCEPT !.at = "writeConfig",
            !.todo = IF Ask(t).op = "addPool" THEN Append(pools, p)
                     ELSE Without(pools, p)])
  /\ UNCHANGED <<accounts, registry>>

WriteConfig(t) ==
  /\ At(t, "writeConfig") /\ Ends(t) /\ Sound /\ Other
  /\ UpdateConfig(Cluster(t), th[t].todo)
  /\ UNCHANGED accounts

-----------------------------------------------------------------------------
(***************************************************************************)
(* allocateIP, for an order or for a VM an administrator creates: the      *)
(* pools of the cluster one after the other.                               *)
(***************************************************************************)
Pool(t) == Head(th[t].todo)

ReadPools(t) ==
  /\ At(t, "readPools") /\ Sound /\ Other
  /\ IF NoManager \/ Cluster(t) \notin Configured \/ Config(Cluster(t)).pools = <<>>
     THEN Ends(t)
     ELSE With(t, [th[t] EXCEPT !.at = "pool", !.todo = Config(Cluster(t)).pools])
  /\ UNCHANGED <<accounts, registry>>

\* GetPoolID
FindPool(t) ==
  /\ At(t, "pool") /\ Sound /\ Other
  /\ Goes(t, IF Pool(t) \in poolRow THEN "take" ELSE "ensure")
  /\ UNCHANGED <<accounts, registry>>

Ensure(t) ==
  /\ At(t, "ensure") /\ Sound /\ Other /\ UNCHANGED accounts
  /\ IF PoolInsertable(Pool(t))
     THEN EnsurePool(Pool(t)) /\ With(t, [th[t] EXCEPT !.at = "seed", !.n = 1])
     ELSE Ends(t) /\ UNCHANGED registry

\* SeedPool, a row at a time; an error ends it and the allocation goes on.
Seed(t) ==
  LET i == th[t].n
      end == i = Len(InPool[Pool(t)])
  IN
  /\ At(t, "seed") /\ Other /\ UNCHANGED accounts
  /\ \/ /\ SeedOne(InPool[Pool(t)][i]) /\ Sound
        /\ With(t, [th[t] EXCEPT !.at = IF end THEN "take" ELSE @, !.n = IF end THEN 0 ELSE @ + 1])
     \/ UNCHANGED registry /\ With(t, [th[t] EXCEPT !.at = "take", !.n = 0]) /\ Fault

\* AllocateNext: the first available address nobody has locked.
Free(t) == {i \in DOMAIN InPool[Pool(t)] :
              address[InPool[Pool(t)][i]] = "available" /\ AddressFree(t, InPool[Pool(t)][i])}

Take(t) ==
  LET q == th[t] IN
  /\ At(t, "take") /\ Sound /\ Other
  /\ \/ \E i \in Free(t) :
          /\ \A j \in Free(t) : i <= j
          /\ With(t, [q EXCEPT !.at = "assign", !.n = i])
     \/ /\ Free(t) = {}
        /\ IF Len(q.todo) = 1 THEN Ends(t) ELSE With(t, [q EXCEPT !.at = "pool", !.todo = Tail(@)])
  /\ UNCHANGED <<accounts, registry>>

AssignAndCommit(t) ==
  LET a == InPool[Pool(t)][th[t].n] IN
  /\ At(t, "assign") /\ Ends(t) /\ Sound
  /\ Assign(a) /\ given' = [given EXCEPT ![a] = @ + 1]
  /\ UNCHANGED <<accounts, asks, login, verifier, spent, days, kept>>

-----------------------------------------------------------------------------
(***************************************************************************)
(* Time and restarts.                                                      *)
(***************************************************************************)
Ages ==
  /\ days < MaxDays /\ days' = days + 1
  /\ \/ \E u \in Users : DayPasses(u) \/ StampAges(u)
     \/ \E i \in DOMAIN tokens : TokenAges(i)
  /\ UNCHANGED <<registry, asks, th, login, verifier, spent, faults, given, kept>>

\* The proof of a step-up gets old, or its state expires.
StepUpAges(u) ==
  /\ days < MaxDays /\ days' = days + 1 /\ login[u] # "none"
  /\ \/ login[u] = "recent" /\ login' = [login EXCEPT ![u] = "stale"] /\ UNCHANGED verifier
     \/ login' = [login EXCEPT ![u] = "none"] /\ verifier' = verifier \ {u}
  /\ UNCHANGED <<accounts, registry, asks, th, spent, faults, given, kept>>

Cleanup == DeleteExpiredBefore /\ UNCHANGED <<registry, server>>

\* The process stops and starts again, perhaps with another failure.
Restart ==
  /\ faults > 0
  /\ th' = [t \in Threads |-> Idle] /\ verifier' = {}
  /\ \/ Start(<<>>) /\ faults' = faults - 1
     \/ faults > 1 /\ (\E bad \in Failures : Start(bad)) /\ faults' = faults - 2
  /\ UNCHANGED <<accounts, asks, login, spent, days, given, kept>>

-----------------------------------------------------------------------------
(***************************************************************************)
(* What must hold.                                                         *)
(***************************************************************************)
\* Nobody is given more than MaxTopUpPerDay within 24 hours, by however many
\* administrators and batches at the same time: TopUpWithDailyCap sums and deposits
\* with the user's row locked.
CapKept == \A u \in Users : Total(deposits[u]) <= Cap

\* Of a token and its renewals at most one is valid: Renew gives out the new one in
\* the transaction that ends the old one, and only for one that has not ended.
OneLivePerChain ==
  \A i, j \in DOMAIN tokens : tokens[i].chain = tokens[j].chain /\ Live(i) /\ Live(j) => i = j

\* An address is handed out once, by whoever found the pool empty, seeded it or
\* seeded it again at the same time.
NeverGivenTwice == \A a \in Addresses : given[a] <= 1

\* A cluster whose addition was answered with success, alone, is in the database
\* until someone removes it, and every process that has read the database knows it,
\* under the id of its row if it knows one.
AddedSurvives ==
  \A n \in kept :
    /\ n \in Rows
    /\ source = "database" => n \in Configured /\ ids[n] \in {0, row[n].id}

-----------------------------------------------------------------------------
Init ==
  /\ \E s \in Setups :
       /\ asks = s.asks /\ faults = s.faults
       /\ role = [u \in Users |->
            IF u \notin s.known THEN "absent"
            ELSE IF u \in AdminEmails THEN "admin" ELSE "customer"]
       /\ quota = s.known
       /\ stamp = [u \in Users |-> IF u \in s.proven THEN "recent" ELSE "never"]
       /\ tokens = [i \in DOMAIN s.tokens |-> NewToken(s.tokens[i], i)]
       /\ RegistryInit(s.vms)
  /\ deposits = [u \in Users |-> <<>>]
  /\ th = [t \in Threads |-> Idle]
  /\ login = [u \in Users |-> "none"] /\ verifier = {}
  /\ spent = 0 /\ days = 0
  /\ given = [a \in Addresses |-> 0] /\ kept = {}

Authenticate(t) ==
  \/ \E q \in asks : SignIn(t, q) \/ CallBack(t, q) \/ \E i \in DOMAIN tokens : UseToken(t, q, i)
  \/ RoleOf(t) \/ InsertTheUser(t) \/ InsertTheQuota(t) \/ Gate(t) \/ Fails(t)

AccountStep(t) ==
  \/ LockUser(t) \/ SumDeposits(t) \/ DepositAndCommit(t) \/ DepositFails(t) \/ SetRole(t)
  \/ MintToken(t) \/ LockToken(t) \/ RenewToken(t) \/ DeleteToken(t) \/ NoToken(t)
  \/ StartStepUp(t) \/ Exchange(t) \/ Stamp(t)

ClusterStep(t) ==
  \/ Dial(t) \/ Persist(t) \/ Undo(t) \/ NoteId(t) \/ Drop(t) \/ DeleteRow(t)
  \/ ReadConfig(t) \/ WriteConfig(t)
  \/ ReadPools(t) \/ FindPool(t) \/ Ensure(t) \/ Seed(t) \/ Take(t) \/ AssignAndCommit(t)

Next ==
  \/ \E t \in Threads : Authenticate(t) \/ AccountStep(t) \/ ClusterStep(t)
  \/ \E u \in Users : Reauthenticate(u) \/ StepUpAges(u)
  \/ Ages \/ Cleanup \/ Restart

Spec == Init /\ [][Next]_vars
=============================================================================
