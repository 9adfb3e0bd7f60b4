-------------------------- MODULE ClusterRegistry --------------------------
(***************************************************************************)
(* Which clusters there are, and their address pools: the rows of clusters *)
(* in the database, cluster.Manager in memory, and what runServer makes of *)
(* both and of the environment when the process starts. Addresses of a     *)
(* pool come into the database when the first one is asked for.            *)
(***************************************************************************)
EXTENDS Integers, Sequences, FiniteSets, SequencesExt

CONSTANTS
  Names,      \* cluster names
  Env,        \* the cluster the environment configures, if it does
  EnvPools,   \* the pools the environment gives it
  Pools,      \* address pools, by their CIDRs
  InPool      \* the addresses of each pool, in order

Addresses == UNION {ToSet(InPool[p]) : p \in Pools}

ASSUME RegistryAssumption ==
  /\ IsFiniteSet(Names) /\ Env \subseteq Names /\ Cardinality(Env) <= 1
  /\ EnvPools \in Seq(Pools)
  /\ DOMAIN InPool = Pools

VARIABLES
  row,         \* rows of clusters: id and ip_pools_json, id 0 if there is none
  serial,      \* the last id of clusters
  referenced,  \* ids of clusters that other tables refer to
  source,      \* where this process has its clusters from, "nothing" without a Manager
  clients,     \* Manager.clients
  configs,     \* Manager.configs
  ids,         \* Manager.idByName
  poolRow,     \* pools with a row in ip_pools
  address      \* ip_addresses: what became of each address

registry == <<row, serial, referenced, source, clients, configs, ids, poolRow, address>>
memory   == <<source, clients, configs, ids>>

NoRow == [id |-> 0, pools |-> <<>>]
Rows  == {n \in Names : row[n].id # 0}

Configured == {configs[i].name : i \in DOMAIN configs}

RegistryTypeOK ==
  /\ serial \in Nat /\ row \in [Names -> [id : 0..serial, pools : Seq(Pools)]]
  /\ \A n, k \in Rows : row[n].id = row[k].id => n = k
  /\ referenced \subseteq 1..serial
  /\ source \in {"database", "environment", "nothing"}
  /\ configs \in Seq([name : Names, pools : Seq(Pools)])
  /\ clients \subseteq Configured
  /\ ids \in [Names -> 0..serial]
  /\ poolRow \subseteq Pools
  /\ address \in [Addresses -> {"absent", "available", "assigned"}]

-----------------------------------------------------------------------------
(***************************************************************************)
(* cluster.Manager                                                         *)
(***************************************************************************)
First(n)  == CHOOSE i \in DOMAIN configs :
               configs[i].name = n /\ \A j \in 1..(i - 1) : configs[j].name # n
\* ConfigByName
Config(n) == configs[First(n)]

\* AddCluster of Manager, the cluster being reached.
AddToManager(n, pools) ==
  /\ clients' = clients \cup {n}
  /\ configs' = Append(configs, [name |-> n, pools |-> pools])
  /\ UNCHANGED <<row, serial, referenced, source, ids, poolRow, address>>

\* Variant: only the configuration goes.
ForgetConfig(n) ==
  /\ configs' = RemoveAt(configs, First(n))
  /\ UNCHANGED <<row, serial, referenced, source, clients, ids, poolRow, address>>

\* RemoveCluster of Manager; idByName keeps the id.
RemoveFromManager(n) ==
  /\ clients' = clients \ {n}
  /\ configs' = IF n \in Configured THEN RemoveAt(configs, First(n)) ELSE configs
  /\ UNCHANGED <<row, serial, referenced, source, ids, poolRow, address>>

\* The pools of a configuration but one.
Without(pools, p) ==
  LET rest[i \in 0..Len(pools)] ==
        IF i = 0 THEN <<>>
        ELSE IF pools[i] = p THEN rest[i - 1] ELSE Append(rest[i - 1], pools[i])
  IN rest[Len(pools)]

UpdateConfig(n, pools) ==
  /\ configs' = IF n \in Configured THEN [configs EXCEPT ![First(n)].pools = pools]
                ELSE configs
  /\ UNCHANGED <<row, serial, referenced, source, clients, ids, poolRow, address>>

SetID(n, id) ==
  /\ ids' = [ids EXCEPT ![n] = id]
  /\ UNCHANGED <<row, serial, referenced, source, clients, configs, poolRow, address>>

-----------------------------------------------------------------------------
(***************************************************************************)
(* ClusterRepo. CreateFull overwrites a row of the name; DELETE fails when *)
(* a VM, a pool, a job or an event refers to the row.                      *)
(***************************************************************************)
Written(n, pools) == [row EXCEPT ![n] = [id |-> IF @.id = 0 THEN serial + 1 ELSE @.id,
                                         pools |-> pools]]

CreateFull(n, pools) ==
  /\ row' = Written(n, pools)
  /\ serial' = IF row[n].id = 0 THEN serial + 1 ELSE serial
  /\ UNCHANGED <<referenced, memory, poolRow, address>>

DeleteByName(n) ==
  /\ row' = IF row[n].id \in referenced THEN row ELSE [row EXCEPT ![n] = NoRow]
  /\ UNCHANGED <<serial, referenced, memory, poolRow, address>>

-----------------------------------------------------------------------------
(***************************************************************************)
(* IPAddrRepo, as allocateFromPool uses it.                                *)
(***************************************************************************)
\* EnsurePool names cluster 1, whichever cluster the pool is of.
PoolInsertable(p) == p \in poolRow \/ \E n \in Names : row[n].id = 1

EnsurePool(p) ==
  /\ poolRow' = poolRow \cup {p} /\ referenced' = referenced \cup {1}
  /\ UNCHANGED <<row, serial, memory, address>>

\* Variant: a row that is there is made available again.
SeedAgain(a) ==
  /\ address' = [address EXCEPT ![a] = "available"]
  /\ UNCHANGED <<row, serial, referenced, memory, poolRow>>

\* One row of SeedPool; one that is there is left as it is.
SeedOne(a) ==
  /\ address' = [address EXCEPT ![a] = IF @ = "absent" THEN "available" ELSE @]
  /\ UNCHANGED <<row, serial, referenced, memory, poolRow>>

Assign(a) ==
  /\ address' = [address EXCEPT ![a] = "assigned"]
  /\ UNCHANGED <<row, serial, referenced, memory, poolRow>>

-----------------------------------------------------------------------------
(***************************************************************************)
(* runServer: the environment is written to the database, the database is  *)
(* read, each cluster is connected to and its row's id noted. Any of it    *)
(* may fail; the process goes on with what it has.                         *)
(***************************************************************************)
Failures == ({"write", "connect", "note"} \X Names) \cup {<<"list">>}

\* upsertEnvClusters
Upserted(bad) ==
  [n \in Names |->
     IF n \in Env /\ <<"write", n>> # bad THEN Written(n, EnvPools)[n] ELSE row[n]]

\* loadClustersFromDB, or the environment's if that fails; NewManager; SetID.
Start(bad) ==
  LET rows == Upserted(bad)
      list == IF bad = <<"list">> THEN [n \in Env |-> EnvPools]
              ELSE [n \in {k \in Names : rows[k].id # 0} |-> rows[n].pools]
      reached == {n \in DOMAIN list : <<"connect", n>> # bad}
  IN
  /\ row' = rows
  /\ serial' = IF \E n \in Env : rows[n].id > serial THEN serial + 1 ELSE serial
  /\ source' = IF reached = {} THEN "nothing"
               ELSE IF bad = <<"list">> THEN "environment" ELSE "database"
  /\ clients' = reached
  /\ configs' = IF reached = {} THEN <<>>
                ELSE SetToSeq({[name |-> n, pools |-> list[n]] : n \in DOMAIN list})
  /\ ids' = [n \in Names |->
       IF n \in DOMAIN list /\ reached # {} /\ <<"note", n>> # bad THEN rows[n].id ELSE 0]
  /\ UNCHANGED <<referenced, poolRow, address>>

RegistryInit(vms) ==
  /\ row = [n \in Names |-> IF n \in Env THEN [id |-> 1, pools |-> EnvPools] ELSE NoRow]
  /\ serial = Cardinality(Env)
  /\ referenced = IF vms THEN 1..serial ELSE {}
  /\ source = IF Env = {} THEN "nothing" ELSE "database"
  /\ clients = Env
  /\ configs = SetToSeq({[name |-> n, pools |-> EnvPools] : n \in Env})
  /\ ids = [n \in Names |-> row[n].id]
  /\ poolRow = {}
  /\ address = [a \in Addresses |-> "absent"]
=============================================================================
