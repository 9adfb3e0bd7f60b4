------------------------------ MODULE Accounts ------------------------------
(***************************************************************************)
(* What the database keeps of users: their rows and quota rows, the        *)
(* deposits of the last 24 hours, the time of their last step-up and their *)
(* API tokens. The operators are the statements of UserRepo and            *)
(* APITokenRepo; AdminServer says who executes them and when.              *)
(***************************************************************************)
EXTENDS Integers, Sequences, FiniteSets, SequencesExt

CONSTANTS
  Users,        \* emails that may sign in
  AdminEmails,  \* ADMIN_EMAILS
  Cap           \* MaxTopUpPerDay

ASSUME AccountsAssumption == AdminEmails \subseteq Users /\ Cap \in Nat

VARIABLES
  role,      \* users.role, "absent" while there is no row
  quota,     \* the users with a row in quotas
  deposits,  \* amounts deposited in the last 24 hours, oldest first
  stamp,     \* users.stepup_auth_at, as the gate sees it
  tokens     \* rows of api_tokens in the order of their ids

accounts == <<role, quota, deposits, stamp, tokens>>

Total(s) ==
  LET sum[i \in 0..Len(s)] == IF i = 0 THEN 0 ELSE sum[i - 1] + s[i] IN sum[Len(s)]

AccountsTypeOK ==
  /\ role \in [Users -> {"absent", "customer", "admin"}]
  /\ quota \subseteq {u \in Users : role[u] # "absent"}
  /\ deposits \in [Users -> Seq(1..Cap)]
  /\ stamp \in [Users -> {"never", "recent", "stale"}]
  /\ \A i \in DOMAIN tokens :
       /\ tokens[i].owner \in Users /\ role[tokens[i].owner] # "absent"
       /\ tokens[i].chain \in 1..i
       /\ tokens[i].state \in {"live", "expired", "old", "deleted"}

-----------------------------------------------------------------------------
(***************************************************************************)
(* UserRepo.                                                               *)
(***************************************************************************)
InsertUser(u) ==
  /\ role' = [role EXCEPT ![u] = IF u \in AdminEmails THEN "admin" ELSE "customer"]
  /\ UNCHANGED <<quota, deposits, stamp, tokens>>

InsertQuota(u) == quota' = quota \cup {u} /\ UNCHANGED <<role, deposits, stamp, tokens>>

\* UpdateRole: an UPDATE that may find no row.
UpdateRole(u, r) ==
  /\ role' = IF role[u] = "absent" THEN role ELSE [role EXCEPT ![u] = r]
  /\ UNCHANGED <<quota, deposits, stamp, tokens>>

OverCap(sum, amount) == sum + amount > Cap

\* The second half of TopUpWithDailyCap: balance, transaction, commit.
Deposit(u, amount) ==
  /\ deposits' = [deposits EXCEPT ![u] = Append(@, amount)]
  /\ UNCHANGED <<role, quota, stamp, tokens>>

SetStepUpAuthAt(u, at) ==
  /\ stamp' = [stamp EXCEPT ![u] = at]
  /\ UNCHANGED <<role, quota, deposits, tokens>>

-----------------------------------------------------------------------------
(***************************************************************************)
(* APITokenRepo. A renewed token continues the chain of the old one.       *)
(***************************************************************************)
Live(i) == tokens[i].state = "live"

\* ValidateToken
ValidToken(u, i) == tokens[i].owner = u /\ Live(i)

NewToken(u, chain) == [owner |-> u, chain |-> chain, state |-> "live"]

Create(u) ==
  /\ tokens' = Append(tokens, NewToken(u, Len(tokens) + 1))
  /\ UNCHANGED <<role, quota, deposits, stamp>>

\* The second half of Renew: the old row's expires_at is now, the new row, commit.
Renew(i) ==
  LET old == IF Live(i) THEN [tokens EXCEPT ![i].state = "expired"] ELSE tokens IN
  /\ tokens' = Append(old, NewToken(tokens[i].owner, tokens[i].chain))
  /\ UNCHANGED <<role, quota, deposits, stamp>>

Delete(i) ==
  /\ tokens' = [tokens EXCEPT ![i].state = "deleted"]
  /\ UNCHANGED <<role, quota, deposits, stamp>>

\* RunAPITokenCleanup: what expired 30 days ago goes.
DeleteExpiredBefore ==
  /\ \E i \in DOMAIN tokens : tokens[i].state = "old"
  /\ tokens' = [i \in DOMAIN tokens |->
       IF tokens[i].state = "old" THEN [tokens[i] EXCEPT !.state = "deleted"] ELSE tokens[i]]
  /\ UNCHANGED <<role, quota, deposits, stamp>>

-----------------------------------------------------------------------------
(***************************************************************************)
(* Time.                                                                   *)
(***************************************************************************)
\* A deposit leaves the window of 24 hours.
DayPasses(u) ==
  /\ deposits[u] # <<>> /\ deposits' = [deposits EXCEPT ![u] = Tail(@)]
  /\ UNCHANGED <<role, quota, stamp, tokens>>

\* STEPUP_MAX_AGE
StampAges(u) ==
  /\ stamp[u] = "recent" /\ stamp' = [stamp EXCEPT ![u] = "stale"]
  /\ UNCHANGED <<role, quota, deposits, tokens>>

TokenAges(i) ==
  /\ tokens[i].state \in {"live", "expired"}
  /\ tokens' = [tokens EXCEPT ![i].state = IF @ = "live" THEN "expired" ELSE "old"]
  /\ UNCHANGED <<role, quota, deposits, stamp>>
=============================================================================
