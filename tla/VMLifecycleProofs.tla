-------------------------- MODULE VMLifecycleProofs --------------------------
(***************************************************************************)
(* What VMLifecycle.tla promises for every number of VMs, requests and     *)
(* failures: what is shown as gone, given away or deleted has no living    *)
(* instance behind it, and a rescue can be undone.                         *)
(***************************************************************************)
EXTENDS VMLifecycle, TLAPS

-----------------------------------------------------------------------------
(* The inductive invariant                                                 *)

\* A program makes an instance, gives one up, or gives an address back.
Makes(t)    == \E i \in 1..Len(t) : t[i] = "create"
Undoes(t)   == \E i \in 1..Len(t) : t[i] = "undo"
Releases(t) == \E i \in 1..Len(t) : t[i] = "release"

\* In every program a row is deleted right after its instance, an address released right after
\* the row or the instance is given up, and a rescue noted after a snapshot; an instance is
\* made once, and not in a program that gives it up.
Ordered(t) ==
  /\ t \in Seq(Steps)
  /\ \A i \in 2..Len(t) :
       /\ t[i] \in {"deleteRow", "deleteNamed"} => t[i - 1] = "delete"
       /\ t[i] = "release" => t[i - 1] \in {"deleteRow", "undo"}
       /\ t[i] = "setRescue" => t[i - 1] = "stop"
       /\ t[i] = "stop" => t[i - 1] = "snapshot"
  /\ \A i, j \in 1..Len(t) : t[i] = "create" /\ t[j] = "create" => i = j
  /\ ~(Makes(t) /\ Undoes(t))

\* A process at work is about a VM; only the purger purges, and it leaves addresses alone; only
\* the rollback of a vm.create gives up an instance.
ProgramOf(p) ==
  /\ Ordered(todo[p])
  /\ todo[p] = <<>> <=> kind[p] \in {"new", "over"}
  /\ todo[p] # <<>> => on[p] \in VMs
  /\ kind[p] = "purge" => p = Purger
  /\ p = Purger => kind[p] \in {"new", "purge"}
  /\ Undoes(todo[p]) => kind[p] = "create"
  /\ Releases(todo[p]) => kind[p] # "purge"

\* No two jobs create the same VM.
Programs ==
  /\ todo \in [Processes -> Seq(Steps)]
  /\ \A p \in Processes : ProgramOf(p)
  /\ \A p, q \in Processes :
       kind[p] = "create" /\ kind[q] = "create" /\ on[p] = on[q] => p = q

\* The instance of v is yet to be made by its vm.create.
Unmade(v) == \E p \in Processes : kind[p] = "create" /\ on[p] = v /\ Makes(todo[p])

\* The instance of v does not live; and where its vm.create has yet to make it, that will find the
\* row given up.
Destroyed(v) == Excused(v) \/ ~Living(v)
Hopeless(v)  == Excused(v) \/ (~Living(v) /\ (v \in young => ~Unmade(v)))

\* The snapshot of v is there, or there is nothing to take back to it.
Rescuable(v) == v \in snap \cup remade \cup bare \/ (inst[v] = "none" /\ ~Unmade(v))

\* What the rows of VMs say, and the events about them.
RowsTrue ==
  \A v \in VMs :
    /\ status[v] = "gone" => Hopeless(v)
    /\ addr[v] = "cooldown" => Hopeless(v)
    /\ status[v] = "deleted" => Destroyed(v)
    /\ v \in rescue => Rescuable(v)
    /\ events[v] > 0 => Hopeless(v)
    /\ Unmade(v) => inst[v] = "none" \/ v \in remade

\* What a process is about to write is true already.
WritesTrue(p) ==
  /\ todo[p] # <<>> /\ Head(todo[p]) \in {"deleteRow", "deleteNamed", "release"} =>
       IF p = Purger THEN Destroyed(on[p]) ELSE Hopeless(on[p])
  /\ Len(todo[p]) > 1 /\ todo[p][1] = "stop" /\ todo[p][2] = "setRescue" => Rescuable(on[p])
  /\ todo[p] # <<>> /\ Head(todo[p]) = "setRescue" => Rescuable(on[p])

\* What a pass of the reconciler knows.
PassTrue(p) ==
  /\ at[p] = "list" => \A v \in VMs \ names[p] : Destroyed(v)
  /\ \A v \in cand[p] : Hopeless(v)
  /\ at[p] = "release" => cur[p] \in VMs /\ Hopeless(cur[p])

IInv ==
  /\ TypeOK /\ Programs /\ RowsTrue
  /\ \A p \in Processes : WritesTrue(p)
  /\ \A p \in Passes : PassTrue(p)


-----------------------------------------------------------------------------
(* Programs: what a step of a process leaves of them                       *)

\* What is left of an ordered program is ordered.
LEMMA TailOrdered ==
  ASSUME NEW t, Ordered(t), t # <<>>
  PROVE  /\ Ordered(Tail(t)) /\ Head(t) = t[1] /\ Head(t) \in Steps
         /\ Makes(Tail(t)) => Makes(t)
         /\ Undoes(Tail(t)) => Undoes(t)
         /\ Releases(Tail(t)) => Releases(t)
         /\ Head(t) \in {"create", "undo"} => ~Makes(Tail(t))
         /\ Tail(t) # <<>> => Head(Tail(t)) = t[2] /\ Len(t) > 1
         /\ Len(Tail(t)) = Len(t) - 1
         /\ \A i \in 1..Len(Tail(t)) : Tail(t)[i] = t[i + 1]
  <1>1. t \in Seq(Steps) /\ Len(t) \in Nat /\ Len(t) >= 1
    BY DEF Ordered
  <1>2. Tail(t) \in Seq(Steps) /\ Len(Tail(t)) = Len(t) - 1
        /\ \A i \in 1..Len(Tail(t)) : Tail(t)[i] = t[i + 1]
    BY <1>1
  <1>3. Head(t) = t[1] /\ Head(t) \in Steps
    BY <1>1
  <1>4. Makes(Tail(t)) => Makes(t) /\ \E i \in 2..Len(t) : t[i] = "create"
    BY <1>1, <1>2 DEF Makes
  <1>5. Undoes(Tail(t)) => Undoes(t)
    BY <1>1, <1>2 DEF Undoes
  <1>rel. Releases(Tail(t)) => Releases(t)
    BY <1>1, <1>2 DEF Releases
  <1>6. Head(t) = "create" => ~Makes(Tail(t))
    BY <1>1, <1>3, <1>4 DEF Ordered
  <1>7. Head(t) = "undo" => ~Makes(Tail(t))
    BY <1>1, <1>3, <1>4 DEF Ordered, Undoes
  <1>8. \A i \in 2..Len(Tail(t)) : i + 1 \in 2..Len(t) /\ Tail(t)[i] = t[i + 1] /\ Tail(t)[i - 1] = t[i]
    BY <1>1, <1>2
  <1>9. Ordered(Tail(t))
    <2>1. \A i \in 2..Len(Tail(t)) :
            /\ Tail(t)[i] \in {"deleteRow", "deleteNamed"} => Tail(t)[i - 1] = "delete"
            /\ Tail(t)[i] = "release" => Tail(t)[i - 1] \in {"deleteRow", "undo"}
            /\ Tail(t)[i] = "setRescue" => Tail(t)[i - 1] = "stop"
            /\ Tail(t)[i] = "stop" => Tail(t)[i - 1] = "snapshot"
      <3> SUFFICES ASSUME NEW i \in 2..Len(Tail(t))
                   PROVE
            /\ Tail(t)[i] \in {"deleteRow", "deleteNamed"} => Tail(t)[i - 1] = "delete"
            /\ Tail(t)[i] = "release" => Tail(t)[i - 1] \in {"deleteRow", "undo"}
            /\ Tail(t)[i] = "setRescue" => Tail(t)[i - 1] = "stop"
            /\ Tail(t)[i] = "stop" => Tail(t)[i - 1] = "snapshot"
        OBVIOUS
      <3>1. /\ t[i + 1] \in {"deleteRow", "deleteNamed"} => t[(i + 1) - 1] = "delete"
            /\ t[i + 1] = "release" => t[(i + 1) - 1] \in {"deleteRow", "undo"}
            /\ t[i + 1] = "setRescue" => t[(i + 1) - 1] = "stop"
            /\ t[i + 1] = "stop" => t[(i + 1) - 1] = "snapshot"
        BY <1>8 DEF Ordered
      <3>2. (i + 1) - 1 = i
        BY <1>1, <1>2
      <3> QED BY <1>8, <3>1, <3>2
    <2>2. \A i, j \in 1..Len(Tail(t)) : Tail(t)[i] = "create" /\ Tail(t)[j] = "create" => i = j
      <3> SUFFICES ASSUME NEW i \in 1..Len(Tail(t)), NEW j \in 1..Len(Tail(t)),
                          Tail(t)[i] = "create", Tail(t)[j] = "create"
                   PROVE  i = j
        OBVIOUS
      <3>1. i + 1 \in 1..Len(t) /\ j + 1 \in 1..Len(t) /\ t[i + 1] = "create" /\ t[j + 1] = "create"
        BY <1>1, <1>2
      <3>2. i + 1 = j + 1
        BY <3>1 DEF Ordered
      <3> QED BY <3>2
    <2> QED BY <1>2, <1>4, <1>5, <2>1, <2>2 DEF Ordered
  <1>10. Tail(t) # <<>> => Head(Tail(t)) = t[2] /\ Len(t) > 1
    BY <1>1, <1>2
  <1> QED BY <1>2, <1>3, <1>4, <1>5, <1>rel, <1>6, <1>7, <1>9, <1>10

\* A program that may begin at any time: it writes nothing before it has asked Incus.
Fresh(t) ==
  /\ Ordered(t) /\ t # <<>> /\ ~Undoes(t)
  /\ Head(t) \notin {"deleteRow", "deleteNamed", "release", "setRescue"}
  /\ Len(t) > 1 /\ t[1] = "stop" => t[2] # "setRescue"

\* The programs of the handlers.
LEMMA ProgramsFresh ==
  /\ Fresh(TrashVM) /\ Fresh(PurgeTrashed) /\ Fresh(ReinstallJob)
  /\ Fresh(OfflineReset) /\ Fresh(EnterRescue) /\ Fresh(ExitRescue)
  /\ Fresh(<<"halt", "delete", "deleteNamed">>)
  /\ Fresh(<<"unmarkTrashed">>) /\ Fresh(<<"dropSnapshot">>)
  /\ \A a \in {"start", "restart"}, b \in {"setRunning", "syncRunning"} : Fresh(<<a, b>>)
  /\ \A b \in {"setStopped", "syncStopped"} : Fresh(<<"stop", b>>)
  /\ \A c \in {"move", "patch"} : Fresh(<<c>>) /\ Fresh(<<"stop", c, "start">>)
  <1> USE DEF Fresh, Ordered, Makes, Undoes, Steps
  <1>1. Fresh(TrashVM)
    BY DEF TrashVM
  <1>2. Fresh(PurgeTrashed)
    BY DEF PurgeTrashed
  <1>3. Fresh(ReinstallJob)
    BY DEF ReinstallJob
  <1>4. Fresh(OfflineReset) /\ Fresh(EnterRescue) /\ Fresh(ExitRescue)
    BY DEF OfflineReset, EnterRescue, ExitRescue
  <1>5. Fresh(<<"halt", "delete", "deleteNamed">>)
    OBVIOUS
  <1>6. Fresh(<<"unmarkTrashed">>) /\ Fresh(<<"dropSnapshot">>)
    OBVIOUS
  <1>7. \A a \in {"start", "restart"}, b \in {"setRunning", "syncRunning"} : Fresh(<<a, b>>)
    OBVIOUS
  <1>8. \A b \in {"setStopped", "syncStopped"} : Fresh(<<"stop", b>>)
    OBVIOUS
  <1>9. \A c \in {"move", "patch"} : Fresh(<<c>>) /\ Fresh(<<"stop", c, "start">>)
    OBVIOUS
  <1> HIDE DEF Fresh
  <1> QED BY <1>1, <1>2, <1>3, <1>4, <1>5, <1>6, <1>7, <1>8, <1>9

\* The program of ForceDeleteGone, which the row has to justify, and those that are not begun.
LEMMA OtherPrograms ==
  /\ Ordered(<<>>) /\ ~Makes(<<>>) /\ ~Undoes(<<>>) /\ ~Releases(<<>>)
  /\ Ordered(<<"deleteRow", "release">>) /\ ~Undoes(<<"deleteRow", "release">>)
  /\ ~Releases(PurgeTrashed)
  /\ Ordered(CreateVM) /\ CreateVM # <<>> /\ ~Undoes(CreateVM) /\ ~Releases(CreateVM)
  /\ Head(CreateVM) = "take" /\ CreateVM[1] = "take"
  <1>1. Ordered(<<>>) /\ ~Makes(<<>>) /\ ~Undoes(<<>>) /\ ~Releases(<<>>)
    BY DEF Ordered, Makes, Undoes, Releases
  <1>2. Ordered(<<"deleteRow", "release">>) /\ ~Undoes(<<"deleteRow", "release">>)
    BY DEF Ordered, Makes, Undoes, Steps
  <1>3. ~Releases(PurgeTrashed)
    BY DEF PurgeTrashed, Releases
  <1>4. /\ Ordered(CreateVM) /\ CreateVM # <<>> /\ ~Undoes(CreateVM) /\ ~Releases(CreateVM)
        /\ Head(CreateVM) = "take" /\ CreateVM[1] = "take"
    BY DEF Ordered, CreateVM, Makes, Undoes, Releases, Steps
  <1> QED BY <1>1, <1>2, <1>3, <1>4

\* The rollbacks are ordered.
LEMMA RollbackOrdered ==
  ASSUME NEW k
  PROVE  /\ Ordered(Rollback(k)) /\ Rollback(k) # <<>> /\ ~Makes(Rollback(k))
         /\ Head(Rollback(k)) \in {"undo", "setError"} /\ Rollback(k)[1] # "stop"
         /\ k # "create" => ~Undoes(Rollback(k)) /\ ~Releases(Rollback(k))
  <1>1. CASE k = "create"
    BY <1>1 DEF Ordered, Rollback, Makes, Undoes, Releases, Steps
  <1>2. CASE k # "create"
    BY <1>2 DEF Ordered, Rollback, Makes, Undoes, Releases, Steps
  <1> QED BY <1>1, <1>2

-----------------------------------------------------------------------------
(* Requests: what becomes of the programs in a step                        *)

\* Of what is not its own a process changes nothing.
OthersKept(p) ==
  \A q \in Processes \ {p} : todo'[q] = todo[q] /\ kind'[q] = kind[q] /\ on'[q] = on[q]

\* No program that was not yet to make an instance is now.
NoneMore == \A v \in VMs : Unmade(v)' => Unmade(v)

\* A process goes on with rest.
LEMMA Becoming ==
  ASSUME TypeOK, Programs, NEW p \in Processes, todo[p] # <<>>, NEW rest, Ordered(rest),
         Undoes(rest) => kind[p] = "create", Releases(rest) => kind[p] # "purge",
         kind[p] = "create" /\ Makes(rest) => Makes(todo[p]), Become(p, rest)
  PROVE  /\ Programs' /\ OthersKept(p) /\ NoneMore
         /\ kind' \in [Processes -> Kinds] /\ on' \in [Processes -> VMs \cup {None}]
         /\ todo'[p] = rest /\ swept' = swept
         /\ rest # <<>> => kind'[p] = kind[p] /\ on'[p] = on[p]
         /\ rest = <<>> => kind'[p] \in {"new", "over"}
  <1>1. OthersKept(p)
    BY DEF Become, OthersKept, TypeOK, Programs
  <1>2. /\ todo'[p] = rest /\ swept' = swept
        /\ rest # <<>> => kind'[p] = kind[p] /\ on'[p] = on[p]
        /\ rest = <<>> => kind'[p] = IF p = Purger THEN "new" ELSE "over"
    BY DEF Become, TypeOK, Programs
  <1>3. kind' \in [Processes -> Kinds] /\ on' \in [Processes -> VMs \cup {None}]
    BY DEF Become, TypeOK, Kinds
  <1>4. todo' \in [Processes -> Seq(Steps)]
    BY DEF Become, Programs, Ordered
  <1>5. \A q \in Processes : ProgramOf(q)'
    <2> SUFFICES ASSUME NEW q \in Processes PROVE ProgramOf(q)'
      OBVIOUS
    <2>1. CASE q = p
      BY <1>2, <2>1, OtherPrograms DEF Programs, ProgramOf
    <2>2. CASE q # p
      BY <1>1, <2>2 DEF Programs, ProgramOf, OthersKept
    <2> QED BY <2>1, <2>2
  <1>6. \A q \in Processes : kind'[q] = "create" => kind[q] = "create" /\ on'[q] = on[q]
    BY <1>1, <1>2 DEF OthersKept
  <1>7. \A q, r \in Processes :
          kind'[q] = "create" /\ kind'[r] = "create" /\ on'[q] = on'[r] => q = r
    BY <1>6 DEF Programs
  <1>8. Programs'
    BY <1>4, <1>5, <1>7 DEF Programs
  <1>9. \A q \in Processes : kind'[q] = "create" /\ Makes(todo'[q]) => Makes(todo[q])
    BY <1>1, <1>2, <1>6 DEF OthersKept
  <1>10. NoneMore
    <2> SUFFICES ASSUME NEW v \in VMs, Unmade(v)' PROVE Unmade(v)
      BY DEF NoneMore
    <2>1. PICK q \in Processes : kind'[q] = "create" /\ on'[q] = v /\ Makes(todo'[q])
      BY DEF Unmade
    <2> QED BY <1>6, <1>9, <2>1 DEF Unmade
  <1> QED BY <1>1, <1>2, <1>3, <1>8, <1>10

\* The step was done, or its failure passed over.
LEMMA Advancing ==
  ASSUME TypeOK, Programs, NEW p \in Processes, todo[p] # <<>>, Advance(p)
  PROVE  /\ Programs' /\ OthersKept(p) /\ NoneMore
         /\ kind' \in [Processes -> Kinds] /\ on' \in [Processes -> VMs \cup {None}]
         /\ todo'[p] = Tail(todo[p]) /\ swept' = swept
         /\ todo'[p] # <<>> => kind'[p] = kind[p] /\ on'[p] = on[p]
         /\ kind'[p] = "create" => kind[p] = "create"
  <1>1. Ordered(todo[p])
    BY DEF Programs, ProgramOf
  <1>2. /\ Ordered(Tail(todo[p])) /\ (Makes(Tail(todo[p])) => Makes(todo[p]))
        /\ Undoes(Tail(todo[p])) => kind[p] = "create"
        /\ Releases(Tail(todo[p])) => kind[p] # "purge"
    BY <1>1, TailOrdered DEF Programs, ProgramOf
  <1>3. Become(p, Tail(todo[p]))
    BY DEF Advance
  <1> QED BY <1>2, <1>3, Becoming

\* The step failed: nothing that would need it is left.
LEMMA Failing ==
  ASSUME TypeOK, Programs, NEW p \in Processes, todo[p] # <<>>, Fail(p)
  PROVE  /\ Programs' /\ OthersKept(p) /\ NoneMore
         /\ kind' \in [Processes -> Kinds] /\ on' \in [Processes -> VMs \cup {None}]
         /\ todo'[p] = Rest(p) /\ swept' = swept
         /\ todo'[p] # <<>> => kind'[p] = kind[p] /\ on'[p] = on[p]
         /\ \/ todo'[p] = <<>>
            \/ todo'[p] = Rollback(kind[p])
            \/ Head(todo[p]) \in BestEffort \cup {"move", "patch"} /\ todo'[p] = Tail(todo[p])
  <1>1. Ordered(todo[p])
    BY DEF Programs, ProgramOf
  <1>2. /\ Ordered(Tail(todo[p])) /\ (Makes(Tail(todo[p])) => Makes(todo[p]))
        /\ Undoes(Tail(todo[p])) => kind[p] = "create"
        /\ Releases(Tail(todo[p])) => kind[p] # "purge"
    BY <1>1, TailOrdered DEF Programs, ProgramOf
  <1>3. /\ Ordered(Rollback(kind[p])) /\ ~Makes(Rollback(kind[p]))
        /\ Undoes(Rollback(kind[p])) => kind[p] = "create"
        /\ Releases(Rollback(kind[p])) => kind[p] # "purge"
    BY RollbackOrdered
  <1>4. Ordered(<<>>) /\ ~Makes(<<>>) /\ ~Undoes(<<>>) /\ ~Releases(<<>>)
    BY OtherPrograms
  <1>5. \/ Rest(p) = <<>>
        \/ Rest(p) = Rollback(kind[p])
        \/ Head(todo[p]) \in BestEffort \cup {"move", "patch"} /\ Rest(p) = Tail(todo[p])
    BY DEF Rest
  <1>6. /\ Ordered(Rest(p)) /\ (Makes(Rest(p)) => Makes(todo[p]))
        /\ Undoes(Rest(p)) => kind[p] = "create"
        /\ Releases(Rest(p)) => kind[p] # "purge"
    BY <1>2, <1>3, <1>4, <1>5
  <1>7. Become(p, Rest(p))
    BY DEF Fail
  <1> QED BY <1>5, <1>6, <1>7, Becoming

\* A request that is accepted creates no VM.
LEMMA Accepting ==
  ASSUME TypeOK, Programs, NEW r \in Requests, NEW v \in VMs,
         NEW k \in Kinds \ {"create", "purge", "new", "over"},
         NEW t, Ordered(t), t # <<>>, ~Undoes(t), Accept(r, v, k, t)
  PROVE  /\ Programs' /\ OthersKept(r) /\ NoneMore
         /\ kind' \in [Processes -> Kinds] /\ on' \in [Processes -> VMs \cup {None}]
         /\ todo'[r] = t /\ on'[r] = v /\ kind'[r] = k
  <1>1. OthersKept(r) /\ todo'[r] = t /\ on'[r] = v /\ kind'[r] = k
    BY DEF Accept, OthersKept, TypeOK, Programs, Processes
  <1>2. kind' \in [Processes -> Kinds] /\ on' \in [Processes -> VMs \cup {None}]
        /\ todo' \in [Processes -> Seq(Steps)]
    BY DEF Accept, TypeOK, Programs, Ordered
  <1>3. \A q \in Processes : ProgramOf(q)'
    BY <1>1, VMLifecycleAssumption DEF Programs, ProgramOf, OthersKept, Processes
  <1>4. \A q \in Processes : kind'[q] = "create" => kind[q] = "create" /\ on'[q] = on[q] /\ todo'[q] = todo[q]
    BY <1>1 DEF OthersKept
  <1>5. NoneMore
    BY <1>4 DEF NoneMore, Unmade
  <1> QED BY <1>1, <1>2, <1>3, <1>4, <1>5 DEF Programs

\* Every call to a handler is accepted with such a program; one that deletes the row at once
\* has seen it gone.
LEMMA HandlerAccepts ==
  ASSUME NEW r \in Requests, NEW v \in VMs, Handler(r, v)
  PROVE  \E k \in Kinds \ {"create", "purge", "new", "over"}, t \in Seq(Steps) :
           /\ Accept(r, v, k, t)
           /\ Fresh(t) \/ (t = <<"deleteRow", "release">> /\ status[v] = "gone")
  <1> DEFINE Answers == {"call", "portalTrash", "change", "reinstall"}
  <1>1. SUFFICES \E k \in Answers : \E t :
                   /\ Accept(r, v, k, t)
                   /\ Fresh(t) \/ (t = <<"deleteRow", "release">> /\ status[v] = "gone")
    <2>1. Answers \subseteq Kinds \ {"create", "purge", "new", "over"}
      BY DEF Kinds, Jobs
    <2>2. \A t : Fresh(t) => t \in Seq(Steps)
      BY DEF Fresh, Ordered
    <2>3. <<"deleteRow", "release">> \in Seq(Steps)
      BY OtherPrograms DEF Ordered
    <2> QED BY <2>1, <2>2, <2>3
  <1>2. CASE TrashService(r, v) \/ DeleteVM(r, v)
    BY <1>2, ProgramsFresh DEF TrashService, DeleteVM
  <1>3. CASE RestoreService(r, v) \/ RestoreVM(r, v)
    BY <1>3, ProgramsFresh DEF RestoreService, RestoreVM
  <1>4. CASE PurgeVM(r, v)
    BY <1>4, ProgramsFresh DEF PurgeVM
  <1>5. CASE ForceDeleteGone(r, v)
    BY <1>5 DEF ForceDeleteGone, MayBeForced
  <1>6. CASE VMAction(r, v)
    BY <1>6, ProgramsFresh DEF VMAction
  <1>7. CASE BatchVMs(r, v)
    BY <1>7, ProgramsFresh DEF BatchVMs, ChangeVMState
  <1>8. CASE Reinstall(r, v) \/ ReinstallVM(r, v)
    BY <1>8, ProgramsFresh DEF Reinstall, ReinstallVM
  <1>9. CASE ResetPassword(r, v) \/ DeleteSnapshot(r, v)
    BY <1>9, ProgramsFresh DEF ResetPassword, DeleteSnapshot
  <1>10. CASE MigrateVM(r, v)
    BY <1>10, ProgramsFresh DEF MigrateVM, Restarting
  <1>11. CASE EnableStateful(r, v)
    BY <1>11, ProgramsFresh DEF EnableStateful, Restarting
  <1>12. CASE Enter(r, v) \/ Exit(r, v)
    BY <1>12, ProgramsFresh DEF Enter, Exit
  <1> QED BY <1>2, <1>3, <1>4, <1>5, <1>6, <1>7, <1>8, <1>9, <1>10, <1>11, <1>12 DEF Handler

-----------------------------------------------------------------------------
(* Instances: what any step does to them, and what stays true of them      *)

\* Instances are made by a reinstall or, once, by their vm.create, which notices nothing of a
\* row that was given up; deletions are done or given up; snapshots go with the instance or
\* are dropped.
Moves ==
  /\ home' = home /\ young' \subseteq young
  /\ remade \subseteq remade' /\ late \subseteq late' /\ stuck \subseteq stuck' /\ bare \subseteq bare'
  /\ NoneMore
  /\ \A v \in VMs :
       /\ inst[v] = "none" /\ inst'[v] # "none" =>
            v \in remade' \/ (Unmade(v) /\ ~Unmade(v)' /\ (GivenUp(v) => v \in late'))
       /\ inst'[v] # "none" /\ v \in dying => v \in dying' \/ v \in stuck'
       /\ v \in snap => v \in snap' \/ inst'[v] = "none" \/ v \in bare'

\* Instances, history and age of the rows are left alone.
Still == UNCHANGED <<incus, home, young, history>>

LEMMA StillMoves ==
  ASSUME TypeOK, Still, NoneMore
  PROVE  Moves
  BY DEF Still, Moves, incus, history, TypeOK

\* What is destroyed or without hope stays so.
LEMMA Stays ==
  ASSUME TypeOK, Moves, NEW v \in VMs
  PROVE  /\ Excused(v) => Excused(v)'
         /\ Hopeless(v) => Hopeless(v)'
         /\ Hopeless(v) => Destroyed(v)
         /\ Destroyed(v) /\ GivenUp(v) => Destroyed(v)'
  <1>1. Excused(v) => Excused(v)'
    BY DEF Excused, Moves
  <1>2. ASSUME ~Living(v), Living(v)'
        PROVE  Excused(v)' \/ (Unmade(v) /\ ~GivenUp(v))
    BY <1>2 DEF Living, Moves, Excused, TypeOK
  <1>3. Unmade(v)' => Unmade(v)
    BY DEF Moves, NoneMore
  <1>4. v \notin young => GivenUp(v)
    BY DEF GivenUp
  <1>5. v \in young' => v \in young
    BY DEF Moves
  <1>6. Hopeless(v) => Hopeless(v)'
    BY <1>1, <1>2, <1>3, <1>4, <1>5 DEF Hopeless
  <1>7. Destroyed(v) /\ GivenUp(v) => Destroyed(v)'
    BY <1>1, <1>2 DEF Destroyed
  <1> QED BY <1>1, <1>6, <1>7 DEF Hopeless, Destroyed

\* A rescue that can be undone stays so.
LEMMA StaysRescuable ==
  ASSUME TypeOK, Moves, RowsTrue, NEW v \in VMs, Rescuable(v)
  PROVE  Rescuable(v)'
  <1>1. v \in remade \cup bare => v \in remade' \cup bare'
    BY DEF Moves
  <1>2. Unmade(v)' => Unmade(v)
    BY DEF Moves, NoneMore
  <1>3. CASE v \in snap
    <2>1. inst[v] # "none"
      BY <1>3 DEF TypeOK
    <2>2. ~Unmade(v) \/ v \in remade
      BY <2>1 DEF RowsTrue
    <2>3. v \in snap' \/ inst'[v] = "none" \/ v \in bare'
      BY <1>3 DEF Moves
    <2> QED BY <1>1, <1>2, <2>2, <2>3 DEF Rescuable
  <1>4. CASE inst[v] = "none" /\ ~Unmade(v)
    <2>1. inst'[v] = "none" \/ v \in remade'
      BY <1>4 DEF Moves
    <2> QED BY <1>2, <1>4, <2>1 DEF Rescuable
  <1> QED BY <1>1, <1>3, <1>4 DEF Rescuable

\* What a step may write to the rows and tell the listener.
NewRows ==
  \A v \in VMs :
    /\ status'[v] = "gone" => status[v] = "gone" \/ Hopeless(v)
    /\ addr'[v] = "cooldown" => addr[v] = "cooldown" \/ Hopeless(v)
    /\ status'[v] = "deleted" => status[v] = "deleted" \/ Destroyed(v)'
    /\ v \in rescue' => v \in rescue \/ Rescuable(v)
    /\ events'[v] > 0 => events[v] > 0 \/ Hopeless(v)'

LEMMA RowsStay ==
  ASSUME TypeOK, Moves, RowsTrue, NewRows
  PROVE  RowsTrue'
  <1> SUFFICES ASSUME NEW v \in VMs
               PROVE  /\ status'[v] = "gone" => Hopeless(v)'
                      /\ addr'[v] = "cooldown" => Hopeless(v)'
                      /\ status'[v] = "deleted" => Destroyed(v)'
                      /\ v \in rescue' => Rescuable(v)'
                      /\ events'[v] > 0 => Hopeless(v)'
                      /\ Unmade(v)' => inst'[v] = "none" \/ v \in remade'
    BY DEF RowsTrue
  <1>1. status[v] = "deleted" => GivenUp(v)
    BY DEF GivenUp
  <1>2. status'[v] = "gone" => Hopeless(v)'
    BY Stays DEF RowsTrue, NewRows
  <1>3. addr'[v] = "cooldown" => Hopeless(v)'
    BY Stays DEF RowsTrue, NewRows
  <1>4. status'[v] = "deleted" => Destroyed(v)'
    BY <1>1, Stays DEF RowsTrue, NewRows
  <1>5. v \in rescue' => Rescuable(v)'
    BY StaysRescuable DEF RowsTrue, NewRows
  <1>6. events'[v] > 0 => Hopeless(v)'
    BY Stays DEF RowsTrue, NewRows
  <1>7. Unmade(v)' => inst'[v] = "none" \/ v \in remade'
    BY DEF RowsTrue, Moves, NoneMore
  <1> QED BY <1>2, <1>3, <1>4, <1>5, <1>6, <1>7

\* A step that leaves rows and events alone writes nothing new.
LEMMA SameRows ==
  ASSUME UNCHANGED <<rows, events>>
  PROVE  NewRows
  BY DEF rows, NewRows

\* A process that does not move has as much right to write as before.
LEMMA WritesStay ==
  ASSUME TypeOK, Programs, Moves, RowsTrue, NEW p \in Processes, WritesTrue(p),
         todo'[p] = todo[p], on'[p] = on[p]
  PROVE  WritesTrue(p)'
  <1>1. CASE todo[p] = <<>>
    BY <1>1 DEF WritesTrue
  <1>2. CASE todo[p] # <<>>
    <2>1. on[p] \in VMs
      BY <1>2 DEF Programs, ProgramOf
    <2>2. p = Purger => GivenUp(on[p])
      BY DEF GivenUp
    <2>3. Destroyed(on[p]) /\ p = Purger => Destroyed(on[p])'
      <3>1. ASSUME NEW w \in VMs, w = on[p], p = Purger, Destroyed(w) PROVE Destroyed(w)'
        BY <2>2, <3>1, Stays
      <3> QED BY <2>1, <3>1 DEF Destroyed, Excused, Living
    <2>4. Hopeless(on[p]) => Hopeless(on[p])'
      <3>1. ASSUME NEW w \in VMs, w = on[p], Hopeless(w) PROVE Hopeless(w)'
        BY <3>1, Stays
      <3> QED BY <2>1, <3>1 DEF Hopeless, Excused, Living, Unmade
    <2>5. Rescuable(on[p]) => Rescuable(on[p])'
      <3>1. ASSUME NEW w \in VMs, w = on[p], Rescuable(w) PROVE Rescuable(w)'
        BY <3>1, StaysRescuable
      <3> QED BY <2>1, <3>1 DEF Rescuable, Unmade
    <2> QED BY <2>3, <2>4, <2>5 DEF WritesTrue
  <1> QED BY <1>1, <1>2

\* After its step a process may write what follows: the step is one that made it true.
LEMMA WritesAfter ==
  ASSUME TypeOK, Programs, Moves, RowsTrue, \A q \in Processes : WritesTrue(q),
         NEW p \in Processes, NEW v \in VMs, v = on[p], todo[p] # <<>>, Advance(p),
         Head(todo[p]) = "delete" => IF p = Purger THEN Destroyed(v)' ELSE Hopeless(v)',
         Head(todo[p]) = "undo" => Hopeless(v)',
         Head(todo[p]) = "snapshot" => Rescuable(v)'
  PROVE  \A q \in Processes : WritesTrue(q)'
  <1> SUFFICES ASSUME NEW q \in Processes PROVE WritesTrue(q)'
    OBVIOUS
  <1>1. CASE q # p
    <2>1. todo'[q] = todo[q] /\ on'[q] = on[q]
      BY <1>1, Advancing DEF OthersKept
    <2> QED BY <2>1, WritesStay
  <1>2. CASE q = p /\ todo'[p] = <<>>
    BY <1>2 DEF WritesTrue
  <1>3. CASE q = p /\ todo'[p] # <<>>
    <2>1. /\ Programs' /\ todo'[p] = Tail(todo[p]) /\ on'[p] = v
      BY <1>3, Advancing
    <2>2. Ordered(todo[p]) /\ todo[p] \in Seq(Steps)
      BY DEF Programs, ProgramOf, Ordered
    <2>3. /\ Head(todo'[p]) = todo[p][2] /\ Len(todo[p]) > 1 /\ todo'[p][1] = todo[p][2]
          /\ Len(todo'[p]) > 1 => todo'[p][2] = todo[p][3] /\ 3 \in 2..Len(todo[p])
          /\ Head(todo[p]) = todo[p][1] /\ 2 \in 2..Len(todo[p]) /\ 2 - 1 = 1 /\ 3 - 1 = 2
      BY <1>3, <2>1, <2>2, TailOrdered
    <2>4. /\ todo[p][2] \in {"deleteRow", "deleteNamed"} => Head(todo[p]) = "delete"
          /\ todo[p][2] = "release" => Head(todo[p]) \in {"deleteRow", "undo"}
          /\ todo[p][2] = "setRescue" => todo[p][1] = "stop"
          /\ todo[p][2] = "stop" => Head(todo[p]) = "snapshot"
      BY <2>2, <2>3 DEF Ordered
    <2>5. todo[p][2] = "release" => p # Purger
      <3>1. todo[p][2] = "release" => Releases(todo[p])
        BY <2>3, <2>2 DEF Releases
      <3> QED BY <3>1 DEF Programs, ProgramOf
    <2>6. Hopeless(v) => Hopeless(v)'
      BY Stays
    <2>7. Rescuable(v) => Rescuable(v)'
      BY StaysRescuable
    <2>8. todo[p][2] \in {"deleteRow", "deleteNamed"} =>
            IF p = Purger THEN Destroyed(v)' ELSE Hopeless(v)'
      BY <2>4
    <2>9. todo[p][2] = "release" => Hopeless(v)'
      BY <2>4, <2>5, <2>6 DEF WritesTrue
    <2>10. todo[p][2] = "setRescue" => Rescuable(v)'
      BY <2>3, <2>4, <2>7 DEF WritesTrue
    <2>11. todo[p][2] = "stop" => Rescuable(v)'
      BY <2>4
    <2> QED BY <1>3, <2>1, <2>3, <2>5, <2>8, <2>9, <2>10, <2>11
            DEF WritesTrue, Destroyed, Hopeless, Rescuable, Excused, Living, Unmade
  <1> QED BY <1>1, <1>2, <1>3

\* A step that fails leaves nothing to write that it would have made true.
LEMMA WritesAfterFailure ==
  ASSUME TypeOK, Programs, Moves, RowsTrue, \A q \in Processes : WritesTrue(q),
         NEW p \in Processes, todo[p] # <<>>, Fail(p), Head(todo[p]) # "undo"
  PROVE  \A q \in Processes : WritesTrue(q)'
  <1> SUFFICES ASSUME NEW q \in Processes PROVE WritesTrue(q)'
    OBVIOUS
  <1>1. CASE q # p
    <2>1. todo'[q] = todo[q] /\ on'[q] = on[q]
      BY <1>1, Failing DEF OthersKept
    <2> QED BY <2>1, WritesStay
  <1>2. CASE q = p /\ todo'[p] = <<>>
    BY <1>2 DEF WritesTrue
  <1>3. CASE q = p /\ todo'[p] = Rollback(kind[p])
    BY <1>3, RollbackOrdered DEF WritesTrue
  <1>4. CASE /\ q = p /\ todo'[p] # <<>> /\ todo'[p] = Tail(todo[p])
             /\ Head(todo[p]) \in BestEffort \cup {"move", "patch"}
    <2>1. Ordered(todo[p]) /\ todo[p] \in Seq(Steps)
      BY DEF Programs, ProgramOf, Ordered
    <2>2. /\ Head(todo'[p]) = todo[p][2] /\ Len(todo[p]) > 1 /\ todo'[p][1] = todo[p][2]
          /\ Head(todo[p]) = todo[p][1] /\ 2 \in 2..Len(todo[p]) /\ 2 - 1 = 1
      BY <1>4, <2>1, TailOrdered
    <2>3. /\ todo[p][2] \in {"deleteRow", "deleteNamed"} => todo[p][1] = "delete"
          /\ todo[p][2] = "release" => todo[p][1] \in {"deleteRow", "undo"}
          /\ todo[p][2] = "setRescue" => todo[p][1] = "stop"
          /\ todo[p][2] = "stop" => todo[p][1] = "snapshot"
      BY <2>1, <2>2 DEF Ordered
    <2>4. todo[p][1] \notin {"delete", "deleteRow", "undo", "stop", "snapshot"}
      BY <1>4, <2>2 DEF BestEffort
    <2> QED BY <1>4, <2>2, <2>3, <2>4 DEF WritesTrue
  <1> QED BY <1>1, <1>2, <1>3, <1>4, Failing

\* A step that moves no program.
LEMMA WritesSame ==
  ASSUME TypeOK, Programs, Moves, RowsTrue, \A q \in Processes : WritesTrue(q),
         todo' = todo, on' = on
  PROVE  \A q \in Processes : WritesTrue(q)'
  BY WritesStay

\* A pass that does not move knows as much as before.
LEMMA PassStays ==
  ASSUME TypeOK, Moves, NEW p \in Passes, PassTrue(p), at'[p] = at[p], names'[p] = names[p],
         cand'[p] = cand[p], cur'[p] = cur[p]
  PROVE  PassTrue(p)'
  <1>1. at[p] = "list" => \A v \in VMs : GivenUp(v)
    BY DEF GivenUp
  <1>2. at'[p] = "list" => \A v \in VMs \ names'[p] : Destroyed(v)'
    BY <1>1, Stays DEF PassTrue
  <1>3. \A v \in cand'[p] : Hopeless(v)'
    <2>1. cand[p] \subseteq VMs
      BY DEF TypeOK
    <2> QED BY <2>1, Stays DEF PassTrue
  <1>4. at'[p] = "release" => cur'[p] \in VMs /\ Hopeless(cur[p])'
    <2>1. ASSUME NEW v \in VMs, v = cur[p], Hopeless(v) PROVE Hopeless(v)'
      BY <2>1, Stays
    <2> QED BY <2>1 DEF PassTrue, Hopeless, Excused, Living, Unmade
  <1> QED BY <1>2, <1>3, <1>4 DEF PassTrue

LEMMA PassesSame ==
  ASSUME TypeOK, Moves, \A p \in Passes : PassTrue(p), UNCHANGED passes
  PROVE  \A p \in Passes : PassTrue(p)'
  BY PassStays DEF passes

-----------------------------------------------------------------------------
(* The steps of a process                                                  *)

\* A step at todo[p]'s head is one of a process at work, about a VM.
LEMMA AtWork ==
  ASSUME Programs, NEW p \in Processes, NEW s, At(p, s)
  PROVE  todo[p] # <<>> /\ Head(todo[p]) = s /\ on[p] \in VMs
  BY DEF At, Programs, ProgramOf

\* What every step of a process leaves alone, rows and Incus aside.
LEMMA OthersSame ==
  ASSUME NEW p, Others(p)
  PROVE  UNCHANGED <<young, home, due, passes, events>>
  BY DEF Others, stream

\* Types of the rest, where the programs and the rows or the instances have theirs.
LEMMA TypeAfter ==
  ASSUME TypeOK, Programs', kind' \in [Processes -> Kinds], on' \in [Processes -> VMs \cup {None}],
         swept' \subseteq Requests, NEW p, Others(p), faults' \in 0..MaxFaults,
         rescue' \subseteq VMs, remade' \subseteq VMs, late' \subseteq VMs, stuck' \subseteq VMs,
         bare' \subseteq VMs, status' \in [VMs -> VMStatus],
         trash' \in [VMs -> {"no", "window", "expired"}],
         addr' \in [VMs -> {"assigned", "cooldown"}],
         inst' \in [VMs -> {"none", "stopped", "running"}],
         dying' \subseteq {v \in VMs : inst'[v] # "none"},
         snap' \subseteq {v \in VMs : inst'[v] # "none"}
  PROVE  TypeOK'
  BY DEF TypeOK, Others, passes, stream, Programs

\* The bound on failures.
LEMMA FaultsTyped ==
  ASSUME TypeOK, Fault \/ NoFault
  PROVE  faults' \in 0..MaxFaults
  BY VMLifecycleAssumption DEF TypeOK, Fault, NoFault

LEMMA PowerStep ==
  ASSUME IInv, NEW p \in Processes, Power(p)
  PROVE  IInv'
  <1> USE DEF IInv
  <1>1. PICK step \in {"halt", "stop", "start", "restart"} : At(p, step) /\ (Advance(p) \/ Fail(p))
    BY DEF Power
  <1>2. PICK v \in VMs : v = on[p] /\ todo[p] # <<>> /\ Head(todo[p]) = step
    BY <1>1, AtWork
  <1>3. /\ UNCHANGED <<rows, dying, snap, history>> /\ Others(p)
        /\ inst' = inst \/ (Able(p, v) /\ inst' \in {[inst EXCEPT ![v] = After(s)] :
                              s \in {"halt", "stop", "start", "restart"}})
        /\ Fault \/ NoFault
    BY <1>2 DEF Power
  <1>4. /\ Programs' /\ NoneMore /\ swept' = swept
        /\ kind' \in [Processes -> Kinds] /\ on' \in [Processes -> VMs \cup {None}]
    BY <1>1, <1>2, Advancing, Failing
  <1>5. inst[v] # "none" \/ inst' = inst
    BY <1>3 DEF Able, There
  <1>6. /\ inst' \in [VMs -> {"none", "stopped", "running"}]
        /\ \A w \in VMs : inst'[w] = "none" <=> inst[w] = "none"
    BY <1>3, <1>5 DEF TypeOK, After
  <1>7. TypeOK'
    BY <1>3, <1>4, <1>6, TypeAfter, FaultsTyped DEF TypeOK, rows, history
  <1>8. Moves
    BY <1>3, <1>4, <1>6 DEF Moves, Others, history, TypeOK
  <1>9. RowsTrue'
    BY <1>3, <1>8, RowsStay, SameRows, OthersSame
  <1>10. \A q \in Processes : WritesTrue(q)'
    BY <1>1, <1>2, <1>8, WritesAfter, WritesAfterFailure
  <1>11. \A q \in Passes : PassTrue(q)'
    BY <1>3, <1>8, PassesSame, OthersSame
  <1> QED BY <1>4, <1>7, <1>9, <1>10, <1>11

\* What was not yet made, and is not to be made again, is without hope when it goes.
LEMMA GoneForGood ==
  ASSUME TypeOK, RowsTrue, Moves, NEW v \in VMs, inst[v] # "none", ~Living(v)'
  PROVE  Hopeless(v)'
  <1>1. ~Unmade(v) \/ v \in remade
    BY DEF RowsTrue
  <1> QED BY <1>1 DEF Hopeless, Moves, NoneMore, Excused

LEMMA DeleteStep ==
  ASSUME IInv, NEW p \in Processes, Delete(p)
  PROVE  IInv'
  <1> USE DEF IInv
  <1>1. PICK v \in VMs : v = on[p] /\ todo[p] # <<>> /\ Head(todo[p]) = "delete"
    BY AtWork DEF Delete
  <1>2. /\ UNCHANGED <<rows, inst, snap, history>> /\ Others(p) /\ (Fault \/ NoFault)
        /\ Advance(p) \/ Fail(p)
        /\ dying' = dying \/ (dying' = dying \cup {v} /\ Able(p, v))
    BY <1>1 DEF Delete
  <1>3. /\ Programs' /\ NoneMore /\ swept' = swept
        /\ kind' \in [Processes -> Kinds] /\ on' \in [Processes -> VMs \cup {None}]
    BY <1>1, <1>2, Advancing, Failing
  <1>4. TypeOK'
    BY <1>2, <1>3, TypeAfter, FaultsTyped DEF TypeOK, rows, history, Able, There
  <1>5. Moves
    BY <1>2, <1>3 DEF Moves, Others, history, TypeOK
  <1>6. RowsTrue'
    BY <1>2, <1>5, RowsStay, SameRows, OthersSame
  <1>7. CASE Fail(p)
    <2>1. \A q \in Processes : WritesTrue(q)'
      BY <1>1, <1>5, <1>7, WritesAfterFailure
    <2> QED BY <1>2, <1>3, <1>4, <1>5, <1>6, <2>1, PassesSame, OthersSame
  <1>8. CASE Advance(p) /\ Able(p, v) /\ dying' = dying \cup {v}
    <2>1. inst[v] # "none" /\ ~Living(v)'
      BY <1>8 DEF Able, There, Living
    <2>2. Hopeless(v)' /\ Destroyed(v)'
      BY <1>5, <2>1, GoneForGood DEF Destroyed
    <2>3. \A q \in Processes : WritesTrue(q)'
      BY <1>1, <1>5, <1>8, <2>2, WritesAfter
    <2> QED BY <1>2, <1>3, <1>4, <1>5, <1>6, <2>3, PassesSame, OthersSame
  <1>9. CASE Advance(p) /\ AlreadyGone(p, v) /\ dying' = dying
    <2>1. kind[p] = "purge" /\ p = Purger
      BY <1>9 DEF AlreadyGone, Programs, ProgramOf
    <2>2. Destroyed(v)'
      BY <1>2, <1>9 DEF AlreadyGone, There, Reaches, Destroyed, Excused, Living, history, Others
    <2>3. \A q \in Processes : WritesTrue(q)'
      BY <1>1, <1>5, <1>9, <2>1, <2>2, WritesAfter
    <2> QED BY <1>2, <1>3, <1>4, <1>5, <1>6, <2>3, PassesSame, OthersSame
  <1> QED BY <1>1, <1>7, <1>8, <1>9 DEF Delete

LEMMA AwaitChangeTakeStep ==
  ASSUME IInv, NEW p \in Processes, Await(p) \/ Change(p) \/ Take(p)
  PROVE  IInv'
  <1> USE DEF IInv
  <1>1. PICK v \in VMs : /\ v = on[p] /\ todo[p] # <<>>
                         /\ Head(todo[p]) \in {"await", "patch", "move", "take"}
    BY AtWork DEF Await, Change, Take
  <1>2. /\ UNCHANGED <<rows, incus, history>> /\ Others(p) /\ (Fault \/ NoFault)
        /\ Advance(p) \/ Fail(p) \/ Become(p, <<>>)
    BY DEF Await, Change, Take, NoFault
  <1>3. /\ Programs' /\ NoneMore /\ swept' = swept
        /\ kind' \in [Processes -> Kinds] /\ on' \in [Processes -> VMs \cup {None}]
        /\ Become(p, <<>>) => OthersKept(p) /\ todo'[p] = <<>>
    BY <1>1, <1>2, Advancing, Failing, Becoming, OtherPrograms
  <1>4. TypeOK'
    BY <1>2, <1>3, TypeAfter, FaultsTyped DEF TypeOK, rows, incus, history
  <1>5. Moves
    BY <1>2, <1>3, StillMoves DEF Still, Others
  <1>6. RowsTrue'
    BY <1>2, <1>5, RowsStay, SameRows, OthersSame
  <1>7. \A q \in Processes : WritesTrue(q)'
    <2>1. CASE Advance(p)
      BY <1>1, <1>5, <2>1, WritesAfter
    <2>2. CASE Fail(p)
      BY <1>1, <1>5, <2>2, WritesAfterFailure
    <2>3. CASE Become(p, <<>>)
      <3>1. WritesTrue(p)'
        BY <1>3, <2>3 DEF WritesTrue
      <3>2. \A q \in Processes \ {p} : WritesTrue(q)'
        BY <1>3, <1>5, <2>3, WritesStay DEF OthersKept
      <3> QED BY <3>1, <3>2
    <2> QED BY <1>2, <2>1, <2>2, <2>3
  <1> QED BY <1>2, <1>3, <1>4, <1>5, <1>6, <1>7, PassesSame, OthersSame

\* A vm.create that has made its instance, or given it up, does not make it any more, and no
\* other job does.
LEMMA MadeOnce ==
  ASSUME TypeOK, Programs, NEW p \in Processes, NEW v \in VMs, v = on[p], todo[p] # <<>>,
         kind[p] = "create", Head(todo[p]) \in {"create", "undo"}, Advance(p)
  PROVE  ~Unmade(v)'
  <1> SUFFICES ASSUME NEW q \in Processes, kind'[q] = "create", on'[q] = v, Makes(todo'[q])
               PROVE  FALSE
    BY DEF Unmade
  <1>1. Ordered(todo[p]) /\ todo'[p] = Tail(todo[p])
    BY Advancing DEF Programs, ProgramOf
  <1>2. ~Makes(todo'[p])
    BY <1>1, TailOrdered
  <1>3. CASE q = p
    BY <1>2, <1>3
  <1>4. CASE q # p
    <2>1. kind[q] = "create" /\ on[q] = v
      BY <1>4, Advancing DEF OthersKept
    <2> QED BY <1>4, <2>1 DEF Programs
  <1> QED BY <1>3, <1>4

LEMMA CreateStep ==
  ASSUME IInv, NEW p \in Processes, Create(p)
  PROVE  IInv'
  <1> USE DEF IInv
  <1>1. PICK v \in VMs : v = on[p] /\ todo[p] # <<>> /\ Head(todo[p]) = "create"
    BY AtWork DEF Create
  <1>2. /\ UNCHANGED <<rows, dying, snap, stuck, bare>> /\ Others(p) /\ (Fault \/ NoFault)
        /\ Advance(p) \/ Fail(p)
    BY DEF Create
  <1>3. /\ Programs' /\ NoneMore /\ swept' = swept
        /\ kind' \in [Processes -> Kinds] /\ on' \in [Processes -> VMs \cup {None}]
    BY <1>1, <1>2, Advancing, Failing
  <1>4. CASE Fail(p) /\ UNCHANGED <<inst, remade, late>>
    <2>1. TypeOK'
      BY <1>2, <1>3, <1>4, TypeAfter, FaultsTyped DEF TypeOK, rows
    <2>2. Moves
      BY <1>2, <1>3, <1>4, StillMoves DEF Still, Others, incus, history
    <2>3. RowsTrue'
      BY <1>2, <2>2, RowsStay, SameRows, OthersSame
    <2>4. \A q \in Processes : WritesTrue(q)'
      BY <1>1, <1>4, <2>2, WritesAfterFailure
    <2> QED BY <1>2, <1>3, <2>1, <2>2, <2>3, <2>4, PassesSame, OthersSame
  <1>5. CASE /\ inst[v] = "none" /\ inst' = [inst EXCEPT ![v] = "stopped"] /\ Advance(p)
             /\ remade' = IF kind[p] # "create" THEN remade \cup {v} ELSE remade
             /\ late' = IF kind[p] = "create" /\ GivenUp(v) THEN late \cup {v} ELSE late
    <2>1. TypeOK'
      BY <1>2, <1>3, <1>5, TypeAfter, FaultsTyped DEF TypeOK, rows
    <2>2. Unmade(v) \/ kind[p] # "create"
      <3>1. Ordered(todo[p])
        BY DEF Programs, ProgramOf
      <3>2. Head(todo[p]) = todo[p][1] /\ 1 \in 1..Len(todo[p])
        BY <1>1, <3>1 DEF Ordered
      <3> QED BY <1>1, <3>2 DEF Unmade, Makes
    <2>3. ~Unmade(v)' \/ kind[p] # "create"
      BY <1>1, <1>5, MadeOnce
    <2>4. /\ \A w \in VMs \ {v} : inst'[w] = inst[w]
          /\ v \in remade' \/ (Unmade(v) /\ ~Unmade(v)' /\ (GivenUp(v) => v \in late'))
      BY <1>5, <2>2, <2>3 DEF TypeOK
    <2>5. Moves
      BY <1>2, <1>3, <1>5, <2>4 DEF Moves, Others
    <2>6. RowsTrue'
      BY <1>2, <2>5, RowsStay, SameRows, OthersSame
    <2>7. \A q \in Processes : WritesTrue(q)'
      BY <1>1, <1>5, <2>5, WritesAfter
    <2> QED BY <1>2, <1>3, <2>1, <2>5, <2>6, <2>7, PassesSame, OthersSame
  <1> QED BY <1>1, <1>4, <1>5 DEF Create

LEMMA SnapshotStep ==
  ASSUME IInv, NEW p \in Processes, Snapshot(p) \/ DropSnapshot(p)
  PROVE  IInv'
  <1> USE DEF IInv
  <1>1. PICK v \in VMs : /\ v = on[p] /\ todo[p] # <<>>
                         /\ Head(todo[p]) \in {"snapshot", "dropSnapshot"}
    BY AtWork DEF Snapshot, DropSnapshot
  <1>2. /\ UNCHANGED <<rows, inst, dying, remade, late, stuck>> /\ Others(p)
        /\ (Fault \/ NoFault) /\ (Advance(p) \/ Fail(p))
    BY DEF Snapshot, DropSnapshot, NoFault
  <1>3. /\ Programs' /\ NoneMore /\ swept' = swept
        /\ kind' \in [Processes -> Kinds] /\ on' \in [Processes -> VMs \cup {None}]
    BY <1>1, <1>2, Advancing, Failing
  <1>4. \/ Head(todo[p]) = "snapshot" /\ Able(p, v) /\ snap' = snap \cup {v} /\ bare' = bare
        \/ Head(todo[p]) = "snapshot" /\ Able(p, v) /\ snap' = snap /\ bare' = bare \cup {v}
        \/ Fail(p) /\ snap' = snap /\ bare' = bare
        \/ Head(todo[p]) = "dropSnapshot" /\ snap' = snap \ {v} /\ bare' = bare \cup {v}
    BY <1>1 DEF Snapshot, DropSnapshot, At
  <1>5. snap' \subseteq {w \in VMs : inst'[w] # "none"} /\ bare' \subseteq VMs
    BY <1>2, <1>4 DEF TypeOK, Able, There
  <1>6. TypeOK'
    BY <1>2, <1>3, <1>5, TypeAfter, FaultsTyped DEF TypeOK, rows
  <1>7. Moves
    BY <1>2, <1>3, <1>4 DEF Moves, Others, TypeOK
  <1>8. RowsTrue'
    BY <1>2, <1>7, RowsStay, SameRows, OthersSame
  <1>9. \A q \in Processes : WritesTrue(q)'
    <2>1. CASE Fail(p)
      BY <1>1, <1>7, <2>1, WritesAfterFailure
    <2>2. CASE Advance(p) /\ ~Fail(p)
      <3>1. Head(todo[p]) = "snapshot" => Rescuable(v)'
        BY <1>4, <2>2 DEF Rescuable
      <3> QED BY <1>1, <1>7, <2>2, <3>1, WritesAfter
    <2> QED BY <1>2, <2>1, <2>2
  <1> QED BY <1>2, <1>3, <1>6, <1>7, <1>8, <1>9, PassesSame, OthersSame

LEMMA UndoStep ==
  ASSUME IInv, NEW p \in Processes, Undo(p)
  PROVE  IInv'
  <1> USE DEF IInv
  <1>1. PICK v \in VMs : v = on[p] /\ todo[p] # <<>> /\ Head(todo[p]) = "undo"
    BY AtWork DEF Undo
  <1>2. /\ UNCHANGED <<rows, inst, snap, remade, late, bare>> /\ Others(p)
        /\ (Fault \/ NoFault) /\ Advance(p)
        /\ \/ Able(p, v) /\ dying' = dying \cup {v} /\ UNCHANGED stuck
           \/ ~Able(p, v) /\ UNCHANGED <<dying, stuck>>
           \/ Able(p, v) /\ UNCHANGED dying /\ stuck' = stuck \cup {v}
    BY <1>1 DEF Undo
  <1>3. /\ Programs' /\ NoneMore /\ swept' = swept
        /\ kind' \in [Processes -> Kinds] /\ on' \in [Processes -> VMs \cup {None}]
    BY <1>1, <1>2, Advancing
  <1>4. TypeOK'
    BY <1>2, <1>3, TypeAfter, FaultsTyped DEF TypeOK, rows, Able, There
  <1>5. Moves
    BY <1>2, <1>3 DEF Moves, Others, TypeOK
  <1>6. RowsTrue'
    BY <1>2, <1>5, RowsStay, SameRows, OthersSame
  <1>7. kind[p] = "create"
    <2>1. Ordered(todo[p])
      BY DEF Programs, ProgramOf
    <2>2. Head(todo[p]) = todo[p][1] /\ 1 \in 1..Len(todo[p])
      BY <1>1, <2>1 DEF Ordered
    <2> QED BY <1>1, <2>2 DEF Undoes, Programs, ProgramOf
  <1>8. ~Unmade(v)'
    BY <1>1, <1>2, <1>7, MadeOnce
  <1>9. Excused(v)' \/ ~Living(v)'
    BY <1>2, <1>7 DEF Able, There, Reaches, Living, Excused
  <1>10. \A q \in Processes : WritesTrue(q)'
    BY <1>1, <1>2, <1>5, <1>8, <1>9, WritesAfter DEF Hopeless
  <1> QED BY <1>2, <1>3, <1>4, <1>5, <1>6, <1>10, PassesSame, OthersSame

\* A statement writes what its process may write.
LEMMA StatementWrites ==
  ASSUME IInv, NEW p \in Processes, NEW step \in Statements, NEW v \in VMs, v = on[p],
         todo[p] # <<>>, Head(todo[p]) = step, Write(step, v), Moves, UNCHANGED events
  PROVE  /\ NewRows /\ rescue' \subseteq VMs /\ status' \in [VMs -> VMStatus]
         /\ trash' \in [VMs -> {"no", "window", "expired"}]
         /\ addr' \in [VMs -> {"assigned", "cooldown"}]
  <1> USE DEF IInv
  <1>1. WritesTrue(p)
    OBVIOUS
  <1>2. CASE step = "markTrashed"
    BY <1>2 DEF Write, MarkTrashed, NewRows, TypeOK
  <1>3. CASE step = "unmarkTrashed"
    BY <1>3 DEF Write, UnmarkTrashed, NewRows, TypeOK
  <1>4. CASE step \in {"deleteRow", "deleteNamed"}
    <2>1. status' \in {status, [status EXCEPT ![v] = "deleted"]} /\ UNCHANGED <<trash, rescue, addr>>
      BY <1>4 DEF Write, UpdateStatus, rows
    <2>2. Destroyed(v)'
      <3>1. IF p = Purger THEN Destroyed(v) ELSE Hopeless(v)
        BY <1>1, <1>4 DEF WritesTrue
      <3>2. p = Purger => GivenUp(v)
        BY DEF GivenUp
      <3>3. Hopeless(v)' => Destroyed(v)'
        BY DEF Hopeless, Destroyed
      <3> QED BY <3>1, <3>2, <3>3, Stays
    <2> QED BY <2>1, <2>2 DEF NewRows, TypeOK, VMStatus, Active
  <1>5. CASE step \in {"setRunning", "setStopped", "syncRunning", "syncStopped", "setError",
                       "provisioned"}
    <2>1. /\ UNCHANGED <<trash, rescue, addr>>
          /\ \E s \in {"running", "stopped", "error"} :
               status' \in {status, [status EXCEPT ![v] = s]}
      BY <1>5 DEF Write, UpdateStatus, rows
    <2>2. PICK s \in {"running", "stopped", "error"} :
            status' \in {status, [status EXCEPT ![v] = s]}
      BY <2>1
    <2>3. \A w \in VMs : status'[w] = status[w] \/ status'[w] = s
      BY <2>2 DEF TypeOK
    <2>4. \A w \in VMs : /\ status'[w] = "gone" => status[w] = "gone"
                         /\ status'[w] = "deleted" => status[w] = "deleted"
      BY <2>2, <2>3
    <2>5. NewRows
      <3>1. rescue' = rescue /\ addr' = addr /\ events' = events
        BY <2>1
      <3> QED BY ONLY <3>1, <2>4 DEF NewRows
    <2>6. status \in [VMs -> VMStatus] /\ s \in VMStatus
      BY DEF TypeOK, VMStatus, Active
    <2>7. status' \in [VMs -> VMStatus]
      BY ONLY <2>2, <2>6, v \in VMs
    <2>8. /\ rescue \subseteq VMs /\ trash \in [VMs -> {"no", "window", "expired"}]
          /\ addr \in [VMs -> {"assigned", "cooldown"}]
      BY DEF TypeOK
    <2> QED BY ONLY <2>1, <2>5, <2>7, <2>8
  <1>6. CASE step = "release"
    <2>1. Hopeless(v)
      <3>1. Ordered(todo[p])
        BY DEF Programs, ProgramOf
      <3>2. Releases(todo[p])
        BY <1>6, <3>1 DEF Ordered, Releases
      <3>3. p # Purger
        BY <3>2 DEF Programs, ProgramOf
      <3> QED BY <1>1, <1>6, <3>3 DEF WritesTrue
    <2> QED BY <1>6, <2>1 DEF Write, Release, NewRows, TypeOK
  <1>7. CASE step = "setRescue"
    BY <1>1, <1>7 DEF Write, SetRescueState, NewRows, TypeOK, WritesTrue
  <1>8. CASE step = "clearRescue"
    BY <1>8 DEF Write, ClearRescueState, NewRows, TypeOK
  <1> QED BY <1>2, <1>3, <1>4, <1>5, <1>6, <1>7, <1>8 DEF Statements

LEMMA StatementStep ==
  ASSUME IInv, NEW p \in Processes, Statement(p)
  PROVE  IInv'
  <1> USE DEF IInv
  <1>1. PICK step \in Statements :
          /\ At(p, step)
          /\ \/ NoFault /\ Write(step, on[p]) /\ Advance(p)
             \/ Fault /\ UNCHANGED rows /\ Fail(p)
          /\ UNCHANGED <<incus, history>> /\ Others(p)
    BY DEF Statement
  <1>2. PICK v \in VMs : v = on[p] /\ todo[p] # <<>> /\ Head(todo[p]) = step
    BY <1>1, AtWork
  <1>3. /\ Programs' /\ NoneMore /\ swept' = swept
        /\ kind' \in [Processes -> Kinds] /\ on' \in [Processes -> VMs \cup {None}]
    BY <1>1, <1>2, Advancing, Failing
  <1>4. Moves
    BY <1>1, <1>3, StillMoves DEF Still, Others
  <1>5. /\ NewRows /\ rescue' \subseteq VMs /\ status' \in [VMs -> VMStatus]
        /\ trash' \in [VMs -> {"no", "window", "expired"}]
        /\ addr' \in [VMs -> {"assigned", "cooldown"}]
    <2>1. CASE Write(step, v)
      BY <1>1, <1>2, <1>4, <2>1, StatementWrites, OthersSame
    <2>2. CASE UNCHANGED rows
      BY <1>1, <2>2, SameRows, OthersSame DEF rows, TypeOK
    <2> QED BY <1>1, <1>2, <2>1, <2>2
  <1>6. RowsTrue'
    BY <1>4, <1>5, RowsStay
  <1>7. TypeOK'
    BY <1>1, <1>3, <1>5, TypeAfter, FaultsTyped DEF TypeOK, incus, history
  <1>8. Head(todo[p]) \notin {"delete", "undo", "snapshot"}
    BY <1>2 DEF Statements
  <1>9. \A q \in Processes : WritesTrue(q)'
    BY <1>1, <1>2, <1>4, <1>8, WritesAfter, WritesAfterFailure
  <1> QED BY <1>1, <1>3, <1>4, <1>6, <1>7, <1>9, PassesSame, OthersSame

LEMMA ProcessStepKeeps ==
  ASSUME IInv, NEW p \in Processes, ProcessStep(p)
  PROVE  IInv'
  BY PowerStep, DeleteStep, AwaitChangeTakeStep, CreateStep, SnapshotStep, UndoStep, StatementStep
  DEF ProcessStep, IncusStep

-----------------------------------------------------------------------------
(* Requests, the purger, the passes, Incus and time                        *)

\* Programs that do not move.
LEMMA ProgramsSame ==
  ASSUME Programs, UNCHANGED <<kind, on, todo>>
  PROVE  Programs' /\ NoneMore
  <1>1. Programs'
    BY DEF Programs, ProgramOf
  <1>2. NoneMore
    BY DEF NoneMore, Unmade
  <1> QED BY <1>1, <1>2

LEMMA HandlerStep ==
  ASSUME IInv, NEW r \in Requests, NEW v \in VMs, Handler(r, v)
  PROVE  IInv'
  <1> USE DEF IInv
  <1>1. PICK k \in Kinds \ {"create", "purge", "new", "over"}, t \in Seq(Steps) :
          /\ Accept(r, v, k, t)
          /\ Fresh(t) \/ (t = <<"deleteRow", "release">> /\ status[v] = "gone")
    BY HandlerAccepts
  <1>2. Ordered(t) /\ t # <<>> /\ ~Undoes(t)
    <2>1. CASE Fresh(t)
      BY ONLY <2>1 DEF Fresh
    <2>2. CASE t = <<"deleteRow", "release">>
      <3>1. Ordered(<<"deleteRow", "release">>) /\ ~Undoes(<<"deleteRow", "release">>)
        BY ONLY OtherPrograms
      <3>2. <<"deleteRow", "release">> # <<>>
        BY ONLY TRUE
      <3> QED BY ONLY <2>2, <3>1, <3>2
    <2> QED BY ONLY <1>1, <2>1, <2>2
  <1>3. /\ Programs' /\ OthersKept(r) /\ NoneMore
        /\ kind' \in [Processes -> Kinds] /\ on' \in [Processes -> VMs \cup {None}]
        /\ todo'[r] = t /\ on'[r] = v
    BY <1>1, <1>2, Accepting
  <1>4. UNCHANGED <<rows, young, incus, home, swept, due, passes, stream, history, faults>>
    BY <1>1 DEF Accept
  <1>5. TypeOK'
    BY <1>3, <1>4 DEF TypeOK, Programs, rows, incus, passes, stream, history
  <1>6. Moves
    BY <1>3, <1>4, StillMoves DEF Still
  <1>7. RowsTrue'
    BY <1>4, <1>6, RowsStay, SameRows DEF stream
  <1>8. r # Purger /\ r \in Processes
    BY VMLifecycleAssumption DEF Processes
  <1>9. WritesTrue(r)'
    <2>1. CASE Fresh(t)
      BY <1>2, <1>3, <2>1 DEF WritesTrue, Fresh, Ordered
    <2>2. CASE t = <<"deleteRow", "release">> /\ status[v] = "gone"
      <3>1. Hopeless(v)'
        BY <1>6, <2>2, Stays DEF RowsTrue
      <3>2. Hopeless(on[r])'
        BY <1>3, <3>1 DEF Hopeless, Excused, Living, Unmade
      <3>3. todo'[r][1] = "deleteRow" /\ Head(todo'[r]) = "deleteRow"
        BY <1>3, <2>2
      <3> QED BY <1>8, <3>2, <3>3 DEF WritesTrue
    <2> QED BY <1>1, <2>1, <2>2
  <1>10. \A q \in Processes : WritesTrue(q)'
    BY <1>3, <1>6, <1>9, WritesStay DEF OthersKept
  <1>11. \A q \in Passes : PassTrue(q)'
    BY <1>4, <1>6, PassesSame
  <1> QED BY <1>3, <1>5, <1>7, <1>10, <1>11

LEMMA RecoverStep ==
  ASSUME IInv, NEW r \in Requests, Recover(r)
  PROVE  IInv'
  <1> USE DEF IInv
  <1>1. /\ UNCHANGED <<kind, on, todo, young, incus, home, due, passes, stream, history, faults,
                       trash, rescue, addr>>
        /\ swept' \subseteq Requests
        /\ status' = [status EXCEPT ![on[r]] = "error"]
    BY DEF Recover, UpdateStatus, TypeOK
  <1>2. Programs' /\ NoneMore
    BY <1>1, ProgramsSame
  <1>3. TypeOK'
    BY <1>1 DEF TypeOK, incus, passes, stream, history, VMStatus
  <1>4. Moves
    BY <1>1, <1>2, StillMoves DEF Still
  <1>5. NewRows
    BY <1>1 DEF NewRows, TypeOK, stream
  <1> QED BY <1>1, <1>2, <1>3, <1>4, <1>5, RowsStay, WritesSame, PassesSame

LEMMA PurgerKeeps ==
  ASSUME IInv, PurgerStep
  PROVE  IInv'
  <1> USE DEF IInv
  <1>1. Purger \in Processes
    BY DEF Processes
  <1>2. CASE ListTrashedBefore
    <2>1. /\ UNCHANGED <<rows, young, incus, home, requests, passes, stream, history, faults>>
          /\ due' \subseteq VMs
      BY <1>2 DEF ListTrashedBefore, Expired
    <2>2. Programs' /\ NoneMore
      BY <2>1, ProgramsSame DEF requests
    <2>3. TypeOK'
      BY <2>1 DEF TypeOK, rows, incus, requests, passes, stream, history
    <2>4. Moves
      BY <2>1, <2>2, StillMoves DEF Still
    <2>5. RowsTrue'
      BY <2>1, <2>4, RowsStay, SameRows DEF stream
    <2> QED BY <2>1, <2>2, <2>3, <2>4, <2>5, WritesSame, PassesSame DEF requests
  <1>3. ASSUME NEW v \in VMs, Purge(v)
        PROVE  IInv'
    <2>1. /\ UNCHANGED <<rows, young, incus, home, swept, passes, stream, history, faults>>
          /\ due' \subseteq VMs
      BY <1>3 DEF Purge, TypeOK
    <2>h. PurgeTrashed \in Seq(Steps)
      BY ProgramsFresh DEF Fresh, Ordered
    <2>i. /\ kind' = [kind EXCEPT ![Purger] = "purge"] /\ on' = [on EXCEPT ![Purger] = v]
          /\ todo' = [todo EXCEPT ![Purger] = PurgeTrashed] /\ "purge" \in Kinds
      BY <1>3 DEF Purge, Kinds
    <2>j. /\ kind \in [Processes -> Kinds] /\ on \in [Processes -> VMs \cup {None}]
          /\ DOMAIN todo = Processes /\ \A q \in Processes : todo[q] \in Seq(Steps)
      BY DEF TypeOK, Programs
    <2>2. /\ todo'[Purger] = PurgeTrashed /\ kind'[Purger] = "purge" /\ on'[Purger] = v
          /\ OthersKept(Purger)
          /\ todo' \in [Processes -> Seq(Steps)] /\ kind' \in [Processes -> Kinds]
          /\ on' \in [Processes -> VMs \cup {None}]
      <3>1. todo' \in [Processes -> Seq(Steps)] /\ todo'[Purger] = PurgeTrashed
        BY ONLY <1>1, <2>h, <2>i, <2>j
      <3>2. /\ kind' \in [Processes -> Kinds] /\ kind'[Purger] = "purge"
            /\ on' \in [Processes -> VMs \cup {None}] /\ on'[Purger] = v
        BY ONLY <1>1, <1>3, <2>i, <2>j
      <3>3. OthersKept(Purger)
        BY ONLY <1>1, <2>i, <2>j DEF OthersKept
      <3> QED BY ONLY <3>1, <3>2, <3>3
    <2>3. Programs'
      <3>1. ProgramOf(Purger)'
        BY <2>2, ProgramsFresh, OtherPrograms DEF ProgramOf, Fresh
      <3>2. \A q \in Processes : ProgramOf(q)'
        BY <2>2, <3>1 DEF Programs, ProgramOf, OthersKept
      <3>3. \A q \in Processes : kind'[q] = "create" => kind[q] = "create" /\ on'[q] = on[q]
        BY <2>2 DEF OthersKept
      <3> QED BY <2>2, <3>2, <3>3 DEF Programs
    <2>4. NoneMore
      BY <2>2 DEF NoneMore, Unmade, OthersKept
    <2>5. TypeOK'
      BY <2>1, <2>2 DEF TypeOK, rows, incus, passes, stream, history
    <2>6. Moves
      BY <2>1, <2>4, StillMoves DEF Still
    <2>7. RowsTrue'
      BY <2>1, <2>6, RowsStay, SameRows DEF stream
    <2>8. WritesTrue(Purger)'
      BY <2>2, ProgramsFresh DEF WritesTrue, Fresh, PurgeTrashed
    <2>9. \A q \in Processes : WritesTrue(q)'
      BY <2>2, <2>6, <2>8, WritesStay DEF OthersKept
    <2> QED BY <2>1, <2>3, <2>5, <2>6, <2>7, <2>9, PassesSame
  <1> QED BY <1>1, <1>2, <1>3, ProcessStepKeeps DEF PurgerStep

\* A pass takes a step of its own.
PassAlone(p) ==
  /\ \A q \in Passes \ {p} :
       at'[q] = at[q] /\ names'[q] = names[q] /\ cand'[q] = cand[q] /\ cur'[q] = cur[q]
  /\ at' \in [Passes -> {"idle", "list", "mark", "release"}]
  /\ names' \in [Passes -> SUBSET VMs] /\ cand' \in [Passes -> SUBSET VMs]
  /\ cur' \in [Passes -> VMs \cup {None}]

\* It sets at most its own place, names, candidates and current VM.
LEMMA AloneIf ==
  ASSUME TypeOK, NEW p \in Passes, NEW a \in {"idle", "list", "mark", "release"},
         NEW N \in SUBSET VMs, NEW C \in SUBSET VMs, NEW c \in VMs \cup {None},
         at' = at \/ at' = [at EXCEPT ![p] = a],
         names' = names \/ names' = [names EXCEPT ![p] = N],
         cand' = cand \/ cand' = [cand EXCEPT ![p] = C],
         cur' = cur \/ cur' = [cur EXCEPT ![p] = c]
  PROVE  PassAlone(p)
  <1>1. /\ at \in [Passes -> {"idle", "list", "mark", "release"}]
        /\ names \in [Passes -> SUBSET VMs] /\ cand \in [Passes -> SUBSET VMs]
        /\ cur \in [Passes -> VMs \cup {None}]
    BY DEF TypeOK
  <1>2. /\ at' \in [Passes -> {"idle", "list", "mark", "release"}]
        /\ \A q \in Passes \ {p} : at'[q] = at[q]
    BY ONLY <1>1, at' = at \/ at' = [at EXCEPT ![p] = a],
            p \in Passes, a \in {"idle", "list", "mark", "release"}
  <1>3. names' \in [Passes -> SUBSET VMs] /\ \A q \in Passes \ {p} : names'[q] = names[q]
    BY ONLY <1>1, names' = names \/ names' = [names EXCEPT ![p] = N],
            p \in Passes, N \in SUBSET VMs
  <1>4. cand' \in [Passes -> SUBSET VMs] /\ \A q \in Passes \ {p} : cand'[q] = cand[q]
    BY ONLY <1>1, cand' = cand \/ cand' = [cand EXCEPT ![p] = C],
            p \in Passes, C \in SUBSET VMs
  <1>5. cur' \in [Passes -> VMs \cup {None}] /\ \A q \in Passes \ {p} : cur'[q] = cur[q]
    BY ONLY <1>1, cur' = cur \/ cur' = [cur EXCEPT ![p] = c],
            p \in Passes, c \in VMs \cup {None}
  <1> QED BY ONLY <1>2, <1>3, <1>4, <1>5 DEF PassAlone

LEMMA PassKeeps ==
  ASSUME IInv, NEW p \in Passes, PassStep(p)
  PROVE  IInv'
  <1> USE DEF IInv
  <1>1. UNCHANGED <<young, incus, home, requests, due, history, events>>
    BY DEF PassStep, ReadNames, ListActive, MarkGone, ReleaseIP, PassOver, stream
  <1>2. Programs' /\ NoneMore
    BY <1>1, ProgramsSame DEF requests
  <1>3. Moves
    BY <1>1, <1>2, StillMoves DEF Still
  <1>4. SUFFICES /\ NewRows /\ PassTrue(p)' /\ PassAlone(p)
                 /\ status' \in [VMs -> VMStatus] /\ trash' = trash /\ rescue' = rescue
                 /\ addr' \in [VMs -> {"assigned", "cooldown"}]
                 /\ link' \in {"up", "down"} /\ faults' \in 0..MaxFaults
    <2>1. TypeOK'
      BY <1>1, <1>4 DEF TypeOK, incus, requests, history, PassAlone
    <2>2. \A q \in Passes : PassTrue(q)'
      BY <1>3, <1>4, PassStays DEF PassAlone
    <2> QED BY <1>1, <1>2, <1>3, <1>4, <2>1, <2>2, RowsStay, WritesSame DEF requests
  <1>5. CASE ReadNames(p)
    <2>1. PassAlone(p)
      BY <1>5 DEF ReadNames, PassAlone, TypeOK
    <2>2. at'[p] = "list" /\ names'[p] = {v \in VMs : inst[v] # "none" /\ home[v] = "customers"}
      BY <1>5 DEF ReadNames, TypeOK
    <2>3. \A v \in VMs \ names'[p] : Destroyed(v)'
      BY <1>1, <2>2 DEF Destroyed, Living, Excused, incus, history
    <2>4. cand' = cand
      BY <1>5 DEF ReadNames
    <2>5. \A v \in cand'[p] : Hopeless(v)'
      BY <1>3, <2>4, Stays DEF PassTrue, TypeOK
    <2> QED BY <1>1, <1>5, <2>1, <2>2, <2>3, <2>5, SameRows
            DEF ReadNames, PassTrue, TypeOK, rows, stream
  <1>6. CASE ListActive(p)
    <2>1. cand' = [cand EXCEPT ![p] = Listed \ names[p]] /\ UNCHANGED <<rows, faults, cur>>
          /\ at[p] = "list"
      BY <1>6 DEF ListActive, PassOver
    <2>2. \A v \in cand'[p] : Hopeless(v)'
      BY <1>3, <2>1, Stays DEF PassTrue, TypeOK, Listed, Destroyed, Hopeless
    <2>3. at'[p] \in {"idle", "mark"} /\ PassAlone(p) /\ link' \in {"up", "down"}
      <3>1. Listed \ names[p] \in SUBSET VMs /\ {} \in SUBSET VMs
        BY DEF Listed
      <3>2. PICK a \in {"idle", "mark"} :
              /\ at' = [at EXCEPT ![p] = a]
              /\ names' = names \/ names' = [names EXCEPT ![p] = {}]
              /\ link' = "up" \/ link' = link
        BY <1>6 DEF ListActive, PassOver, stream
      <3>3. cur' = cur \/ cur' = [cur EXCEPT ![p] = None]
        BY <2>1
      <3>4. PassAlone(p)
        BY <2>1, <3>1, <3>2, <3>3, AloneIf
      <3>5. at'[p] = a
        BY <3>2 DEF TypeOK
      <3> QED BY <3>2, <3>4, <3>5 DEF TypeOK
    <2> QED BY <1>1, <2>1, <2>2, <2>3, SameRows DEF PassTrue, TypeOK, rows
  <1>7. CASE MarkGone(p) /\ cand[p] = {}
    <2>1. UNCHANGED <<rows, cand, faults, cur>> /\ at'[p] = "idle" /\ PassAlone(p)
          /\ link' \in {"up", "down"}
      BY <1>7 DEF MarkGone, PassOver, PassAlone, TypeOK
    <2> QED BY <1>1, <1>7, <2>1, SameRows DEF PassTrue, TypeOK, rows
  <1>8. CASE MarkGone(p) /\ cand[p] # {}
    <2>1. PICK v \in cand[p] :
            /\ cand' = [cand EXCEPT ![p] = @ \ {v}]
            /\ UNCHANGED <<names, stream>>
            /\ \/ /\ NoFault
                  /\ IF status[v] \in Retired THEN UNCHANGED rows ELSE UpdateStatus(v, "gone")
                  /\ at' = [at EXCEPT ![p] = "release"] /\ cur' = [cur EXCEPT ![p] = v]
               \/ Fault /\ UNCHANGED <<rows, at, cur>>
      BY <1>8 DEF MarkGone
    <2>2. v \in VMs /\ Hopeless(v) /\ Hopeless(v)'
      BY <1>3, Stays DEF PassTrue, TypeOK
    <2>3. /\ UNCHANGED <<trash, rescue, addr>>
          /\ status' \in {status, [status EXCEPT ![v] = "gone"]}
      BY <2>1 DEF rows, UpdateStatus
    <2>4. NewRows /\ status' \in [VMs -> VMStatus]
      BY <1>1, <2>2, <2>3 DEF NewRows, TypeOK, VMStatus
    <2>5. PassAlone(p) /\ cand'[p] \subseteq cand[p]
      <3>1. cand \in [Passes -> SUBSET VMs] /\ cand' = [cand EXCEPT ![p] = cand[p] \ {v}]
        BY <2>1 DEF TypeOK
      <3>2. cand[p] \ {v} \in SUBSET VMs /\ v \in VMs \cup {None} /\ {} \in SUBSET VMs
        BY <2>2, <3>1
      <3>3. /\ at' = at \/ at' = [at EXCEPT ![p] = "release"]
            /\ cur' = cur \/ cur' = [cur EXCEPT ![p] = v]
            /\ names' = names \/ names' = [names EXCEPT ![p] = {}]
        BY ONLY <2>1
      <3>4. PassAlone(p)
        BY <3>1, <3>2, <3>3, AloneIf
      <3> QED BY ONLY <3>1, <3>4, p \in Passes
    <2>6. (at'[p] = "release" /\ cur'[p] = v) \/ at'[p] = "mark"
      BY <1>8, <2>1 DEF MarkGone, TypeOK
    <2>7. \A w \in cand'[p] : Hopeless(w)'
      BY <1>3, <2>5, Stays DEF PassTrue, TypeOK
    <2>8. PassTrue(p)'
      BY <2>2, <2>6, <2>7 DEF PassTrue, Hopeless, Excused, Living, Unmade
    <2> QED BY <2>1, <2>3, <2>4, <2>5, <2>8, FaultsTyped DEF TypeOK, stream
  <1>9. CASE ReleaseIP(p)
    <2>1. /\ at' = [at EXCEPT ![p] = "mark"] /\ cur' = [cur EXCEPT ![p] = None]
          /\ UNCHANGED <<names, cand, stream, status, trash, rescue>> /\ at[p] = "release"
          /\ addr' \in {addr, [addr EXCEPT ![cur[p]] = "cooldown"]} /\ (Fault \/ NoFault)
      BY <1>9 DEF ReleaseIP, Release, rows
    <2>2. cur[p] \in VMs /\ Hopeless(cur[p])
      BY <2>1 DEF PassTrue
    <2>3. NewRows /\ addr' \in [VMs -> {"assigned", "cooldown"}]
      BY <1>1, <2>1, <2>2 DEF NewRows, TypeOK
    <2>4. PassAlone(p) /\ at'[p] = "mark"
      BY <2>1 DEF PassAlone, TypeOK
    <2>5. \A w \in cand'[p] : Hopeless(w)'
      BY <1>3, <2>1, Stays DEF PassTrue, TypeOK
    <2> QED BY <2>1, <2>3, <2>4, <2>5, FaultsTyped DEF PassTrue, TypeOK, stream
  <1> QED BY <1>5, <1>6, <1>7, <1>8, <1>9 DEF PassStep

\* The instance goes: what the listener is told is true.
LEMMA VanishStep ==
  ASSUME IInv, NEW v \in VMs, Vanish(v), inst[v] # "none", Fault \/ NoFault,
         UNCHANGED <<rows, young, home, requests, due, passes, link, history>>
  PROVE  IInv'
  <1> USE DEF IInv
  <1>1. /\ inst' = [inst EXCEPT ![v] = "none"] /\ dying' = dying \ {v} /\ snap' = snap \ {v}
        /\ events' \in {events, [events EXCEPT ![v] = @ + 1]}
        /\ events[v] >= MaxEvents => events' = events
    BY VMLifecycleAssumption DEF Vanish, Tell, TypeOK
  <1>2. Programs' /\ NoneMore
    BY ProgramsSame DEF requests
  <1>3. Moves
    BY <1>1, <1>2 DEF Moves, history, TypeOK
  <1>4. TypeOK'
    <2>1. events' \in [VMs -> 0..MaxEvents]
      BY <1>1, VMLifecycleAssumption DEF TypeOK
    <2> QED BY <1>1, <2>1, FaultsTyped DEF TypeOK, rows, requests, passes, history
  <1>5. Hopeless(v)'
    <2>1. ~Living(v)'
      BY <1>1 DEF Living, TypeOK
    <2> QED BY <1>3, <2>1, GoneForGood
  <1>6. \A w \in VMs \ {v} : events'[w] = events[w]
    BY <1>1 DEF TypeOK
  <1>7. NewRows
    BY <1>5, <1>6 DEF NewRows, rows
  <1> QED BY <1>2, <1>3, <1>4, <1>7, RowsStay, WritesSame, PassesSame DEF requests

LEMMA IncusDeletesStep ==
  ASSUME IInv, NEW v \in VMs, IncusDeletes(v)
  PROVE  IInv'
  <1> USE DEF IInv
  <1>1. v \in dying /\ inst[v] # "none"
    BY DEF IncusDeletes, TypeOK
  <1>2. CASE NoFault /\ Vanish(v) /\ UNCHANGED stuck
    BY <1>1, <1>2, VanishStep DEF IncusDeletes, history
  <1>3. CASE Fault /\ dying' = dying \ {v} /\ stuck' = stuck \cup {v} /\ UNCHANGED <<inst, snap, events>>
    <2>1. UNCHANGED <<rows, young, home, requests, due, passes, link, remade, late, bare>>
      BY DEF IncusDeletes
    <2>2. Programs' /\ NoneMore
      BY <2>1, ProgramsSame DEF requests
    <2>3. Moves
      BY <1>3, <2>1, <2>2 DEF Moves
    <2>4. TypeOK'
      BY <1>3, <2>1, FaultsTyped DEF TypeOK, rows, requests, passes
    <2> QED BY <1>3, <2>1, <2>2, <2>3, <2>4, SameRows, RowsStay, WritesSame, PassesSame DEF requests
  <1> QED BY <1>2, <1>3 DEF IncusDeletes

\* Steps that leave programs, passes and Incus alone.
LEMMA QuietStep ==
  ASSUME IInv, UNCHANGED <<requests, incus, home, history, passes, addr, rescue>>,
         young' \subseteq young, due' = due, link' \in {"up", "down"}, faults' \in 0..MaxFaults,
         trash' \in [VMs -> {"no", "window", "expired"}], status' \in [VMs -> VMStatus],
         events' \in [VMs -> 0..MaxEvents],
         \A v \in VMs : /\ events'[v] > 0 => events[v] > 0
                        /\ status'[v] # status[v] => status'[v] = "gone" /\ Hopeless(v)
  PROVE  IInv'
  <1> USE DEF IInv
  <1>1. Programs' /\ NoneMore
    BY ProgramsSame DEF requests
  <1>2. Moves
    BY <1>1 DEF Moves, incus, history, TypeOK
  <1>3. TypeOK'
    BY DEF TypeOK, requests, incus, history, passes
  <1>4. NewRows
    BY DEF NewRows
  <1> QED BY <1>1, <1>2, <1>3, <1>4, RowsStay, WritesSame, PassesSame DEF requests

LEMMA HandleDeletedStep ==
  ASSUME IInv, NEW v \in VMs, HandleDeleted(v)
  PROVE  IInv'
  <1> USE DEF IInv
  <1>1. /\ events' = [events EXCEPT ![v] = @ - 1] /\ events[v] > 0
        /\ UNCHANGED <<young, incus, home, requests, due, passes, link, history, trash, rescue, addr>>
        /\ status' \in {status, [status EXCEPT ![v] = "gone"]} /\ (Fault \/ NoFault)
    BY DEF HandleDeleted, UpdateStatus, rows
  <1>2. Hopeless(v)
    BY <1>1 DEF RowsTrue
  <1>3. status' \in [VMs -> VMStatus] /\ \A w \in VMs : status'[w] # status[w] => status'[w] = "gone" /\ w = v
    BY <1>1 DEF TypeOK, VMStatus
  <1>4. events' \in [VMs -> 0..MaxEvents] /\ \A w \in VMs : events'[w] > 0 => events[w] > 0
    BY <1>1, VMLifecycleAssumption DEF TypeOK
  <1>5. young' \subseteq young /\ due' = due /\ link' \in {"up", "down"}
        /\ trash' \in [VMs -> {"no", "window", "expired"}] /\ faults' \in 0..MaxFaults
    BY <1>1, FaultsTyped DEF TypeOK
  <1> HIDE DEF IInv
  <1> QED BY <1>1, <1>2, <1>3, <1>4, <1>5, QuietStep

LEMMA CrashStep ==
  ASSUME IInv, Crash
  PROVE  IInv'
  <1> USE DEF IInv
  <1> DEFINE left == {p \in Requests \ swept : kind[p] \in Jobs}
  <1>1. /\ todo' = [p \in Processes |-> IF p \in left THEN Rollback(kind[p]) ELSE <<>>]
        /\ kind' = [p \in Processes |-> IF p = Purger THEN "new"
                                        ELSE IF p \in left \/ kind[p] = "new" THEN kind[p] ELSE "over"]
        /\ on' = [p \in Processes |-> IF p \in left THEN on[p] ELSE None]
        /\ due' = {} /\ (Fault \/ NoFault)
        /\ at' = [p \in Passes |-> "idle"] /\ names' = [p \in Passes |-> {}]
        /\ cand' = [p \in Passes |-> {}] /\ cur' = [p \in Passes |-> None]
        /\ events' = [v \in VMs |-> 0] /\ link' = "up"
        /\ UNCHANGED <<rows, young, incus, home, swept, history>>
    BY DEF Crash
  <1>2. \A p \in Processes : Ordered(todo'[p]) /\ ~Makes(todo'[p])
    BY <1>1, RollbackOrdered, OtherPrograms
  <1>3. \A p \in left : p \in Processes /\ p # Purger /\ on[p] \in VMs /\ kind[p] \in Jobs
    <2> SUFFICES ASSUME NEW p \in left
                 PROVE  p \in Processes /\ p # Purger /\ on[p] \in VMs /\ kind[p] \in Jobs
      OBVIOUS
    <2>1. p \in Processes /\ p # Purger /\ kind[p] \in Jobs
      BY VMLifecycleAssumption DEF Processes
    <2>2. todo[p] # <<>>
      BY <2>1 DEF Programs, ProgramOf, Jobs
    <2> QED BY <2>1, <2>2 DEF Programs, ProgramOf
  <1>4. \A p \in Processes : kind'[p] = "create" => p \in left /\ kind[p] = "create" /\ on'[p] = on[p]
    <2> SUFFICES ASSUME NEW p \in Processes, kind'[p] = "create"
                 PROVE  p \in left /\ kind[p] = "create" /\ on'[p] = on[p]
      OBVIOUS
    <2>1. p \in left /\ kind[p] = "create"
      BY <1>1
    <2> QED BY <1>1, <2>1
  <1>5. \A p \in Processes : ProgramOf(p)'
    <2> SUFFICES ASSUME NEW p \in Processes PROVE ProgramOf(p)'
      OBVIOUS
    <2>1. CASE p \in left
      <3>1. /\ todo'[p] = Rollback(kind[p]) /\ kind'[p] = kind[p] /\ on'[p] = on[p]
            /\ on[p] \in VMs /\ kind[p] \in Jobs /\ p # Purger
        BY <1>1, <1>3, <2>1
      <3> QED BY <3>1, RollbackOrdered DEF ProgramOf, Jobs
    <2>2. CASE p \notin left
      <3>1. todo'[p] = <<>>
        BY <1>1, <2>2
      <3>2. kind'[p] \in {"new", "over"} /\ (p = Purger => kind'[p] = "new")
        BY <1>1, <2>2
      <3> QED BY <3>1, <3>2, OtherPrograms DEF ProgramOf
    <2> QED BY <2>1, <2>2
  <1>6. Programs'
    <2>1. todo' \in [Processes -> Seq(Steps)]
      BY <1>1, <1>2 DEF Ordered
    <2> QED BY <1>4, <1>5, <2>1 DEF Programs
  <1>7. NoneMore
    BY <1>2 DEF NoneMore, Unmade
  <1>8. Moves
    BY <1>1, <1>7, StillMoves DEF Still
  <1>9. TypeOK'
    <2>1. kind' \in [Processes -> Kinds] /\ on' \in [Processes -> VMs \cup {None}]
      BY <1>1, <1>3 DEF TypeOK, Kinds
    <2>2. events' \in [VMs -> 0..MaxEvents]
      BY <1>1, VMLifecycleAssumption
    <2> QED BY <1>1, <1>6, <2>1, <2>2, FaultsTyped DEF TypeOK, rows, incus, history, Programs
  <1>10. RowsTrue'
    BY <1>1, <1>8, RowsStay DEF NewRows, rows
  <1>11. \A p \in Processes : WritesTrue(p)'
    BY <1>1, RollbackOrdered DEF WritesTrue
  <1>12. \A p \in Passes : PassTrue(p)'
    BY <1>1 DEF PassTrue
  <1> QED BY <1>6, <1>9, <1>10, <1>11, <1>12

-----------------------------------------------------------------------------
(* The theorems                                                            *)

\* Rows are true when the process starts: nothing was deleted, and no job has made a VM yet.
LEMMA IInvInit == Init => IInv
  <1> SUFFICES ASSUME Init PROVE IInv
    OBVIOUS
  <1>1. PICK job \in [VMs -> Requests \cup {None}] :
          LET new == {v \in VMs : job[v] # None} IN
          /\ \A v, w \in new : v # w => job[v] # job[w]
          /\ status = [v \in VMs |-> IF v \in new THEN "creating" ELSE "running"]
          /\ inst = [v \in VMs |-> IF v \in new THEN "none" ELSE "running"]
          /\ young = new
          /\ kind = [p \in Processes |-> IF \E v \in new : job[v] = p THEN "create" ELSE "new"]
          /\ on = [p \in Processes |-> IF \E v \in new : job[v] = p
                                       THEN CHOOSE v \in new : job[v] = p ELSE None]
          /\ todo = [p \in Processes |-> IF kind[p] = "create" THEN CreateVM ELSE <<>>]
    BY DEF Init
  <1> DEFINE new == {v \in VMs : job[v] # None}
  <1>2. /\ home \in [VMs -> Projects]
        /\ trash = [v \in VMs |-> "no"] /\ rescue = {} /\ addr = [v \in VMs |-> "assigned"]
        /\ dying = {} /\ snap = {} /\ swept = {} /\ due = {}
        /\ at = [p \in Passes |-> "idle"] /\ names = [p \in Passes |-> {}]
        /\ cand = [p \in Passes |-> {}] /\ cur = [p \in Passes |-> None]
        /\ link = "up" /\ events = [v \in VMs |-> 0]
        /\ remade = {} /\ late = {} /\ stuck = {} /\ bare = {} /\ faults = 0
    BY DEF Init
  <1>3. \A p \in Processes : kind[p] = "create" =>
          on[p] \in new /\ job[on[p]] = p /\ p \in Requests
    <2> SUFFICES ASSUME NEW p \in Processes, kind[p] = "create"
                 PROVE  on[p] \in new /\ job[on[p]] = p /\ p \in Requests
      OBVIOUS
    <2>1. \E v \in new : job[v] = p
      BY <1>1
    <2>2. on[p] = CHOOSE v \in new : job[v] = p
      BY <1>1, <2>1
    <2>3. on[p] \in new /\ job[on[p]] = p
      BY <2>1, <2>2
    <2> QED BY <2>3
  <1>4. \A p \in Processes :
          /\ kind[p] \in {"create", "new"}
          /\ todo[p] = IF kind[p] = "create" THEN CreateVM ELSE <<>>
          /\ on[p] \in VMs \cup {None}
    <2>1. \A p \in Processes : kind[p] # "create" => on[p] = None
      BY <1>1
    <2> QED BY <1>1, <1>3, <2>1
  <1>5. kind \in [Processes -> Kinds] /\ on \in [Processes -> VMs \cup {None}]
        /\ todo \in [Processes -> Seq(Steps)]
    <2>1. <<>> \in Seq(Steps) /\ CreateVM \in Seq(Steps)
      BY OtherPrograms DEF Ordered
    <2>2. kind = [p \in Processes |-> kind[p]] /\ on = [p \in Processes |-> on[p]]
          /\ todo = [p \in Processes |-> todo[p]]
      BY <1>1
    <2> QED BY <1>4, <2>1, <2>2 DEF Kinds, Jobs
  <1>6. TypeOK
    BY <1>1, <1>2, <1>5, VMLifecycleAssumption DEF TypeOK, VMStatus, Active
  <1>7. Programs
    <2>1. \A p \in Processes : ProgramOf(p)
      BY <1>3, <1>4, OtherPrograms, VMLifecycleAssumption DEF ProgramOf
    <2> QED BY <1>3, <1>5, <2>1 DEF Programs
  <1>8. \A v \in VMs : Unmade(v) => inst[v] = "none"
    BY <1>1, <1>3 DEF Unmade
  <1>9. RowsTrue
    BY <1>1, <1>2, <1>8 DEF RowsTrue
  <1>10. \A p \in Processes : WritesTrue(p)
    BY <1>4, OtherPrograms DEF WritesTrue
  <1>11. \A p \in Passes : PassTrue(p)
    BY <1>2 DEF PassTrue
  <1> QED BY <1>6, <1>7, <1>9, <1>10, <1>11 DEF IInv

\* Every step keeps the invariant.
LEMMA IInvStep == IInv /\ [Next]_vars => IInv'
  <1> SUFFICES ASSUME IInv, [Next]_vars PROVE IInv'
    OBVIOUS
  <1>1. ASSUME NEW r \in Requests, ProcessStep(r) PROVE IInv'
    BY <1>1, ProcessStepKeeps DEF Processes
  <1>2. ASSUME NEW r \in Requests, Recover(r) PROVE IInv'
    BY <1>2, RecoverStep
  <1>3. ASSUME NEW r \in Requests, NEW v \in VMs, Handler(r, v) PROVE IInv'
    BY <1>3, HandlerStep
  <1>4. CASE PurgerStep
    BY <1>4, PurgerKeeps
  <1>5. ASSUME NEW p \in Passes, PassStep(p) PROVE IInv'
    BY <1>5, PassKeeps
  <1>6. ASSUME NEW v \in VMs, HandleDeleted(v) PROVE IInv'
    BY <1>6, HandleDeletedStep
  <1>7. ASSUME NEW v \in VMs, IncusDeletes(v) PROVE IInv'
    BY <1>7, IncusDeletesStep
  <1>8. ASSUME NEW v \in VMs, DeletedOutOfBand(v) PROVE IInv'
    BY <1>8, VanishStep DEF DeletedOutOfBand
  <1>9. ASSUME NEW v \in VMs, Expire(v) PROVE IInv'
    BY <1>9, QuietStep DEF Expire, IInv, TypeOK, stream
  <1>10. ASSUME NEW v \in VMs, Age(v) PROVE IInv'
    BY <1>10, QuietStep DEF Age, IInv, TypeOK, rows, stream
  <1>11. CASE Disconnect
    <2>1. events' \in [VMs -> 0..MaxEvents] /\ faults' \in 0..MaxFaults
      BY <1>11, FaultsTyped, VMLifecycleAssumption DEF Disconnect, IInv
    <2> QED BY <1>11, <2>1, QuietStep DEF Disconnect, IInv, TypeOK, rows
  <1>12. CASE Crash
    BY <1>12, CrashStep
  <1>13. CASE UNCHANGED vars
    BY <1>13, QuietStep DEF vars, rows, incus, requests, passes, stream, history, IInv, TypeOK
  <1> QED BY <1>1, <1>2, <1>3, <1>4, <1>5, <1>6, <1>7, <1>8, <1>9, <1>10, <1>11, <1>12, <1>13 DEF Next

\* The invariant holds in every state: programs are in order, rows and events say what is so,
\* and what a process or a pass is about to write is true.
THEOREM LifecycleInv == Spec => []IInv
  BY IInvInit, IInvStep, PTL DEF Spec

\* Every reachable state is well typed.
THEOREM LifecycleTypeCorrect == Spec => []TypeOK
  <1>1. IInv => TypeOK
    BY DEF IInv
  <1> QED BY <1>1, LifecycleInv, PTL

\* A VM that lives is never shown as gone (MarkGone, MarkGoneByName), but for the excuses.
THEOREM GoneHaveVanished == Spec => []LivingNotGone
  <1>1. IInv => LivingNotGone
    BY DEF IInv, RowsTrue, LivingNotGone, Hopeless
  <1> QED BY <1>1, LifecycleInv, PTL

\* The address of a VM that lives never cools down (reconcileCluster, ForceDeleteGone and the
\* rollback of a vm.create release addresses), but for the excuses.
THEOREM AddressesKept == Spec => []LivingKeepAddress
  <1>1. IInv => LivingKeepAddress
    BY DEF IInv, RowsTrue, LivingKeepAddress, Hopeless
  <1> QED BY <1>1, LifecycleInv, PTL

\* Behind a deleted row no instance lives (PurgeTrashed, BatchVMs, ForceDeleteGone), but for the
\* excuses.
THEOREM RowsOutliveInstances == Spec => []DeletedAreDestroyed
  <1>1. IInv => DeletedAreDestroyed
    BY DEF IInv, RowsTrue, DeletedAreDestroyed, Destroyed
  <1> QED BY <1>1, LifecycleInv, PTL

\* A VM in rescue mode has the snapshot that takes it back (EnterRescue's order of the two).
THEOREM RescuesCanBeUndone == Spec => []RescueCanBeUndone
  <1>1. IInv => RescueCanBeUndone
    BY DEF IInv, TypeOK, RowsTrue, RescueCanBeUndone, Rescuable, Living
  <1> QED BY <1>1, LifecycleInv, PTL

=============================================================================
