------------------------------- MODULE Alerts -------------------------------
(***************************************************************************)
(* The alerting loop: the evaluator raises and resolves alerts by the      *)
(* rules and queues a delivery of each change for every channel of the     *)
(* rule; the dispatcher sends what is queued; the watchdog raises and      *)
(* resolves the alerts of unbalanced clusters; administrators edit rules   *)
(* and channels and dismiss alerts. Alerts and deliveries are in the       *)
(* database, the watchdog's counters in memory.                            *)
(*                                                                         *)
(* The three loops are threads of one process. Any of their calls may      *)
(* fail, with its effect or without, and the process may stop anywhere.    *)
(***************************************************************************)
EXTENDS Integers, Sequences, FiniteSets, SequencesExt

CONSTANTS
  Rules,         \* alert_rules, by their ids
  Channels,      \* notify_channels, by their ids
  Groups,        \* group keys: what an alert can be about
  Slot,          \* the kind and cluster of each group's alert
  GroupsOf,      \* the groups the kind of a rule can raise
  Resolving,     \* rules of the kinds whose alerts the evaluator resolves
  Imbalance,     \* rules of the kind the watchdog raises
  Setups,        \* what alert_rules may start with, and how many calls may fail
  Edits,         \* what an administrator may make of a rule
  MaxAttempts,   \* DeliveryMaxAttempts
  PersistTicks,  \* unbalanced ticks before the watchdog raises an alert
  None,
  Budget,        \* bound on changes of the world and by administrators
  MaxFaults      \* bound on failed calls and crashes of any setup

RuleRow == [enabled : BOOLEAN, critical : BOOLEAN, channels : SUBSET Channels]
Watched == UNION {GroupsOf[r] : r \in Imbalance}
Keys    == Channels \X Groups

ASSUME AlertsAssumption ==
  /\ DOMAIN Slot = Groups
  /\ GroupsOf \in [Rules -> SUBSET Groups]
  /\ Resolving \subseteq Rules /\ Imbalance \subseteq Rules \ Resolving
  /\ \A r \in Rules, q \in Rules \ Imbalance : r \in Imbalance => GroupsOf[r] \cap GroupsOf[q] = {}
  /\ Setups \subseteq [rule : [Rules -> RuleRow], faults : 0..MaxFaults]
  /\ Edits \in [Rules -> SUBSET RuleRow]
  /\ None \notin Groups \cup Channels \cup Rules
  /\ Groups \cap Channels = {}
  /\ \A g \in Groups : Slot[g] # "channel"
  /\ \A g \in Watched, x \in Groups : Slot[x] = Slot[g] => x = g
  /\ MaxAttempts \in Nat \ {0} /\ PersistTicks \in Nat \ {0}
  /\ Budget \in Nat /\ MaxFaults \in Nat

VARIABLES
  rule,       \* the rows of alert_rules
  channel,    \* what became of each channel
  over,       \* which rule's condition holds of which group
  active,     \* group keys of the unresolved alerts, a channel's failure its own
  rows,       \* the deliveries of each channel and group that still matter
  counter,    \* the watchdog's counters
  eval,       \* how far the evaluator's tick has come
  disp,       \* what the dispatcher has sent and not marked
  spent,      \* changes so far
  faults,     \* failed calls and crashes to come at most
  muted,      \* recoveries whose notice was lost or never queued
  own,        \* deliveries queued for the alert that is active, not an earlier one
  forgotten   \* alerts whose counter was cleared before they were resolved

vars == <<rule, channel, over, active, rows, counter, eval, disp, spent, faults,
          muted, own, forgotten>>

Phases   == {"firing", "resolved"}
Delivery == [phase : Phases, status : {"pending", "success", "resolved", "failed"},
             attempts : 0..MaxAttempts, waiting : BOOLEAN, picked : BOOLEAN,
             tried : BOOLEAN]
Resting  == [left |-> {}, row |-> None, work |-> {}, group |-> None,
             phase |-> "firing", to |-> {}]
NotSending == [key |-> None, result |-> "none"]

\* The indexes system_alerts_active_uniq and system_alerts_group_active_uniq.
SlotOf(x)  == IF x \in Channels THEN "channel" ELSE Slot[x]

TypeOK ==
  /\ rule \in [Rules -> RuleRow]
  /\ channel \in [Channels -> {"on", "off", "deleted"}]
  /\ over \subseteq Rules \X Groups
  /\ active \subseteq Groups \cup Channels
  /\ \A x, y \in active : SlotOf(x) = SlotOf(y) => x = y
  /\ DOMAIN rows = Keys
  /\ \A k \in Keys : \A i \in DOMAIN rows[k] :
       /\ rows[k][i] \in Delivery
       /\ rows[k][i].status = "pending" \/ i = Len(rows[k])
       /\ rows[k][i].picked => rows[k][i].status = "pending" /\ ~rows[k][i].waiting
  /\ counter \in [Watched -> 0..PersistTicks]
  /\ eval.left \subseteq Rules /\ eval.to \subseteq Channels
  /\ eval.work \subseteq [rule : Rules, group : Groups, up : BOOLEAN]
  /\ disp.key \in Keys \cup {None}
  /\ disp.result \in {"none", "sent", "retry", "failed", "unusable", "raise"}
  /\ spent \in 0..Budget /\ faults \in 0..MaxFaults
  /\ muted \subseteq Keys /\ own \subseteq Keys /\ forgotten \subseteq Watched

Fault == faults > 0 /\ faults' = faults - 1
\* An operation's own outcome, or a failure without its effect.
Sound == UNCHANGED faults

-----------------------------------------------------------------------------
(***************************************************************************)
(* The evaluator.                                                          *)
(***************************************************************************)
Idle == eval = Resting
Goes(e) == eval' = IF e.left = {} /\ e.work = {} /\ e.to = {} THEN Resting ELSE e

\* runOnce: the enabled rules, as they are now.
Tick ==
  /\ Idle
  /\ Goes([Resting EXCEPT !.left = {r \in Rules : rule[r].enabled}, !.row = rule])
  /\ UNCHANGED <<rule, channel, over, active, rows, counter, disp, spent, faults,
                 muted, own, forgotten>>

\* What evalRule finds to do: of the imbalance kind, the alerts the watchdog has
\* raised; of the others what is over, and for some what is not.
Findings(r) ==
  IF r \in Imbalance
  THEN {[rule |-> r, group |-> g, up |-> TRUE] : g \in GroupsOf[r] \cap active}
  ELSE {w \in [rule : {r}, group : GroupsOf[r], up : BOOLEAN] :
          /\ w.up = (<<r, w.group>> \in over)
          /\ w.up \/ r \in Resolving}

EvalRule(r) ==
  /\ r \in eval.left /\ eval.work = {} /\ eval.to = {}
  /\ \/ Sound /\ Goes([eval EXCEPT !.left = @ \ {r}, !.work = Findings(r)])
     \/ Fault /\ Goes([eval EXCEPT !.left = @ \ {r}])
  /\ UNCHANGED <<rule, channel, over, active, rows, counter, disp, spent, muted, own,
                 forgotten>>

\* system_alerts takes a row: no other group has its kind and cluster, and the
\* severity is one its CHECK knows, which "critical" is not.
Accepts(x, critical) ==
  ~critical /\ \A y \in active : SlotOf(y) = SlotOf(x) => y = x

Notify(w, x, phase) ==
  Goes([eval EXCEPT !.work = @ \ {w}, !.group = x, !.phase = phase,
                    !.to = eval.row[w.rule].channels])
Skip(w) == Goes([eval EXCEPT !.work = @ \ {w}])

\* UpsertWithGroup; the imbalance kind has its row already.
Fire(w) ==
  /\ w \in eval.work /\ w.up /\ eval.to = {}
  /\ \/ /\ w.rule \in Imbalance
        /\ Notify(w, w.group, "firing") /\ Sound /\ UNCHANGED active
     \/ /\ w.rule \notin Imbalance
        /\ Accepts(w.group, eval.row[w.rule].critical)
        /\ active' = active \cup {w.group}
        /\ \/ Notify(w, w.group, "firing") /\ Sound
           \/ Skip(w) /\ Fault
     \/ /\ w.rule \notin Imbalance
        /\ Skip(w) /\ UNCHANGED active
        /\ \/ ~Accepts(w.group, eval.row[w.rule].critical) /\ Sound
           \/ Fault
  /\ UNCHANGED <<rule, channel, over, rows, counter, disp, spent, muted, own, forgotten>>

\* ResolveAndReturn: the alert of the group's kind and cluster, if there is one.
Recover(w) ==
  LET alert == {x \in active : SlotOf(x) = Slot[w.group]} IN
  /\ w \in eval.work /\ ~w.up /\ eval.to = {}
  /\ \/ /\ alert = {} /\ Skip(w) /\ Sound /\ UNCHANGED <<active, muted>>
     \/ \E x \in alert :
          /\ active' = active \ {x}
          /\ \/ /\ Notify(w, x, "resolved") /\ Sound
                /\ muted' = muted \cup {<<c, x>> : c \in Channels \ eval.row[w.rule].channels}
             \/ /\ Skip(w) /\ Fault
                /\ muted' = muted \cup (Channels \X {x})
     \/ Skip(w) /\ Fault /\ UNCHANGED <<active, muted>>
  /\ own' = own \ (Channels \X (active \ active'))
  /\ UNCHANGED <<rule, channel, over, rows, counter, disp, spent, forgotten>>

\* Rows that are read again are the pending ones and the last of a key: a new row takes the
\* place of a finished one, and one that is finished goes unless it is the last.
Queued(s, d) == Append(IF s # <<>> /\ Last(s).status # "pending" THEN Front(s) ELSE s, d)
Settled(s, i, d) ==
  IF d.status # "pending" /\ i < Len(s) THEN RemoveAt(s, i) ELSE [s EXCEPT ![i] = d]

\* Variants with a fault that the properties tell apart: a failed delivery is not
\* queued again; a recovery counts as said already.
OncePerPhase(k, phase) == rows[k] # <<>> /\ Last(rows[k]).phase = phase
AnyPhase(k, phase) == rows[k] # <<>> /\ Last(rows[k]).status # "failed"

Duplicate(k, phase) ==
  rows[k] # <<>> /\ Last(rows[k]).phase = phase /\ Last(rows[k]).status # "failed"

NewDelivery(phase) ==
  [phase |-> phase, status |-> "pending", attempts |-> 0, waiting |-> FALSE,
   picked |-> FALSE, tried |-> FALSE]

\* EnqueueIfNotDuplicated for one channel of the rule.
Enqueue(c) ==
  LET k == <<c, eval.group>>
      added == [rows EXCEPT ![k] = Queued(@, NewDelivery(eval.phase))]
      missed == IF eval.phase = "resolved" THEN muted \cup {k} ELSE muted
  IN
  /\ c \in eval.to
  /\ Goes([eval EXCEPT !.to = @ \ {c}])
  /\ \/ /\ Duplicate(k, eval.phase)
        /\ Sound /\ UNCHANGED <<rows, muted, own>>
     \/ /\ ~Duplicate(k, eval.phase) /\ channel[c] # "deleted"
        /\ rows' = added
        /\ muted' = IF eval.phase = "resolved" \/ eval.group \in active
                    THEN muted \ {k} ELSE muted
        /\ own' = IF eval.phase = "firing" /\ eval.group \in active
                  THEN own \cup {k} ELSE own
        /\ Sound \/ Fault
     \/ /\ ~Duplicate(k, eval.phase)
        /\ \/ channel[c] = "deleted" /\ Sound
           \/ Fault
        /\ muted' = missed /\ UNCHANGED <<rows, own>>
  /\ UNCHANGED <<rule, channel, over, active, counter, disp, spent, forgotten>>

-----------------------------------------------------------------------------
(***************************************************************************)
(* The dispatcher.                                                         *)
(***************************************************************************)
Picked(k)  == {i \in DOMAIN rows[k] : rows[k][i].picked}
\* Variant: newest first.
Newest(k)  == CHOOSE i \in Picked(k) : \A j \in Picked(k) : i >= j
Current(k) == CHOOSE i \in Picked(k) : \A j \in Picked(k) : i <= j

\* Variant: the time of the next try is not asked for.
ListEarly ==
  /\ disp = NotSending
  /\ \A k \in Keys : Picked(k) = {}
  /\ rows' = [k \in Keys |-> [i \in DOMAIN rows[k] |->
       [rows[k][i] EXCEPT !.picked = rows[k][i].status = "pending"]]]
  /\ UNCHANGED <<rule, channel, over, active, counter, eval, disp, spent, faults,
                 muted, own, forgotten>>

\* ListPending: whatever is pending and due, oldest first.
ListPending ==
  /\ disp = NotSending
  /\ \A k \in Keys : Picked(k) = {}
  /\ \E k \in Keys : \E i \in DOMAIN rows[k] :
       rows[k][i].status = "pending" /\ ~rows[k][i].waiting
  /\ rows' = [k \in Keys |-> [i \in DOMAIN rows[k] |->
       [rows[k][i] EXCEPT !.picked = @ \/ (rows[k][i].status = "pending" /\ ~rows[k][i].waiting)]]]
  /\ UNCHANGED <<rule, channel, over, active, counter, eval, disp, spent, faults,
                 muted, own, forgotten>>

\* A failed delivery is not tried again when its channel cannot be used or its
\* configuration is wrong, or after its last attempt.
LastTry(d) == d.attempts + 1 >= MaxAttempts

\* GetWithConfig and Send of dispatchOne, and what it makes of the outcome. A
\* message that arrives may be reported as an error.
Send(k) ==
  LET i == Current(k)
      sent(res) == disp' = [key |-> k, result |-> res]
  IN
  /\ disp = NotSending /\ Picked(k) # {}
  /\ rows' = [rows EXCEPT ![k][i].tried = TRUE]
  /\ \/ channel[k[1]] # "on" /\ sent("unusable") /\ Sound
     \/ channel[k[1]] = "on" /\ sent("sent") /\ Sound
     \/ channel[k[1]] = "on" /\ sent("failed") /\ Fault
     \/ channel[k[1]] = "on" /\ ~LastTry(rows[k][i]) /\ sent("retry") /\ Fault
  /\ UNCHANGED <<rule, channel, over, active, counter, eval, spent, muted, own, forgotten>>

Outcome(d) ==
  CASE disp.result = "sent" ->
         [d EXCEPT !.picked = FALSE,
                   !.status = IF d.phase = "resolved" THEN "resolved" ELSE "success"]
    [] disp.result = "retry" ->
         [d EXCEPT !.picked = FALSE, !.attempts = @ + 1, !.waiting = TRUE]
    [] OTHER -> [d EXCEPT !.picked = FALSE, !.status = "failed"]

\* MarkSuccess, MarkRetry or MarkFailed. A mark that fails is not noticed, nor is
\* one of a row that went with its channel.
Mark ==
  LET k == disp.key
      i == Current(k)
      d == Outcome(rows[k][i])
  IN
  /\ disp.result \notin {"none", "raise"}
  /\ disp' = IF disp.result = "failed" THEN [disp EXCEPT !.result = "raise"]
             ELSE NotSending
  /\ \/ /\ rows[k] = <<>> /\ Sound /\ UNCHANGED <<rows, muted>>
     \/ /\ rows[k] # <<>>
        /\ rows' = [rows EXCEPT ![k] = Settled(@, i, d)]
        /\ muted' = IF d.status = "failed" /\ d.phase = "resolved"
                    THEN muted \cup {k} ELSE muted
        /\ Sound
     \/ /\ rows[k] # <<>>
        /\ rows' = [rows EXCEPT ![k][i].picked = FALSE]
        /\ UNCHANGED muted /\ Fault
  /\ UNCHANGED <<rule, channel, over, active, counter, eval, spent, own, forgotten>>

\* raiseChannelDeliveryFailed
RaiseFailed ==
  /\ disp.result = "raise" /\ disp' = NotSending
  /\ \/ Accepts(disp.key[1], FALSE) /\ active' = active \cup {disp.key[1]} /\ Sound
     \/ ~Accepts(disp.key[1], FALSE) /\ UNCHANGED active /\ Sound
     \/ UNCHANGED active /\ Fault
  /\ UNCHANGED <<rule, channel, over, rows, counter, eval, spent, muted, own, forgotten>>

\* next_retry_at of a delivery comes.
Due(k, i) ==
  /\ i \in DOMAIN rows[k] /\ rows[k][i].status = "pending" /\ rows[k][i].waiting
  /\ rows' = [rows EXCEPT ![k][i].waiting = FALSE]
  /\ UNCHANGED <<rule, channel, over, active, counter, eval, disp, spent, faults,
                 muted, own, forgotten>>

-----------------------------------------------------------------------------
(***************************************************************************)
(* The watchdog.                                                           *)
(***************************************************************************)
Unbalanced(g) == \E r \in Imbalance : <<r, g>> \in over

\* Variant: the alert is left.
CounterOnly(g) ==
  /\ ~Unbalanced(g) /\ counter[g] > 0
  /\ counter' = [counter EXCEPT ![g] = 0]
  /\ UNCHANGED <<rule, channel, over, active, rows, eval, disp, spent, faults, muted, own,
                 forgotten>>

\* Balanced: the counter is cleared, and then the alert resolved.
Rebalanced(g) ==
  /\ ~Unbalanced(g) /\ counter[g] > 0
  /\ counter' = [counter EXCEPT ![g] = 0]
  /\ \/ /\ active' = {x \in active : SlotOf(x) # Slot[g]} /\ Sound
        /\ UNCHANGED forgotten
     \/ /\ Fault /\ UNCHANGED active
        /\ forgotten' = forgotten \cup ({g} \cap active)
  /\ muted' = muted \cup (Channels \X (active \ active'))
  /\ own' = own \ (Channels \X (active \ active'))
  /\ UNCHANGED <<rule, channel, over, rows, eval, disp, spent>>

\* Unbalanced: counted, and from the last tick on UpsertActive.
Persisting(g) ==
  LET n == IF counter[g] = PersistTicks THEN PersistTicks ELSE counter[g] + 1 IN
  /\ Unbalanced(g)
  /\ counter' = [counter EXCEPT ![g] = n]
  /\ forgotten' = forgotten \ {g}
  /\ \/ n < PersistTicks /\ UNCHANGED active /\ Sound
     \/ n = PersistTicks /\ active' = active \cup {g} /\ Sound
     \/ n = PersistTicks /\ UNCHANGED active /\ Fault
  /\ <<counter', active'>> # <<counter, active>>
  /\ UNCHANGED <<rule, channel, over, rows, eval, disp, spent, muted, own>>

-----------------------------------------------------------------------------
(***************************************************************************)
(* The world, administrators, the daily cleanup, crashes.                  *)
(***************************************************************************)
Change == spent < Budget /\ spent' = spent + 1

\* A condition begins to hold or ends; those of rules that tell nobody are left out.
Turn(r, g) ==
  /\ Change /\ rule[r].channels # {} /\ g \in GroupsOf[r]
  /\ over' = IF <<r, g>> \in over THEN over \ {<<r, g>>} ELSE over \cup {<<r, g>>}
  /\ UNCHANGED <<rule, channel, active, rows, counter, eval, disp, faults, muted, own,
                 forgotten>>

\* Update, SetEnabled; a deleted rule is one that stays disabled.
EditRule(r) ==
  /\ Change
  /\ \E row \in Edits[r] \ {rule[r]} : rule' = [rule EXCEPT ![r] = row]
  /\ UNCHANGED <<channel, over, active, rows, counter, eval, disp, faults, muted, own,
                 forgotten>>

\* A channel no rule names makes no difference.
Used(c) == \E r \in Rules : c \in rule[r].channels

\* Update of a channel.
SwitchChannel(c) ==
  /\ Change /\ Used(c) /\ channel[c] # "deleted"
  /\ channel' = [channel EXCEPT ![c] = IF @ = "on" THEN "off" ELSE "on"]
  /\ UNCHANGED <<rule, over, active, rows, counter, eval, disp, faults, muted, own,
                 forgotten>>

\* Delete of a channel takes its deliveries along, one just sent included.
DeleteChannel(c) ==
  /\ Change /\ Used(c) /\ channel[c] # "deleted"
  /\ channel' = [channel EXCEPT ![c] = "deleted"]
  /\ rows' = [k \in Keys |-> IF k[1] = c THEN <<>> ELSE rows[k]]
  /\ UNCHANGED <<rule, over, active, counter, eval, disp, faults, muted, own, forgotten>>

\* DismissSystemAlert: the alert is resolved without a word to the channels.
Dismiss(x) ==
  /\ Change /\ x \in active
  /\ active' = active \ {x}
  /\ muted' = IF x \in Groups THEN muted \cup (Channels \X {x}) ELSE muted
  /\ own' = own \ (Channels \X {x})
  /\ UNCHANGED <<rule, channel, over, rows, counter, eval, disp, faults, forgotten>>

\* RunAlertDeliveriesCleanup: a finished delivery of 90 days ago.
Cleanup(k) ==
  /\ Change /\ Len(rows[k]) = 1 /\ rows[k][1].status # "pending"
  /\ rows' = [rows EXCEPT ![k] = <<>>]
  /\ UNCHANGED <<rule, channel, over, active, counter, eval, disp, faults, muted, own,
                 forgotten>>

\* The process stops and starts again.
Restart ==
  /\ Fault
  /\ eval' = Resting /\ disp' = NotSending
  /\ counter' = [g \in Watched |-> 0]
  /\ forgotten' = forgotten \cup {g \in Watched : counter[g] > 0 /\ g \in active}
  /\ muted' = IF eval.phase = "resolved" THEN muted \cup (eval.to \X {eval.group}) ELSE muted
  /\ rows' = [k \in Keys |-> [i \in DOMAIN rows[k] |->
       [rows[k][i] EXCEPT !.picked = FALSE]]]
  /\ UNCHANGED <<rule, channel, over, active, spent, own>>

-----------------------------------------------------------------------------
(***************************************************************************)
(* What must hold.                                                         *)
(***************************************************************************)
\* A channel is not told of a later turn of a group before the dispatcher has tried
\* to tell it of the earlier ones: only a message that had to be retried comes late.
SentInOrder ==
  \A k \in Keys : \A i, j \in DOMAIN rows[k] :
    i < j /\ rows[k][i].status = "pending" /\ rows[k][j].tried => rows[k][i].tried

Told(k, phase, status) ==
  rows[k] # <<>> /\ Last(rows[k]).phase = phase /\ Last(rows[k]).status = status

\* A rule that is evaluated for a channel that can be used, and its condition.
Listens(r, k) == rule[r].enabled /\ k[1] \in rule[r].channels /\ channel[k[1]] = "on"
Holds(r, g)   == IF r \in Imbalance THEN g \in active ELSE <<r, g>> \in over
\* system_alerts has a place for the alert of a group.
Fits(r, g)    == r \in Imbalance \/ Accepts(g, rule[r].critical)

\* An alert that goes on firing reaches every channel of its rule, whatever fails on
\* the way, if the table takes it: the last delivery of the group was sent, says that
\* it fires and was queued for this alert, not for one that had ended before. Another
\* group of the same kind and cluster may be in its place (the index of migration 024
\* is still there), and no severity may be "critical". Where the end of the earlier
\* alert was never said (muted: the notice failed or was not queued, as for an alert
\* dismissed or resolved by the watchdog), the new one passes for the old one and the
\* earlier message has to do (EachAlertTold). The alert of a rule that resolves nothing
\* lasts until it is dismissed, whatever its condition does meanwhile.
FiringHeard ==
  \A r \in Rules, k \in Keys : k[2] \in GroupsOf[r] =>
    (<>[](Listens(r, k) /\ Holds(r, k[2]) /\ Fits(r, k[2])) =>
     <>[](Told(k, "firing", "success") /\ k \in own \cup muted))

\* "A sequence of firing, resolved and firing sends a new delivery at each turn", and
\* the evaluator queues "firing, and the rows resolved likewise" of the alerts the
\* watchdog writes: each alert that lasts is told by a delivery of its own.
EachAlertTold ==
  \A r \in Rules, k \in Keys : k[2] \in GroupsOf[r] =>
    (<>[](Listens(r, k) /\ Holds(r, k[2]) /\ Fits(r, k[2])) => <>[](k \in own))

\* The end of what the evaluator resolves is told to every channel that was told of
\* it, unless the alert was resolved without queueing a notice or the notice was
\* given up: nothing makes up for that.
RecoveryHeard ==
  \A r \in Resolving, k \in Keys : k[2] \in GroupsOf[r] =>
    (<>[](Listens(r, k) /\ <<r, k[2]>> \notin over) =>
     <>[](rows[k] = <<>> \/ Told(k, "resolved", "resolved") \/ k \in muted))

\* A cluster that stays balanced loses its alert, unless the watchdog cleared its
\* counter, by a failed ResolveActive or a restart, while the alert was there.
ImbalanceCleared ==
  \A g \in Watched :
    <>[]~Unbalanced(g) => <>[](g \notin active \/ g \in forgotten)

-----------------------------------------------------------------------------
Init ==
  /\ \E s \in Setups : rule = s.rule /\ faults = s.faults
  /\ channel = [c \in Channels |-> "on"]
  /\ over = {} /\ active = {}
  /\ rows = [k \in Keys |-> <<>>]
  /\ counter = [g \in Watched |-> 0]
  /\ eval = Resting /\ disp = NotSending
  /\ spent = 0
  /\ muted = {} /\ own = {} /\ forgotten = {}

Evaluate ==
  \/ Tick
  \/ \E r \in Rules : EvalRule(r)
  \/ \E w \in eval.work : Fire(w) \/ Recover(w)
  \/ \E c \in eval.to : Enqueue(c)

Dispatch == ListPending \/ (\E k \in Keys : Send(k)) \/ Mark \/ RaiseFailed

Watch(g) == Rebalanced(g) \/ Persisting(g)

Next ==
  \/ Evaluate \/ Dispatch
  \/ \E g \in Watched : Watch(g)
  \/ \E k \in Keys : \E i \in DOMAIN rows[k] : Due(k, i)
  \/ \E r \in Rules, g \in Groups : Turn(r, g)
  \/ \E r \in Rules : EditRule(r)
  \/ \E c \in Channels : SwitchChannel(c) \/ DeleteChannel(c)
  \/ \E x \in active : Dismiss(x)
  \/ \E k \in Keys : Cleanup(k)
  \/ Restart

\* The three tickers go on; time passes. A call to a channel or to the database
\* ends at the latest when it times out.
Fairness ==
  /\ WF_vars(Evaluate) /\ WF_vars(Dispatch)
  /\ \A g \in Watched : WF_vars(Watch(g))
  /\ \A k \in Keys : WF_vars(\E i \in DOMAIN rows[k] : Due(k, i))

Spec == Init /\ [][Next]_vars /\ Fairness
=============================================================================
