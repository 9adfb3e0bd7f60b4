---------------------------- MODULE AlertsProofs ----------------------------
(***************************************************************************)
(* What Alerts.tla promises for every number of rules, channels, groups,   *)
(* attempts and failures: a channel is not told of a later turn of a group *)
(* before the dispatcher has tried to tell it of the earlier ones.         *)
(***************************************************************************)
EXTENDS Alerts, SequenceTheorems, WellFoundedInduction, TLAPS

-----------------------------------------------------------------------------
(* The inductive invariant                                                 *)

Finding  == [rule : Rules, group : Groups, up : BOOLEAN]
EvalType == [left : SUBSET Rules, row : {None} \cup [Rules -> RuleRow], work : SUBSET Finding,
             group : Groups \cup {None}, phase : Phases, to : SUBSET Channels]
DispType == [key : Keys \cup {None},
             result : {"none", "sent", "retry", "failed", "unusable", "raise"}]

\* A tick that has rules or findings left has read the rules, and one that has channels left is
\* about a group.
EvalTrue(e) ==
  /\ e \in EvalType
  /\ e.left # {} \/ e.work # {} => e.row \in [Rules -> RuleRow]
  /\ e.to # {} => e.group \in Groups

Pending(d) == d.status = "pending"

\* The deliveries of a key: only the last is finished; one that waits was tried; one that is
\* older than a delivery that was tried, or is picked, was tried or is picked as well.
Orderly(s) ==
  /\ s \in Seq(Delivery)
  /\ \A i \in 1..Len(s) :
       /\ Pending(s[i]) \/ i = Len(s)
       /\ s[i].picked => Pending(s[i]) /\ ~s[i].waiting
       /\ s[i].waiting => s[i].tried
  /\ \A i, j \in 1..Len(s) : i < j /\ Pending(s[i]) =>
       /\ s[j].tried => s[i].tried
       /\ s[j].picked => s[i].picked \/ s[i].tried

\* The delivery that was sent and not yet marked is the oldest of those picked; a channel that
\* was deleted has taken its deliveries along.
Sent(s)  == \E i \in 1..Len(s) :
              /\ s[i].picked /\ s[i].tried /\ \A j \in 1..Len(s) : s[j].picked => i <= j
              /\ disp.result = "retry" => s[i].attempts + 1 < MaxAttempts

Marking == disp.result \notin {"none", "raise"}

Queue ==
  /\ rows \in [Keys -> Seq(Delivery)]
  /\ \A k \in Keys : Orderly(rows[k])
  /\ channel \in [Channels -> {"on", "off", "deleted"}]
  /\ \A k \in Keys : channel[k[1]] = "deleted" => rows[k] = <<>>
  /\ disp \in DispType
  /\ disp.result # "none" => disp.key \in Keys
  /\ Marking => channel[disp.key[1]] = "deleted" \/ Sent(rows[disp.key])

\* The rest of the types: tables, the world, the watchdog, the bounds and the history.
Tables ==
  /\ rule \in [Rules -> RuleRow]
  /\ over \subseteq Rules \X Groups
  /\ active \subseteq Groups \cup Channels
  /\ \A x, y \in active : SlotOf(x) = SlotOf(y) => x = y
  /\ counter \in [Watched -> 0..PersistTicks]
  /\ spent \in 0..Budget /\ faults \in 0..MaxFaults
  /\ muted \subseteq Keys /\ own \subseteq Keys /\ forgotten \subseteq Watched

IInv == EvalTrue(eval) /\ Queue /\ Tables

-----------------------------------------------------------------------------
(* Sequences of deliveries                                                 *)

\* A set of numbers has a least one.
LEMMA Least ==
  ASSUME NEW T \in SUBSET Nat, T # {}
  PROVE  \E m \in T : \A k \in T : m <= k
  <1> DEFINE R == OpToRel(<, Nat)
  <1>1. IsWellFoundedOn(R, Nat)
    BY NatLessThanWellFounded
  <1>2. \A x, y \in Nat : x < y => <<x, y>> \in R
    BY DEF OpToRel
  <1> HIDE DEF R
  <1>3. PICK m \in T : \A y \in T : ~ (<<y, m>> \in R)
    BY <1>1, WFMin
  <1>4. \A k \in T : m <= k
    <2> TAKE k \in T
    <2>1. m \in Nat /\ k \in Nat
      OBVIOUS
    <2>2. ~(k < m)
      BY <1>2, <1>3, <2>1
    <2> QED BY <2>1, <2>2
  <1> QED BY <1>4

LEMMA Numbers == MaxAttempts \in Nat \ {0} /\ PersistTicks \in Nat \ {0} /\ Budget \in Nat /\ MaxFaults \in Nat
  BY AlertsAssumption

LEMMA Fields ==
  ASSUME NEW d \in Delivery
  PROVE  /\ d.phase \in Phases /\ d.status \in {"pending", "success", "resolved", "failed"}
         /\ d.attempts \in 0..MaxAttempts /\ d.waiting \in BOOLEAN /\ d.picked \in BOOLEAN
         /\ d.tried \in BOOLEAN
  BY DEF Delivery

\* Queued puts a delivery at the end, and a finished one before it goes.
QueuedTo(s, d, t) ==
  \E n \in Nat :
    /\ t \in Seq(Delivery) /\ Len(t) = n + 1 /\ t[n + 1] = d
    /\ \A i \in 1..n : t[i] = s[i]
    /\ n = Len(s) \/ (n = Len(s) - 1 /\ ~Pending(s[Len(s)]))
    /\ n = Len(s) => s = <<>> \/ Pending(s[Len(s)])

LEMMA QueuedHas ==
  ASSUME NEW s \in Seq(Delivery), NEW d \in Delivery
  PROVE  QueuedTo(s, d, Queued(s, d))
  <1> SUFFICES \E n \in Nat :
                 /\ Queued(s, d) \in Seq(Delivery) /\ Len(Queued(s, d)) = n + 1
                 /\ Queued(s, d)[n + 1] = d
                 /\ \A i \in 1..n : Queued(s, d)[i] = s[i]
                 /\ n = Len(s) \/ (n = Len(s) - 1 /\ ~Pending(s[Len(s)]))
                 /\ n = Len(s) => s = <<>> \/ Pending(s[Len(s)])
    BY DEF QueuedTo
  <1>1. CASE s # <<>> /\ Last(s).status # "pending"
    <2>1. Len(s) \in Nat /\ Len(s) >= 1
      BY <1>1
    <2> DEFINE n == Len(s) - 1
    <2>2. n \in Nat
      BY <2>1
    <2>3. \A i \in 1..n : s[i] \in Delivery
      BY <2>1
    <2>4. /\ SubSeq(s, 1, n) \in Seq(Delivery) /\ Len(SubSeq(s, 1, n)) = n
          /\ \A i \in 1..n : SubSeq(s, 1, n)[i] = s[i]
      <3>1. /\ SubSeq(s, 1, n) \in Seq(Delivery)
            /\ Len(SubSeq(s, 1, n)) = IF 1 <= n THEN n - 1 + 1 ELSE 0
            /\ \A i \in 1..(n - 1 + 1) : SubSeq(s, 1, n)[i] = s[1 + i - 1]
        <4>1. 1 \in Int /\ n \in Int
          BY <2>2
        <4> HIDE DEF n
        <4> QED BY <2>3, <4>1, SubSeqProperties
      <3> HIDE DEF n
      <3> QED BY <2>2, <3>1
    <2>5. Queued(s, d) = Append(SubSeq(s, 1, n), d)
      BY <1>1 DEF Queued, Front
    <2> HIDE DEF n
    <2> DEFINE t == SubSeq(s, 1, n)
    <2>6. t \in Seq(Delivery) /\ Len(t) = n /\ \A i \in 1..n : t[i] = s[i]
      BY <2>4
    <2>7. Queued(s, d) = Append(t, d)
      BY <2>5
    <2> HIDE DEF t
    <2>8. /\ Queued(s, d) \in Seq(Delivery) /\ Len(Queued(s, d)) = n + 1
          /\ Queued(s, d)[n + 1] = d
          /\ \A i \in 1..n : Queued(s, d)[i] = s[i]
      BY <2>2, <2>6, <2>7
    <2>9. n = Len(s) - 1 /\ ~Pending(s[Len(s)])
      BY <1>1 DEF n, Last, Pending
    <2>10. n # Len(s)
      BY <2>1, <2>9
    <2> WITNESS n \in Nat
    <2> QED BY <2>8, <2>9, <2>10
  <1>2. CASE ~(s # <<>> /\ Last(s).status # "pending")
    <2>1. Queued(s, d) = Append(s, d)
      BY <1>2 DEF Queued
    <2>2. Len(s) \in Nat /\ (s = <<>> \/ Pending(s[Len(s)]))
      BY <1>2 DEF Last, Pending
    <2>3. /\ Queued(s, d) \in Seq(Delivery) /\ Len(Queued(s, d)) = Len(s) + 1
          /\ Queued(s, d)[Len(s) + 1] = d
          /\ \A i \in 1..Len(s) : Queued(s, d)[i] = s[i]
      BY <2>1
    <2> QED BY <2>2, <2>3
  <1> QED BY <1>1, <1>2

\* Settled changes one delivery, or takes it out of those before the last.
LEMMA SettledHas ==
  ASSUME NEW s \in Seq(Delivery), NEW i \in 1..Len(s), NEW d \in Delivery
  PROVE  /\ Settled(s, i, d) \in Seq(Delivery)
         /\ Pending(d) \/ i = Len(s) =>
              /\ Len(Settled(s, i, d)) = Len(s)
              /\ \A j \in 1..Len(s) : Settled(s, i, d)[j] = IF j = i THEN d ELSE s[j]
         /\ ~Pending(d) /\ i < Len(s) =>
              /\ Len(Settled(s, i, d)) = Len(s) - 1
              /\ \A j \in 1..(Len(s) - 1) : Settled(s, i, d)[j] = IF j < i THEN s[j] ELSE s[j + 1]
  <1>1. CASE Pending(d) \/ i = Len(s)
    <2>1. Settled(s, i, d) = [s EXCEPT ![i] = d]
      BY <1>1 DEF Settled, Pending
    <2>2. /\ [s EXCEPT ![i] = d] \in Seq(Delivery) /\ Len([s EXCEPT ![i] = d]) = Len(s)
          /\ \A j \in 1..Len(s) : [s EXCEPT ![i] = d][j] = IF j = i THEN d ELSE s[j]
      BY ExceptSeq
    <2>3. ~(~Pending(d) /\ i < Len(s))
      BY <1>1
    <2> QED BY <2>1, <2>2, <2>3
  <1>2. CASE ~Pending(d) /\ i < Len(s)
    <2> DEFINE a == SubSeq(s, 1, i - 1)
               b == SubSeq(s, i + 1, Len(s))
    <2>1. Settled(s, i, d) = a \o b
      BY <1>2 DEF Settled, Pending, RemoveAt
    <2>2. Len(s) \in Nat /\ i \in Nat /\ i >= 1 /\ i < Len(s) /\ \A j \in 1..Len(s) : s[j] \in Delivery
      BY <1>2
    <2>3. 1 \in Int /\ i - 1 \in Int /\ i + 1 \in Int /\ Len(s) \in Int
          /\ (\A j \in 1..(i - 1) : s[j] \in Delivery) /\ \A j \in (i + 1)..Len(s) : s[j] \in Delivery
      BY <2>2
    <2>4. /\ a \in Seq(Delivery) /\ Len(a) = IF 1 <= i - 1 THEN i - 1 - 1 + 1 ELSE 0
          /\ \A j \in 1..(i - 1 - 1 + 1) : a[j] = s[1 + j - 1]
      BY <2>3, SubSeqProperties
    <2>5. /\ b \in Seq(Delivery)
          /\ Len(b) = IF i + 1 <= Len(s) THEN Len(s) - (i + 1) + 1 ELSE 0
          /\ \A j \in 1..(Len(s) - (i + 1) + 1) : b[j] = s[i + 1 + j - 1]
      BY <2>3, SubSeqProperties
    <2> HIDE DEF a, b
    <2>6. Len(a) = i - 1 /\ \A j \in 1..(i - 1) : a[j] = s[j]
      BY <2>2, <2>4
    <2>7. Len(b) = Len(s) - i /\ \A j \in 1..(Len(s) - i) : b[j] = s[i + j]
      BY <2>2, <2>5
    <2>8. /\ a \o b \in Seq(Delivery) /\ Len(a \o b) = Len(a) + Len(b)
          /\ \A j \in 1..(Len(a) + Len(b)) : (a \o b)[j] = IF j <= Len(a) THEN a[j] ELSE b[j - Len(a)]
      BY <2>4, <2>5, ConcatProperties
    <2>9. ASSUME NEW j \in 1..(Len(s) - 1) PROVE (a \o b)[j] = IF j < i THEN s[j] ELSE s[j + 1]
      <3>1. j \in 1..(Len(a) + Len(b)) /\ (j <= Len(a) <=> j < i)
        BY <2>2, <2>6, <2>7
      <3>2. CASE j < i
        BY <2>2, <2>6, <2>8, <3>1, <3>2
      <3>3. CASE ~(j < i)
        <4>1. j - Len(a) \in 1..(Len(s) - i) /\ i + (j - Len(a)) = j + 1
          BY <2>2, <2>6, <3>3
        <4> QED BY <2>7, <2>8, <3>1, <3>3, <4>1
      <3> QED BY <3>2, <3>3
    <2> QED BY <1>2, <2>1, <2>2, <2>6, <2>7, <2>8, <2>9
  <1> QED BY <1>1, <1>2

-----------------------------------------------------------------------------
(* What keeps the deliveries of a key in order                             *)

LEMMA OrderlyParts ==
  ASSUME NEW s, Orderly(s)
  PROVE  /\ s \in Seq(Delivery) /\ Len(s) \in Nat /\ DOMAIN s = 1..Len(s)
         /\ \A i \in 1..Len(s) : s[i] \in Delivery
  BY DEF Orderly

LEMMA OrderlyIf ==
  ASSUME NEW t \in Seq(Delivery),
         \A a \in 1..Len(t) : /\ Pending(t[a]) \/ a = Len(t)
                              /\ t[a].picked => Pending(t[a]) /\ ~t[a].waiting
                              /\ t[a].waiting => t[a].tried,
         \A a, b \in 1..Len(t) : a < b /\ Pending(t[a]) =>
                              /\ t[b].tried => t[a].tried
                              /\ t[b].picked => t[a].picked \/ t[a].tried
  PROVE  Orderly(t)
  BY DEF Orderly

\* A new delivery is queued.
LEMMA QueuedOrderly ==
  ASSUME NEW s, Orderly(s), NEW phase \in Phases
  PROVE  /\ Orderly(Queued(s, NewDelivery(phase)))
         /\ Sent(s) => Sent(Queued(s, NewDelivery(phase)))
  <1> DEFINE d == NewDelivery(phase)
             t == Queued(s, d)
  <1>1. /\ d \in Delivery /\ ~d.picked /\ ~d.tried /\ ~d.waiting /\ Pending(d)
    BY Numbers DEF NewDelivery, Delivery, Pending
  <1>2. s \in Seq(Delivery) /\ Len(s) \in Nat /\ \A i \in 1..Len(s) : s[i] \in Delivery
    BY OrderlyParts
  <1> HIDE DEF d
  <1>3. PICK n \in Nat :
          /\ t \in Seq(Delivery) /\ Len(t) = n + 1 /\ t[n + 1] = d
          /\ \A i \in 1..n : t[i] = s[i]
          /\ n = Len(s) \/ (n = Len(s) - 1 /\ ~Pending(s[Len(s)]))
          /\ n = Len(s) => s = <<>> \/ Pending(s[Len(s)])
    <2>1. QueuedTo(s, d, t)
      BY <1>1, <1>2, QueuedHas
    <2> HIDE DEF t
    <2> QED BY <2>1 DEF QueuedTo
  <1> HIDE DEF t
  <1>4. n <= Len(s) /\ \A i \in 1..n : i \in 1..Len(s) /\ t[i] = s[i]
    BY <1>2, <1>3
  <1>5. \A i \in 1..n : Pending(t[i])
    <2> SUFFICES ASSUME NEW i \in 1..n PROVE Pending(s[i])
      BY <1>4
    <2>1. Pending(s[i]) \/ i = Len(s)
      BY <1>4 DEF Orderly
    <2>2. i = Len(s) => n = Len(s) /\ s # <<>>
      BY <1>2, <1>3, <1>4
    <2> QED BY <1>3, <2>1, <2>2
  <1>6. Orderly(t)
    <2>1. ASSUME NEW i \in 1..Len(t)
          PROVE  /\ Pending(t[i]) \/ i = Len(t)
                 /\ t[i].picked => Pending(t[i]) /\ ~t[i].waiting
                 /\ t[i].waiting => t[i].tried
      <3>1. CASE i = n + 1
        BY <1>1, <1>3, <3>1
      <3>2. CASE i # n + 1
        <4>1. i \in 1..n
          BY <1>3, <3>2
        <4> QED BY <1>4, <1>5, <4>1 DEF Orderly
      <3> QED BY <3>1, <3>2
    <2>2. ASSUME NEW i \in 1..Len(t), NEW j \in 1..Len(t), i < j, Pending(t[i])
          PROVE  /\ t[j].tried => t[i].tried
                 /\ t[j].picked => t[i].picked \/ t[i].tried
      <3>1. CASE j = n + 1
        BY <1>1, <1>3, <3>1
      <3>2. CASE j # n + 1
        <4>1. i \in 1..n /\ j \in 1..n
          BY <1>3, <2>2, <3>2
        <4> QED BY <1>4, <2>2, <4>1 DEF Orderly
      <3> QED BY <3>1, <3>2
    <2> QED BY <1>3, <2>1, <2>2 DEF Orderly
  <1>7. Sent(s) => Sent(t)
    <2> SUFFICES ASSUME Sent(s) PROVE Sent(t)
      OBVIOUS
    <2>1. PICK i \in 1..Len(s) :
            /\ s[i].picked /\ s[i].tried /\ \A j \in 1..Len(s) : s[j].picked => i <= j
            /\ disp.result = "retry" => s[i].attempts + 1 < MaxAttempts
      BY DEF Sent
    <2>2. i \in 1..n
      <3>1. Pending(s[i])
        BY <2>1 DEF Orderly
      <3> QED BY <1>2, <1>3, <3>1
    <2>3. i \in 1..Len(t) /\ t[i] = s[i]
      BY <1>3, <1>4, <2>2
    <2>4. ASSUME NEW j \in 1..Len(t), t[j].picked PROVE i <= j
      <3>1. j # n + 1
        BY <1>1, <1>3, <2>4
      <3>2. j \in 1..n
        BY <1>3, <3>1
      <3> QED BY <1>4, <2>1, <2>4, <3>2
    <2> QED BY <2>1, <2>3, <2>4 DEF Sent
  <1> QED BY <1>6, <1>7 DEF d, t

\* The fields of every delivery of a key are changed, not their number.
LEMMA MappedSeq ==
  ASSUME NEW s \in Seq(Delivery), NEW t, t = [i \in DOMAIN s |-> t[i]],
         \A i \in 1..Len(s) : t[i] \in Delivery
  PROVE  t \in Seq(Delivery) /\ Len(t) = Len(s)
  <1>1. Len(s) \in Nat /\ DOMAIN s = 1..Len(s)
    OBVIOUS
  <1>2. t \in [1..Len(s) -> Delivery]
    BY <1>1
  <1> QED BY <1>1, <1>2, SeqDef, LenProperties

\* One delivery of a key is changed.
LEMMA ChangedAt ==
  ASSUME NEW s \in Seq(Delivery), NEW i \in 1..Len(s), NEW d \in Delivery
  PROVE  LET t == [s EXCEPT ![i] = d] IN
         t \in Seq(Delivery) /\ Len(t) = Len(s) /\ \A j \in 1..Len(s) : t[j] = IF j = i THEN d ELSE s[j]
  BY ExceptSeq

\* A delivery is picked or let go.
LEMMA PickedField ==
  ASSUME NEW d \in Delivery, NEW b \in BOOLEAN
  PROVE  LET e == [d EXCEPT !.picked = b] IN
         /\ e \in Delivery /\ e.picked = b /\ e.status = d.status /\ e.waiting = d.waiting
         /\ e.tried = d.tried /\ e.attempts = d.attempts /\ e.phase = d.phase
  BY DEF Delivery

\* Listed: what is due is picked.
Listed(s) ==
  [i \in DOMAIN s |-> [s[i] EXCEPT !.picked = @ \/ (s[i].status = "pending" /\ ~s[i].waiting)]]

LEMMA ListedOrderly ==
  ASSUME NEW s, Orderly(s)
  PROVE  Orderly(Listed(s)) /\ Len(Listed(s)) = Len(s)
  <1> DEFINE t == Listed(s)
  <1>t. t = [i \in DOMAIN s |->
               [s[i] EXCEPT !.picked = @ \/ (s[i].status = "pending" /\ ~s[i].waiting)]]
    BY DEF Listed
  <1> HIDE DEF t
  <1>1. s \in Seq(Delivery) /\ Len(s) \in Nat /\ DOMAIN s = 1..Len(s)
        /\ \A i \in 1..Len(s) : s[i] \in Delivery
    BY OrderlyParts
  <1>2. ASSUME NEW i \in 1..Len(s)
        PROVE  /\ t[i] \in Delivery
               /\ t[i].picked <=> (s[i].picked \/ (Pending(s[i]) /\ ~s[i].waiting))
               /\ t[i].status = s[i].status /\ t[i].waiting = s[i].waiting /\ t[i].tried = s[i].tried
    <2>1. t[i] = [s[i] EXCEPT !.picked = @ \/ (s[i].status = "pending" /\ ~s[i].waiting)]
      BY <1>t, <1>1
    <2>2. s[i] \in Delivery
      BY <1>1
    <2> DEFINE b == s[i].picked \/ (s[i].status = "pending" /\ ~s[i].waiting)
    <2>3. b \in BOOLEAN /\ t[i] = [s[i] EXCEPT !.picked = b]
      BY <2>1
    <2>4. b <=> (s[i].picked \/ (Pending(s[i]) /\ ~s[i].waiting))
      BY DEF Pending
    <2> HIDE DEF b
    <2> DEFINE e == [s[i] EXCEPT !.picked = b]
    <2>5. /\ e \in Delivery /\ e.picked = b /\ e.status = s[i].status /\ e.waiting = s[i].waiting
          /\ e.tried = s[i].tried
      BY <2>2, <2>3, PickedField
    <2>6. t[i] = e
      BY <2>3
    <2> HIDE DEF e
    <2> QED BY <2>4, <2>5, <2>6
  <1>3. t \in Seq(Delivery) /\ Len(t) = Len(s)
    <2>1. DOMAIN t = DOMAIN s /\ t = [i \in DOMAIN s |-> t[i]]
      BY <1>t
    <2>2. \A i \in 1..Len(s) : t[i] \in Delivery
      BY <1>2
    <2> QED BY ONLY <1>1, <2>1, <2>2, MappedSeq
  <1>4. \A i \in 1..Len(s) : Pending(t[i]) <=> Pending(s[i])
    BY <1>2 DEF Pending
  <1>5. ASSUME NEW i \in 1..Len(s)
        PROVE  /\ Pending(t[i]) \/ i = Len(t)
               /\ t[i].picked => Pending(t[i]) /\ ~t[i].waiting
               /\ t[i].waiting => t[i].tried
    BY <1>2, <1>3, <1>4 DEF Orderly
  <1>6. ASSUME NEW i \in 1..Len(s), NEW j \in 1..Len(s), i < j, Pending(t[i])
        PROVE  /\ t[j].tried => t[i].tried
               /\ t[j].picked => t[i].picked \/ t[i].tried
    BY <1>2, <1>4, <1>6 DEF Orderly
  <1>7. \A i \in 1..Len(t) : /\ Pending(t[i]) \/ i = Len(t)
                             /\ t[i].picked => Pending(t[i]) /\ ~t[i].waiting
                             /\ t[i].waiting => t[i].tried
    BY <1>3, <1>5
  <1>8. \A i, j \in 1..Len(t) :
          i < j /\ Pending(t[i]) => /\ t[j].tried => t[i].tried
                                    /\ t[j].picked => t[i].picked \/ t[i].tried
    BY <1>3, <1>6
  <1>9. Orderly(t)
    BY ONLY <1>3, <1>7, <1>8 DEF Orderly
  <1> QED BY <1>3, <1>9 DEF t

\* Restarted: nothing is picked.
Unpicked(s) == [i \in DOMAIN s |-> [s[i] EXCEPT !.picked = FALSE]]

LEMMA UnpickedOrderly ==
  ASSUME NEW s, Orderly(s)
  PROVE  Orderly(Unpicked(s)) /\ Len(Unpicked(s)) = Len(s)
  <1> DEFINE t == Unpicked(s)
  <1>t. t = [i \in DOMAIN s |-> [s[i] EXCEPT !.picked = FALSE]]
    BY DEF Unpicked
  <1> HIDE DEF t
  <1>1. s \in Seq(Delivery) /\ Len(s) \in Nat /\ DOMAIN s = 1..Len(s)
        /\ \A i \in 1..Len(s) : s[i] \in Delivery
    BY OrderlyParts
  <1>2. ASSUME NEW i \in 1..Len(s)
        PROVE  /\ t[i] \in Delivery /\ ~t[i].picked /\ t[i].status = s[i].status
               /\ t[i].waiting = s[i].waiting /\ t[i].tried = s[i].tried
    <2>1. t[i] = [s[i] EXCEPT !.picked = FALSE]
      BY <1>t, <1>1
    <2>2. s[i] \in Delivery
      BY <1>1
    <2> QED BY <2>1, <2>2, PickedField
  <1>3. t \in Seq(Delivery) /\ Len(t) = Len(s)
    <2>1. DOMAIN t = DOMAIN s /\ t = [i \in DOMAIN s |-> t[i]]
      BY <1>t
    <2>2. \A i \in 1..Len(s) : t[i] \in Delivery
      BY <1>2
    <2> QED BY ONLY <1>1, <2>1, <2>2, MappedSeq
  <1>4. \A i \in 1..Len(s) : Pending(t[i]) <=> Pending(s[i])
    BY <1>2 DEF Pending
  <1>5. ASSUME NEW i \in 1..Len(s)
        PROVE  /\ Pending(t[i]) \/ i = Len(t)
               /\ t[i].picked => Pending(t[i]) /\ ~t[i].waiting
               /\ t[i].waiting => t[i].tried
    BY <1>2, <1>3, <1>4 DEF Orderly
  <1>6. ASSUME NEW i \in 1..Len(s), NEW j \in 1..Len(s), i < j, Pending(t[i])
        PROVE  /\ t[j].tried => t[i].tried
               /\ t[j].picked => t[i].picked \/ t[i].tried
    BY <1>2, <1>4, <1>6 DEF Orderly
  <1>7. \A i \in 1..Len(t) : /\ Pending(t[i]) \/ i = Len(t)
                             /\ t[i].picked => Pending(t[i]) /\ ~t[i].waiting
                             /\ t[i].waiting => t[i].tried
    BY <1>3, <1>5
  <1>8. \A i, j \in 1..Len(t) :
          i < j /\ Pending(t[i]) => /\ t[j].tried => t[i].tried
                                    /\ t[j].picked => t[i].picked \/ t[i].tried
    BY <1>3, <1>6
  <1>9. Orderly(t)
    BY ONLY <1>3, <1>7, <1>8 DEF Orderly
  <1> QED BY <1>3, <1>9 DEF t

\* The oldest of those picked, if any is.
LEMMA CurrentIs ==
  ASSUME NEW k, Orderly(rows[k]), Picked(k) # {}
  PROVE  /\ Current(k) \in 1..Len(rows[k]) /\ rows[k][Current(k)].picked
         /\ \A j \in 1..Len(rows[k]) : rows[k][j].picked => Current(k) <= j
  <1>1. Picked(k) \in SUBSET Nat /\ \A i : i \in Picked(k) <=> i \in 1..Len(rows[k]) /\ rows[k][i].picked
    BY OrderlyParts DEF Picked
  <1>2. PICK i \in Picked(k) : \A j \in Picked(k) : i <= j
    BY <1>1, Least
  <1>3. Current(k) \in Picked(k) /\ \A j \in Picked(k) : Current(k) <= j
    BY <1>2 DEF Current
  <1> QED BY <1>1, <1>3

\* Sent: the oldest of those picked is tried.
LEMMA TriedOrderly ==
  ASSUME NEW s, Orderly(s), NEW i \in 1..Len(s), s[i].picked,
         \A j \in 1..Len(s) : s[j].picked => i <= j
  PROVE  LET t == [s EXCEPT ![i].tried = TRUE] IN
         /\ Orderly(t) /\ i \in 1..Len(t) /\ t[i].picked /\ t[i].tried
         /\ t[i].attempts = s[i].attempts /\ \A j \in 1..Len(t) : t[j].picked => i <= j
  <1>1. s \in Seq(Delivery) /\ Len(s) \in Nat
        /\ \A j \in 1..Len(s) : s[j] \in Delivery
    BY OrderlyParts
  <1> DEFINE d == [s[i] EXCEPT !.tried = TRUE]
  <1>2. /\ d \in Delivery /\ d.picked = s[i].picked /\ d.status = s[i].status
        /\ d.waiting = s[i].waiting /\ d.tried /\ d.attempts = s[i].attempts
    BY <1>1 DEF Delivery
  <1> DEFINE t == [s EXCEPT ![i].tried = TRUE]
  <1>3. t = [s EXCEPT ![i] = d]
    OBVIOUS
  <1> HIDE DEF d, t
  <1>4. t \in Seq(Delivery) /\ Len(t) = Len(s) /\ \A j \in 1..Len(s) : t[j] = IF j = i THEN d ELSE s[j]
    BY <1>1, <1>2, <1>3, ChangedAt
  <1>5. \A j \in 1..Len(s) : /\ t[j].picked <=> s[j].picked
                             /\ Pending(t[j]) <=> Pending(s[j])
                             /\ t[j].waiting <=> s[j].waiting
                             /\ t[j].tried <=> s[j].tried \/ j = i
    BY <1>2, <1>4 DEF Pending
  <1>6. ASSUME NEW a \in 1..Len(s), NEW b \in 1..Len(s), a < b, Pending(t[a])
        PROVE  /\ t[b].tried => t[a].tried
               /\ t[b].picked => t[a].picked \/ t[a].tried
    <2>1. CASE b = i
      <3>1. ~s[a].picked
        BY <1>6, <2>1
      <3> QED BY <1>5, <1>6, <2>1, <3>1 DEF Orderly
    <2>2. CASE b # i
      BY <1>5, <1>6, <2>2 DEF Orderly
    <2> QED BY <2>1, <2>2
  <1>7. ASSUME NEW a \in 1..Len(s)
        PROVE  /\ Pending(t[a]) \/ a = Len(t)
               /\ t[a].picked => Pending(t[a]) /\ ~t[a].waiting
               /\ t[a].waiting => t[a].tried
    BY <1>4, <1>5 DEF Orderly
  <1>8. Orderly(t)
    BY <1>4, <1>6, <1>7 DEF Orderly
  <1> QED BY <1>2, <1>4, <1>5, <1>8 DEF t

\* The mark of a sent delivery is lost.
LEMMA LostOrderly ==
  ASSUME NEW s, Orderly(s), NEW i \in 1..Len(s), s[i].tried
  PROVE  Orderly([s EXCEPT ![i].picked = FALSE])
  <1>1. s \in Seq(Delivery) /\ Len(s) \in Nat
        /\ \A j \in 1..Len(s) : s[j] \in Delivery
    BY OrderlyParts
  <1> DEFINE d == [s[i] EXCEPT !.picked = FALSE]
  <1>2. /\ d \in Delivery /\ ~d.picked /\ d.status = s[i].status
        /\ d.waiting = s[i].waiting /\ d.tried = s[i].tried
    BY <1>1 DEF Delivery
  <1> DEFINE t == [s EXCEPT ![i].picked = FALSE]
  <1>3. t = [s EXCEPT ![i] = d]
    OBVIOUS
  <1> HIDE DEF d, t
  <1>4. t \in Seq(Delivery) /\ Len(t) = Len(s) /\ \A j \in 1..Len(s) : t[j] = IF j = i THEN d ELSE s[j]
    BY <1>1, <1>2, <1>3, ChangedAt
  <1>5. \A j \in 1..Len(s) : /\ t[j].picked <=> s[j].picked /\ j # i
                             /\ Pending(t[j]) <=> Pending(s[j])
                             /\ t[j].waiting <=> s[j].waiting
                             /\ t[j].tried <=> s[j].tried
    BY <1>2, <1>4 DEF Pending
  <1>6. ASSUME NEW a \in 1..Len(s), NEW b \in 1..Len(s), a < b, Pending(t[a])
        PROVE  /\ t[b].tried => t[a].tried
               /\ t[b].picked => t[a].picked \/ t[a].tried
    BY <1>5, <1>6 DEF Orderly
  <1>7. ASSUME NEW a \in 1..Len(s)
        PROVE  /\ Pending(t[a]) \/ a = Len(t)
               /\ t[a].picked => Pending(t[a]) /\ ~t[a].waiting
               /\ t[a].waiting => t[a].tried
    BY <1>4, <1>5 DEF Orderly
  <1> QED BY <1>4, <1>6, <1>7 DEF Orderly, t

\* The backoff of a delivery ends.
LEMMA DueOrderly ==
  ASSUME NEW s, Orderly(s), NEW i \in 1..Len(s), s[i].waiting
  PROVE  LET t == [s EXCEPT ![i].waiting = FALSE] IN Orderly(t) /\ (Sent(s) => Sent(t))
  <1>1. s \in Seq(Delivery) /\ Len(s) \in Nat
        /\ \A j \in 1..Len(s) : s[j] \in Delivery
    BY OrderlyParts
  <1> DEFINE d == [s[i] EXCEPT !.waiting = FALSE]
  <1>2. /\ d \in Delivery /\ d.picked = s[i].picked /\ d.status = s[i].status
        /\ ~d.waiting /\ d.tried = s[i].tried /\ d.attempts = s[i].attempts
    BY <1>1 DEF Delivery
  <1> DEFINE t == [s EXCEPT ![i].waiting = FALSE]
  <1>3. t = [s EXCEPT ![i] = d]
    OBVIOUS
  <1> HIDE DEF d, t
  <1>4. t \in Seq(Delivery) /\ Len(t) = Len(s) /\ \A j \in 1..Len(s) : t[j] = IF j = i THEN d ELSE s[j]
    BY <1>1, <1>2, <1>3, ChangedAt
  <1>5. \A j \in 1..Len(s) : /\ t[j].picked <=> s[j].picked
                             /\ Pending(t[j]) <=> Pending(s[j])
                             /\ t[j].waiting <=> s[j].waiting /\ j # i
                             /\ t[j].tried <=> s[j].tried
                             /\ t[j].attempts = s[j].attempts
    BY <1>2, <1>4 DEF Pending
  <1>6. ASSUME NEW a \in 1..Len(s), NEW b \in 1..Len(s), a < b, Pending(t[a])
        PROVE  /\ t[b].tried => t[a].tried
               /\ t[b].picked => t[a].picked \/ t[a].tried
    BY <1>5, <1>6 DEF Orderly
  <1>7. ASSUME NEW a \in 1..Len(s)
        PROVE  /\ Pending(t[a]) \/ a = Len(t)
               /\ t[a].picked => Pending(t[a]) /\ ~t[a].waiting
               /\ t[a].waiting => t[a].tried
    BY <1>4, <1>5 DEF Orderly
  <1>8. Orderly(t)
    BY <1>4, <1>6, <1>7 DEF Orderly
  <1>9. Sent(s) => Sent(t)
    BY <1>4, <1>5 DEF Sent
  <1> QED BY <1>8, <1>9 DEF t

WasSent(d)  == d.picked /\ d.tried
IsMarked(d) == ~d.picked /\ d.tried

\* A sent delivery is marked: it is tried again later, or it is over and goes unless it is last.
LEMMA SettledOrderly ==
  ASSUME NEW s, Orderly(s), NEW i \in 1..Len(s), WasSent(s[i]), NEW d \in Delivery, IsMarked(d)
  PROVE  Orderly(Settled(s, i, d))
  <1> DEFINE t == Settled(s, i, d)
  <1>1. s \in Seq(Delivery) /\ Len(s) \in Nat
        /\ \A j \in 1..Len(s) : s[j] \in Delivery
    BY OrderlyParts
  <1>2. /\ t \in Seq(Delivery)
        /\ Pending(d) \/ i = Len(s) =>
             Len(t) = Len(s) /\ \A j \in 1..Len(s) : t[j] = IF j = i THEN d ELSE s[j]
        /\ ~Pending(d) /\ i < Len(s) =>
             Len(t) = Len(s) - 1 /\ \A j \in 1..(Len(s) - 1) : t[j] = IF j < i THEN s[j] ELSE s[j + 1]
    BY <1>1, SettledHas
  <1>p. Pending(s[i])
    BY DEF Orderly, WasSent
  <1>s. t \in Seq(Delivery)
    BY <1>2
  <1> SUFFICES Orderly(t)
    OBVIOUS
  <1> HIDE DEF t
  <1>3. CASE Pending(d) \/ i = Len(s)
    <2>1. Len(t) = Len(s) /\ \A j \in 1..Len(s) : t[j] = IF j = i THEN d ELSE s[j]
      BY <1>2, <1>3
    <2>2. ASSUME NEW a \in 1..Len(s), NEW b \in 1..Len(s), a < b, Pending(t[a])
          PROVE  /\ t[b].tried => t[a].tried
                 /\ t[b].picked => t[a].picked \/ t[a].tried
      <3>1. CASE a = i
        BY <2>1, <3>1 DEF IsMarked
      <3>2. CASE a # i /\ b = i
        BY <2>1, <2>2, <1>p, <3>2 DEF Orderly, IsMarked, WasSent
      <3>3. CASE a # i /\ b # i
        BY <2>1, <2>2, <3>3 DEF Orderly
      <3> QED BY <3>1, <3>2, <3>3
    <2>3. ASSUME NEW a \in 1..Len(s)
          PROVE  /\ Pending(t[a]) \/ a = Len(t)
                 /\ t[a].picked => Pending(t[a]) /\ ~t[a].waiting
                 /\ t[a].waiting => t[a].tried
      BY <1>3, <2>1 DEF Orderly, IsMarked
    <2>q. \A a \in 1..Len(t) : /\ Pending(t[a]) \/ a = Len(t)
                               /\ t[a].picked => Pending(t[a]) /\ ~t[a].waiting
                               /\ t[a].waiting => t[a].tried
      BY <2>1, <2>3
    <2>r. \A a, b \in 1..Len(t) : a < b /\ Pending(t[a]) =>
                              /\ t[b].tried => t[a].tried
                              /\ t[b].picked => t[a].picked \/ t[a].tried
      BY <2>1, <2>2
    <2> QED BY <1>s, <2>q, <2>r, OrderlyIf
  <1>4. CASE ~Pending(d) /\ i < Len(s)
    <2>1. Len(t) = Len(s) - 1 /\ \A j \in 1..(Len(s) - 1) : t[j] = IF j < i THEN s[j] ELSE s[j + 1]
      BY <1>2, <1>4
    <2> DEFINE From(j) == IF j < i THEN j ELSE j + 1
    <2>2. \A j \in 1..Len(t) : From(j) \in 1..Len(s) /\ t[j] = s[From(j)]
      BY <1>1, <2>1
    <2>3. \A a, b \in 1..Len(t) : a < b => From(a) < From(b)
      BY <1>1, <2>1
    <2>4. \A a \in 1..Len(t) : From(a) = Len(s) => a = Len(t)
      BY <1>1, <1>4, <2>1
    <2> HIDE DEF From
    <2>5. ASSUME NEW a \in 1..Len(t), NEW b \in 1..Len(t), a < b, Pending(t[a])
          PROVE  /\ t[b].tried => t[a].tried
                 /\ t[b].picked => t[a].picked \/ t[a].tried
      BY <2>2, <2>3, <2>5 DEF Orderly
    <2>6. ASSUME NEW a \in 1..Len(t)
          PROVE  /\ Pending(t[a]) \/ a = Len(t)
                 /\ t[a].picked => Pending(t[a]) /\ ~t[a].waiting
                 /\ t[a].waiting => t[a].tried
      BY <2>2, <2>4 DEF Orderly
    <2>q. \A a \in 1..Len(t) : /\ Pending(t[a]) \/ a = Len(t)
                               /\ t[a].picked => Pending(t[a]) /\ ~t[a].waiting
                               /\ t[a].waiting => t[a].tried
      BY <2>6
    <2>r. \A a, b \in 1..Len(t) : a < b /\ Pending(t[a]) =>
                              /\ t[b].tried => t[a].tried
                              /\ t[b].picked => t[a].picked \/ t[a].tried
      BY <2>5
    <2> QED BY <1>s, <2>q, <2>r, OrderlyIf
  <1>5. i < Len(s) \/ i = Len(s)
    BY <1>1
  <1> QED BY <1>3, <1>4, <1>5

-----------------------------------------------------------------------------
(* The evaluator                                                           *)

LEMMA RestingTrue == EvalTrue(Resting)
  BY DEF EvalTrue, EvalType, Resting, Phases

LEMMA GoesTrue ==
  ASSUME NEW e, EvalTrue(e), Goes(e)
  PROVE  EvalTrue(eval)'
  <1>1. EvalTrue(eval')
    BY RestingTrue DEF Goes
  <1> QED BY <1>1 DEF EvalTrue

\* What a tick may become.
LEMMA EvalParts ==
  ASSUME EvalTrue(eval)
  PROVE  /\ eval \in EvalType /\ eval.left \subseteq Rules /\ eval.work \subseteq Finding
         /\ eval.to \subseteq Channels /\ eval.phase \in Phases
         /\ eval.left # {} \/ eval.work # {} => eval.row \in [Rules -> RuleRow]
         /\ eval.to # {} => eval.group \in Groups
  BY DEF EvalTrue, EvalType

LEMMA FindingsAre ==
  ASSUME NEW r \in Rules
  PROVE  Findings(r) \subseteq Finding
  <1>1. GroupsOf[r] \subseteq Groups
    BY AlertsAssumption
  <1>2. CASE r \in Imbalance
    <2> SUFFICES ASSUME NEW w \in Findings(r) PROVE w \in Finding
      OBVIOUS
    <2>1. PICK g \in GroupsOf[r] : w = [rule |-> r, group |-> g, up |-> TRUE]
      BY <1>2 DEF Findings
    <2> QED BY <1>1, <2>1 DEF Finding
  <1>3. CASE r \notin Imbalance
    <2>1. Findings(r) \subseteq [rule : {r}, group : GroupsOf[r], up : BOOLEAN]
      BY <1>3 DEF Findings
    <2> QED BY <1>1, <2>1 DEF Finding
  <1> QED BY <1>2, <1>3

\* A finding is told to the channels of its rule.
LEMMA NotifyTrue ==
  ASSUME EvalTrue(eval), NEW w \in eval.work, NEW x \in Groups, NEW phase \in Phases,
         Notify(w, x, phase)
  PROVE  EvalTrue(eval)'
  <1> DEFINE e == [eval EXCEPT !.work = @ \ {w}, !.group = x, !.phase = phase,
                               !.to = eval.row[w.rule].channels]
  <1>1. eval.row \in [Rules -> RuleRow] /\ eval \in EvalType /\ w \in Finding
    BY EvalParts
  <1>2. eval.row[w.rule].channels \subseteq Channels
    <2>1. w.rule \in Rules
      BY <1>1 DEF Finding
    <2>2. eval.row[w.rule] \in RuleRow
      BY <1>1, <2>1
    <2> QED BY <2>2 DEF RuleRow
  <1>3. e \in EvalType /\ e.row = eval.row /\ e.group = x
    BY <1>1, <1>2 DEF EvalType
  <1>4. EvalTrue(e)
    BY <1>1, <1>3 DEF EvalTrue
  <1> QED BY <1>4, GoesTrue DEF Notify

LEMMA SkipTrue ==
  ASSUME EvalTrue(eval), NEW w \in eval.work, Skip(w)
  PROVE  EvalTrue(eval)'
  <1> DEFINE e == [eval EXCEPT !.work = @ \ {w}]
  <1>1. e \in EvalType /\ e.row = eval.row /\ e.left = eval.left /\ e.group = eval.group
        /\ e.to = eval.to
    BY EvalParts DEF EvalType
  <1>2. EvalTrue(e)
    BY <1>1, EvalParts DEF EvalTrue
  <1> QED BY <1>2, GoesTrue DEF Skip

\* The group whose alert a recovery finds.
LEMMA AlertOf ==
  ASSUME Tables, NEW w \in Finding, NEW x \in active, SlotOf(x) = Slot[w.group]
  PROVE  x \in Groups
  <1>1. w.group \in Groups
    BY DEF Finding
  <1>2. Slot[w.group] # "channel"
    BY <1>1, AlertsAssumption
  <1> QED BY <1>2 DEF Tables, SlotOf

LEMMA EvalStep == EvalTrue(eval) /\ Tables /\ [Next]_vars => EvalTrue(eval)'
  <1> SUFFICES ASSUME EvalTrue(eval), Tables, [Next]_vars PROVE EvalTrue(eval)'
    OBVIOUS
  <1>p. /\ eval \in EvalType /\ eval.left \subseteq Rules /\ eval.work \subseteq Finding
        /\ eval.to \subseteq Channels /\ eval.phase \in Phases
        /\ eval.left # {} \/ eval.work # {} => eval.row \in [Rules -> RuleRow]
        /\ eval.to # {} => eval.group \in Groups
    BY EvalParts
  <1>u. eval' = eval => EvalTrue(eval)'
    BY DEF EvalTrue
  <1>1. CASE Tick
    <2> DEFINE L == {r \in Rules : rule[r].enabled}
               e == [Resting EXCEPT !.left = L, !.row = rule]
    <2>1. Goes(e) /\ L \in SUBSET Rules
      BY <1>1 DEF Tick
    <2>2. rule \in [Rules -> RuleRow] /\ Resting \in EvalType
      BY RestingTrue DEF Tables, EvalTrue
    <2> HIDE DEF L
    <2>3. e \in EvalType /\ e.row = rule /\ e.to = Resting.to
      BY <2>1, <2>2 DEF EvalType
    <2>4. Resting.to = {}
      BY DEF Resting
    <2>5. EvalTrue(e)
      BY <2>2, <2>3, <2>4 DEF EvalTrue
    <2> QED BY <2>1, <2>5, GoesTrue
  <1>2. ASSUME NEW r \in Rules, EvalRule(r) PROVE EvalTrue(eval)'
    <2>1. eval.row \in [Rules -> RuleRow] /\ eval.to = {}
      BY <1>2, <1>p DEF EvalRule
    <2>2. ASSUME NEW W \in SUBSET Finding, Goes([eval EXCEPT !.left = @ \ {r}, !.work = W])
          PROVE  EvalTrue(eval)'
      <3> DEFINE e == [eval EXCEPT !.left = @ \ {r}, !.work = W]
      <3>1. e \in EvalType /\ e.row = eval.row /\ e.to = eval.to
        BY <1>p DEF EvalType
      <3>2. EvalTrue(e)
        BY <2>1, <3>1 DEF EvalTrue
      <3> QED BY <2>2, <3>2, GoesTrue
    <2>3. CASE Goes([eval EXCEPT !.left = @ \ {r}, !.work = Findings(r)])
      <3>1. PICK W \in SUBSET Finding : W = Findings(r)
        BY FindingsAre
      <3>2. Goes([eval EXCEPT !.left = @ \ {r}, !.work = W])
        BY <2>3, <3>1, Zenon
      <3> QED BY <2>2, <3>2, Zenon
    <2>4. CASE Goes([eval EXCEPT !.left = @ \ {r}])
      <3> DEFINE e == [eval EXCEPT !.left = @ \ {r}]
      <3>1. e \in EvalType /\ e.row = eval.row /\ e.to = eval.to
        BY <1>p DEF EvalType
      <3>2. EvalTrue(e)
        BY <2>1, <3>1 DEF EvalTrue
      <3> QED BY <2>4, <3>2, GoesTrue
    <2> QED BY <1>2, <2>3, <2>4 DEF EvalRule
  <1>3. ASSUME NEW w \in eval.work, Fire(w) PROVE EvalTrue(eval)'
    <2>1. w.group \in Groups /\ "firing" \in Phases
      BY <1>p DEF Finding, Phases
    <2>2. Notify(w, w.group, "firing") \/ Skip(w)
      BY <1>3 DEF Fire
    <2> QED BY <2>1, <2>2, NotifyTrue, SkipTrue
  <1>4. ASSUME NEW w \in eval.work, Recover(w) PROVE EvalTrue(eval)'
    <2>1. Skip(w) \/ \E x \in active : SlotOf(x) = Slot[w.group] /\ Notify(w, x, "resolved")
      BY <1>4 DEF Recover
    <2>2. ASSUME NEW x \in active, SlotOf(x) = Slot[w.group], Notify(w, x, "resolved")
          PROVE EvalTrue(eval)'
      <3>1. x \in Groups /\ "resolved" \in Phases
        BY <1>p, <2>2, AlertOf DEF Phases
      <3> QED BY <2>2, <3>1, NotifyTrue
    <2> QED BY <2>1, <2>2, SkipTrue
  <1>5. ASSUME NEW c \in eval.to, Enqueue(c) PROVE EvalTrue(eval)'
    <2> DEFINE e == [eval EXCEPT !.to = @ \ {c}]
    <2>1. e \in EvalType /\ e.row = eval.row /\ e.left = eval.left /\ e.group = eval.group
          /\ e.work = eval.work
      BY <1>p DEF EvalType
    <2>2. EvalTrue(e)
      BY <1>p, <2>1 DEF EvalTrue
    <2> QED BY <1>5, <2>2, GoesTrue DEF Enqueue
  <1>6. CASE Restart
    <2>1. eval' = Resting
      BY <1>6 DEF Restart
    <2> QED BY <2>1, RestingTrue DEF EvalTrue
  <1>7. CASE Dispatch
    BY <1>7, <1>u DEF Dispatch, ListPending, Send, Mark, RaiseFailed
  <1>8. ASSUME NEW g \in Watched, Watch(g) PROVE EvalTrue(eval)'
    BY <1>8, <1>u DEF Watch, Rebalanced, Persisting
  <1>9. ASSUME NEW k \in Keys, NEW i \in DOMAIN rows[k], Due(k, i) PROVE EvalTrue(eval)'
    BY <1>9, <1>u DEF Due
  <1>10. ASSUME NEW r \in Rules, NEW g \in Groups, Turn(r, g) PROVE EvalTrue(eval)'
    BY <1>10, <1>u DEF Turn
  <1>11. ASSUME NEW r \in Rules, EditRule(r) PROVE EvalTrue(eval)'
    BY <1>11, <1>u DEF EditRule
  <1>12. ASSUME NEW c \in Channels, SwitchChannel(c) \/ DeleteChannel(c) PROVE EvalTrue(eval)'
    BY <1>12, <1>u DEF SwitchChannel, DeleteChannel
  <1>13. ASSUME NEW x \in active, Dismiss(x) PROVE EvalTrue(eval)'
    BY <1>13, <1>u DEF Dismiss
  <1>14. ASSUME NEW k \in Keys, Cleanup(k) PROVE EvalTrue(eval)'
    BY <1>14, <1>u DEF Cleanup
  <1>15. CASE UNCHANGED vars
    BY <1>15, <1>u DEF vars
  <1> QED BY <1>1, <1>2, <1>3, <1>4, <1>5, <1>6, <1>7, <1>8, <1>9, <1>10, <1>11, <1>12, <1>13,
             <1>14, <1>15 DEF Next, Evaluate

-----------------------------------------------------------------------------
(* The deliveries, step by step                                            *)

\* What a mark says of the delivery that was sent, whatever becomes of it.
MarkedTrue == Marking => channel[disp.key[1]] = "deleted" \/ Sent(rows[disp.key])

LEMMA Channeled ==
  ASSUME Queue, NEW k \in Keys, rows[k] # <<>>
  PROVE  /\ k[1] \in Channels /\ channel[k[1]] # "deleted"
         /\ Marking /\ disp.key = k => Sent(rows[k])
  BY DEF Queue, Keys

LEMMA OrderlyEmpty == Orderly(<<>>)
  BY DEF Orderly

\* Neither the deliveries nor the channels nor the dispatcher are touched.
LEMMA QueueKept ==
  ASSUME Queue, UNCHANGED <<rows, channel, disp>>
  PROVE  Queue'
  BY DEF Queue, Marking, Sent

\* The deliveries of one key, of a channel that is there, become others.
LEMMA OneKey ==
  ASSUME Queue, NEW k \in Keys, NEW t, Orderly(t), rows' = [rows EXCEPT ![k] = t],
         channel' = channel, channel[k[1]] # "deleted",
         disp' \in DispType, disp'.result # "none" => disp'.key \in Keys, MarkedTrue'
  PROVE  Queue'
  <1>1. t \in Seq(Delivery) /\ rows \in [Keys -> Seq(Delivery)]
    BY OrderlyParts DEF Queue
  <1>2. rows' \in [Keys -> Seq(Delivery)] /\ \A x \in Keys : rows'[x] = IF x = k THEN t ELSE rows[x]
    BY <1>1
  <1>3. \A x \in Keys : Orderly(rows'[x])
    BY <1>2 DEF Queue
  <1>4. \A x \in Keys : channel'[x[1]] = "deleted" => rows'[x] = <<>>
    BY <1>2 DEF Queue
  <1>5. channel' \in [Channels -> {"on", "off", "deleted"}]
    BY DEF Queue
  <1>6. MarkedTrue'
    OBVIOUS
  <1> QED BY <1>2, <1>3, <1>4, <1>5, <1>6 DEF Queue, MarkedTrue

\* The same while the dispatcher stays where it is.
LEMMA OneKeyApart ==
  ASSUME Queue, NEW k \in Keys, NEW t, Orderly(t), rows' = [rows EXCEPT ![k] = t],
         UNCHANGED <<channel, disp>>, channel[k[1]] # "deleted",
         Marking /\ disp.key = k => Sent(t)
  PROVE  Queue'
  <1>1. rows \in [Keys -> Seq(Delivery)] /\ disp \in DispType
        /\ (disp.result # "none" => disp.key \in Keys)
    BY DEF Queue
  <1>2. MarkedTrue'
    <2> SUFFICES ASSUME Marking', channel'[(disp.key)'[1]] # "deleted" PROVE Sent(rows[disp.key])'
      BY DEF MarkedTrue
    <2>1. Marking /\ disp.key \in Keys
      BY <1>1 DEF Marking
    <2>2. CASE disp.key = k
      <3>1. Sent(t) /\ rows'[disp.key] = t
        BY <1>1, <2>1, <2>2
      <3> QED BY <3>1 DEF Sent
    <2>3. CASE disp.key # k
      <3>1. Sent(rows[disp.key]) /\ rows'[disp.key] = rows[disp.key]
        BY <1>1, <2>1, <2>3 DEF Queue
      <3> QED BY <3>1 DEF Sent
    <2> QED BY <2>2, <2>3
  <1>3. disp' \in DispType /\ (disp'.result # "none" => disp'.key \in Keys)
    BY <1>1
  <1> QED BY <1>2, <1>3, OneKey

\* The deliveries of every key are changed in place, and nothing is to be marked.
LEMMA EveryKey ==
  ASSUME Queue, UNCHANGED channel, disp' = NotSending,
         DOMAIN rows' = Keys, rows' = [k \in Keys |-> rows'[k]],
         \A k \in Keys : Orderly(rows'[k]) /\ Len(rows'[k]) = Len(rows[k])
  PROVE  Queue'
  <1>1. \A k \in Keys : rows'[k] \in Seq(Delivery)
    BY OrderlyParts
  <1>2. rows' \in [Keys -> Seq(Delivery)]
    BY <1>1
  <1>3. ASSUME NEW k \in Keys, rows[k] = <<>> PROVE rows'[k] = <<>>
    <2>1. rows'[k] \in Seq(Delivery) /\ Len(rows'[k]) = 0
      BY <1>1, <1>3
    <2> QED BY <2>1
  <1>4. disp' \in DispType /\ disp'.result = "none"
    BY DEF DispType, NotSending
  <1> QED BY <1>2, <1>3, <1>4 DEF Queue, Marking

LEMMA QueueStep == EvalTrue(eval) /\ Queue /\ [Next]_vars => Queue'
  <1> SUFFICES ASSUME EvalTrue(eval), Queue, [Next]_vars PROVE Queue'
    OBVIOUS
  <1>p. /\ rows \in [Keys -> Seq(Delivery)] /\ \A k \in Keys : Orderly(rows[k])
        /\ channel \in [Channels -> {"on", "off", "deleted"}] /\ disp \in DispType
        /\ \A k \in Keys : k[1] \in Channels
    BY DEF Queue, Keys
  <1>1. ASSUME NEW c \in eval.to, Enqueue(c) PROVE Queue'
    <2> DEFINE k == <<c, eval.group>>
               t == Queued(rows[k], NewDelivery(eval.phase))
    <2>1. k \in Keys /\ k[1] = c /\ eval.phase \in Phases
      BY EvalParts DEF Keys
    <2>2. UNCHANGED <<channel, disp>>
          /\ (UNCHANGED rows \/ (channel[c] # "deleted" /\ rows' = [rows EXCEPT ![k] = t]))
      BY <1>1 DEF Enqueue
    <2>3. Orderly(t) /\ (Sent(rows[k]) => Sent(t))
      BY <1>p, <2>1, QueuedOrderly
    <2> HIDE DEF t
    <2>4. Marking /\ disp.key = k /\ channel[c] # "deleted" => Sent(t)
      BY <2>1, <2>3 DEF Queue
    <2> HIDE DEF k
    <2> QED BY <2>1, <2>2, <2>3, <2>4, QueueKept, OneKeyApart
  <1>2. CASE ListPending
    <2>1. UNCHANGED channel /\ disp' = NotSending
      BY <1>2 DEF ListPending
    <2>2. rows' = [k \in Keys |-> [i \in DOMAIN rows[k] |->
            [rows[k][i] EXCEPT !.picked = @ \/ (rows[k][i].status = "pending" /\ ~rows[k][i].waiting)]]]
      BY <1>2 DEF ListPending
    <2>3. ASSUME NEW k \in Keys PROVE Orderly(rows'[k]) /\ Len(rows'[k]) = Len(rows[k])
      <3>1. rows'[k] = Listed(rows[k])
        BY <2>2 DEF Listed
      <3>2. Orderly(rows[k])
        BY <1>p
      <3> QED BY <3>1, <3>2, ListedOrderly
    <2>4. DOMAIN rows' = Keys /\ rows' = [k \in Keys |-> rows'[k]]
      BY <2>2
    <2> QED BY <2>1, <2>3, <2>4, EveryKey
  <1>3. ASSUME NEW k \in Keys, Send(k) PROVE Queue'
    <2> DEFINE i == Current(k)
               s == rows[k]
               t == [s EXCEPT ![i].tried = TRUE]
    <2>1. Picked(k) # {} /\ rows' = [rows EXCEPT ![k] = t] /\ UNCHANGED channel
      BY <1>3 DEF Send
    <2>2. \E res \in {"unusable", "sent", "failed", "retry"} :
            disp' = [key |-> k, result |-> res] /\ (res = "retry" => ~LastTry(s[i]))
      BY <1>3 DEF Send
    <2>3. i \in 1..Len(s) /\ s[i].picked /\ \A j \in 1..Len(s) : s[j].picked => i <= j
      BY <1>p, <2>1, CurrentIs
    <2>4. Orderly(s) /\ s # <<>>
      BY <1>p, <2>3
    <2> HIDE DEF i
    <2>5. /\ Orderly(t) /\ i \in 1..Len(t) /\ t[i].picked /\ t[i].tried
          /\ t[i].attempts = s[i].attempts /\ \A j \in 1..Len(t) : t[j].picked => i <= j
      BY <2>3, <2>4, TriedOrderly
    <2>6. channel[k[1]] # "deleted" /\ s[i].attempts \in Nat
      BY <2>3, <2>4, Channeled, OrderlyParts, Fields
    <2>7. rows'[k] = t
      BY <1>p, <2>1
    <2> HIDE DEF t, s
    <2>8. disp'.key = k /\ disp' \in DispType
          /\ (disp'.result = "retry" => s[i].attempts + 1 < MaxAttempts)
      BY <2>2, <2>6, Numbers DEF DispType, LastTry
    <2>9. Sent(rows[disp.key])'
      <3>1. PICK u, n : u = rows'[k] /\ n = i
        OBVIOUS
      <3>2. /\ n \in 1..Len(u) /\ u[n].picked /\ u[n].tried /\ \A j \in 1..Len(u) : u[j].picked => n <= j
            /\ disp'.result = "retry" => u[n].attempts + 1 < MaxAttempts
        BY <2>5, <2>7, <2>8, <3>1
      <3> QED BY <2>8, <3>1, <3>2 DEF Sent
    <2>10. MarkedTrue'
      BY <2>9 DEF MarkedTrue
    <2> QED BY <2>1, <2>5, <2>6, <2>8, <2>10, OneKey
  <1>4. CASE Mark
    <2> DEFINE k == disp.key
               s == rows[k]
               i == Current(k)
               d == Outcome(s[i])
    <2>1. Marking /\ UNCHANGED channel
          /\ disp' = IF disp.result = "failed" THEN [disp EXCEPT !.result = "raise"] ELSE NotSending
      BY <1>4 DEF Mark, Marking
    <2>2. k \in Keys /\ (channel[k[1]] = "deleted" \/ Sent(s))
      BY <2>1 DEF Queue, Marking
    <2>3. disp' \in DispType /\ (disp'.result # "none" => disp'.key \in Keys) /\ ~(Marking')
      BY <1>p, <2>1, <2>2 DEF DispType, NotSending, Marking
    <2>4. MarkedTrue'
      BY <2>3 DEF MarkedTrue
    <2>5. CASE UNCHANGED rows
      BY <1>p, <2>1, <2>3, <2>5 DEF Queue
    <2>6. CASE s # <<>>
      <3>1. channel[k[1]] # "deleted" /\ Sent(s) /\ Orderly(s)
        BY <1>p, <2>2, <2>6, Channeled
      <3>2. Picked(k) # {}
        BY <3>1, OrderlyParts DEF Sent, Picked
      <3>3. i \in 1..Len(s) /\ s[i].picked /\ \A j \in 1..Len(s) : s[j].picked => i <= j
        BY <3>1, <3>2, CurrentIs
      <3>4. s[i].tried /\ (disp.result = "retry" => s[i].attempts + 1 < MaxAttempts)
        <4>1. PICK j \in 1..Len(s) :
                /\ s[j].picked /\ s[j].tried /\ \A h \in 1..Len(s) : s[h].picked => j <= h
                /\ disp.result = "retry" => s[j].attempts + 1 < MaxAttempts
          BY <3>1 DEF Sent
        <4>2. i = j
          <5> HIDE DEF i
          <5> QED BY <3>3, <4>1
        <4> QED BY <4>1, <4>2
      <3>5. s[i] \in Delivery
        BY <3>1, <3>3, OrderlyParts
      <3> HIDE DEF i
      <3>6. WasSent(s[i])
        BY <3>3, <3>4 DEF WasSent
      <3>7. d \in Delivery /\ IsMarked(d)
        <4>1. \A n \in 0..MaxAttempts : n + 1 < MaxAttempts => n + 1 \in 0..MaxAttempts
          BY Numbers
        <4>2. CASE disp.result = "sent"
          <5>1. d = [s[i] EXCEPT !.picked = FALSE,
                                 !.status = IF s[i].phase = "resolved" THEN "resolved" ELSE "success"]
            BY <4>2 DEF Outcome
          <5> HIDE DEF d
          <5> QED BY <3>4, <3>5, <5>1 DEF Delivery, IsMarked
        <4>3. CASE disp.result = "retry"
          <5>1. d = [s[i] EXCEPT !.picked = FALSE, !.attempts = @ + 1, !.waiting = TRUE]
            BY <4>3 DEF Outcome
          <5> HIDE DEF d
          <5> QED BY <3>4, <3>5, <4>1, <4>3, <5>1 DEF Delivery, IsMarked
        <4>4. CASE disp.result \notin {"sent", "retry"}
          <5>1. d = [s[i] EXCEPT !.picked = FALSE, !.status = "failed"]
            BY <4>4 DEF Outcome
          <5> HIDE DEF d
          <5> QED BY <3>4, <3>5, <5>1 DEF Delivery, IsMarked
        <4> QED BY <4>2, <4>3, <4>4
      <3>8. Orderly(Settled(s, i, d)) /\ Orderly([s EXCEPT ![i].picked = FALSE])
        <4> HIDE DEF d, s
        <4> QED BY <3>1, <3>3, <3>4, <3>6, <3>7, SettledOrderly, LostOrderly
      <3>9. \E t \in {Settled(s, i, d), [s EXCEPT ![i].picked = FALSE]} : rows' = [rows EXCEPT ![k] = t]
        BY <1>4, <2>6 DEF Mark, i
      <3>10. PICK t : Orderly(t) /\ rows' = [rows EXCEPT ![k] = t]
        BY <3>8, <3>9
      <3> HIDE DEF d, s, k
      <3> QED BY <2>1, <2>2, <2>3, <2>4, <3>1, <3>10, OneKey
    <2> QED BY <1>4, <2>5, <2>6 DEF Mark
  <1>5. CASE RaiseFailed
    <2>1. UNCHANGED <<rows, channel>> /\ disp' = NotSending
      BY <1>5 DEF RaiseFailed
    <2> QED BY <2>1 DEF Queue, DispType, NotSending, Marking
  <1>6. ASSUME NEW k \in Keys, NEW i \in DOMAIN rows[k], Due(k, i) PROVE Queue'
    <2> DEFINE s == rows[k]
               t == [s EXCEPT ![i].waiting = FALSE]
    <2>1. rows' = [rows EXCEPT ![k] = t] /\ UNCHANGED <<channel, disp>> /\ s[i].waiting
      BY <1>6 DEF Due
    <2>2. Orderly(s) /\ i \in 1..Len(s) /\ s # <<>>
      BY <1>p, OrderlyParts
    <2>3. channel[k[1]] # "deleted" /\ (Marking /\ disp.key = k => Sent(s))
      BY <2>2, Channeled
    <2> HIDE DEF s
    <2>4. Orderly(t) /\ (Sent(s) => Sent(t))
      BY <2>1, <2>2, DueOrderly
    <2> HIDE DEF t
    <2> QED BY <2>1, <2>3, <2>4, OneKeyApart
  <1>7. ASSUME NEW k \in Keys, Cleanup(k) PROVE Queue'
    <2>1. /\ rows' = [rows EXCEPT ![k] = <<>>] /\ UNCHANGED <<channel, disp>>
          /\ Len(rows[k]) = 1 /\ ~Pending(rows[k][1])
      BY <1>7 DEF Cleanup, Pending
    <2>2. channel[k[1]] # "deleted" /\ (Marking /\ disp.key = k => Sent(rows[k]))
      BY <2>1, Channeled
    <2>3. ~Sent(rows[k])
      BY <1>p, <2>1 DEF Sent, Orderly
    <2> QED BY <2>1, <2>2, <2>3, OrderlyEmpty, OneKeyApart
  <1>8. ASSUME NEW c \in Channels, SwitchChannel(c) PROVE Queue'
    <2>1. /\ UNCHANGED <<rows, disp>> /\ channel[c] # "deleted"
          /\ channel' = [channel EXCEPT ![c] = IF @ = "on" THEN "off" ELSE "on"]
      BY <1>8 DEF SwitchChannel
    <2>2. /\ channel' \in [Channels -> {"on", "off", "deleted"}]
          /\ \A x \in Channels : channel'[x] = "deleted" <=> channel[x] = "deleted"
      BY <1>p, <2>1
    <2>3. \A k \in Keys : channel'[k[1]] = "deleted" <=> channel[k[1]] = "deleted"
      BY <1>p, <2>2
    <2>4. MarkedTrue'
      <3> SUFFICES ASSUME Marking', channel'[(disp.key)'[1]] # "deleted" PROVE Sent(rows[disp.key])'
        BY DEF MarkedTrue
      <3>1. Marking /\ disp.key \in Keys
        BY <2>1 DEF Marking, Queue
      <3>2. Sent(rows[disp.key])
        BY <2>1, <2>3, <3>1 DEF Queue
      <3> QED BY <2>1, <3>2 DEF Sent
    <2> QED BY <1>p, <2>1, <2>2, <2>3, <2>4 DEF Queue, MarkedTrue
  <1>9. ASSUME NEW c \in Channels, DeleteChannel(c) PROVE Queue'
    <2>1. /\ UNCHANGED disp /\ channel' = [channel EXCEPT ![c] = "deleted"]
          /\ rows' = [k \in Keys |-> IF k[1] = c THEN <<>> ELSE rows[k]]
      BY <1>9 DEF DeleteChannel
    <2>2. \A k \in Keys : Orderly(rows'[k]) /\ rows'[k] \in Seq(Delivery)
      <3> SUFFICES ASSUME NEW k \in Keys PROVE Orderly(rows'[k])
        BY OrderlyParts
      <3> QED BY <1>p, <2>1, OrderlyEmpty
    <2>3. rows' \in [Keys -> Seq(Delivery)]
      BY <2>1, <2>2
    <2>4. /\ channel' \in [Channels -> {"on", "off", "deleted"}]
          /\ \A k \in Keys : channel'[k[1]] = "deleted" <=> channel[k[1]] = "deleted" \/ k[1] = c
      BY <1>p, <2>1
    <2>5. \A k \in Keys : channel'[k[1]] = "deleted" => rows'[k] = <<>>
      BY <2>1, <2>4 DEF Queue
    <2>6. MarkedTrue'
      <3> SUFFICES ASSUME Marking', channel'[(disp.key)'[1]] # "deleted" PROVE Sent(rows[disp.key])'
        BY DEF MarkedTrue
      <3>1. Marking /\ disp.key \in Keys
        BY <2>1 DEF Marking, Queue
      <3>2. Sent(rows[disp.key]) /\ rows'[disp.key] = rows[disp.key]
        BY <2>1, <2>4, <3>1 DEF Queue
      <3> QED BY <2>1, <3>2 DEF Sent
    <2> QED BY <1>p, <2>1, <2>2, <2>3, <2>4, <2>5, <2>6 DEF Queue, MarkedTrue
  <1>10. CASE Restart
    <2>1. /\ UNCHANGED channel /\ disp' = NotSending
          /\ rows' = [k \in Keys |-> [i \in DOMAIN rows[k] |-> [rows[k][i] EXCEPT !.picked = FALSE]]]
      BY <1>10 DEF Restart
    <2>2. ASSUME NEW k \in Keys PROVE Orderly(rows'[k]) /\ Len(rows'[k]) = Len(rows[k])
      <3>1. rows'[k] = Unpicked(rows[k])
        BY <2>1 DEF Unpicked
      <3>2. Orderly(rows[k])
        BY <1>p
      <3> QED BY <3>1, <3>2, UnpickedOrderly
    <2>3. DOMAIN rows' = Keys /\ rows' = [k \in Keys |-> rows'[k]]
      BY <2>1
    <2> QED BY <2>1, <2>2, <2>3, EveryKey
  <1>11. CASE Tick
    BY <1>11, QueueKept DEF Tick
  <1>12. ASSUME NEW r \in Rules, EvalRule(r) PROVE Queue'
    BY <1>12, QueueKept DEF EvalRule
  <1>13. ASSUME NEW w \in eval.work, Fire(w) \/ Recover(w) PROVE Queue'
    <2>1. UNCHANGED <<rows, channel, disp>>
      BY <1>13 DEF Fire, Recover
    <2> QED BY <2>1, QueueKept
  <1>14. ASSUME NEW g \in Watched, Watch(g) PROVE Queue'
    <2>1. UNCHANGED <<rows, channel, disp>>
      BY <1>14 DEF Watch, Rebalanced, Persisting
    <2> QED BY <2>1, QueueKept
  <1>15. ASSUME NEW r \in Rules, NEW g \in Groups, Turn(r, g) PROVE Queue'
    BY <1>15, QueueKept DEF Turn
  <1>16. ASSUME NEW r \in Rules, EditRule(r) PROVE Queue'
    BY <1>16, QueueKept DEF EditRule
  <1>17. ASSUME NEW x \in active, Dismiss(x) PROVE Queue'
    BY <1>17, QueueKept DEF Dismiss
  <1>18. CASE UNCHANGED vars
    BY <1>18, QueueKept DEF vars
  <1> QED BY <1>1, <1>2, <1>3, <1>4, <1>5, <1>6, <1>7, <1>8, <1>9, <1>10, <1>11, <1>12, <1>13,
             <1>14, <1>15, <1>16, <1>17, <1>18 DEF Next, Evaluate, Dispatch

-----------------------------------------------------------------------------
(* Rules, alerts, counters and bounds, step by step                        *)

LEMMA FaultsTrue == Tables /\ (Fault \/ Sound) => faults' \in 0..MaxFaults
  BY Numbers DEF Tables, Fault, Sound

LEMMA ChangeTrue == Tables /\ Change => spent' \in 0..Budget
  BY Numbers DEF Tables, Change

\* No two unresolved alerts have one kind and cluster.
AlertsApart ==
  active \subseteq Groups \cup Channels /\ \A x, y \in active : SlotOf(x) = SlotOf(y) => x = y

LEMMA Fewer ==
  ASSUME Tables, active' \subseteq active
  PROVE  AlertsApart'
  BY DEF Tables, AlertsApart

LEMMA OneMore ==
  ASSUME Tables, NEW x \in Groups \cup Channels, \A y \in active : SlotOf(y) = SlotOf(x) => y = x,
         active' = active \cup {x}
  PROVE  AlertsApart'
  BY DEF Tables, AlertsApart

LEMMA WatchedIs == Watched \subseteq Groups
  BY AlertsAssumption DEF Watched

\* No other alert is in the place of a cluster the watchdog looks after.
LEMMA WatchedApart ==
  ASSUME NEW g \in Watched, NEW y \in Groups \cup Channels, SlotOf(y) = SlotOf(g)
  PROVE  y = g
  <1>1. g \in Groups
    BY WatchedIs
  <1>2. SlotOf(g) = Slot[g] /\ Slot[g] # "channel"
    BY <1>1, AlertsAssumption DEF SlotOf
  <1>3. y \in Groups /\ Slot[y] = Slot[g]
    BY <1>2 DEF SlotOf
  <1> QED BY <1>1, <1>3, AlertsAssumption

LEMMA TablesIf ==
  ASSUME Tables, UNCHANGED <<rule, over, counter, spent, forgotten>>, AlertsApart',
         Fault \/ Sound, muted' \subseteq Keys, own' \subseteq Keys
  PROVE  Tables'
  BY FaultsTrue DEF Tables, AlertsApart

LEMMA TablesStep == EvalTrue(eval) /\ Queue /\ Tables /\ [Next]_vars => Tables'
  <1> SUFFICES ASSUME EvalTrue(eval), Queue, Tables, [Next]_vars PROVE Tables'
    OBVIOUS
  <1>m. muted \subseteq Keys /\ own \subseteq Keys /\ active \subseteq Groups \cup Channels
    BY DEF Tables
  <1>k. \A c \in Channels, x \in Groups : <<c, x>> \in Keys
    BY DEF Keys
  <1>w. eval.work \subseteq Finding
    BY EvalParts
  <1>1. ASSUME NEW r \in Rules, EvalRule(r) PROVE Tables'
    <2>1. /\ UNCHANGED <<rule, over, counter, spent, forgotten>> /\ UNCHANGED <<active, muted, own>>
          /\ (Fault \/ Sound)
      BY <1>1 DEF EvalRule
    <2> QED BY <1>m, <2>1, Fewer, TablesIf
  <1>2. ASSUME NEW w \in eval.work, Fire(w) PROVE Tables'
    <2>1. UNCHANGED <<rule, over, counter, spent, forgotten>> /\ UNCHANGED <<muted, own>> /\ (Fault \/ Sound)
      BY <1>2 DEF Fire
    <2>2. AlertsApart'
      <3>1. UNCHANGED active
            \/ (Accepts(w.group, eval.row[w.rule].critical) /\ active' = active \cup {w.group})
        BY <1>2 DEF Fire
      <3>2. w.group \in Groups
        BY <1>w DEF Finding
      <3>3. CASE UNCHANGED active
        BY <3>3, Fewer
      <3>4. CASE Accepts(w.group, eval.row[w.rule].critical) /\ active' = active \cup {w.group}
        <4>1. \A y \in active : SlotOf(y) = SlotOf(w.group) => y = w.group
          BY <3>4 DEF Accepts
        <4> QED BY <3>2, <3>4, <4>1, OneMore
      <3> QED BY <3>1, <3>3, <3>4
    <2> QED BY <1>m, <2>1, <2>2, TablesIf
  <1>3. ASSUME NEW w \in eval.work, Recover(w) PROVE Tables'
    <2>1. UNCHANGED <<rule, over, counter, spent, forgotten>> /\ (Fault \/ Sound)
          /\ own' \subseteq own
      BY <1>3 DEF Recover
    <2>2. \/ UNCHANGED <<active, muted>>
          \/ \E x \in active : /\ SlotOf(x) = Slot[w.group] /\ active' = active \ {x}
                               /\ muted' \subseteq muted \cup (Channels \X {x})
      BY <1>3 DEF Recover
    <2>3. active' \subseteq active
      BY <2>2
    <2>4. muted' \subseteq Keys
      <3>1. ASSUME NEW x \in active, SlotOf(x) = Slot[w.group] PROVE Channels \X {x} \subseteq Keys
        <4>1. x \in Groups
          BY <1>w, <3>1, AlertOf
        <4> QED BY <4>1 DEF Keys
      <3> QED BY <1>m, <2>2, <3>1
    <2> QED BY <1>m, <2>1, <2>3, <2>4, Fewer, TablesIf
  <1>4. ASSUME NEW c \in eval.to, Enqueue(c) PROVE Tables'
    <2>1. <<c, eval.group>> \in Keys
      BY <1>k, EvalParts
    <2>2. UNCHANGED <<rule, over, counter, spent, forgotten>> /\ UNCHANGED active /\ (Fault \/ Sound)
      BY <1>4 DEF Enqueue
    <2>3. muted' \subseteq muted \cup {<<c, eval.group>>} /\ own' \subseteq own \cup {<<c, eval.group>>}
      BY <1>4 DEF Enqueue
    <2> QED BY <1>m, <2>1, <2>2, <2>3, Fewer, TablesIf
  <1>5. ASSUME NEW k \in Keys, Send(k) PROVE Tables'
    <2>1. /\ UNCHANGED <<rule, over, counter, spent, forgotten>> /\ UNCHANGED <<active, muted, own>>
          /\ (Fault \/ Sound)
      BY <1>5 DEF Send
    <2> QED BY <1>m, <2>1, Fewer, TablesIf
  <1>6. CASE Mark
    <2>1. UNCHANGED <<rule, over, counter, spent, forgotten>> /\ UNCHANGED <<active, own>> /\ (Fault \/ Sound)
      BY <1>6 DEF Mark
    <2>2. disp.key \in Keys
      BY <1>6 DEF Mark, Queue
    <2>3. muted' \subseteq muted \cup {disp.key}
      BY <1>6 DEF Mark
    <2> QED BY <1>m, <2>1, <2>2, <2>3, Fewer, TablesIf
  <1>7. CASE RaiseFailed
    <2>1. UNCHANGED <<rule, over, counter, spent, forgotten>> /\ UNCHANGED <<muted, own>> /\ (Fault \/ Sound)
      BY <1>7 DEF RaiseFailed
    <2>2. UNCHANGED active \/ (Accepts(disp.key[1], FALSE) /\ active' = active \cup {disp.key[1]})
      BY <1>7 DEF RaiseFailed
    <2>3. disp.key[1] \in Channels
      BY <1>7 DEF RaiseFailed, Queue, Keys
    <2>4. AlertsApart'
      <3>1. CASE UNCHANGED active
        BY <3>1, Fewer
      <3>2. CASE Accepts(disp.key[1], FALSE) /\ active' = active \cup {disp.key[1]}
        <4>1. \A y \in active : SlotOf(y) = SlotOf(disp.key[1]) => y = disp.key[1]
          BY <3>2 DEF Accepts
        <4> QED BY <2>3, <3>2, <4>1, OneMore
      <3> QED BY <2>2, <3>1, <3>2
    <2> QED BY <1>m, <2>1, <2>4, TablesIf
  <1>8. ASSUME NEW g \in Watched, Rebalanced(g) PROVE Tables'
    <2>1. /\ UNCHANGED <<rule, over, spent>> /\ (Fault \/ Sound)
          /\ active' \subseteq active /\ forgotten' \subseteq forgotten \cup {g}
          /\ counter' = [counter EXCEPT ![g] = 0]
          /\ own' \subseteq own
          /\ muted' = muted \cup (Channels \X (active \ active'))
          /\ \A x \in active \ active' : SlotOf(x) = Slot[g]
      BY <1>8 DEF Rebalanced
    <2>2. counter' \in [Watched -> 0..PersistTicks] /\ forgotten' \subseteq Watched
      BY <2>1, Numbers DEF Tables
    <2>3. faults' \in 0..MaxFaults /\ AlertsApart'
      BY <2>1, FaultsTrue, Fewer
    <2>4. muted' \subseteq Keys /\ own' \subseteq Keys
      <3>1. g \in Groups /\ Slot[g] # "channel"
        BY WatchedIs, AlertsAssumption
      <3>2. active \ active' \subseteq Groups
        BY <1>m, <2>1, <3>1 DEF SlotOf
      <3> QED BY <1>m, <2>1, <3>2 DEF Keys
    <2> QED BY <2>1, <2>2, <2>3, <2>4 DEF Tables, AlertsApart
  <1>9. ASSUME NEW g \in Watched, Persisting(g) PROVE Tables'
    <2> DEFINE n == IF counter[g] = PersistTicks THEN PersistTicks ELSE counter[g] + 1
    <2>1. /\ UNCHANGED <<rule, over, spent, muted, own>> /\ (Fault \/ Sound)
          /\ (UNCHANGED active \/ active' = active \cup {g}) /\ forgotten' \subseteq forgotten
          /\ counter' = [counter EXCEPT ![g] = n]
      BY <1>9 DEF Persisting
    <2>2. n \in 0..PersistTicks
      BY Numbers DEF Tables
    <2> HIDE DEF n
    <2>3. counter' \in [Watched -> 0..PersistTicks] /\ forgotten' \subseteq Watched
      BY <2>1, <2>2 DEF Tables
    <2>4. AlertsApart'
      <3>1. CASE UNCHANGED active
        BY <3>1, Fewer
      <3>2. CASE active' = active \cup {g}
        <4>1. g \in Groups \cup Channels
          BY WatchedIs
        <4>2. \A y \in active : SlotOf(y) = SlotOf(g) => y = g
          BY <1>m, WatchedApart
        <4> QED BY <3>2, <4>1, <4>2, OneMore
      <3> QED BY <2>1, <3>1, <3>2
    <2>5. faults' \in 0..MaxFaults
      BY <2>1, FaultsTrue
    <2> QED BY <2>1, <2>3, <2>4, <2>5 DEF Tables, AlertsApart
  <1>10. ASSUME NEW r \in Rules, NEW g \in Groups, Turn(r, g) PROVE Tables'
    <2>1. /\ UNCHANGED <<rule, active, counter, faults, muted, own, forgotten>> /\ Change
          /\ over' \subseteq over \cup {<<r, g>>}
      BY <1>10 DEF Turn
    <2>2. over' \subseteq Rules \X Groups /\ spent' \in 0..Budget
      BY <2>1, ChangeTrue DEF Tables
    <2> QED BY <2>1, <2>2 DEF Tables
  <1>11. ASSUME NEW r \in Rules, EditRule(r) PROVE Tables'
    <2>1. UNCHANGED <<over, active, counter, faults, muted, own, forgotten>> /\ Change
      BY <1>11 DEF EditRule
    <2>2. PICK row \in Edits[r] : rule' = [rule EXCEPT ![r] = row]
      BY <1>11 DEF EditRule
    <2>3. row \in RuleRow
      BY AlertsAssumption
    <2>4. rule' \in [Rules -> RuleRow] /\ spent' \in 0..Budget
      BY <2>1, <2>2, <2>3, ChangeTrue DEF Tables
    <2> QED BY <2>1, <2>4 DEF Tables
  <1>12. ASSUME NEW c \in Channels, SwitchChannel(c) \/ DeleteChannel(c) PROVE Tables'
    <2>1. UNCHANGED <<rule, over, active, counter, faults, muted, own, forgotten>> /\ Change
      BY <1>12 DEF SwitchChannel, DeleteChannel
    <2> QED BY <2>1, ChangeTrue DEF Tables
  <1>13. ASSUME NEW x \in active, Dismiss(x) PROVE Tables'
    <2>1. /\ UNCHANGED <<rule, over, counter, faults, forgotten>> /\ Change
          /\ active' \subseteq active /\ own' \subseteq own
          /\ muted' = IF x \in Groups THEN muted \cup (Channels \X {x}) ELSE muted
      BY <1>13 DEF Dismiss
    <2>2. muted' \subseteq Keys /\ own' \subseteq Keys
      BY <1>m, <2>1 DEF Keys
    <2>3. AlertsApart' /\ spent' \in 0..Budget
      BY <2>1, Fewer, ChangeTrue
    <2> QED BY <2>1, <2>2, <2>3 DEF Tables, AlertsApart
  <1>14. ASSUME NEW k \in Keys, Cleanup(k) PROVE Tables'
    <2>1. UNCHANGED <<rule, over, active, counter, faults, muted, own, forgotten>> /\ Change
      BY <1>14 DEF Cleanup
    <2> QED BY <2>1, ChangeTrue DEF Tables
  <1>15. CASE Restart
    <2>1. /\ UNCHANGED <<rule, over, active, spent, own>> /\ Fault
          /\ counter' = [g \in Watched |-> 0] /\ forgotten' \subseteq forgotten \cup Watched
          /\ muted' = IF eval.phase = "resolved" THEN muted \cup (eval.to \X {eval.group}) ELSE muted
      BY <1>15 DEF Restart
    <2>2. counter' \in [Watched -> 0..PersistTicks] /\ forgotten' \subseteq Watched
      BY <2>1, Numbers DEF Tables
    <2>3. eval.to \X {eval.group} \subseteq Keys
      BY EvalParts DEF Keys
    <2>4. muted' \subseteq Keys /\ faults' \in 0..MaxFaults
      BY <1>m, <2>1, <2>3, FaultsTrue
    <2> QED BY <2>1, <2>2, <2>4 DEF Tables
  <1>16. CASE Tick \/ ListPending
    BY <1>16 DEF Tick, ListPending, Tables
  <1>17. ASSUME NEW k \in Keys, NEW i \in DOMAIN rows[k], Due(k, i) PROVE Tables'
    BY <1>17 DEF Due, Tables
  <1>18. CASE UNCHANGED vars
    BY <1>18 DEF vars, Tables
  <1> QED BY <1>1, <1>2, <1>3, <1>4, <1>5, <1>6, <1>7, <1>8, <1>9, <1>10, <1>11, <1>12, <1>13,
             <1>14, <1>15, <1>16, <1>17, <1>18 DEF Next, Evaluate, Dispatch, Watch

-----------------------------------------------------------------------------
(* The theorems                                                            *)

LEMMA InitIInv == Init => IInv
  <1> SUFFICES ASSUME Init PROVE IInv
    OBVIOUS
  <1>1. EvalTrue(eval)
    BY RestingTrue DEF Init
  <1>2. rows \in [Keys -> Seq(Delivery)] /\ \A k \in Keys : rows[k] = <<>>
    BY DEF Init
  <1>3. Queue
    BY <1>2, OrderlyEmpty DEF Init, Queue, NotSending, DispType, Marking
  <1>4. Tables
    <2>1. rule \in [Rules -> RuleRow] /\ faults \in 0..MaxFaults
      BY AlertsAssumption DEF Init
    <2> QED BY <2>1, Numbers DEF Init, Tables
  <1> QED BY <1>1, <1>3, <1>4 DEF IInv

\* The deliveries of every channel and group are in order, the one that was sent is the oldest of
\* those picked, and no two alerts have one place, whatever fails or stops in between.
THEOREM AlertsInv == Spec => []IInv
  <1>1. IInv /\ [Next]_vars => IInv'
    BY EvalStep, QueueStep, TablesStep DEF IInv
  <1> QED BY InitIInv, <1>1, PTL DEF Spec

\* Every variable keeps its type; only the last delivery of a key is finished, and one is picked
\* only while it is pending and due; no two unresolved alerts have one kind and cluster.
THEOREM AlertsTypeCorrect == Spec => []TypeOK
  <1>1. IInv => TypeOK
    <2> SUFFICES ASSUME IInv PROVE TypeOK
      OBVIOUS
    <2>1. ASSUME NEW k \in Keys, NEW i \in DOMAIN rows[k]
          PROVE  /\ rows[k][i] \in Delivery
                 /\ rows[k][i].status = "pending" \/ i = Len(rows[k])
                 /\ rows[k][i].picked => rows[k][i].status = "pending" /\ ~rows[k][i].waiting
      <3>1. Orderly(rows[k])
        BY DEF IInv, Queue
      <3>2. i \in 1..Len(rows[k]) /\ rows[k][i] \in Delivery
        BY <3>1, OrderlyParts
      <3> QED BY <3>1, <3>2 DEF Orderly, Pending
    <2>2. DOMAIN rows = Keys
      BY DEF IInv, Queue
    <2>3. eval.left \subseteq Rules /\ eval.to \subseteq Channels
          /\ eval.work \subseteq [rule : Rules, group : Groups, up : BOOLEAN]
      BY EvalParts DEF IInv, Finding
    <2>4. /\ channel \in [Channels -> {"on", "off", "deleted"}] /\ disp.key \in Keys \cup {None}
          /\ disp.result \in {"none", "sent", "retry", "failed", "unusable", "raise"}
      BY DEF IInv, Queue, DispType
    <2> QED BY <2>1, <2>2, <2>3, <2>4 DEF IInv, Tables, TypeOK
  <1> QED BY AlertsInv, <1>1, PTL

\* dispatchPending goes through the deliveries in the order they were queued: a channel is not
\* told of a later turn of a group before the dispatcher has tried to tell it of the earlier ones.
THEOREM ToldInOrder == Spec => []SentInOrder
  <1>1. IInv => SentInOrder
    <2> SUFFICES ASSUME IInv, NEW k \in Keys, NEW i \in DOMAIN rows[k], NEW j \in DOMAIN rows[k],
                        i < j, rows[k][i].status = "pending", rows[k][j].tried
                 PROVE  rows[k][i].tried
      BY DEF SentInOrder
    <2>1. Orderly(rows[k])
      BY DEF IInv, Queue
    <2>2. i \in 1..Len(rows[k]) /\ j \in 1..Len(rows[k])
      BY <2>1, OrderlyParts
    <2> QED BY <2>1, <2>2 DEF Orderly, Pending
  <1> QED BY AlertsInv, <1>1, PTL
=============================================================================
