--------------------------- MODULE JobStreamProofs ---------------------------
(***************************************************************************)
(* What JobStream.tla promises for every number of tabs, streams, steps    *)
(* and failures: a tab that has caught up has every step, and none waits   *)
(* for an end that was already told, wherever its connection breaks. Both  *)
(* hold where a channel takes all the events of a job (Roomy).             *)
(***************************************************************************)
EXTENDS JobStream, FiniteSetTheorems, TLAPS

-----------------------------------------------------------------------------
(* The inductive invariant                                                 *)

\* Subscribe makes channels for 32 events; a step is published when it begins and when it ends,
\* the end of the job by finalize and perhaps by the sweeper. The jobs that make and reinstall
\* VMs have less than ten steps.
Roomy == Buffer >= 2 * NumSteps + 2

StepEvent == [seq : Steps, status : StepStatus]
EndEvent  == [seq : {End}, status : Terminal]

Publishing == pc \in {"copy", "send"}
NextSeq == IF NextPc \in {"append", "call"} THEN step ELSE End

\* The event is still on its way to stream s.
Pending(s) == pc = "copy" \/ s \in to

Reading == {"replay", "write", "check", "loop"}

\* Types, and who is connected: holds whatever panics.
Structure ==
  /\ TypeOK
  /\ event \in StepEvent \cup EndEvent
  /\ chan \in [Streams -> Seq(StepEvent \cup EndEvent)]
  /\ backlog \in [Streams -> Seq(StepEvent)]
  /\ \A s \in Streams : at[s] # "new" => owner[s] \in Tabs
  /\ \A s \in link : at[s] \in Live
  /\ blind \subseteq {s \in Streams : at[s] # "new"}
  /\ conns = Cardinality({s \in Streams : at[s] \in Live})

\* Where the worker is: rows are made in order, and a job that is over has told its end.
WorkerTrue ==
  /\ to # {} => pc = "send"
  /\ pc = "send" => to # {}
  /\ \A k \in Steps : row[k] # "none" => k < step \/ (k = step /\ NextPc # "append")
  /\ Publishing /\ event.seq # End => row[event.seq] # "none"
  /\ Publishing => event.seq <= NextSeq
  /\ Publishing /\ event.seq = End => then = "over"
  /\ status \in Terminal => /\ pc \in {"copy", "send", "over"} /\ then = "over"
                            /\ Publishing => event.seq = End

\* What is in a channel: events in the order of their steps, of rows that exist, and no more
\* than leaves room for what comes.
ChannelTrue(s) ==
  /\ \A i, j \in 1..Len(chan[s]) : i < j => chan[s][i].seq <= chan[s][j].seq
  /\ \A i \in 1..Len(chan[s]) :
       /\ chan[s][i].seq <= IF Publishing THEN event.seq ELSE NextSeq
       /\ chan[s][i].seq # End => row[chan[s][i].seq] # "none"
  /\ Len(chan[s]) + Rank + (IF Pending(s) THEN 1 ELSE 0) <= 2 * NumSteps + 2
  /\ at[s] \in Reading => s \in subs

\* The rows stream s has yet to write, in their order.
BacklogTrue(s) ==
  /\ \A i, j \in 1..Len(backlog[s]) : i < j => backlog[s][i].seq < backlog[s][j].seq
  /\ \A i \in 1..Len(backlog[s]) : row[backlog[s][i].seq] # "none"
  /\ from[s] # -1 => row[from[s]] # "none"

\* Tab t has seen every step up to the last it was sent.
TabTrue(t) ==
  /\ lastID[t] # -1 => row[lastID[t]] # "none"
  /\ Sighted(t) =>
       \A k \in Steps : k <= lastID[t] /\ row[k] # "none" => seen[t][k] # "none"

InChannel(s, k) == \E i \in 1..Len(chan[s]) : chan[s][i].seq = k
InBacklog(s, k) == \E i \in 1..Len(backlog[s]) : backlog[s][i].seq = k
Coming(s, k)    == InChannel(s, k) \/ (Pending(s) /\ event.seq = k)
Seen(s, k)      == seen[owner[s]][k] # "none"

\* Step k reaches the tab that stream s serves, if it is not there.
Reaches(s, k) ==
  /\ at[s] \in {"subscribe", "replay"} => k > from[s]
  /\ at[s] = "write" =>
       InBacklog(s, k) \/ (Coming(s, k) /\ \A i \in 1..Len(backlog[s]) : backlog[s][i].seq < k)
  /\ at[s] \in {"check", "loop"} => Coming(s, k)

StreamTrue(s) ==
  /\ s \in link /\ Sighted(owner[s]) =>
       \A k \in Steps : row[k] # "none" => Seen(s, k) \/ Reaches(s, k)
  /\ at[s] = "loop" /\ s \notin blind /\ status \in Terminal => Coming(s, End)

Flow ==
  /\ WorkerTrue
  /\ \A s \in Streams : ChannelTrue(s) /\ BacklogTrue(s) /\ StreamTrue(s)
  /\ \A t \in Tabs : TabTrue(t)

IInv == Structure /\ (~panicked => Flow)


-----------------------------------------------------------------------------
(* Ranks: the rows of a replay in their order                              *)

Below(R, k) == {j \in R : j < k}
Ranked(R, i) == CHOOSE k \in R : Cardinality(Below(R, k)) = i - 1

\* In a finite set of numbers the larger of two has more below it.
LEMMA MoreBelow ==
  ASSUME NEW R \in SUBSET Nat, IsFiniteSet(R), NEW k \in R, NEW m \in R, k < m
  PROVE  Cardinality(Below(R, k)) < Cardinality(Below(R, m))
  <1>1. IsFiniteSet(Below(R, m)) /\ Cardinality(Below(R, m)) \in Nat
    <2>1. Below(R, m) \in SUBSET R
      BY DEF Below
    <2> QED BY <2>1, FS_Subset, FS_CardinalityType
  <1>2. Below(R, k) \in SUBSET Below(R, m)
    <2> SUFFICES ASSUME NEW j \in Below(R, k) PROVE j \in Below(R, m)
      OBVIOUS
    <2>1. j \in R /\ j < k
      BY DEF Below
    <2>2. j \in Nat /\ k \in Nat /\ m \in Nat
      BY <2>1
    <2>3. j < m
      BY <2>1, <2>2
    <2> QED BY <2>1, <2>3 DEF Below
  <1>3. k \in Below(R, m) /\ k \notin Below(R, k)
    BY DEF Below
  <1>4. Cardinality(Below(R, k)) <= Cardinality(Below(R, m))
        /\ Cardinality(Below(R, k)) # Cardinality(Below(R, m))
    BY <1>1, <1>2, <1>3, FS_Subset
  <1>5. Cardinality(Below(R, k)) \in Nat
    BY <1>1, <1>2, FS_Subset, FS_CardinalityType
  <1> QED BY <1>1, <1>4, <1>5

\* Counting what is below numbers the members of the set from 0.
LEMMA Counted ==
  ASSUME NEW R \in SUBSET Nat, IsFiniteSet(R)
  PROVE  /\ Cardinality(R) \in Nat
         /\ \A k \in R : Cardinality(Below(R, k)) \in 0..(Cardinality(R) - 1)
         /\ \A k, m \in R : Cardinality(Below(R, k)) = Cardinality(Below(R, m)) => k = m
         /\ \A i \in 1..Cardinality(R) : \E k \in R : Cardinality(Below(R, k)) = i - 1
  <1>1. Cardinality(R) \in Nat
    BY FS_CardinalityType
  <1>2. ASSUME NEW k \in R PROVE Cardinality(Below(R, k)) \in 0..(Cardinality(R) - 1)
    <2>1. Below(R, k) \in SUBSET R /\ k \notin Below(R, k)
      BY DEF Below
    <2>2. IsFiniteSet(Below(R, k)) /\ Cardinality(Below(R, k)) <= Cardinality(R)
          /\ Cardinality(Below(R, k)) # Cardinality(R)
      BY <2>1, FS_Subset
    <2>3. Cardinality(Below(R, k)) \in Nat
      BY <2>2, FS_CardinalityType
    <2> QED BY <1>1, <2>2, <2>3
  <1>3. ASSUME NEW k \in R, NEW m \in R, Cardinality(Below(R, k)) = Cardinality(Below(R, m))
        PROVE  k = m
    <2>1. Cardinality(Below(R, k)) \in Nat /\ Cardinality(Below(R, m)) \in Nat
      BY <1>1, <1>2
    <2>2. ~(k < m) /\ ~(m < k)
      BY <1>3, <2>1, MoreBelow
    <2>3. k \in Nat /\ m \in Nat
      OBVIOUS
    <2> QED BY <2>2, <2>3
  <1>4. \A i \in 1..Cardinality(R) : \E k \in R : Cardinality(Below(R, k)) = i - 1
    <2> DEFINE T == 0..(Cardinality(R) - 1)
               f == [k \in R |-> Cardinality(Below(R, k))]
    <2>1. IsFiniteSet(T) /\ Cardinality(T) = Cardinality(R)
      <3> DEFINE n == Cardinality(R) - 1
      <3>1. n \in Int /\ 0 \in Int
        BY <1>1
      <3>2. IsFiniteSet(0..n) /\ Cardinality(0..n) = IF 0 > n THEN 0 ELSE n - 0 + 1
        BY <3>1, FS_Interval
      <3>3. Cardinality(R) = 0 \/ Cardinality(R) >= 1
        BY <1>1
      <3> QED BY <1>1, <3>2, <3>3
    <2>2. f \in [R -> T]
      BY <1>2
    <2>3. f \in Injection(R, T)
      BY <1>3, <2>2 DEF Injection, IsInjective
    <2>4. f \in Surjection(R, T)
      BY <2>1, <2>3, FS_Injection
    <2>5. \A x \in T : \E k \in R : f[k] = x
      BY <2>4 DEF Surjection
    <2> QED BY <1>1, <2>5
  <1> QED BY <1>1, <1>2, <1>3, <1>4

\* So the members are listed once each, in their order.
LEMMA RankedInOrder ==
  ASSUME NEW R \in SUBSET Nat, IsFiniteSet(R)
  PROVE  /\ \A i \in 1..Cardinality(R) : Ranked(R, i) \in R
         /\ \A k \in R : \E i \in 1..Cardinality(R) : Ranked(R, i) = k
         /\ \A i, j \in 1..Cardinality(R) : i < j => Ranked(R, i) < Ranked(R, j)
  <1>1. \A i \in 1..Cardinality(R) :
          Ranked(R, i) \in R /\ Cardinality(Below(R, Ranked(R, i))) = i - 1
    BY Counted DEF Ranked
  <1>2. ASSUME NEW k \in R PROVE \E i \in 1..Cardinality(R) : Ranked(R, i) = k
    <2> DEFINE i == Cardinality(Below(R, k)) + 1
    <2>1. i \in 1..Cardinality(R) /\ i - 1 = Cardinality(Below(R, k))
      BY Counted
    <2>2. Ranked(R, i) \in R /\ Cardinality(Below(R, Ranked(R, i))) = i - 1
      BY <1>1, <2>1
    <2>3. Cardinality(Below(R, Ranked(R, i))) = Cardinality(Below(R, k))
      BY <2>1, <2>2
    <2> HIDE DEF i
    <2>4. Ranked(R, i) = k
      <3>1. \A x, y \in R : Cardinality(Below(R, x)) = Cardinality(Below(R, y)) => x = y
        BY Counted
      <3> QED BY <2>2, <2>3, <3>1
    <2> QED BY <2>1, <2>4
  <1>3. ASSUME NEW i \in 1..Cardinality(R), NEW j \in 1..Cardinality(R), i < j
        PROVE  Ranked(R, i) < Ranked(R, j)
    <2>1. /\ Ranked(R, i) \in R /\ Cardinality(Below(R, Ranked(R, i))) = i - 1
          /\ Ranked(R, j) \in R /\ Cardinality(Below(R, Ranked(R, j))) = j - 1
      BY <1>1
    <2>2. i \in Int /\ j \in Int /\ i - 1 < j - 1
      BY <1>3, Counted
    <2>3. Ranked(R, i) # Ranked(R, j)
      BY <2>1, <2>2
    <2>4. ~(Ranked(R, j) < Ranked(R, i))
      <3>1. SUFFICES ASSUME Ranked(R, j) < Ranked(R, i) PROVE FALSE
        OBVIOUS
      <3>2. j - 1 < i - 1
        BY <2>1, <3>1, MoreBelow
      <3> QED BY <2>2, <3>2
    <2>5. Ranked(R, i) \in Nat /\ Ranked(R, j) \in Nat
      BY <2>1
    <2> QED BY <2>3, <2>4, <2>5
  <1> QED BY <1>1, <1>2, <1>3

-----------------------------------------------------------------------------
(* Structure: types and connections                                        *)

Connected == {s \in Streams : at[s] \in Live}

LEMMA ConnectedFinite ==
  ASSUME NEW S \in SUBSET Streams
  PROVE  IsFiniteSet(S) /\ Cardinality(S) \in Nat
  BY JobStreamAssumption, FS_Subset, FS_CardinalityType

\* The slots of the handlers that return are given back, once each.
LEMMA Returning ==
  ASSUME Structure, NEW gone \in SUBSET Connected, Return(gone)
  PROVE  /\ at' \in [Streams -> Live \cup {"new", "closed"}]
         /\ \A s \in Streams : at'[s] = IF s \in gone THEN "closed" ELSE at[s]
         /\ chan' \in [Streams -> Seq(StepEvent \cup EndEvent)]
         /\ \A s \in Streams : chan'[s] = IF s \in gone THEN <<>> ELSE chan[s]
         /\ \A s \in Streams : chan'[s] \in Seq(Event) /\ Len(chan'[s]) <= Buffer
         /\ backlog' \in [Streams -> Seq(StepEvent)]
         /\ \A s \in Streams : backlog'[s] \in Seq(Event)
         /\ \A s \in Streams : backlog'[s] = IF s \in gone THEN <<>> ELSE backlog[s]
         /\ from' \in [Streams -> Steps \cup {-1}]
         /\ \A s \in Streams : from'[s] = IF s \in gone THEN -1 ELSE from[s]
         /\ subs' = subs \ gone /\ link' = link \ gone /\ UNCHANGED <<owner, blind>>
         /\ conns' \in 0..MaxPerUser /\ conns' = Cardinality({s \in Streams : at'[s] \in Live})
         /\ \A s \in link' : at'[s] \in Live
         /\ \A s \in Streams : at'[s] # "new" => owner'[s] \in Tabs
         /\ blind' \subseteq {s \in Streams : at'[s] # "new"}
  <1> USE DEF Structure
  <1>1. /\ \A s \in Streams : at'[s] = IF s \in gone THEN "closed" ELSE at[s]
        /\ \A s \in Streams : chan'[s] = IF s \in gone THEN <<>> ELSE chan[s]
        /\ \A s \in Streams : backlog'[s] = IF s \in gone THEN <<>> ELSE backlog[s]
        /\ \A s \in Streams : from'[s] = IF s \in gone THEN -1 ELSE from[s]
        /\ subs' = subs \ gone /\ link' = link \ gone /\ UNCHANGED <<owner, blind>>
        /\ DOMAIN at' = Streams /\ DOMAIN chan' = Streams /\ DOMAIN backlog' = Streams
    BY DEF Return
  <1>2. at' \in [Streams -> Live \cup {"new", "closed"}]
    BY DEF Return, TypeOK
  <1>3. /\ chan' \in [Streams -> Seq(StepEvent \cup EndEvent)]
        /\ \A s \in Streams : chan'[s] \in Seq(Event) /\ Len(chan'[s]) <= Buffer
    BY <1>1, JobStreamAssumption DEF Return, TypeOK
  <1>4. /\ backlog' \in [Streams -> Seq(StepEvent)]
        /\ \A s \in Streams : backlog'[s] \in Seq(Event)
    BY <1>1 DEF Return, TypeOK
  <1>5. from' \in [Streams -> Steps \cup {-1}]
    BY DEF Return, TypeOK
  <1>6. {s \in Streams : at'[s] \in Live} = Connected \ gone
    BY <1>1 DEF Connected, Live
  <1>7. conns' = Cardinality(Connected \ gone) /\ conns' \in 0..MaxPerUser
    <2>1. Connected \in SUBSET Streams /\ gone \in SUBSET Streams /\ Connected \ gone \in SUBSET Streams
      BY DEF Connected
    <2>2. IsFiniteSet(Connected) /\ Cardinality(Connected) \in Nat
          /\ Cardinality(gone) \in Nat /\ Cardinality(Connected \ gone) \in Nat
      BY <2>1, ConnectedFinite
    <2>3. Cardinality(Connected \ gone) = Cardinality(Connected) - Cardinality(Connected \cap gone)
      BY <2>1, <2>2, FS_Difference, ConnectedFinite
    <2>4. Connected \cap gone = gone
      OBVIOUS
    <2>5. conns' = conns - Cardinality(gone) /\ conns = Cardinality(Connected)
      BY DEF Return, Released, Connected
    <2>6. Cardinality(Connected \ gone) = Cardinality(Connected) - Cardinality(gone)
      BY <2>3, <2>4
    <2>7. conns \in Nat /\ conns <= MaxPerUser
      BY JobStreamAssumption DEF TypeOK
    <2>8. conns' = Cardinality(Connected \ gone)
      BY <2>5, <2>6
    <2> QED BY <2>2, <2>5, <2>6, <2>7, <2>8, JobStreamAssumption
  <1>8. \A s \in link' : at'[s] \in Live
    BY <1>1 DEF TypeOK
  <1>9. blind' \subseteq {s \in Streams : at'[s] # "new"}
    BY <1>1
  <1>10. \A s \in Streams : at'[s] # "new" => owner'[s] \in Tabs
    BY <1>1 DEF Connected, Live
  <1> QED BY <1>1, <1>2, <1>3, <1>4, <1>5, <1>6, <1>7, <1>8, <1>9, <1>10

\* A step of the worker that leaves the streams alone.
LEMMA WorkerStructure ==
  ASSUME Structure, UNCHANGED <<subs, handler, link, tabs>>,
         row' \in [Steps -> StepStatus \cup {"none"}], status' \in Terminal \cup {"running"},
         pc' \in {"append", "call", "finish", "copy", "send", "over"},
         step' \in Steps, outcome' \in Terminal, event' \in StepEvent \cup EndEvent,
         then' \in {"append", "call", "finish", "over"}, to' \subseteq Streams,
         chan' \in [Streams -> Seq(StepEvent \cup EndEvent)],
         \A s \in Streams : chan'[s] \in Seq(Event) /\ Len(chan'[s]) <= Buffer,
         panicked' \in BOOLEAN, faults' \in 0..MaxFaults
  PROVE  Structure'
  <1>1. event' \in Event
    BY DEF StepEvent, EndEvent, Event
  <1>2. TypeOK'
    BY <1>1 DEF Structure, TypeOK, handler, tabs
  <1> QED BY <1>2 DEF Structure, handler

LEMMA FaultsTyped ==
  ASSUME TypeOK, Fault \/ NoFault
  PROVE  faults' \in 0..MaxFaults
  BY JobStreamAssumption DEF TypeOK, Fault, NoFault

\* What is in Seq(S) is in Seq of more.
LEMMA Wider ==
  ASSUME NEW q
  PROVE  /\ q \in Seq(StepEvent \cup EndEvent) => q \in Seq(Event)
         /\ q \in Seq(StepEvent) => q \in Seq(Event)
  <1>1. StepEvent \subseteq Event /\ EndEvent \subseteq Event
    BY DEF StepEvent, EndEvent, Event
  <1> QED BY <1>1

LEMMA WorkerTypes ==
  ASSUME Structure, WorkerStep, ~(\E s \in Streams : Panic(s))
  PROVE  Structure'
  <1> USE DEF Structure
  <1>0. End \notin Steps /\ 0 \in Steps
    BY JobStreamAssumption DEF End, Steps
  <1>1. CASE AppendStep
    <2>1. event' \in StepEvent \cup EndEvent
      <3>1. [seq |-> step, status |-> "running"] \in StepEvent
        BY DEF StepEvent, StepStatus, TypeOK
      <3> QED BY <1>1, <3>1 DEF AppendStep, Publish, Skip
    <2>2. row' \in [Steps -> StepStatus \cup {"none"}]
      BY <1>1 DEF AppendStep, StepStatus, TypeOK
    <2> QED BY <1>1, <2>1, <2>2, WorkerStructure, FaultsTyped
            DEF AppendStep, Publish, Skip, TypeOK, broker
  <1>2. CASE FinishStep
    <2>1. PICK result \in {"succeeded", "failed"} :
           LET more == result = "succeeded" /\ step + 1 \in Steps
               next == IF more THEN "append" ELSE "finish"
           IN
           /\ step' = IF more THEN step + 1 ELSE step
           /\ outcome' = IF result = "failed" THEN "failed" ELSE outcome
           /\ then' = next \/ then' = then
           /\ pc' \in {"copy", next}
           /\ row' \in {row, [row EXCEPT ![step] = result]}
           /\ \/ event' = event
              \/ row[step] # "none" /\ event' \in {[seq |-> step, status |-> result],
                                                   [seq |-> step, status |-> row[step]]}
           /\ Fault \/ NoFault
      BY <1>2 DEF FinishStep, Publish, Skip
    <2>2. event' \in StepEvent \cup EndEvent
      BY <2>1 DEF StepEvent, StepStatus, TypeOK
    <2>3. row' \in [Steps -> StepStatus \cup {"none"}] /\ step' \in Steps /\ outcome' \in Terminal
          /\ then' \in {"append", "call", "finish", "over"}
          /\ pc' \in {"append", "call", "finish", "copy", "send", "over"}
      BY <2>1 DEF StepStatus, Terminal, TypeOK
    <2>4. UNCHANGED <<status, to, broker, handler, link, tabs, panicked>>
      BY <1>2 DEF FinishStep
    <2> QED BY <2>1, <2>2, <2>3, <2>4, WorkerStructure, FaultsTyped DEF TypeOK, broker
  <1>3. CASE Finalize
    BY <1>3, WorkerStructure, FaultsTyped DEF Finalize, Publish, EndEvent, TypeOK, broker
  <1>4. CASE Recover
    BY <1>4, WorkerStructure DEF Recover, Publish, EndEvent, TypeOK, broker, Terminal
  <1>5. CASE CopySubs
    BY <1>5, WorkerStructure DEF CopySubs, TypeOK, broker, job
  <1>6. ASSUME NEW s \in Streams, Send(s) PROVE Structure'
    <2>1. /\ chan' = IF Len(chan[s]) < Buffer THEN [chan EXCEPT ![s] = Append(@, event)] ELSE chan
          /\ to' \subseteq Streams /\ pc' \in {then, "send"}
          /\ UNCHANGED <<job, step, outcome, event, then, subs, handler, link, tabs, panicked, faults>>
      BY <1>6 DEF Send, TypeOK
    <2>2. chan' \in [Streams -> Seq(StepEvent \cup EndEvent)]
      BY <2>1
    <2>3. \A x \in Streams : chan'[x] \in Seq(Event) /\ Len(chan'[x]) <= Buffer
      <3>1. Len(Append(chan[s], event)) = Len(chan[s]) + 1 /\ Len(chan[s]) \in Nat
        BY DEF TypeOK
      <3> QED BY <2>1, <2>2, <3>1, Wider, JobStreamAssumption DEF TypeOK
    <2> QED BY <2>1, <2>2, <2>3, WorkerStructure DEF TypeOK, job
  <1> QED BY <1>1, <1>2, <1>3, <1>4, <1>5, <1>6 DEF WorkerStep

LEMMA PanicTypes ==
  ASSUME Structure, NEW s \in Streams, Panic(s)
  PROVE  Structure'
  <1> USE DEF Structure
  <1>1. /\ panicked' = TRUE /\ to' = {} /\ pc' \in {"over", "finish"} /\ outcome' \in {outcome, "failed"}
        /\ UNCHANGED <<job, step, event, then, tabs, faults>>
    BY DEF Panic
  <1>2. CASE outcome # "partial"
    <2>1. UNCHANGED <<broker, handler, link>>
      BY <1>2 DEF Panic
    <2>2. /\ row' \in [Steps -> StepStatus \cup {"none"}] /\ status' \in Terminal \cup {"running"}
          /\ pc' \in {"append", "call", "finish", "copy", "send", "over"}
          /\ step' \in Steps /\ event' \in StepEvent \cup EndEvent
          /\ then' \in {"append", "call", "finish", "over"} /\ to' \subseteq Streams
          /\ panicked' \in BOOLEAN /\ faults' \in 0..MaxFaults
      BY <1>1 DEF TypeOK, job
    <2>3. outcome' \in Terminal
      BY <1>1 DEF TypeOK, Terminal
    <2>4. /\ chan' \in [Streams -> Seq(StepEvent \cup EndEvent)]
          /\ \A x \in Streams : chan'[x] \in Seq(Event) /\ Len(chan'[x]) <= Buffer
      BY <2>1 DEF TypeOK, broker
    <2>5. UNCHANGED <<subs, handler, link, tabs>>
      BY <1>1, <2>1 DEF broker
    <2> QED BY <2>2, <2>3, <2>4, <2>5, WorkerStructure
  <1>3. CASE outcome = "partial"
    <2>1. Return(Connected)
      BY <1>3 DEF Panic, Connected
    <2> DEFINE L == {x \in Streams : at'[x] \in Live}
    <2>2. /\ at' \in [Streams -> Live \cup {"new", "closed"}]
          /\ chan' \in [Streams -> Seq(StepEvent \cup EndEvent)]
          /\ \A x \in Streams : chan'[x] \in Seq(Event) /\ Len(chan'[x]) <= Buffer
          /\ backlog' \in [Streams -> Seq(StepEvent)]
          /\ \A x \in Streams : backlog'[x] \in Seq(Event)
          /\ from' \in [Streams -> Steps \cup {-1}]
          /\ subs' \subseteq subs /\ link' \subseteq link /\ UNCHANGED <<owner, blind>>
          /\ conns' \in 0..MaxPerUser /\ conns' = Cardinality(L)
          /\ \A x \in link' : at'[x] \in Live
          /\ \A x \in Streams : at'[x] # "new" => owner'[x] \in Tabs
          /\ blind' \subseteq {x \in Streams : at'[x] # "new"}
      <3>1. Connected \in SUBSET Connected
        OBVIOUS
      <3>2. Structure
        OBVIOUS
      <3>3. /\ at' \in [Streams -> Live \cup {"new", "closed"}]
            /\ chan' \in [Streams -> Seq(StepEvent \cup EndEvent)]
            /\ \A x \in Streams : chan'[x] \in Seq(Event) /\ Len(chan'[x]) <= Buffer
            /\ backlog' \in [Streams -> Seq(StepEvent)]
            /\ \A x \in Streams : backlog'[x] \in Seq(Event)
            /\ from' \in [Streams -> Steps \cup {-1}]
        BY ONLY <2>1, <3>1, <3>2, Returning
      <3>4. subs' \subseteq subs /\ link' \subseteq link /\ UNCHANGED <<owner, blind>>
        BY ONLY <2>1, <3>1, <3>2, Returning, Zenon
      <3>5. conns' \in 0..MaxPerUser /\ conns' = Cardinality(L)
        BY ONLY <2>1, <3>1, <3>2, Returning
      <3>6. \A x \in link' : at'[x] \in Live
        BY ONLY <2>1, <3>1, <3>2, Returning
      <3>7. \A x \in Streams : at'[x] # "new" => owner'[x] \in Tabs
        BY ONLY <2>1, <3>1, <3>2, Returning
      <3>8. blind' \subseteq {x \in Streams : at'[x] # "new"}
        BY ONLY <2>1, <3>1, <3>2, Returning
      <3> QED BY <3>3, <3>4, <3>5, <3>6, <3>7, <3>8
    <2>3. TypeOK'
      BY <1>1, <2>2 DEF TypeOK, job, tabs, Terminal
    <2> QED BY <1>1, <2>2, <2>3
  <1> QED BY <1>2, <1>3

\* What a tab has after an event was written to a stream of it.
LEMMA Delivered ==
  ASSUME Structure, NEW s \in Streams, at[s] \in Live, NEW e \in StepEvent, Deliver(s, e)
  PROVE  /\ seen' \in [Tabs -> [Steps -> StepStatus \cup {"none"}]]
         /\ lastID' \in [Tabs -> Steps \cup {-1}] /\ ended' = ended
         /\ s \notin link => seen' = seen /\ lastID' = lastID
         /\ s \in link => /\ seen'[owner[s]][e.seq] # "none" /\ lastID'[owner[s]] = e.seq
                          /\ \A k \in Steps \ {e.seq} : seen'[owner[s]][k] = seen[owner[s]][k]
         /\ \A t \in Tabs : t # owner[s] => seen'[t] = seen[t] /\ lastID'[t] = lastID[t]
  <1> USE DEF Structure
  <1>1. owner[s] \in Tabs
    BY DEF Live
  <1>2. e.seq \in Steps /\ e.status \in StepStatus /\ e.status # "none"
    BY DEF StepEvent, StepStatus
  <1>3. CASE s \notin link
    BY <1>3 DEF Deliver, tabs, TypeOK
  <1>4. CASE s \in link
    <2>1. /\ seen' = [seen EXCEPT ![owner[s]] = [@ EXCEPT ![e.seq] = e.status]]
          /\ lastID' = [lastID EXCEPT ![owner[s]] = e.seq] /\ ended' = ended
      BY <1>4 DEF Deliver
    <2>2. seen[owner[s]] \in [Steps -> StepStatus \cup {"none"}]
      BY <1>1 DEF TypeOK
    <2>3. [seen[owner[s]] EXCEPT ![e.seq] = e.status] \in [Steps -> StepStatus \cup {"none"}]
      BY <1>2, <2>2
    <2>4. seen' \in [Tabs -> [Steps -> StepStatus \cup {"none"}]]
      BY <2>1, <2>3 DEF TypeOK
    <2> QED BY <1>1, <1>2, <1>4, <2>1, <2>2, <2>4 DEF TypeOK
  <1> QED BY <1>3, <1>4

\* The tab is told the end, or nothing.
LEMMA Finished ==
  ASSUME Structure, NEW s \in Streams, at[s] \in Live, NEW f \in Terminal, Done(s, f)
  PROVE  ended' \in [Tabs -> Terminal \cup {"no"}] /\ seen' = seen /\ lastID' = lastID
  BY DEF Structure, Done, TypeOK, Terminal, Live

\* What the replay reads: the rows from there on, in their order.
LEMMA ReadInOrder ==
  ASSUME NEW s \in Streams, Replay(s)
  PROVE  LET rows == {k \in Steps : Replayed(s, k)} IN
           \/ backlog' = [backlog EXCEPT ![s] = [i \in 1..Cardinality(rows) |->
                            [seq |-> Ranked(rows, i), status |-> row[Ranked(rows, i)]]]]
           \/ blind' = blind \cup {s} /\ backlog' = backlog
  <1> DEFINE rows == {k \in Steps : Replayed(s, k)}
             nth(i) == CHOOSE k \in rows : Cardinality({j \in rows : j < k}) = i - 1
  <1>1. \A i : nth(i) = Ranked(rows, i)
    BY DEF Ranked, Below
  <1>2. \/ backlog' = [backlog EXCEPT ![s] = [i \in 1..Cardinality(rows) |->
                                               [seq |-> nth(i), status |-> row[nth(i)]]]]
        \/ blind' = blind \cup {s} /\ backlog' = backlog
    BY DEF Replay
  <1> HIDE DEF nth
  <1> QED BY <1>1, <1>2

LEMMA ListIsSeq ==
  ASSUME NEW S, NEW n \in Nat, NEW q \in [1..n -> S]
  PROVE  q \in Seq(S) /\ Len(q) = n
  <1>1. Len(q) = n
    OBVIOUS
  <1>2. q \in Seq(S)
    BY <1>1
  <1> QED BY <1>1, <1>2

\* Types after a step of a stream that touches none of the others' data.
LEMMA StreamTypes ==
  ASSUME Structure, UNCHANGED <<job, worker, panicked>>, faults' \in 0..MaxFaults,
         subs' \subseteq Streams, link' \subseteq Streams,
         chan' \in [Streams -> Seq(StepEvent \cup EndEvent)],
         \A s \in Streams : chan'[s] \in Seq(Event) /\ Len(chan'[s]) <= Buffer,
         at' \in [Streams -> Live \cup {"new", "closed"}],
         owner' \in [Streams -> Tabs \cup {None}], from' \in [Streams -> Steps \cup {-1}],
         backlog' \in [Streams -> Seq(StepEvent)],
         conns' \in 0..MaxPerUser, blind' \subseteq Streams,
         seen' \in [Tabs -> [Steps -> StepStatus \cup {"none"}]],
         lastID' \in [Tabs -> Steps \cup {-1}], ended' \in [Tabs -> Terminal \cup {"no"}],
         \A s \in Streams : at'[s] # "new" => owner'[s] \in Tabs,
         \A s \in link' : at'[s] \in Live,
         blind' \subseteq {s \in Streams : at'[s] # "new"},
         conns' = Cardinality({s \in Streams : at'[s] \in Live})
  PROVE  Structure'
  <1>1. \A s \in Streams : backlog'[s] \in Seq(Event)
    BY Wider
  <1>2. TypeOK'
    BY <1>1 DEF Structure, TypeOK, job, worker
  <1> QED BY <1>2 DEF Structure, worker

\* Types after handlers return.
LEMMA ReturnTyped ==
  ASSUME Structure, NEW gone \in SUBSET Connected, Return(gone),
         UNCHANGED <<job, worker, panicked>>, faults' \in 0..MaxFaults,
         UNCHANGED <<seen, lastID>>, ended' \in [Tabs -> Terminal \cup {"no"}]
  PROVE  Structure'
  <1> DEFINE L == {x \in Streams : at'[x] \in Live}
  <1>1. /\ at' \in [Streams -> Live \cup {"new", "closed"}]
        /\ chan' \in [Streams -> Seq(StepEvent \cup EndEvent)]
        /\ \A x \in Streams : chan'[x] \in Seq(Event) /\ Len(chan'[x]) <= Buffer
        /\ backlog' \in [Streams -> Seq(StepEvent)]
        /\ from' \in [Streams -> Steps \cup {-1}]
        /\ subs' \subseteq subs /\ link' \subseteq link /\ UNCHANGED <<owner, blind>>
        /\ conns' \in 0..MaxPerUser /\ conns' = Cardinality(L)
        /\ \A x \in link' : at'[x] \in Live
        /\ \A x \in Streams : at'[x] # "new" => owner'[x] \in Tabs
        /\ blind' \subseteq {x \in Streams : at'[x] # "new"}
    BY Returning
  <1>2. /\ owner' \in [Streams -> Tabs \cup {None}] /\ subs' \subseteq Streams /\ link' \subseteq Streams
        /\ blind' \subseteq Streams
        /\ seen' \in [Tabs -> [Steps -> StepStatus \cup {"none"}]] /\ lastID' \in [Tabs -> Steps \cup {-1}]
    BY <1>1 DEF Structure, TypeOK
  <1> QED BY <1>1, <1>2, StreamTypes

\* A stream that stays connected.
LEMMA SameConnected ==
  ASSUME Structure, NEW s \in Streams, at[s] \in Live, NEW p \in Live, at' = [at EXCEPT ![s] = p]
  PROVE  /\ at' \in [Streams -> Live \cup {"new", "closed"}]
         /\ \A x \in Streams : at'[x] # "new" <=> at[x] # "new"
         /\ \A x \in Streams : at[x] \in Live => at'[x] \in Live
         /\ {x \in Streams : at'[x] \in Live} = {x \in Streams : at[x] \in Live}
  BY DEF Structure, TypeOK, Live

\* A handler that only moves on, and may read the rows and fail.
LEMMA MovedOn ==
  ASSUME Structure, NEW s \in Streams, at[s] \in Live, NEW p \in Live, at' = [at EXCEPT ![s] = p],
         UNCHANGED <<job, worker, broker, owner, from, conns, link, tabs, panicked>>,
         faults' \in 0..MaxFaults, blind' \subseteq blind \cup {s},
         backlog' \in [Streams -> Seq(StepEvent)]
  PROVE  Structure'
  <1>1. /\ at' \in [Streams -> Live \cup {"new", "closed"}]
        /\ \A x \in Streams : at'[x] # "new" <=> at[x] # "new"
        /\ \A x \in Streams : at[x] \in Live => at'[x] \in Live
        /\ {x \in Streams : at'[x] \in Live} = {x \in Streams : at[x] \in Live}
    BY SameConnected
  <1>2. at[s] # "new"
    BY DEF Live
  <1>3. /\ subs' \subseteq Streams /\ link' \subseteq Streams
        /\ chan' \in [Streams -> Seq(StepEvent \cup EndEvent)]
        /\ \A x \in Streams : chan'[x] \in Seq(Event) /\ Len(chan'[x]) <= Buffer
    BY DEF Structure, TypeOK, broker
  <1>4. /\ owner' \in [Streams -> Tabs \cup {None}] /\ from' \in [Streams -> Steps \cup {-1}]
        /\ conns' \in 0..MaxPerUser /\ blind' \subseteq Streams
    BY DEF Structure, TypeOK
  <1>5. /\ seen' \in [Tabs -> [Steps -> StepStatus \cup {"none"}]]
        /\ lastID' \in [Tabs -> Steps \cup {-1}] /\ ended' \in [Tabs -> Terminal \cup {"no"}]
    BY DEF Structure, TypeOK, tabs
  <1>6. \A x \in Streams : at'[x] # "new" => owner'[x] \in Tabs
    BY <1>1 DEF Structure
  <1>7. \A x \in link' : at'[x] \in Live
    BY <1>1, <1>3 DEF Structure
  <1>8. blind' \subseteq {x \in Streams : at'[x] # "new"}
    BY <1>1, <1>2 DEF Structure
  <1>9. conns' = Cardinality({x \in Streams : at'[x] \in Live})
    BY <1>1 DEF Structure
  <1> QED BY <1>1, <1>3, <1>4, <1>5, <1>6, <1>7, <1>8, <1>9, StreamTypes

LEMMA StreamTyped ==
  ASSUME Structure, NEW s \in Streams,
         StreamStep(s) \/ Drop(s) \/ \E t \in Tabs : Connect(t, s)
  PROVE  Structure'
  <1> USE DEF Structure
  <1>0. /\ Live = {"subscribe", "replay", "write", "check", "loop"}
        /\ \A x \in Streams : /\ chan[x] \in Seq(Event) /\ Len(chan[x]) <= Buffer
                              /\ chan[x] \in Seq(StepEvent \cup EndEvent)
                              /\ backlog[x] \in Seq(StepEvent)
    BY DEF Live, TypeOK
  <1>1. ASSUME NEW t \in Tabs, Connect(t, s) PROVE Structure'
    <2>1. at[s] = "new" /\ at' = [at EXCEPT ![s] = "subscribe"] /\ conns' = conns + 1 /\ conns < MaxPerUser
          /\ owner' = [owner EXCEPT ![s] = t] /\ from' = [from EXCEPT ![s] = lastID[t]]
          /\ link' = link \cup {s}
          /\ UNCHANGED <<job, worker, broker, backlog, blind, tabs, panicked, faults>>
      BY <1>1 DEF Connect, HasSlot
    <2>2. {x \in Streams : at'[x] \in Live} = Connected \cup {s} /\ s \notin Connected
      BY <2>1 DEF TypeOK, Live, Connected
    <2>3. conns' = Cardinality({x \in Streams : at'[x] \in Live})
      <3>1. Connected \in SUBSET Streams
        BY DEF Connected
      <3>2. IsFiniteSet(Connected)
        BY <3>1, ConnectedFinite
      <3>3. Cardinality(Connected \cup {s}) = Cardinality(Connected) + 1
        BY <2>2, <3>2, FS_AddElement
      <3> QED BY <2>1, <2>2, <3>3 DEF Connected
    <2>4. conns' \in 0..MaxPerUser
      BY <2>1, JobStreamAssumption DEF TypeOK
    <2>5. /\ at' \in [Streams -> Live \cup {"new", "closed"}]
          /\ owner' \in [Streams -> Tabs \cup {None}] /\ from' \in [Streams -> Steps \cup {-1}]
          /\ \A x \in Streams : at'[x] # "new" => owner'[x] \in Tabs
          /\ \A x \in link' : at'[x] \in Live
          /\ blind' \subseteq {x \in Streams : at'[x] # "new"}
      BY <2>1 DEF TypeOK, Live
    <2> QED BY <1>0, <2>1, <2>3, <2>4, <2>5, StreamTypes DEF TypeOK, broker, tabs
  <1>2. CASE Subscribe(s)
    <2>1. at[s] \in Live /\ at' = [at EXCEPT ![s] = "replay"] /\ subs' = subs \cup {s}
          /\ UNCHANGED <<job, worker, chan, owner, from, backlog, conns, blind, link, tabs, panicked, faults>>
      BY <1>2 DEF Subscribe, Live
    <2>2. "replay" \in Live
      BY DEF Live
    <2> QED BY <1>0, <2>1, <2>2, SameConnected, StreamTypes DEF TypeOK, tabs
  <1>3. CASE Replay(s)
    <2>1. at[s] \in Live /\ at' = [at EXCEPT ![s] = "write"] /\ blind' \subseteq blind \cup {s}
          /\ UNCHANGED <<job, worker, broker, owner, from, conns, link, tabs, panicked>>
          /\ (Fault \/ NoFault) /\ (blind' = blind \/ backlog' = backlog)
      BY <1>3 DEF Replay, Live
    <2>2. "write" \in Live
      BY DEF Live
    <2>3. backlog' \in [Streams -> Seq(StepEvent)]
      <3>1. CASE backlog' = backlog
        BY <3>1
      <3>2. CASE blind' = blind
        <4> DEFINE rows == {k \in Steps : Replayed(s, k)}
                   q == [i \in 1..Cardinality(rows) |->
                          [seq |-> Ranked(rows, i), status |-> row[Ranked(rows, i)]]]
        <4>1. rows \in SUBSET Nat /\ IsFiniteSet(rows) /\ Cardinality(rows) \in Nat
          <5>1. rows \in SUBSET (0..(NumSteps - 1)) /\ 0 \in Int /\ NumSteps - 1 \in Int
            BY JobStreamAssumption DEF Steps
          <5>2. IsFiniteSet(0..(NumSteps - 1))
            BY <5>1, FS_Interval
          <5>3. IsFiniteSet(rows)
            BY <5>1, <5>2, FS_Subset
          <5> QED BY <5>1, <5>3, FS_CardinalityType
        <4>2. \A i \in 1..Cardinality(rows) : Ranked(rows, i) \in rows
          BY <4>1, RankedInOrder
        <4>3. \A k \in rows : k \in Steps /\ row[k] \in StepStatus
          BY DEF Replayed, TypeOK
        <4>4. \A i \in 1..Cardinality(rows) : q[i] \in StepEvent
          BY <4>2, <4>3 DEF StepEvent
        <4>5. q \in Seq(StepEvent)
          <5>1. q \in [1..Cardinality(rows) -> StepEvent]
            BY <4>4
          <5> HIDE DEF q, rows
          <5> QED BY <4>1, <5>1, ListIsSeq
        <4>6. backlog' = [backlog EXCEPT ![s] = q] \/ backlog' = backlog
          BY <1>3, ReadInOrder
        <4> HIDE DEF q
        <4> QED BY <4>5, <4>6
      <3> QED BY <2>1, <3>1, <3>2
    <2>4. faults' \in 0..MaxFaults
      BY <2>1, FaultsTyped
    <2> QED BY <2>1, <2>2, <2>3, <2>4, MovedOn
  <1>4. CASE WriteReplay(s)
    <2>1. at[s] \in Live /\ UNCHANGED <<job, worker, broker, owner, from, conns, blind, link, panicked, faults>>
      BY <1>4 DEF WriteReplay, Live
    <2>2. CASE backlog[s] = <<>>
      <3>1. at' = [at EXCEPT ![s] = "check"] /\ UNCHANGED <<backlog, tabs>> /\ "check" \in Live
        BY <1>4, <2>2 DEF WriteReplay, Live
      <3>2. /\ faults' \in 0..MaxFaults /\ blind' \subseteq blind \cup {s}
            /\ backlog' \in [Streams -> Seq(StepEvent)]
        BY <2>1, <3>1 DEF TypeOK
      <3> QED BY <2>1, <3>1, <3>2, MovedOn
    <2>3. CASE backlog[s] # <<>>
      <3>1. Deliver(s, Head(backlog[s])) /\ backlog' = [backlog EXCEPT ![s] = Tail(@)] /\ at' = at
        BY <1>4, <2>3 DEF WriteReplay
      <3>2. Head(backlog[s]) \in StepEvent /\ Tail(backlog[s]) \in Seq(StepEvent)
        BY <2>3
      <3>3. /\ seen' \in [Tabs -> [Steps -> StepStatus \cup {"none"}]]
            /\ lastID' \in [Tabs -> Steps \cup {-1}] /\ ended' = ended
        BY <2>1, <3>1, <3>2, Delivered
      <3>4. backlog' \in [Streams -> Seq(StepEvent)]
        BY <3>1, <3>2
      <3> QED BY <1>0, <2>1, <3>1, <3>3, <3>4, StreamTypes DEF TypeOK, broker
    <2> QED BY <2>2, <2>3
  <1>5. CASE CheckStatus(s)
    <2>1. at[s] \in Live /\ UNCHANGED <<job, worker, panicked>> /\ (Fault \/ NoFault) /\ at[s] # "new"
      BY <1>5 DEF CheckStatus, Live
    <2>2. CASE Over /\ Done(s, status) /\ Return({s})
      <3>1. {s} \in SUBSET Connected
        BY <2>1 DEF Connected
      <3>2. ended' \in [Tabs -> Terminal \cup {"no"}] /\ seen' = seen /\ lastID' = lastID
        BY <2>1, <2>2, Finished DEF Over
      <3> QED BY <2>1, <2>2, <3>1, <3>2, ReturnTyped, FaultsTyped
    <2>3. CASE /\ at' = [at EXCEPT ![s] = "loop"] /\ blind' \subseteq blind \cup {s}
               /\ UNCHANGED <<broker, owner, from, backlog, conns, link, tabs>>
      <3>1. "loop" \in Live
        BY DEF Live
      <3>2. faults' \in 0..MaxFaults /\ backlog' \in [Streams -> Seq(StepEvent)]
        BY <2>1, <2>3, FaultsTyped
      <3> QED BY <2>1, <2>3, <3>1, <3>2, MovedOn
    <2> QED BY <1>5, <2>2, <2>3 DEF CheckStatus
  <1>6. CASE Forward(s)
    <2>1. at[s] \in Live /\ UNCHANGED <<job, worker, panicked, faults>> /\ chan[s] # <<>>
      BY <1>6 DEF Forward, Live
    <2>2. Head(chan[s]) \in StepEvent \cup EndEvent /\ Tail(chan[s]) \in Seq(StepEvent \cup EndEvent)
          /\ Len(Tail(chan[s])) <= Buffer
      BY <1>0, <2>1, JobStreamAssumption
    <2>3. CASE Head(chan[s]).seq = End
      <3>1. Done(s, Head(chan[s]).status) /\ Return({s})
        BY <1>6, <2>3 DEF Forward
      <3>2. {s} \in SUBSET Connected
        BY <2>1 DEF Connected
      <3>3. Head(chan[s]).status \in Terminal
        BY <2>2, <2>3, JobStreamAssumption DEF StepEvent, EndEvent, Steps, End
      <3>4. ended' \in [Tabs -> Terminal \cup {"no"}] /\ seen' = seen /\ lastID' = lastID
        BY <2>1, <3>1, <3>3, Finished
      <3>5. faults' \in 0..MaxFaults
        BY <2>1 DEF TypeOK
      <3> QED BY <2>1, <3>1, <3>2, <3>4, <3>5, ReturnTyped
    <2>4. CASE Head(chan[s]).seq # End
      <3>1. Deliver(s, Head(chan[s])) /\ chan' = [chan EXCEPT ![s] = Tail(@)]
            /\ UNCHANGED <<subs, handler, link>>
        BY <1>6, <2>4 DEF Forward
      <3>2. Head(chan[s]) \in StepEvent
        BY <2>2, <2>4 DEF EndEvent
      <3>3. /\ seen' \in [Tabs -> [Steps -> StepStatus \cup {"none"}]]
            /\ lastID' \in [Tabs -> Steps \cup {-1}] /\ ended' = ended
        BY <2>1, <3>1, <3>2, Delivered
      <3>4. chan' \in [Streams -> Seq(StepEvent \cup EndEvent)]
        BY <2>2, <3>1
      <3>5. \A x \in Streams : chan'[x] \in Seq(Event) /\ Len(chan'[x]) <= Buffer
        BY <1>0, <2>2, <3>1, Wider DEF TypeOK
      <3> QED BY <2>1, <3>1, <3>3, <3>4, <3>5, StreamTypes DEF TypeOK, handler
    <2> QED BY <2>3, <2>4
  <1>7. CASE ClientGone(s)
    <2>1. {s} \in SUBSET Connected /\ Return({s}) /\ UNCHANGED <<job, worker, tabs, panicked, faults>>
      BY <1>7 DEF ClientGone, Connected, Live
    <2>2. faults' \in 0..MaxFaults /\ UNCHANGED <<seen, lastID>> /\ ended' \in [Tabs -> Terminal \cup {"no"}]
      BY <2>1 DEF TypeOK, tabs
    <2> QED BY <2>1, <2>2, ReturnTyped
  <1>8. CASE Drop(s)
    BY <1>0, <1>8, StreamTypes DEF Drop, TypeOK, broker, handler, tabs
  <1> QED BY <1>1, <1>2, <1>3, <1>4, <1>5, <1>6, <1>7, <1>8 DEF StreamStep


-----------------------------------------------------------------------------
(* Flow: what the worker does                                              *)

\* The numbers that Flow compares.
LEMMA Numbers ==
  ASSUME Structure
  PROVE  /\ NumSteps \in Nat /\ NumSteps >= 1 /\ Buffer \in Nat
         /\ \A k \in Steps : k \in Nat /\ k < NumSteps
         /\ step \in Nat /\ step < NumSteps
         /\ event.seq \in Nat /\ event.seq <= NumSteps
         /\ NextSeq \in Nat /\ NextSeq <= NumSteps
         /\ Rank \in Nat
         /\ \A s \in Streams : /\ Len(chan[s]) \in Nat
                               /\ from[s] \in Int
                               /\ \A i \in 1..Len(chan[s]) : chan[s][i].seq \in Nat /\ chan[s][i].seq <= NumSteps
                               /\ Len(backlog[s]) \in Nat
                               /\ \A i \in 1..Len(backlog[s]) : backlog[s][i].seq \in Steps
         /\ \A t \in Tabs : lastID[t] \in Int
  <1> USE DEF Structure
  <1>1. /\ NumSteps \in Nat /\ NumSteps >= 1 /\ Buffer \in Nat
        /\ \A k \in Steps : k \in Nat /\ k < NumSteps
        /\ step \in Nat /\ step < NumSteps
    BY JobStreamAssumption DEF Steps, TypeOK
  <1>2. \A e \in StepEvent \cup EndEvent : e.seq \in Nat /\ e.seq <= NumSteps
    BY <1>1 DEF StepEvent, EndEvent, End
  <1>3. NextPc \in {"append", "call", "finish", "over"}
    BY DEF NextPc, TypeOK
  <1>4. NextSeq \in Nat /\ NextSeq <= NumSteps /\ Rank \in Nat
    BY <1>1, <1>3 DEF NextSeq, Rank, End
  <1>5. ASSUME NEW s \in Streams
        PROVE  /\ Len(chan[s]) \in Nat /\ from[s] \in Int
               /\ \A i \in 1..Len(chan[s]) : chan[s][i].seq \in Nat /\ chan[s][i].seq <= NumSteps
               /\ Len(backlog[s]) \in Nat
               /\ \A i \in 1..Len(backlog[s]) : backlog[s][i].seq \in Steps
    <2>1. chan[s] \in Seq(StepEvent \cup EndEvent) /\ backlog[s] \in Seq(StepEvent)
          /\ from[s] \in Steps \cup {-1}
      BY DEF TypeOK
    <2>2. \A i \in 1..Len(chan[s]) : chan[s][i] \in StepEvent \cup EndEvent
      BY <2>1
    <2>3. \A i \in 1..Len(backlog[s]) : backlog[s][i] \in StepEvent
      BY <2>1
    <2>4. \A i \in 1..Len(backlog[s]) : backlog[s][i].seq \in Steps
      BY <2>3 DEF StepEvent
    <2> QED BY <1>1, <1>2, <2>1, <2>2, <2>4
  <1>6. \A t \in Tabs : lastID[t] \in Int
    <2> SUFFICES ASSUME NEW t \in Tabs PROVE lastID[t] \in Int
      OBVIOUS
    <2>1. lastID[t] \in Steps \/ lastID[t] = -1
      BY DEF TypeOK
    <2> QED BY <1>1, <2>1
  <1> QED BY <1>1, <1>2, <1>4, <1>5, <1>6

LEMMA NumbersAfter ==
  ASSUME Structure'
  PROVE  event'.seq \in Nat /\ NextSeq' \in Nat /\ Rank' \in Nat
  <1>1. NumSteps \in Nat /\ step' \in Nat /\ step' < NumSteps
    BY JobStreamAssumption DEF Structure, Steps, TypeOK
  <1>2. event'.seq \in Nat
    BY <1>1 DEF Structure, StepEvent, EndEvent, End, Steps
  <1>3. NextPc' \in {"append", "call", "finish", "over"}
    BY DEF NextPc, Structure, TypeOK
  <1>4. NextSeq' \in Nat /\ Rank' \in Nat
    BY <1>1, <1>3 DEF NextSeq, Rank, End
  <1> QED BY <1>2, <1>4

\* A step of the worker that publishes or skips: a new row is the last one and is published, the
\* end is published with the final status, and what may still come gets less by what is published.
LEMMA Published ==
  ASSUME Structure, Structure', Flow, ~Publishing,
         UNCHANGED <<to, broker, handler, link, tabs>>,
         WorkerTrue', pc' \in {"copy", "append", "call", "finish", "over"},
         \A k \in Steps : row[k] # "none" => row'[k] # "none",
         \A k \in Steps : row[k] = "none" /\ row'[k] # "none" =>
            /\ pc' = "copy" /\ event'.seq = k
            /\ \A j \in Steps : row[j] # "none" => j < k,
         status' \in Terminal => pc' = "copy" /\ event'.seq = End,
         NextSeq <= IF Publishing' THEN event'.seq ELSE NextSeq',
         Rank' + (IF pc' = "copy" THEN 1 ELSE 0) <= Rank
  PROVE  Flow'
  <1> USE DEF Flow
  <1>1. UNCHANGED <<subs, chan, at, owner, from, backlog, conns, blind, link, seen, lastID, to>>
    BY DEF broker, handler, tabs
  <1>2. to = {} /\ to' = {} /\ \A s : ~Pending(s)
    BY <1>1 DEF WorkerTrue, Publishing, Pending
  <1>3. \A s : Pending(s)' <=> pc' = "copy"
    BY <1>2 DEF Pending
  <1>4. ASSUME NEW s \in Streams PROVE ChannelTrue(s)'
    <2>1. \A i, j \in 1..Len(chan'[s]) : i < j => chan'[s][i].seq <= chan'[s][j].seq
      BY <1>1 DEF ChannelTrue
    <2>2. ASSUME NEW i \in 1..Len(chan'[s])
          PROVE  /\ chan'[s][i].seq <= IF Publishing' THEN event'.seq ELSE NextSeq'
                 /\ chan'[s][i].seq # End => row'[chan'[s][i].seq] # "none"
      <3>1. chan[s][i].seq <= NextSeq /\ (chan[s][i].seq # End => row[chan[s][i].seq] # "none")
        BY <1>1 DEF ChannelTrue
      <3>2. chan[s][i].seq \in Nat /\ chan[s][i].seq <= NumSteps /\ NumSteps \in Nat
        BY <1>1, Numbers
      <3>3. NextSeq \in Nat /\ NextSeq' \in Nat /\ event'.seq \in Nat
        BY Numbers, NumbersAfter
      <3>4. chan[s][i].seq # End => chan[s][i].seq \in Steps
        BY <3>2 DEF Steps, End
      <3> QED BY <1>1, <3>1, <3>2, <3>3, <3>4
    <2>3. Len(chan'[s]) + Rank' + (IF Pending(s)' THEN 1 ELSE 0) <= 2 * NumSteps + 2
      <3>1. Len(chan[s]) + Rank + 0 <= 2 * NumSteps + 2
        BY <1>2 DEF ChannelTrue
      <3>2. Rank \in Nat /\ Rank' \in Nat /\ Len(chan[s]) \in Nat /\ NumSteps \in Nat
        BY Numbers, NumbersAfter
      <3>3. Rank' + (IF pc' = "copy" THEN 1 ELSE 0) <= Rank
        OBVIOUS
      <3>4. (IF Pending(s)' THEN 1 ELSE 0) = IF pc' = "copy" THEN 1 ELSE 0
        BY <1>3
      <3>5. Len(chan[s]) + Rank' + (IF pc' = "copy" THEN 1 ELSE 0) <= 2 * NumSteps + 2
        <4> DEFINE a == Len(chan[s])
                   b == Rank
                   c == Rank'
                   d == IF pc' = "copy" THEN 1 ELSE 0
        <4>1. a \in Nat /\ b \in Nat /\ c \in Nat /\ d \in Nat /\ NumSteps \in Nat
          BY <3>2
        <4>2. a + b + 0 <= 2 * NumSteps + 2 /\ c + d <= b
          BY <3>1, <3>3
        <4> HIDE DEF a, b, c, d
        <4>3. a + c + d <= 2 * NumSteps + 2
          BY <4>1, <4>2
        <4> QED BY <4>3 DEF a, c, d
      <3> QED BY <1>1, <3>4, <3>5
    <2>4. at'[s] \in Reading => s \in subs'
      BY <1>1 DEF ChannelTrue
    <2> QED BY <2>1, <2>2, <2>3, <2>4 DEF ChannelTrue
  <1>5. ASSUME NEW s \in Streams PROVE BacklogTrue(s)'
    <2>1. from[s] # -1 => from[s] \in Steps
      BY DEF Structure, TypeOK
    <2>2. \A i \in 1..Len(backlog[s]) : backlog[s][i].seq \in Steps
      BY Numbers
    <2> QED BY <1>1, <2>1, <2>2 DEF BacklogTrue
  <1>6. ASSUME NEW s \in Streams PROVE StreamTrue(s)'
    <2>1. ASSUME s \in link', Sighted(owner[s])', NEW k \in Steps, row'[k] # "none"
          PROVE  Seen(s, k)' \/ Reaches(s, k)'
      <3>1. s \in link /\ Sighted(owner[s])
        BY <1>1, <2>1 DEF Sighted
      <3>2. CASE row[k] # "none"
        <4>1. Seen(s, k) \/ Reaches(s, k)
          BY <3>1, <3>2 DEF StreamTrue
        <4>2. Coming(s, k) => Coming(s, k)'
          BY <1>1, <1>2 DEF Coming, InChannel
        <4>3. InBacklog(s, k) <=> InBacklog(s, k)'
          BY <1>1 DEF InBacklog
        <4> QED BY <1>1, <4>1, <4>2, <4>3 DEF Seen, Reaches
      <3>3. CASE row[k] = "none"
        <4>1. pc' = "copy" /\ event'.seq = k /\ \A j \in Steps : row[j] # "none" => j < k
          BY <2>1, <3>3
        <4>2. Coming(s, k)'
          BY <4>1 DEF Coming, Pending
        <4>3. from[s] < k
          <5>1. from[s] \in Steps \cup {-1} /\ (from[s] # -1 => row[from[s]] # "none")
            BY DEF Structure, TypeOK, BacklogTrue
          <5>2. k \in Nat
            BY Numbers
          <5>3. CASE from[s] = -1
            BY <5>2, <5>3
          <5>4. CASE from[s] \in Steps /\ from[s] # -1
            BY <4>1, <5>1, <5>4
          <5> QED BY <5>1, <5>3, <5>4
        <4>4. \A i \in 1..Len(backlog[s]) : backlog[s][i].seq < k
          <5>1. \A i \in 1..Len(backlog[s]) : backlog[s][i].seq \in Steps
            BY Numbers
          <5> QED BY <4>1, <5>1 DEF BacklogTrue
        <4>5. k \in Nat /\ from[s] \in Int
          BY Numbers
        <4>6. k > from[s]
          BY <4>3, <4>5
        <4> QED BY <1>1, <4>2, <4>4, <4>6 DEF Reaches
      <3> QED BY <3>2, <3>3
    <2>2. status' \in Terminal => Coming(s, End)'
      BY DEF Coming, Pending
    <2> QED BY <2>1, <2>2 DEF StreamTrue
  <1>7. ASSUME NEW t \in Tabs PROVE TabTrue(t)'
    <2>1. lastID[t] \in Steps \cup {-1} /\ lastID[t] \in Int
      BY Numbers DEF Structure, TypeOK
    <2>2. lastID[t] # -1 => row[lastID[t]] # "none" /\ row'[lastID[t]] # "none"
      BY <2>1 DEF TabTrue
    <2>3. ASSUME NEW k \in Steps, k <= lastID[t], row'[k] # "none" PROVE row[k] # "none"
      <3>1. SUFFICES ASSUME row[k] = "none" PROVE FALSE
        OBVIOUS
      <3>2. \A j \in Steps : row[j] # "none" => j < k
        BY <2>3, <3>1
      <3>3. k \in Nat
        BY Numbers
      <3>4. lastID[t] \in Steps /\ lastID[t] < k
        BY <2>1, <2>2, <2>3, <3>2, <3>3
      <3> QED BY <2>1, <2>3, <3>3, <3>4
    <2>4. Sighted(t)' => Sighted(t)
      BY <1>1 DEF Sighted
    <2> QED BY <1>1, <2>2, <2>3, <2>4 DEF TabTrue
  <1> QED BY <1>4, <1>5, <1>6, <1>7

LEMMA AppendFlow ==
  ASSUME Structure, Structure', Flow, AppendStep
  PROVE  Flow'
  <1>0. /\ step \in Steps /\ NumSteps \in Nat /\ step \in Nat /\ step < NumSteps
        /\ \A k \in Steps : k \in Nat
    BY Numbers DEF Structure, TypeOK
  <1>1. /\ pc = "append" /\ UNCHANGED <<status, step, outcome, to, broker, handler, link, tabs>>
        /\ \/ /\ row' = [row EXCEPT ![step] = "running"]
              /\ event' = [seq |-> step, status |-> "running"] /\ then' = "call" /\ pc' = "copy"
           \/ row' = row /\ event' = event /\ then' = then /\ pc' = "call"
    BY DEF AppendStep, Publish, Skip
  <1>2. /\ to = {} /\ status \notin Terminal
        /\ \A k \in Steps : row[k] # "none" => k < step
    <2>1. WorkerTrue
      BY DEF Flow
    <2> QED BY <1>0, <1>1, <2>1 DEF WorkerTrue, NextPc
  <1>3. NextPc = "append" /\ NextPc' = "call" /\ ~Publishing /\ (Publishing' <=> pc' = "copy")
    BY <1>1 DEF NextPc, Publishing
  <1>4. NextSeq = step /\ NextSeq' = step
    BY <1>1, <1>3 DEF NextSeq
  <1>5. Rank = 2 * (NumSteps - step) + 2 /\ Rank' = 2 * (NumSteps - step) + 1
    BY <1>1, <1>3 DEF Rank
  <1>6. row \in [Steps -> StepStatus \cup {"none"}]
    BY DEF Structure, TypeOK
  <1>7. WorkerTrue'
    BY <1>0, <1>1, <1>2, <1>3, <1>4, <1>6 DEF WorkerTrue, End
  <1> QED BY <1>0, <1>1, <1>2, <1>3, <1>4, <1>5, <1>6, <1>7, Published

LEMMA FinishFlow ==
  ASSUME Structure, Structure', Flow, FinishStep
  PROVE  Flow'
  <1>0. /\ step \in Steps /\ NumSteps \in Nat /\ step \in Nat /\ step < NumSteps
        /\ \A k \in Steps : k \in Nat
    BY Numbers DEF Structure, TypeOK
  <1>1. pc = "call" /\ UNCHANGED <<status, to, broker, handler, link, tabs>>
    BY DEF FinishStep
  <1>2. PICK result \in {"succeeded", "failed"} :
          \E next \in {"append", "finish"} :
            /\ next = "append" => step + 1 \in Steps
            /\ step' = IF next = "append" THEN step + 1 ELSE step
            /\ \/ /\ row[step] # "none"
                  /\ row' \in {row, [row EXCEPT ![step] = result]}
                  /\ event'.seq = step /\ then' = next /\ pc' = "copy"
               \/ /\ row' = row \/ (row[step] # "none" /\ row' = [row EXCEPT ![step] = result])
                  /\ event' = event /\ then' = then /\ pc' = next
    BY DEF FinishStep, Publish, Skip
  <1>3. PICK next \in {"append", "finish"} :
            /\ next = "append" => step + 1 \in Steps
            /\ step' = IF next = "append" THEN step + 1 ELSE step
            /\ \/ /\ row[step] # "none"
                  /\ row' \in {row, [row EXCEPT ![step] = result]}
                  /\ event'.seq = step /\ then' = next /\ pc' = "copy"
               \/ /\ row' = row \/ (row[step] # "none" /\ row' = [row EXCEPT ![step] = result])
                  /\ event' = event /\ then' = then /\ pc' = next
    BY <1>2
  <1>4. /\ to = {} /\ status \notin Terminal
        /\ \A k \in Steps : row[k] # "none" => k < step \/ k = step
    <2>1. WorkerTrue
      BY DEF Flow
    <2> QED BY <1>0, <1>1, <2>1 DEF WorkerTrue
  <1>5. NextPc = "call" /\ NextPc' = next /\ ~Publishing /\ (Publishing' <=> pc' = "copy")
    BY <1>1, <1>3 DEF NextPc, Publishing
  <1>6. NextSeq = step /\ NextSeq' = IF next = "append" THEN step + 1 ELSE NumSteps
    BY <1>3, <1>5 DEF NextSeq, End
  <1>7. Rank = 2 * (NumSteps - step) + 1
        /\ Rank' = IF next = "append" THEN 2 * (NumSteps - (step + 1)) + 2 ELSE 2
    BY <1>3, <1>5 DEF Rank
  <1>8. /\ \A k \in Steps : row[k] # "none" <=> row'[k] # "none"
        /\ next = "append" => step' = step + 1
        /\ next # "append" => step' = step
    <2>1. row \in [Steps -> StepStatus \cup {"none"}]
      BY DEF Structure, TypeOK
    <2> QED BY <1>3, <2>1
  <1>9. WorkerTrue'
    <2>1. \A k \in Steps : row'[k] # "none" => k < step' \/ (k = step' /\ NextPc' # "append")
      BY <1>0, <1>3, <1>4, <1>5, <1>8
    <2>2. to' = {} /\ pc' # "send" /\ status' \notin Terminal
      BY <1>1, <1>3, <1>4
    <2>3. Publishing' => event'.seq = step /\ row'[step] # "none"
      BY <1>0, <1>3, <1>5, <1>8
    <2>4. step # End /\ step <= NextSeq'
      BY <1>0, <1>6 DEF End
    <2> QED BY <2>1, <2>2, <2>3, <2>4 DEF WorkerTrue
  <1>10. NextSeq <= IF Publishing' THEN event'.seq ELSE NextSeq'
    BY <1>0, <1>3, <1>5, <1>6
  <1>11. Rank' + (IF pc' = "copy" THEN 1 ELSE 0) <= Rank
    BY <1>0, <1>7
  <1>12. status' \notin Terminal /\ pc' \in {"copy", "append", "call", "finish", "over"}
    BY <1>1, <1>3, <1>4
  <1> QED BY <1>1, <1>5, <1>8, <1>9, <1>10, <1>11, <1>12, Published

LEMMA EndFlow ==
  ASSUME Structure, Structure', Flow, Finalize \/ Recover
  PROVE  Flow'
  <1>0. NumSteps \in Nat /\ \A k \in Steps : k \in Nat /\ k < NumSteps
    BY Numbers
  <1>1. /\ pc = "finish" \/ (pc = "over" /\ status = "running" /\ status' # "running")
        /\ UNCHANGED <<row, step, to, broker, handler, link, tabs>>
        /\ event'.seq = End /\ then' = "over" /\ pc' = "copy"
    BY DEF Finalize, Recover, Publish
  <1>2. /\ to = {}
        /\ \A k \in Steps : row[k] # "none" => k < step \/ k = step
    <2>1. WorkerTrue
      BY DEF Flow
    <2> QED BY <1>0, <1>1, <2>1 DEF WorkerTrue
  <1>3. NextPc = pc /\ NextPc' = "over" /\ ~Publishing /\ Publishing'
    BY <1>1 DEF NextPc, Publishing
  <1>4. NextSeq = End /\ NextSeq' = End
    BY <1>1, <1>3 DEF NextSeq
  <1>5. /\ pc = "finish" => Rank = 2
        /\ pc = "over" => Rank = 1 /\ Rank' = 0
        /\ Rank' \in {0, 1}
    BY <1>1, <1>3 DEF Rank
  <1>6. WorkerTrue'
    BY <1>0, <1>1, <1>2, <1>3, <1>4 DEF WorkerTrue, End
  <1>7. NextSeq <= IF Publishing' THEN event'.seq ELSE NextSeq'
    BY <1>0, <1>1, <1>3, <1>4 DEF End
  <1>8. Rank' + (IF pc' = "copy" THEN 1 ELSE 0) <= Rank
    BY <1>1, <1>5
  <1> QED BY <1>1, <1>3, <1>6, <1>7, <1>8, Published

LEMMA CopyFlow ==
  ASSUME Structure, Structure', Flow, CopySubs
  PROVE  Flow'
  <1> USE DEF Flow
  <1>1. /\ pc = "copy" /\ to' = subs /\ pc' = IF subs = {} THEN then ELSE "send"
        /\ UNCHANGED <<row, status, step, outcome, event, then, subs, chan, at, owner, from, backlog,
                       conns, blind, link, seen, lastID>>
    BY DEF CopySubs, job, broker, handler, tabs
  <1>2. then \in {"append", "call", "finish", "over"}
    BY DEF Structure, TypeOK
  <1>3. NextPc = then /\ NextPc' = then /\ Publishing
    BY <1>1, <1>2 DEF NextPc, Publishing
  <1>4. NextSeq' = NextSeq /\ Rank' = Rank
    BY <1>1, <1>3 DEF NextSeq, Rank
  <1>5. /\ event.seq \in Nat /\ NextSeq \in Nat /\ Rank \in Nat /\ NumSteps \in Nat
        /\ event.seq <= NextSeq
    BY <1>3, Numbers DEF WorkerTrue
  <1>6. WorkerTrue'
    <2>1. to' # {} <=> pc' = "send"
      BY <1>1, <1>2
    <2>2. Publishing' => Publishing
      BY <1>3
    <2>3. status' \in Terminal => pc' \in {"copy", "send", "over"} /\ then' = "over"
      BY <1>1, <1>2 DEF WorkerTrue
    <2> QED BY <1>1, <1>3, <1>4, <2>1, <2>2, <2>3 DEF WorkerTrue
  <1>7. ASSUME NEW s \in Streams PROVE Pending(s) /\ (Pending(s)' <=> s \in subs)
    BY <1>1, <1>2 DEF Pending
  <1>8. ASSUME NEW s \in Streams PROVE ChannelTrue(s)'
    <2>1. \A i \in 1..Len(chan'[s]) : chan'[s][i].seq <= IF Publishing' THEN event'.seq ELSE NextSeq'
      <3> SUFFICES ASSUME NEW i \in 1..Len(chan[s])
                   PROVE  chan[s][i].seq <= event.seq /\ chan[s][i].seq <= NextSeq
        BY <1>1, <1>4
      <3>1. chan[s][i].seq \in Nat /\ chan[s][i].seq <= event.seq
        BY <1>3, Numbers DEF ChannelTrue
      <3> QED BY <1>5, <3>1
    <2>2. Len(chan'[s]) + Rank' + (IF Pending(s)' THEN 1 ELSE 0) <= 2 * NumSteps + 2
      <3>1. Len(chan[s]) + Rank + 1 <= 2 * NumSteps + 2 /\ Len(chan[s]) \in Nat
        BY <1>7, Numbers DEF ChannelTrue
      <3>2. Len(chan[s]) + Rank + 0 <= 2 * NumSteps + 2
        BY <1>5, <3>1
      <3> QED BY <1>1, <1>4, <3>1, <3>2
    <2> QED BY <1>1, <2>1, <2>2 DEF ChannelTrue
  <1>9. ASSUME NEW s \in Streams PROVE BacklogTrue(s)'
    BY <1>1 DEF BacklogTrue
  <1>10. ASSUME NEW s \in Streams PROVE StreamTrue(s)'
    <2>1. at[s] \in Reading => s \in subs /\ Pending(s)'
      BY <1>1, <1>7 DEF ChannelTrue
    <2>2. ASSUME at[s] \in Reading, NEW k, Coming(s, k) PROVE Coming(s, k)'
      BY <1>1, <2>1, <2>2 DEF Coming, InChannel
    <2>3. ASSUME NEW k \in Steps, Reaches(s, k) PROVE Reaches(s, k)'
      BY <1>1, <2>2, <2>3 DEF Reaches, InBacklog, Reading
    <2>4. Sighted(owner[s])' => Sighted(owner[s])
      BY <1>1 DEF Sighted
    <2>5. at[s] = "loop" => (Coming(s, End) => Coming(s, End)')
      BY <2>2 DEF Reading
    <2> QED BY <1>1, <2>3, <2>4, <2>5 DEF StreamTrue, Seen
  <1>11. ASSUME NEW t \in Tabs PROVE TabTrue(t)'
    BY <1>1 DEF TabTrue, Sighted
  <1> QED BY <1>6, <1>8, <1>9, <1>10, <1>11

LEMMA SendFlow ==
  ASSUME Structure, Structure', Flow, Roomy, NEW s \in Streams, Send(s)
  PROVE  Flow'
  <1> USE DEF Flow
  <1>1. /\ pc = "send" /\ s \in to /\ to' = to \ {s} /\ pc' = IF to' = {} THEN then ELSE "send"
        /\ UNCHANGED <<row, status, step, outcome, event, then, subs, at, owner, from, backlog,
                       conns, blind, link, seen, lastID>>
    BY DEF Send, job, handler, tabs
  <1>2. then \in {"append", "call", "finish", "over"}
    BY DEF Structure, TypeOK
  <1>3. NextPc = then /\ NextPc' = then /\ Publishing
    BY <1>1, <1>2 DEF NextPc, Publishing
  <1>4. NextSeq' = NextSeq /\ Rank' = Rank
    BY <1>1, <1>3 DEF NextSeq, Rank
  <1>5. /\ event.seq \in Nat /\ NextSeq \in Nat /\ Rank \in Nat /\ NumSteps \in Nat /\ Buffer \in Nat
        /\ event.seq <= NextSeq
    BY <1>3, Numbers DEF WorkerTrue
  <1>6. WorkerTrue'
    <2>1. to' # {} <=> pc' = "send"
      BY <1>1, <1>2
    <2>2. Publishing' => Publishing
      BY <1>3
    <2>3. status' \in Terminal => pc' \in {"copy", "send", "over"} /\ then' = "over"
      BY <1>1, <1>2 DEF WorkerTrue
    <2> QED BY <1>1, <1>3, <1>4, <2>1, <2>2, <2>3 DEF WorkerTrue
  <1>7. /\ Pending(s) /\ ~Pending(s)'
        /\ \A x \in Streams \ {s} : Pending(x)' <=> Pending(x)
    BY <1>1, <1>2 DEF Pending
  <1>8. \* The budget leaves a place for the event.
        chan' = [chan EXCEPT ![s] = Append(@, event)]
    <2>1. Len(chan[s]) + Rank + 1 <= 2 * NumSteps + 2 /\ Len(chan[s]) \in Nat
      BY <1>7, Numbers DEF ChannelTrue
    <2>2. Len(chan[s]) < Buffer
      BY <1>5, <2>1 DEF Roomy
    <2> QED BY <2>2 DEF Send
  <1>9. /\ chan[s] \in Seq(StepEvent \cup EndEvent) /\ chan \in [Streams -> Seq(StepEvent \cup EndEvent)]
        /\ event \in StepEvent \cup EndEvent
    BY DEF Structure
  <1>10. /\ \A x \in Streams \ {s} : chan'[x] = chan[x]
         /\ chan'[s] = Append(chan[s], event)
         /\ Len(chan[s]) \in Nat /\ Len(chan'[s]) = Len(chan[s]) + 1
         /\ \A i \in 1..Len(chan[s]) : chan'[s][i] = chan[s][i]
         /\ chan'[s][Len(chan[s]) + 1] = event
    <2>1. chan'[s] = Append(chan[s], event) /\ \A x \in Streams \ {s} : chan'[x] = chan[x]
      BY <1>8, <1>9
    <2> QED BY <1>9, <2>1
  <1>11. ASSUME NEW x \in Streams, NEW k, Coming(x, k) PROVE Coming(x, k)'
    <2>1. CASE x # s
      BY <1>1, <1>7, <1>10, <1>11, <2>1 DEF Coming, InChannel
    <2>2. CASE x = s
      <3>1. InChannel(s, k) => InChannel(s, k)'
        BY <1>10 DEF InChannel
      <3>2. event.seq = k => InChannel(s, k)'
        BY <1>10 DEF InChannel
      <3> QED BY <1>11, <2>2, <3>1, <3>2 DEF Coming
    <2> QED BY <2>1, <2>2
  <1>12. ASSUME NEW x \in Streams PROVE ChannelTrue(x)'
    <2>1. ASSUME NEW i \in 1..Len(chan[x])
          PROVE  /\ chan[x][i].seq \in Nat /\ chan[x][i].seq <= event.seq /\ chan[x][i].seq <= NextSeq
                 /\ chan[x][i].seq # End => row[chan[x][i].seq] # "none"
      <3>1. chan[x][i].seq \in Nat /\ chan[x][i].seq <= event.seq
        BY <1>3, Numbers DEF ChannelTrue
      <3>2. chan[x][i].seq # End => row[chan[x][i].seq] # "none"
        BY DEF ChannelTrue
      <3>3. chan[x][i].seq <= NextSeq
        BY <1>5, <3>1
      <3> QED BY <3>1, <3>2, <3>3
    <2>2. at'[x] \in Reading => x \in subs'
      BY <1>1 DEF ChannelTrue
    <2>3. CASE x # s
      BY <1>1, <1>4, <1>7, <1>10, <2>1, <2>2, <2>3 DEF ChannelTrue
    <2>4. CASE x = s
      <3>1. \A i, j \in 1..Len(chan'[s]) : i < j => chan'[s][i].seq <= chan'[s][j].seq
        <4> SUFFICES ASSUME NEW i \in 1..Len(chan'[s]), NEW j \in 1..Len(chan'[s]), i < j
                     PROVE  chan'[s][i].seq <= chan'[s][j].seq
          OBVIOUS
        <4>1. i \in 1..Len(chan[s])
          BY <1>10
        <4>2. CASE j \in 1..Len(chan[s])
          BY <1>10, <4>1, <4>2 DEF ChannelTrue
        <4>3. CASE j = Len(chan[s]) + 1
          BY <1>10, <2>1, <2>4, <4>1, <4>3
        <4> QED BY <1>10, <4>2, <4>3
      <3>2. ASSUME NEW i \in 1..Len(chan'[s])
            PROVE  /\ chan'[s][i].seq <= IF Publishing' THEN event'.seq ELSE NextSeq'
                   /\ chan'[s][i].seq # End => row'[chan'[s][i].seq] # "none"
        <4>1. CASE i \in 1..Len(chan[s])
          BY <1>1, <1>4, <1>10, <2>1, <2>4, <4>1
        <4>2. CASE i = Len(chan[s]) + 1
          <5>1. event.seq # End => row[event.seq] # "none"
            BY <1>3 DEF WorkerTrue
          <5> QED BY <1>1, <1>4, <1>5, <1>10, <4>2, <5>1
        <4> QED BY <1>10, <4>1, <4>2
      <3>3. Len(chan'[s]) + Rank' + (IF Pending(s)' THEN 1 ELSE 0) <= 2 * NumSteps + 2
        <4>1. Len(chan[s]) + Rank + 1 <= 2 * NumSteps + 2
          BY <1>7 DEF ChannelTrue
        <4>2. (Len(chan[s]) + 1) + Rank + 0 <= 2 * NumSteps + 2
          BY <1>5, <1>10, <4>1
        <4> QED BY <1>4, <1>7, <1>10, <4>2
      <3> QED BY <2>2, <2>4, <3>1, <3>2, <3>3 DEF ChannelTrue
    <2> QED BY <2>3, <2>4
  <1>13. ASSUME NEW x \in Streams PROVE BacklogTrue(x)'
    BY <1>1 DEF BacklogTrue
  <1>14. ASSUME NEW x \in Streams PROVE StreamTrue(x)'
    <2>1. ASSUME NEW k \in Steps, Reaches(x, k) PROVE Reaches(x, k)'
      BY <1>1, <1>11, <2>1 DEF Reaches, InBacklog
    <2>2. Sighted(owner[x])' => Sighted(owner[x])
      BY <1>1 DEF Sighted
    <2>3. Coming(x, End) => Coming(x, End)'
      BY <1>11
    <2> QED BY <1>1, <2>1, <2>2, <2>3 DEF StreamTrue, Seen
  <1>15. ASSUME NEW t \in Tabs PROVE TabTrue(t)'
    BY <1>1 DEF TabTrue, Sighted
  <1> QED BY <1>6, <1>12, <1>13, <1>14, <1>15

-----------------------------------------------------------------------------
(* Flow: what the streams and the tabs do                                  *)

\* A step that leaves the worker, the job and the broker's channels alone.
LEMMA WorkerStays ==
  ASSUME Flow, UNCHANGED <<job, worker>>
  PROVE  /\ WorkerTrue' /\ NextSeq' = NextSeq /\ Rank' = Rank /\ Publishing' = Publishing
         /\ UNCHANGED <<row, status, pc, step, event, then, to>>
         /\ \A s \in Streams : Pending(s)' = Pending(s)
  BY DEF Flow, WorkerTrue, NextPc, NextSeq, Rank, Publishing, Pending, job, worker

LEMMA ChannelStays ==
  ASSUME Flow, UNCHANGED <<job, worker>>, NEW s \in Streams, chan'[s] = chan[s],
         at'[s] \in Reading => s \in subs'
  PROVE  ChannelTrue(s)'
  <1>1. ChannelTrue(s)
    BY DEF Flow
  <1>2. row' = row /\ event' = event
    BY WorkerStays
  <1>3. (IF Publishing' THEN event'.seq ELSE NextSeq') = IF Publishing THEN event.seq ELSE NextSeq
    BY <1>2, WorkerStays
  <1>4. (IF Pending(s)' THEN 1 ELSE 0) = IF Pending(s) THEN 1 ELSE 0
    BY WorkerStays
  <1>5. Rank' = Rank
    BY WorkerStays
  <1> QED BY <1>1, <1>2, <1>3, <1>4, <1>5 DEF ChannelTrue

\* A stream that is left alone, whatever else happens to the tabs and to the other streams.
LEMMA StreamStays ==
  ASSUME Flow, UNCHANGED <<job, worker>>, NEW s \in Streams,
         chan'[s] = chan[s], at'[s] = at[s], from'[s] = from[s], backlog'[s] = backlog[s],
         owner'[s] = owner[s],
         s \in link' => s \in link, s \in subs => s \in subs', s \in blind => s \in blind',
         Sighted(owner[s])' => Sighted(owner[s]),
         s \in link' => \A k \in Steps : Seen(s, k) => Seen(s, k)'
  PROVE  ChannelTrue(s)' /\ BacklogTrue(s)' /\ StreamTrue(s)'
  <1>1. ChannelTrue(s) /\ BacklogTrue(s) /\ StreamTrue(s)
    BY DEF Flow
  <1>2. row' = row /\ status' = status /\ event' = event
    BY WorkerStays
  <1>3. ChannelTrue(s)'
    BY <1>1, ChannelStays DEF ChannelTrue
  <1>4. \A k : Coming(s, k)' <=> Coming(s, k)
    BY <1>2, WorkerStays DEF Coming, InChannel
  <1>5. \A k : InBacklog(s, k)' <=> InBacklog(s, k)
    BY DEF InBacklog
  <1>6. \A k : Reaches(s, k)' <=> Reaches(s, k)
    BY <1>4, <1>5 DEF Reaches
  <1>7. StreamTrue(s)'
    BY <1>1, <1>2, <1>4, <1>6 DEF StreamTrue
  <1> QED BY <1>1, <1>2, <1>3, <1>7 DEF BacklogTrue

\* A tab that is left alone.
LEMMA TabStays ==
  ASSUME Flow, UNCHANGED <<job, worker>>, NEW t \in Tabs, seen'[t] = seen[t], lastID'[t] = lastID[t],
         Sighted(t)' => Sighted(t)
  PROVE  TabTrue(t)'
  BY WorkerStays DEF Flow, TabTrue

LEMMA ReturnFlow ==
  ASSUME Structure, Flow, NEW gone \in SUBSET Connected, Return(gone),
         UNCHANGED <<job, worker, seen, lastID>>
  PROVE  Flow'
  <1>1. /\ \A s \in Streams : /\ at'[s] = IF s \in gone THEN "closed" ELSE at[s]
                              /\ chan'[s] = IF s \in gone THEN <<>> ELSE chan[s]
                              /\ backlog'[s] = IF s \in gone THEN <<>> ELSE backlog[s]
                              /\ from'[s] = IF s \in gone THEN -1 ELSE from[s]
        /\ subs' = subs \ gone /\ link' = link \ gone /\ owner' = owner /\ blind' = blind
    BY Returning
  <1>2. \A t : Sighted(t)' <=> Sighted(t)
    BY <1>1 DEF Sighted
  <1>3. ASSUME NEW s \in Streams, s \notin gone
        PROVE  ChannelTrue(s)' /\ BacklogTrue(s)' /\ StreamTrue(s)'
    <2>1. /\ chan'[s] = chan[s] /\ at'[s] = at[s] /\ from'[s] = from[s] /\ backlog'[s] = backlog[s]
          /\ owner'[s] = owner[s] /\ (s \in link' => s \in link) /\ (s \in subs => s \in subs')
          /\ (s \in blind => s \in blind')
      BY <1>1, <1>3
    <2>2. \A k \in Steps : Seen(s, k) => Seen(s, k)'
      BY <1>1 DEF Seen
    <2>3. Sighted(owner[s])' => Sighted(owner[s])
      BY <1>1 DEF Sighted
    <2> QED BY <2>1, <2>2, <2>3, StreamStays
  <1>4. ASSUME NEW s \in Streams, s \in gone
        PROVE  ChannelTrue(s)' /\ BacklogTrue(s)' /\ StreamTrue(s)'
    <2>1. at'[s] = "closed" /\ chan'[s] = <<>> /\ backlog'[s] = <<>> /\ from'[s] = -1 /\ s \notin link'
      BY <1>1, <1>4
    <2>2. Len(chan'[s]) = 0 /\ Len(backlog'[s]) = 0
      BY <2>1
    <2>3. Len(chan'[s]) + Rank' + (IF Pending(s)' THEN 1 ELSE 0) <= 2 * NumSteps + 2
      <3>1. Len(chan[s]) + Rank + (IF Pending(s) THEN 1 ELSE 0) <= 2 * NumSteps + 2
        BY DEF Flow, ChannelTrue
      <3>2. Len(chan[s]) \in Nat /\ Rank \in Nat /\ NumSteps \in Nat
        BY Numbers
      <3>3. 0 + Rank + (IF Pending(s) THEN 1 ELSE 0) <= 2 * NumSteps + 2
        <4> DEFINE a == Len(chan[s])
                   b == Rank
                   c == IF Pending(s) THEN 1 ELSE 0
        <4>1. a \in Nat /\ b \in Nat /\ c \in Nat /\ NumSteps \in Nat
          BY <3>2
        <4>2. a + b + c <= 2 * NumSteps + 2
          BY <3>1
        <4> HIDE DEF a, b, c
        <4>3. 0 + b + c <= 2 * NumSteps + 2
          BY <4>1, <4>2
        <4> QED BY <4>3 DEF b, c
      <3>4. Rank' = Rank /\ (IF Pending(s)' THEN 1 ELSE 0) = IF Pending(s) THEN 1 ELSE 0
        BY WorkerStays
      <3> QED BY <2>2, <3>3, <3>4
    <2>4. ChannelTrue(s)'
      BY <2>1, <2>2, <2>3 DEF ChannelTrue, Reading
    <2>5. BacklogTrue(s)'
      BY <2>1, <2>2 DEF BacklogTrue
    <2>6. StreamTrue(s)'
      BY <2>1 DEF StreamTrue
    <2> QED BY <2>4, <2>5, <2>6
  <1>5. ASSUME NEW t \in Tabs PROVE TabTrue(t)'
    BY <1>2, TabStays
  <1> QED BY <1>3, <1>4, <1>5, WorkerStays DEF Flow

LEMMA ConnectFlow ==
  ASSUME Structure, Flow, NEW s \in Streams, NEW t \in Tabs, Connect(t, s)
  PROVE  Flow'
  <1>1. /\ at[s] = "new" /\ at' = [at EXCEPT ![s] = "subscribe"]
        /\ owner' = [owner EXCEPT ![s] = t] /\ from' = [from EXCEPT ![s] = lastID[t]]
        /\ link' = link \cup {s}
        /\ UNCHANGED <<job, worker, subs, chan, backlog, blind, seen, lastID>>
    BY DEF Connect, broker, tabs
  <1>2. s \notin blind /\ s \in DOMAIN at /\ s \in DOMAIN owner /\ s \in DOMAIN from
    BY <1>1 DEF Structure, TypeOK
  <1>3. /\ at'[s] = "subscribe" /\ owner'[s] = t /\ from'[s] = lastID[t]
        /\ \A x \in Streams \ {s} : at'[x] = at[x] /\ owner'[x] = owner[x] /\ from'[x] = from[x]
    BY <1>1, <1>2
  <1>4. \A u : Sighted(u)' <=> Sighted(u)
    BY <1>1, <1>2, <1>3 DEF Sighted, Structure
  <1>5. ASSUME NEW x \in Streams, x # s PROVE ChannelTrue(x)' /\ BacklogTrue(x)' /\ StreamTrue(x)'
    <2>1. \A k \in Steps : Seen(x, k) => Seen(x, k)'
      BY <1>1, <1>3, <1>5 DEF Seen
    <2>2. Sighted(owner[x])' => Sighted(owner[x])
      BY <1>1, <1>2, <1>3, <1>4, <1>5 DEF Sighted, Structure
    <2> QED BY <1>1, <1>3, <1>5, <2>1, <2>2, StreamStays
  <1>6. ChannelTrue(s)'
    BY <1>1, <1>3, ChannelStays DEF Reading
  <1>7. BacklogTrue(s)'
    <2>1. BacklogTrue(s) /\ TabTrue(t)
      BY DEF Flow
    <2> QED BY <1>1, <1>3, <2>1, WorkerStays DEF BacklogTrue, TabTrue
  <1>8. StreamTrue(s)'
    <2>1. ASSUME Sighted(owner[s])', NEW k \in Steps, row'[k] # "none"
          PROVE  Seen(s, k)' \/ Reaches(s, k)'
      <3>1. Sighted(t) /\ row[k] # "none"
        BY <1>1, <1>3, <1>4, <2>1, WorkerStays
      <3>2. k <= lastID[t] => seen[t][k] # "none"
        BY <3>1 DEF Flow, TabTrue
      <3>3. k \in Nat /\ lastID[t] \in Int
        BY Numbers
      <3>4. k <= lastID[t] => Seen(s, k)'
        BY <1>1, <1>3, <3>2 DEF Seen
      <3>5. k > lastID[t] => Reaches(s, k)'
        BY <1>3 DEF Reaches
      <3> QED BY <3>3, <3>4, <3>5
    <2> QED BY <1>1, <1>3, <2>1 DEF StreamTrue
  <1>9. ASSUME NEW u \in Tabs PROVE TabTrue(u)'
    BY <1>1, <1>4, TabStays
  <1> QED BY <1>1, <1>5, <1>6, <1>7, <1>8, <1>9, WorkerStays DEF Flow

LEMMA SubscribeFlow ==
  ASSUME Structure, Flow, NEW s \in Streams, Subscribe(s)
  PROVE  Flow'
  <1>1. /\ at[s] = "subscribe" /\ at' = [at EXCEPT ![s] = "replay"] /\ subs' = subs \cup {s}
        /\ UNCHANGED <<job, worker, chan, owner, from, backlog, blind, link, seen, lastID>>
    BY DEF Subscribe, tabs
  <1>2. /\ at'[s] = "replay" /\ \A x \in Streams \ {s} : at'[x] = at[x]
    BY <1>1 DEF Structure, TypeOK
  <1>3. \A u : Sighted(u)' <=> Sighted(u)
    BY <1>1 DEF Sighted
  <1>4. \A x \in Streams, k \in Steps : Seen(x, k)' <=> Seen(x, k)
    BY <1>1 DEF Seen
  <1>5. ASSUME NEW x \in Streams, x # s PROVE ChannelTrue(x)' /\ BacklogTrue(x)' /\ StreamTrue(x)'
    <2>1. Sighted(owner[x])' => Sighted(owner[x])
      BY <1>1 DEF Sighted
    <2> QED BY <1>1, <1>2, <1>4, <1>5, <2>1, StreamStays
  <1>6. ChannelTrue(s)'
    BY <1>1, ChannelStays
  <1>7. BacklogTrue(s)'
    BY <1>1, WorkerStays DEF Flow, BacklogTrue
  <1>8. StreamTrue(s)'
    <2>1. StreamTrue(s) /\ (Sighted(owner[s])' => Sighted(owner[s])) /\ row' = row
      BY <1>1, WorkerStays DEF Flow, Sighted
    <2>2. \A k \in Steps : Reaches(s, k) => Reaches(s, k)'
      BY <1>1, <1>2 DEF Reaches
    <2> QED BY <1>1, <1>2, <1>4, <2>1, <2>2 DEF StreamTrue
  <1>9. ASSUME NEW u \in Tabs PROVE TabTrue(u)'
    BY <1>1, <1>3, TabStays
  <1> QED BY <1>1, <1>5, <1>6, <1>7, <1>8, <1>9, WorkerStays DEF Flow

\* The connection breaks: the tab's list is what it was, and the stream owes it nothing.
LEMMA DropFlow ==
  ASSUME Structure, Flow, NEW s \in Streams, Drop(s)
  PROVE  Flow'
  <1>1. /\ link' = link \ {s}
        /\ UNCHANGED <<job, worker, subs, chan, at, owner, from, backlog, blind, seen, lastID>>
    BY DEF Drop, broker, handler, tabs
  <1>2. \A u : Sighted(u)' <=> Sighted(u)
    BY <1>1 DEF Sighted
  <1>3. ASSUME NEW x \in Streams PROVE ChannelTrue(x)' /\ BacklogTrue(x)' /\ StreamTrue(x)'
    <2>1. Sighted(owner[x])' => Sighted(owner[x])
      BY <1>1 DEF Sighted
    <2>2. \A k \in Steps : Seen(x, k) => Seen(x, k)'
      BY <1>1 DEF Seen
    <2> QED BY <1>1, <2>1, <2>2, StreamStays
  <1>4. ASSUME NEW u \in Tabs PROVE TabTrue(u)'
    BY <1>1, <1>2, TabStays
  <1> QED BY <1>1, <1>3, <1>4, WorkerStays DEF Flow

LEMMA ReplayFlow ==
  ASSUME Structure, Flow, NEW s \in Streams, Replay(s)
  PROVE  Flow'
  <1> DEFINE rows == {k \in Steps : Replayed(s, k)}
             q == [i \in 1..Cardinality(rows) |->
                    [seq |-> Ranked(rows, i), status |-> row[Ranked(rows, i)]]]
  <1>1. /\ at[s] = "replay" /\ at' = [at EXCEPT ![s] = "write"]
        /\ UNCHANGED <<job, worker, subs, chan, owner, from, link, seen, lastID>>
        /\ blind' = blind \/ (blind' = blind \cup {s} /\ backlog' = backlog)
    BY DEF Replay, broker, tabs
  <1>2. /\ at'[s] = "write" /\ \A x \in Streams \ {s} : at'[x] = at[x]
    BY <1>1 DEF Structure, TypeOK
  <1>3. \A u : Sighted(u)' => Sighted(u)
    BY <1>1 DEF Sighted
  <1>4. \A x \in Streams, k \in Steps : Seen(x, k)' <=> Seen(x, k)
    BY <1>1 DEF Seen
  <1>5. /\ s \in blind'
           \/ backlog'[s] = q
        /\ backlog'[s] \in {q, backlog[s]}
        /\ \A x \in Streams \ {s} : backlog'[x] = backlog[x]
    <2>1. DOMAIN backlog = Streams
      BY DEF Structure
    <2>2. \/ backlog' = [backlog EXCEPT ![s] = q]
          \/ blind' = blind \cup {s} /\ backlog' = backlog
      BY ReadInOrder
    <2> HIDE DEF q
    <2> QED BY <2>1, <2>2
  <1>6. ASSUME NEW x \in Streams, x # s PROVE ChannelTrue(x)' /\ BacklogTrue(x)' /\ StreamTrue(x)'
    <2>1. Sighted(owner[x])' => Sighted(owner[x])
      BY <1>1 DEF Sighted
    <2>2. x \in link' => \A k \in Steps : Seen(x, k) => Seen(x, k)'
      BY <1>4
    <2> QED BY <1>1, <1>2, <1>5, <1>6, <2>1, <2>2, StreamStays
  <1>7. ChannelTrue(s)'
    <2>1. ChannelTrue(s)
      BY DEF Flow
    <2>2. s \in subs'
      BY <1>1, <2>1 DEF ChannelTrue, Reading
    <2> QED BY <1>1, <2>2, ChannelStays
  <1>8. /\ rows \in SUBSET Nat /\ IsFiniteSet(rows) /\ Cardinality(rows) \in Nat
    <2>1. rows \in SUBSET (0..(NumSteps - 1)) /\ 0 \in Int /\ NumSteps - 1 \in Int
      BY JobStreamAssumption DEF Steps
    <2>2. IsFiniteSet(0..(NumSteps - 1))
      BY <2>1, FS_Interval
    <2>3. IsFiniteSet(rows)
      BY <2>1, <2>2, FS_Subset
    <2> QED BY <2>1, <2>3, FS_CardinalityType
  <1>9. /\ \A i \in 1..Cardinality(rows) : Ranked(rows, i) \in rows
        /\ \A k \in rows : \E i \in 1..Cardinality(rows) : Ranked(rows, i) = k
        /\ \A i, j \in 1..Cardinality(rows) : i < j => Ranked(rows, i) < Ranked(rows, j)
    BY <1>8, RankedInOrder
  <1>10. /\ Len(q) = Cardinality(rows)
         /\ \A i \in 1..Len(q) : q[i].seq = Ranked(rows, i)
    BY <1>8
  <1>11. \A k \in rows : k \in Steps /\ k > from[s] /\ row[k] # "none"
    BY DEF Replayed
  <1>12. row' = row
    BY <1>1, WorkerStays
  <1>13. BacklogTrue(s)'
    <2>1. BacklogTrue(s)
      BY DEF Flow
    <2>2. CASE backlog'[s] = q
      <3>1. \A i, j \in 1..Len(q) : i < j => q[i].seq < q[j].seq
        BY <1>9, <1>10
      <3>2. \A i \in 1..Len(q) : row[q[i].seq] # "none"
        BY <1>9, <1>10, <1>11
      <3> HIDE DEF q
      <3> QED BY <1>1, <1>12, <2>1, <2>2, <3>1, <3>2 DEF BacklogTrue
    <2>3. CASE backlog'[s] = backlog[s]
      BY <1>1, <1>12, <2>1, <2>3 DEF BacklogTrue
    <2> QED BY <1>5, <2>2, <2>3
  <1>14. StreamTrue(s)'
    <2>1. ASSUME s \in link', Sighted(owner[s])', NEW k \in Steps, row'[k] # "none"
          PROVE  Seen(s, k)' \/ Reaches(s, k)'
      <3>1. s \in link /\ Sighted(owner[s]) /\ s \notin blind' /\ row[k] # "none"
        BY <1>1, <1>12, <2>1 DEF Sighted
      <3>2. backlog'[s] = q
        BY <1>5, <3>1
      <3>3. Seen(s, k) \/ k > from[s]
        <4>1. StreamTrue(s)
          BY DEF Flow
        <4> QED BY <1>1, <3>1, <4>1 DEF StreamTrue, Reaches
      <3>4. CASE k > from[s]
        <4>1. k \in rows
          BY <3>1, <3>4 DEF Replayed
        <4>2. \E i \in 1..Len(q) : q[i].seq = k
          BY <1>9, <1>10, <4>1
        <4> HIDE DEF q
        <4>3. InBacklog(s, k)'
          BY <3>2, <4>2 DEF InBacklog
        <4> QED BY <1>2, <4>3 DEF Reaches
      <3> QED BY <1>4, <3>3, <3>4
    <2> QED BY <1>2, <2>1 DEF StreamTrue
  <1>15. ASSUME NEW u \in Tabs PROVE TabTrue(u)'
    BY <1>1, <1>3, TabStays
  <1> QED BY <1>1, <1>6, <1>7, <1>13, <1>14, <1>15, WorkerStays DEF Flow

\* The rest of a list.
LEMMA RestOf ==
  ASSUME NEW S, NEW q \in Seq(S), q # <<>>
  PROVE  /\ Len(q) \in Nat /\ Len(q) >= 1 /\ Head(q) = q[1] /\ Head(q) \in S
         /\ Tail(q) \in Seq(S) /\ Len(Tail(q)) = Len(q) - 1
         /\ \A i \in 1..(Len(q) - 1) : Tail(q)[i] = q[i + 1]
  OBVIOUS

LEMMA SeenGrows ==
  ASSUME Structure, NEW s \in Streams, at[s] \in Live, NEW e \in StepEvent, Deliver(s, e)
  PROVE  \A t \in Tabs, k \in Steps : seen[t][k] # "none" => seen'[t][k] # "none"
  <1>1. e.seq \in Steps
    BY DEF StepEvent
  <1>2. CASE s \notin link
    BY <1>2, Delivered
  <1>3. CASE s \in link
    BY <1>1, <1>3, Delivered
  <1> QED BY <1>2, <1>3

\* What an event that is written to a stream does to the tabs: the tab of the stream has seen all up
\* to it, if nothing before it was still to come.
LEMMA TabsFollow ==
  ASSUME Structure, Flow, UNCHANGED <<job, worker, owner, blind>>,
         NEW s \in Streams, at[s] \in Live, NEW e \in StepEvent, Deliver(s, e),
         row[e.seq] # "none",
         s \in link /\ Sighted(owner[s]) =>
           \A k \in Steps : k < e.seq /\ row[k] # "none" => Seen(s, k)
  PROVE  \A t \in Tabs : TabTrue(t)'
  <1> SUFFICES ASSUME NEW t \in Tabs PROVE TabTrue(t)'
    OBVIOUS
  <1>1. Sighted(t)' <=> Sighted(t)
    BY DEF Sighted
  <1>2. CASE t # owner[s] \/ s \notin link
    BY <1>1, <1>2, Delivered, TabStays
  <1>3. CASE t = owner[s] /\ s \in link
    <2>1. /\ seen'[t][e.seq] # "none" /\ lastID'[t] = e.seq
          /\ \A k \in Steps \ {e.seq} : seen'[t][k] = seen[t][k]
      BY <1>3, Delivered
    <2>2. ASSUME Sighted(t), NEW k \in Steps, k <= e.seq, row[k] # "none" PROVE seen'[t][k] # "none"
      <3>1. e.seq \in Nat /\ k \in Nat
        BY Numbers DEF StepEvent
      <3>2. CASE k = e.seq
        BY <2>1, <3>2
      <3>3. CASE k < e.seq
        <4>1. Seen(s, k)
          BY <1>3, <2>2, <3>3
        <4> QED BY <1>3, <2>1, <3>1, <3>3, <4>1 DEF Seen
      <3> QED BY <2>2, <3>1, <3>2, <3>3
    <2>3. row' = row
      BY WorkerStays
    <2> QED BY <1>1, <2>1, <2>2, <2>3 DEF TabTrue
  <1> QED BY <1>2, <1>3

LEMMA WriteReplayFlow ==
  ASSUME Structure, Flow, NEW s \in Streams, WriteReplay(s)
  PROVE  Flow'
  <1>1. /\ at[s] = "write" /\ at[s] \in Live
        /\ UNCHANGED <<job, worker, subs, chan, owner, from, blind, link>>
    BY DEF WriteReplay, broker, Live
  <1>2. \A u : Sighted(u)' <=> Sighted(u)
    BY <1>1 DEF Sighted
  <1>3. \A x \in Streams : Sighted(owner[x])' <=> Sighted(owner[x])
    BY <1>1 DEF Sighted
  <1>4. /\ row' = row /\ status' = status /\ event' = event
        /\ \A x \in Streams : Pending(x)' = Pending(x)
        /\ ChannelTrue(s) /\ BacklogTrue(s) /\ StreamTrue(s)
    BY <1>1, WorkerStays DEF Flow
  <1>5. \A k : Coming(s, k)' <=> Coming(s, k)
    BY <1>1, <1>4 DEF Coming, InChannel
  <1>6. CASE backlog[s] = <<>>
    <2>1. at' = [at EXCEPT ![s] = "check"] /\ UNCHANGED <<backlog, seen, lastID>>
      BY <1>6 DEF WriteReplay, tabs
    <2>2. /\ at'[s] = "check" /\ \A x \in Streams \ {s} : at'[x] = at[x]
      BY <2>1 DEF Structure, TypeOK
    <2>3. \A x \in Streams, k \in Steps : Seen(x, k)' <=> Seen(x, k)
      BY <1>1, <2>1 DEF Seen
    <2>4. ASSUME NEW x \in Streams, x # s PROVE ChannelTrue(x)' /\ BacklogTrue(x)' /\ StreamTrue(x)'
      <3>1. x \in link' => \A k \in Steps : Seen(x, k) => Seen(x, k)'
        BY <2>3
      <3>2. Sighted(owner[x])' => Sighted(owner[x])
        BY <1>3
      <3> QED BY <1>1, <2>1, <2>2, <2>4, <3>1, <3>2, StreamStays
    <2>5. ChannelTrue(s)'
      <3>1. s \in subs'
        BY <1>1, <1>4 DEF ChannelTrue, Reading
      <3> QED BY <1>1, <3>1, ChannelStays
    <2>6. BacklogTrue(s)'
      BY <1>1, <1>4, <2>1 DEF BacklogTrue
    <2>7. StreamTrue(s)'
      <3>1. Len(backlog[s]) = 0
        BY <1>6
      <3>2. \A k \in Steps : Reaches(s, k) => Reaches(s, k)'
        BY <1>1, <1>5, <2>2, <3>1 DEF Reaches, InBacklog
      <3> QED BY <1>1, <1>3, <1>4, <2>2, <2>3, <3>2 DEF StreamTrue
    <2>8. ASSUME NEW u \in Tabs PROVE TabTrue(u)'
      BY <1>1, <1>2, <2>1, TabStays
    <2> QED BY <1>1, <2>4, <2>5, <2>6, <2>7, <2>8, WorkerStays DEF Flow
  <1>7. CASE backlog[s] # <<>>
    <2> DEFINE e == Head(backlog[s])
    <2>1. Deliver(s, e) /\ backlog' = [backlog EXCEPT ![s] = Tail(@)] /\ at' = at
      BY <1>7 DEF WriteReplay
    <2>2. /\ backlog[s] \in Seq(StepEvent) /\ DOMAIN backlog = Streams
      BY DEF Structure
    <2>3. /\ backlog'[s] = Tail(backlog[s]) /\ \A x \in Streams \ {s} : backlog'[x] = backlog[x]
      BY <2>1, <2>2
    <2>4. /\ Len(backlog[s]) \in Nat /\ Len(backlog[s]) >= 1 /\ e = backlog[s][1] /\ e \in StepEvent
          /\ Len(backlog'[s]) = Len(backlog[s]) - 1
          /\ \A i \in 1..(Len(backlog[s]) - 1) : backlog'[s][i] = backlog[s][i + 1]
      BY <1>7, <2>2, <2>3, RestOf
    <2> HIDE DEF e
    <2>5. /\ 1 \in 1..Len(backlog[s]) /\ e.seq \in Steps
          /\ \A i \in 1..Len(backlog[s]) : i # 1 => i - 1 \in 1..Len(backlog'[s]) /\ backlog[s][i] = backlog'[s][i - 1]
          /\ \A i \in 1..Len(backlog'[s]) : i + 1 \in 1..Len(backlog[s]) /\ backlog'[s][i] = backlog[s][i + 1]
      BY <2>4 DEF StepEvent
    <2>6. /\ row[e.seq] # "none"
          /\ \A i \in 1..Len(backlog[s]) : i # 1 => e.seq < backlog[s][i].seq
      BY <2>4, <2>5, <1>4 DEF BacklogTrue
    <2>7. \A t \in Tabs, k \in Steps : seen[t][k] # "none" => seen'[t][k] # "none"
      BY <1>1, <2>1, <2>4, SeenGrows
    <2>8. \A x \in link : owner[x] \in Tabs
      BY DEF Structure, TypeOK, Live
    <2>9. ASSUME NEW x \in Streams, x # s PROVE ChannelTrue(x)' /\ BacklogTrue(x)' /\ StreamTrue(x)'
      <3>1. x \in link' => \A k \in Steps : Seen(x, k) => Seen(x, k)'
        BY <1>1, <2>7, <2>8 DEF Seen
      <3>2. Sighted(owner[x])' => Sighted(owner[x])
        BY <1>3
      <3> QED BY <1>1, <2>1, <2>3, <2>9, <3>1, <3>2, StreamStays
    <2>10. ChannelTrue(s)'
      <3>1. s \in subs'
        BY <1>1, <1>4 DEF ChannelTrue, Reading
      <3> QED BY <1>1, <3>1, ChannelStays
    <2>11. BacklogTrue(s)'
      <3>1. \A i, j \in 1..Len(backlog'[s]) : i < j => backlog'[s][i].seq < backlog'[s][j].seq
        <4> SUFFICES ASSUME NEW i \in 1..Len(backlog'[s]), NEW j \in 1..Len(backlog'[s]), i < j
                     PROVE  backlog'[s][i].seq < backlog'[s][j].seq
          OBVIOUS
        <4>1. i + 1 < j + 1
          OBVIOUS
        <4> QED BY <1>4, <2>5, <4>1 DEF BacklogTrue
      <3>2. \A i \in 1..Len(backlog'[s]) : row[backlog'[s][i].seq] # "none"
        BY <1>4, <2>5 DEF BacklogTrue
      <3> QED BY <1>1, <1>4, <3>1, <3>2 DEF BacklogTrue
    <2>12. StreamTrue(s)'
      <3>1. ASSUME s \in link', Sighted(owner[s])', NEW k \in Steps, row'[k] # "none"
            PROVE  Seen(s, k)' \/ Reaches(s, k)'
        <4>1. s \in link /\ (Seen(s, k) \/ Reaches(s, k))
          BY <1>1, <1>3, <1>4, <3>1 DEF StreamTrue
        <4>2. Seen(s, k) => Seen(s, k)'
          BY <1>1, <2>7, <2>8, <3>1 DEF Seen
        <4>3. k = e.seq => Seen(s, k)'
          BY <1>1, <2>1, <2>4, <3>1, Delivered DEF Seen
        <4>4. InBacklog(s, k) => k = e.seq \/ InBacklog(s, k)'
          BY <2>4, <2>5 DEF InBacklog
        <4>5. (\A i \in 1..Len(backlog[s]) : backlog[s][i].seq < k)
                => \A i \in 1..Len(backlog'[s]) : backlog'[s][i].seq < k
          BY <2>5
        <4> QED BY <1>1, <1>5, <2>1, <4>1, <4>2, <4>3, <4>4, <4>5 DEF Reaches
      <3> QED BY <1>1, <2>1, <3>1 DEF StreamTrue
    <2>13. \A u \in Tabs : TabTrue(u)'
      <3>1. ASSUME s \in link, Sighted(owner[s]), NEW k \in Steps, k < e.seq, row[k] # "none"
            PROVE  Seen(s, k)
        <4>1. SUFFICES ASSUME Reaches(s, k) PROVE FALSE
          BY <1>4, <3>1 DEF StreamTrue
        <4>2. k \in Nat /\ e.seq \in Nat
          BY <2>5, Numbers
        <4>3. \A i \in 1..Len(backlog[s]) : k < backlog[s][i].seq
          <5> SUFFICES ASSUME NEW i \in 1..Len(backlog[s]) PROVE k < backlog[s][i].seq
            OBVIOUS
          <5>1. backlog[s][i].seq \in Nat
            BY Numbers
          <5>2. i # 1 => e.seq < backlog[s][i].seq
            BY <2>6
          <5>3. i = 1 => e.seq = backlog[s][i].seq
            BY <2>4
          <5> QED BY <3>1, <4>2, <5>1, <5>2, <5>3
        <4>4. ~InBacklog(s, k)
          BY <4>2, <4>3 DEF InBacklog
        <4>5. backlog[s][1].seq < k
          BY <1>1, <2>5, <4>1, <4>4 DEF Reaches
        <4> QED BY <2>4, <3>1, <4>2, <4>5
      <3> QED BY <1>1, <2>1, <2>4, <2>6, <3>1, TabsFollow
    <2> QED BY <1>1, <2>9, <2>10, <2>11, <2>12, <2>13, WorkerStays DEF Flow
  <1> QED BY <1>6, <1>7

LEMMA CheckFlow ==
  ASSUME Structure, Flow, NEW s \in Streams, CheckStatus(s)
  PROVE  Flow'
  <1>1. at[s] = "check" /\ UNCHANGED <<job, worker>>
    BY DEF CheckStatus
  <1>2. CASE Done(s, status) /\ Return({s})
    <2>1. {s} \in SUBSET Connected
      BY <1>1 DEF Connected, Live
    <2> QED BY <1>1, <1>2, <2>1, ReturnFlow DEF Done
  <1>3. CASE /\ at' = [at EXCEPT ![s] = "loop"]
             /\ UNCHANGED <<broker, owner, from, backlog, conns, link, tabs>>
             /\ (status \notin Terminal /\ blind' = blind) \/ blind' = blind \cup {s}
    <2>1. /\ at'[s] = "loop" /\ \A x \in Streams \ {s} : at'[x] = at[x]
      BY <1>3 DEF Structure, TypeOK
    <2>2. UNCHANGED <<subs, chan, seen, lastID, link, owner, from, backlog>>
      BY <1>3 DEF broker, tabs
    <2>3. \A u : Sighted(u)' => Sighted(u)
      BY <1>3 DEF Sighted
    <2>4. \A x \in Streams, k \in Steps : Seen(x, k)' <=> Seen(x, k)
      BY <2>2 DEF Seen
    <2>5. ASSUME NEW x \in Streams, x # s PROVE ChannelTrue(x)' /\ BacklogTrue(x)' /\ StreamTrue(x)'
      <3>1. x \in link' => \A k \in Steps : Seen(x, k) => Seen(x, k)'
        BY <2>4
      <3>2. Sighted(owner[x])' => Sighted(owner[x])
        BY <1>3 DEF Sighted
      <3> QED BY <1>1, <1>3, <2>1, <2>2, <2>5, <3>1, <3>2, StreamStays
    <2>6. /\ ChannelTrue(s) /\ BacklogTrue(s) /\ StreamTrue(s)
          /\ row' = row /\ status' = status /\ event' = event /\ Pending(s)' = Pending(s)
      BY <1>1, WorkerStays DEF Flow
    <2>7. ChannelTrue(s)'
      <3>1. s \in subs'
        BY <1>1, <2>2, <2>6 DEF ChannelTrue, Reading
      <3> QED BY <1>1, <2>2, <3>1, ChannelStays
    <2>8. BacklogTrue(s)'
      BY <2>2, <2>6 DEF BacklogTrue
    <2>9. StreamTrue(s)'
      <3>1. Sighted(owner[s])' => Sighted(owner[s])
        BY <1>3 DEF Sighted
      <3>2. \A k : Coming(s, k)' <=> Coming(s, k)
        BY <2>2, <2>6 DEF Coming, InChannel
      <3>3. \A k \in Steps : Reaches(s, k) => Reaches(s, k)'
        BY <1>1, <2>1, <3>2 DEF Reaches
      <3>4. s \notin blind' => status' \notin Terminal
        BY <1>3, <2>6
      <3> QED BY <2>2, <2>4, <2>6, <3>1, <3>3, <3>4 DEF StreamTrue
    <2>10. ASSUME NEW u \in Tabs PROVE TabTrue(u)'
      BY <1>1, <2>2, <2>3, TabStays
    <2> QED BY <1>1, <2>5, <2>7, <2>8, <2>9, <2>10, WorkerStays DEF Flow
  <1> QED BY <1>2, <1>3 DEF CheckStatus, Over

LEMMA ForwardFlow ==
  ASSUME Structure, Flow, NEW s \in Streams, Forward(s)
  PROVE  Flow'
  <1> DEFINE e == Head(chan[s])
  <1>1. /\ at[s] = "loop" /\ at[s] \in Live /\ chan[s] # <<>> /\ UNCHANGED <<job, worker>>
    BY DEF Forward, Live
  <1>2. CASE e.seq = End
    <2>1. {s} \in SUBSET Connected
      BY <1>1 DEF Connected
    <2> QED BY <1>1, <1>2, <2>1, ReturnFlow DEF Done, Forward
  <1>3. CASE e.seq # End
    <2>1. /\ Deliver(s, e) /\ chan' = [chan EXCEPT ![s] = Tail(@)]
          /\ UNCHANGED <<subs, at, owner, from, backlog, blind, link>>
      BY <1>3 DEF Forward, handler
    <2>2. /\ chan[s] \in Seq(StepEvent \cup EndEvent) /\ DOMAIN chan = Streams
      BY DEF Structure
    <2>3. /\ chan'[s] = Tail(chan[s]) /\ \A x \in Streams \ {s} : chan'[x] = chan[x]
      BY <2>1, <2>2
    <2>4. /\ Len(chan[s]) \in Nat /\ Len(chan[s]) >= 1 /\ e = chan[s][1] /\ e \in StepEvent \cup EndEvent
          /\ Len(chan'[s]) = Len(chan[s]) - 1
          /\ \A i \in 1..(Len(chan[s]) - 1) : chan'[s][i] = chan[s][i + 1]
      BY <1>1, <2>2, <2>3, RestOf
    <2> HIDE DEF e
    <2>5. /\ 1 \in 1..Len(chan[s]) /\ e \in StepEvent
          /\ \A i \in 1..Len(chan[s]) : i # 1 => i - 1 \in 1..Len(chan'[s]) /\ chan[s][i] = chan'[s][i - 1]
          /\ \A i \in 1..Len(chan'[s]) : i + 1 \in 1..Len(chan[s]) /\ chan'[s][i] = chan[s][i + 1]
      BY <1>3, <2>4 DEF EndEvent
    <2>6. /\ row' = row /\ status' = status /\ event' = event /\ Rank' = Rank
          /\ NextSeq' = NextSeq /\ Publishing' = Publishing
          /\ \A x \in Streams : Pending(x)' = Pending(x)
          /\ WorkerTrue /\ ChannelTrue(s) /\ BacklogTrue(s) /\ StreamTrue(s)
      BY <1>1, WorkerStays DEF Flow
    <2>7. /\ e.seq \in Steps /\ row[e.seq] # "none"
          /\ \A i \in 1..Len(chan[s]) : i # 1 => e.seq <= chan[s][i].seq
      <3>1. \A i \in 1..Len(chan[s]) : i # 1 => 1 < i
        OBVIOUS
      <3>2. e.seq \in Steps
        BY <2>5 DEF StepEvent
      <3> QED BY <1>3, <2>4, <2>5, <2>6, <3>1, <3>2 DEF ChannelTrue
    <2>8. \A t \in Tabs, k \in Steps : seen[t][k] # "none" => seen'[t][k] # "none"
      BY <1>1, <2>1, <2>5, SeenGrows
    <2>9. \A x \in link : owner[x] \in Tabs
      BY DEF Structure, TypeOK, Live
    <2>10. ASSUME NEW x \in Streams, x # s PROVE ChannelTrue(x)' /\ BacklogTrue(x)' /\ StreamTrue(x)'
      <3>1. x \in link' => \A k \in Steps : Seen(x, k) => Seen(x, k)'
        BY <2>1, <2>8, <2>9 DEF Seen
      <3>2. Sighted(owner[x])' => Sighted(owner[x])
        BY <2>1 DEF Sighted
      <3> QED BY <1>1, <2>1, <2>3, <2>10, <3>1, <3>2, StreamStays
    <2>11. ChannelTrue(s)'
      <3>1. \A i, j \in 1..Len(chan'[s]) : i < j => chan'[s][i].seq <= chan'[s][j].seq
        <4> SUFFICES ASSUME NEW i \in 1..Len(chan'[s]), NEW j \in 1..Len(chan'[s]), i < j
                     PROVE  chan'[s][i].seq <= chan'[s][j].seq
          OBVIOUS
        <4>1. i + 1 < j + 1
          OBVIOUS
        <4> QED BY <2>5, <2>6, <4>1 DEF ChannelTrue
      <3>2. \A i \in 1..Len(chan'[s]) :
              /\ chan'[s][i].seq <= IF Publishing' THEN event'.seq ELSE NextSeq'
              /\ chan'[s][i].seq # End => row'[chan'[s][i].seq] # "none"
        <4> SUFFICES ASSUME NEW i \in 1..Len(chan'[s])
                     PROVE  /\ chan'[s][i].seq <= IF Publishing THEN event.seq ELSE NextSeq
                            /\ chan'[s][i].seq # End => row[chan'[s][i].seq] # "none"
          BY <2>6
        <4>1. i + 1 \in 1..Len(chan[s]) /\ chan'[s][i] = chan[s][i + 1]
          BY <2>5
        <4>2. \A j \in 1..Len(chan[s]) :
                /\ chan[s][j].seq <= IF Publishing THEN event.seq ELSE NextSeq
                /\ chan[s][j].seq # End => row[chan[s][j].seq] # "none"
          BY <2>6 DEF ChannelTrue
        <4> QED BY ONLY <4>1, <4>2
      <3>3. Len(chan'[s]) + Rank' + (IF Pending(s)' THEN 1 ELSE 0) <= 2 * NumSteps + 2
        <4> DEFINE a == Len(chan[s])
                   b == Rank
                   c == IF Pending(s) THEN 1 ELSE 0
        <4>1. a \in Nat /\ b \in Nat /\ c \in Nat /\ NumSteps \in Nat
          BY Numbers
        <4>2. a + b + c <= 2 * NumSteps + 2
          BY <2>6 DEF ChannelTrue
        <4>3. Len(chan'[s]) = a - 1 /\ Rank' = b /\ (IF Pending(s)' THEN 1 ELSE 0) = c
          BY <2>4, <2>6
        <4> HIDE DEF a, b, c
        <4>4. (a - 1) + b + c <= 2 * NumSteps + 2
          BY <4>1, <4>2
        <4> QED BY <4>3, <4>4
      <3>4. s \in subs'
        BY <1>1, <2>1, <2>6 DEF ChannelTrue, Reading
      <3> QED BY <3>1, <3>2, <3>3, <3>4 DEF ChannelTrue
    <2>12. BacklogTrue(s)'
      BY <2>1, <2>6 DEF BacklogTrue
    <2>13. \A k : Coming(s, k) => k = e.seq \/ Coming(s, k)'
      BY <2>4, <2>5, <2>6 DEF Coming, InChannel
    <2>14. StreamTrue(s)'
      <3>1. ASSUME s \in link', Sighted(owner[s])', NEW k \in Steps, row'[k] # "none"
            PROVE  Seen(s, k)' \/ Reaches(s, k)'
        <4>1. s \in link /\ Sighted(owner[s])
          BY <2>1, <3>1 DEF Sighted
        <4>2. Seen(s, k) \/ Coming(s, k)
          BY <1>1, <2>6, <3>1, <4>1 DEF StreamTrue, Reaches
        <4>3. Seen(s, k) => Seen(s, k)'
          BY <2>1, <2>8, <2>9, <4>1 DEF Seen
        <4>4. k = e.seq => Seen(s, k)'
          BY <1>1, <2>1, <2>5, <4>1, Delivered DEF Seen
        <4> QED BY <1>1, <2>1, <2>13, <4>2, <4>3, <4>4 DEF Reaches
      <3>2. at'[s] = "loop" /\ s \notin blind' /\ status' \in Terminal => Coming(s, End)'
        BY <1>3, <2>1, <2>6, <2>13 DEF StreamTrue
      <3> QED BY <3>1, <3>2 DEF StreamTrue
    <2>15. \A u \in Tabs : TabTrue(u)'
      <3>1. ASSUME s \in link, Sighted(owner[s]), NEW k \in Steps, k < e.seq, row[k] # "none"
            PROVE  Seen(s, k)
        <4>1. SUFFICES ASSUME Coming(s, k) PROVE FALSE
          BY <1>1, <2>6, <3>1 DEF StreamTrue, Reaches
        <4>2. k \in Nat /\ e.seq \in Nat /\ event.seq \in Nat
          BY <2>7, Numbers
        <4>3. \A i \in 1..Len(chan[s]) : k < chan[s][i].seq
          <5> SUFFICES ASSUME NEW i \in 1..Len(chan[s]) PROVE k < chan[s][i].seq
            OBVIOUS
          <5>1. chan[s][i].seq \in Nat
            BY Numbers
          <5>2. i # 1 => e.seq <= chan[s][i].seq
            BY <2>7
          <5>3. i = 1 => e.seq = chan[s][i].seq
            BY <2>4
          <5> QED BY <3>1, <4>2, <5>1, <5>2, <5>3
        <4>4. ~InChannel(s, k)
          BY <4>2, <4>3 DEF InChannel
        <4>5. Pending(s) /\ event.seq = k
          BY <4>1, <4>4 DEF Coming
        <4>6. Publishing
          BY <2>6, <4>5 DEF Pending, Publishing, WorkerTrue
        <4>7. e.seq <= event.seq
          BY <2>4, <2>5, <2>6, <4>6 DEF ChannelTrue
        <4> QED BY <3>1, <4>2, <4>5, <4>7
      <3> QED BY <1>1, <2>1, <2>5, <2>7, <3>1, TabsFollow
    <2> QED BY <1>1, <2>10, <2>11, <2>12, <2>14, <2>15, WorkerStays DEF Flow
  <1> QED BY <1>2, <1>3

-----------------------------------------------------------------------------
(* The theorems                                                            *)

LEMMA InitStructure ==
  ASSUME Init
  PROVE  Structure
  <1> USE DEF Init
  <1>1. 0 \in Steps /\ NumSteps \in Nat
    BY JobStreamAssumption DEF Steps
  <1>2. [seq |-> End, status |-> "succeeded"] \in EndEvent /\ EndEvent \subseteq Event
    BY DEF EndEvent, Event, Terminal
  <1>3. {s \in Streams : at[s] \in Live} = {}
    BY DEF Live
  <1>4. TypeOK
    <2>1. \A s \in Streams : chan[s] \in Seq(Event) /\ Len(chan[s]) <= Buffer /\ backlog[s] \in Seq(Event)
      BY JobStreamAssumption
    <2>2. /\ row \in [Steps -> StepStatus \cup {"none"}]
          /\ seen \in [Tabs -> [Steps -> StepStatus \cup {"none"}]]
          /\ lastID \in [Tabs -> Steps \cup {-1}] /\ ended \in [Tabs -> Terminal \cup {"no"}]
          /\ at \in [Streams -> Live \cup {"new", "closed"}]
          /\ owner \in [Streams -> Tabs \cup {None}] /\ from \in [Streams -> Steps \cup {-1}]
      OBVIOUS
    <2>3. conns \in 0..MaxPerUser /\ faults \in 0..MaxFaults
      BY JobStreamAssumption
    <2>4. step \in Steps /\ event \in Event
      BY <1>1, <1>2
    <2>5. panicked \in BOOLEAN
      OBVIOUS
    <2>6. outcome \in Terminal /\ status \in Terminal \cup {"running"}
      BY DEF Terminal
    <2> QED BY <2>1, <2>2, <2>3, <2>4, <2>5, <2>6 DEF TypeOK
  <1>5. /\ chan \in [Streams -> Seq(StepEvent \cup EndEvent)]
        /\ backlog \in [Streams -> Seq(StepEvent)]
    OBVIOUS
  <1> QED BY <1>2, <1>3, <1>4, <1>5, FS_EmptySet DEF Structure

LEMMA InitFlow ==
  ASSUME Init
  PROVE  Flow
  <1> USE DEF Init
  <1>1. NumSteps \in Nat
    BY JobStreamAssumption
  <1>2. NextPc = "append" /\ ~Publishing
    BY DEF NextPc, Publishing
  <1>3. Rank = 2 * (NumSteps - 0) + 2
    BY <1>2 DEF Rank
  <1>4. WorkerTrue
    BY <1>2 DEF WorkerTrue, Terminal
  <1>5. ASSUME NEW s \in Streams PROVE ChannelTrue(s) /\ BacklogTrue(s) /\ StreamTrue(s)
    <2>1. Len(chan[s]) = 0 /\ Len(backlog[s]) = 0 /\ at[s] = "new" /\ ~Pending(s)
      BY DEF Pending
    <2>2. ChannelTrue(s)
      <3>1. 0 + (2 * (NumSteps - 0) + 2) + 0 <= 2 * NumSteps + 2
        BY <1>1
      <3> QED BY <1>3, <2>1, <3>1 DEF ChannelTrue, Reading
    <2> QED BY <2>1, <2>2 DEF BacklogTrue, StreamTrue
  <1>6. ASSUME NEW t \in Tabs PROVE TabTrue(t)
    BY DEF TabTrue
  <1> QED BY <1>4, <1>5, <1>6 DEF Flow

LEMMA StructureStep ==
  ASSUME Structure, [Next]_vars
  PROVE  Structure'
  <1>1. CASE WorkerStep
    BY <1>1, WorkerTypes, PanicTypes
  <1>2. ASSUME NEW s \in Streams, StreamStep(s) \/ Drop(s) \/ \E t \in Tabs : Connect(t, s)
        PROVE  Structure'
    BY <1>2, StreamTyped
  <1>3. CASE UNCHANGED vars
    BY <1>3 DEF vars, Structure, TypeOK, job, worker, broker, handler, tabs
  <1> QED BY <1>1, <1>2, <1>3 DEF Next

LEMMA FlowStep ==
  ASSUME Structure, Structure', ~panicked => Flow, Roomy, [Next]_vars, ~panicked'
  PROVE  Flow'
  <1>1. CASE WorkerStep
    <2>1. ASSUME NEW s \in Streams PROVE ~Panic(s)
      BY DEF Panic
    <2>2. ~panicked
      BY <1>1, <2>1 DEF WorkerStep, AppendStep, FinishStep, Finalize, Recover, CopySubs, Send
    <2> QED BY <1>1, <2>1, <2>2, AppendFlow, FinishFlow, EndFlow, CopyFlow, SendFlow DEF WorkerStep
  <1>2. ASSUME NEW s \in Streams, StreamStep(s) \/ Drop(s) \/ \E t \in Tabs : Connect(t, s)
        PROVE  Flow'
    <2>1. ~panicked
      BY <1>2 DEF StreamStep, Subscribe, Replay, WriteReplay, CheckStatus, Forward, ClientGone, Drop, Connect
    <2>2. CASE ClientGone(s)
      <3>1. {s} \in SUBSET Connected
        BY <2>2 DEF ClientGone, Connected, Live
      <3> QED BY <2>1, <2>2, <3>1, ReturnFlow DEF ClientGone, tabs
    <2> QED BY <1>2, <2>1, <2>2, SubscribeFlow, ReplayFlow, WriteReplayFlow, CheckFlow, ForwardFlow,
               DropFlow, ConnectFlow DEF StreamStep
  <1>3. CASE UNCHANGED vars
    <2>1. ~panicked /\ UNCHANGED <<job, worker, subs, chan, at, owner, from, backlog, blind, link, seen, lastID>>
      BY <1>3 DEF vars, broker, handler, tabs
    <2>2. ASSUME NEW s \in Streams PROVE ChannelTrue(s)' /\ BacklogTrue(s)' /\ StreamTrue(s)'
      <3>1. s \in link' => \A k \in Steps : Seen(s, k) => Seen(s, k)'
        BY <2>1 DEF Seen
      <3>2. Sighted(owner[s])' => Sighted(owner[s])
        BY <2>1 DEF Sighted
      <3> QED BY <2>1, <3>1, <3>2, StreamStays
    <2>3. ASSUME NEW t \in Tabs PROVE TabTrue(t)'
      <3>1. Sighted(t)' => Sighted(t)
        BY <2>1 DEF Sighted
      <3> QED BY <2>1, <3>1, TabStays
    <2> QED BY <2>1, <2>2, <2>3, WorkerStays DEF Flow
  <1> QED BY <1>1, <1>2, <1>3 DEF Next

\* Types, and that every slot of a user's connections belongs to a handler that runs (acquireSlot
\* and releaseSlot), whatever the sizes, and whether or not a send has panicked.
THEOREM StreamInv == Spec => []Structure
  <1>1. Init => Structure
    BY InitStructure
  <1>2. Structure /\ [Next]_vars => Structure'
    BY StructureStep
  <1> QED BY <1>1, <1>2, PTL DEF Spec

\* Every variable has its type: the channels never hold more than their capacity, and a user never
\* has more connections than maxSSEConnPerUser.
THEOREM StreamTypeCorrect == Spec => []TypeOK
  <1>1. Structure => TypeOK
    BY DEF Structure
  <1> QED BY <1>1, StreamInv, PTL

-----------------------------------------------------------------------------
(* The worker comes to its end                                             *)

\* After the event of a step the worker goes on, after that of the end it is through.
Ends == Publishing => (event.seq = End <=> then = "over")

\* A step of the worker lowers Rank, or leaves it and lowers Sends.
Lowered == Rank' < Rank \/ (Rank' = Rank /\ Sends' < Sends)

LEMMA SendsTyped ==
  ASSUME TypeOK
  PROVE  /\ IsFiniteSet(Streams) /\ Cardinality(Streams) \in Nat
         /\ \A S : S \subseteq Streams =>
              IsFiniteSet(S) /\ Cardinality(S) \in Nat /\ Cardinality(S) <= Cardinality(Streams)
         /\ Sends \in Nat
  <1>1. IsFiniteSet(Streams) /\ Cardinality(Streams) \in Nat
    BY JobStreamAssumption, FS_CardinalityType
  <1>2. ASSUME NEW S, S \subseteq Streams
        PROVE  IsFiniteSet(S) /\ Cardinality(S) \in Nat /\ Cardinality(S) <= Cardinality(Streams)
    BY <1>1, <1>2, FS_Subset, FS_CardinalityType
  <1>3. Cardinality(to) \in Nat
    BY <1>2 DEF TypeOK
  <1>4. Sends \in Nat
    BY <1>1, <1>3 DEF Sends
  <1> QED BY <1>1, <1>2, <1>4

\* Writing a step's row, or not, is nearer to the end.
LEMMA AppendLowers ==
  ASSUME Structure, AppendStep
  PROVE  Lowered /\ Ends'
  <1>1. /\ pc = "append" /\ UNCHANGED <<status, step>>
        /\ \/ event'.seq = step /\ then' = "call" /\ pc' = "copy"
           \/ pc' = "call"
    BY DEF AppendStep, Publish, Skip
  <1>2. NextPc = "append" /\ NextPc' = "call"
    BY <1>1 DEF NextPc
  <1>3. NumSteps \in Nat /\ step \in Nat /\ step < NumSteps
    BY Numbers
  <1>4. Rank = 2 * (NumSteps - step) + 2 /\ Rank' = 2 * (NumSteps - step) + 1
    BY <1>1, <1>2 DEF Rank
  <1>5. Lowered
    BY <1>3, <1>4 DEF Lowered
  <1>6. Ends'
    BY <1>1, <1>3 DEF Ends, Publishing, End
  <1> QED BY <1>5, <1>6

LEMMA FinishLowers ==
  ASSUME Structure, FinishStep
  PROVE  Lowered /\ Ends'
  <1>1. PICK next \in {"append", "finish"} :
          /\ pc = "call" /\ UNCHANGED status
          /\ next = "append" => step' = step + 1
          /\ \/ event'.seq = step /\ then' = next /\ pc' = "copy"
             \/ pc' = next
    BY DEF FinishStep, Publish, Skip
  <1>2. NextPc = "call" /\ NextPc' = next
    BY <1>1 DEF NextPc
  <1>3. NumSteps \in Nat /\ step \in Nat /\ step < NumSteps
    BY Numbers
  <1>4. Rank = 2 * (NumSteps - step) + 1
    BY <1>2 DEF Rank
  <1>5. CASE next = "append"
    <2>1. Rank' = 2 * (NumSteps - (step + 1)) + 2
      BY <1>1, <1>2, <1>5 DEF Rank
    <2>2. Lowered
      BY <1>3, <1>4, <2>1 DEF Lowered
    <2>3. Ends'
      BY <1>1, <1>3, <1>5 DEF Ends, Publishing, End
    <2> QED BY <2>2, <2>3
  <1>6. CASE next = "finish"
    <2>1. Rank' = 2
      BY <1>2, <1>6 DEF Rank
    <2>2. Lowered
      BY <1>3, <1>4, <2>1 DEF Lowered
    <2>3. Ends'
      BY <1>1, <1>3, <1>6 DEF Ends, Publishing, End
    <2> QED BY <2>2, <2>3
  <1> QED BY <1>5, <1>6

\* Telling the end, and a sweeper's recovery, which needs a job that is still running.
LEMMA EndLowers ==
  ASSUME Structure, Finalize \/ Recover
  PROVE  Lowered /\ Ends'
  <1>1. /\ event'.seq = End /\ then' = "over" /\ pc' = "copy"
        /\ \/ pc = "finish"
           \/ pc = "over" /\ status = "running" /\ status' = "partial"
    BY DEF Finalize, Recover, Publish
  <1>2. NextPc' = "over"
    BY <1>1 DEF NextPc
  <1>3. CASE pc = "finish"
    <2>1. Rank = 2 /\ Rank' \in {0, 1}
      BY <1>2, <1>3 DEF Rank, NextPc
    <2> QED BY <1>1, <2>1 DEF Lowered, Ends
  <1>4. CASE pc = "over" /\ status = "running" /\ status' = "partial"
    <2>1. Rank = 1 /\ Rank' = 0
      BY <1>2, <1>4 DEF Rank, NextPc
    <2> QED BY <1>1, <2>1 DEF Lowered, Ends
  <1> QED BY <1>1, <1>3, <1>4

\* Publishing is as many sends as there are channels.
LEMMA CopyLowers ==
  ASSUME Structure, Ends, CopySubs
  PROVE  Lowered /\ Ends'
  <1>1. /\ pc = "copy" /\ to' = subs /\ pc' \in {then, "send"} /\ UNCHANGED <<status, step, event, then>>
        /\ subs \subseteq Streams /\ then \in {"append", "call", "finish", "over"}
    BY DEF CopySubs, job, Structure, TypeOK
  <1>2. NextPc' = NextPc
    BY <1>1 DEF NextPc
  <1>3. Rank' = Rank /\ Rank \in Nat
    BY <1>1, <1>2, Numbers DEF Rank
  <1>4. Cardinality(subs) \in Nat /\ Cardinality(Streams) \in Nat /\ Cardinality(subs) <= Cardinality(Streams)
    BY <1>1, SendsTyped DEF Structure
  <1>5. Sends = Cardinality(Streams) + 1
    BY <1>1 DEF Sends
  <1>6. Sends' = Cardinality(subs) \/ Sends' = 0
    BY <1>1 DEF Sends
  <1>7. Lowered
    BY <1>3, <1>4, <1>5, <1>6 DEF Lowered
  <1>8. Ends'
    BY <1>1 DEF Ends, Publishing
  <1> QED BY <1>7, <1>8

\* A send is over whether the channel takes the event, is full, or is closed.
LEMMA SendLowers ==
  ASSUME Structure, Ends, NEW s \in Streams, Send(s) \/ Panic(s)
  PROVE  Lowered /\ Ends'
  <1>1. /\ pc = "send" /\ s \in to /\ to \subseteq Streams /\ UNCHANGED <<status, step, event, then>>
        /\ then \in {"append", "call", "finish", "over"}
    BY DEF Send, Panic, job, Structure, TypeOK
  <1>2. Sends = Cardinality(to) /\ Cardinality(to) \in Nat /\ Cardinality(to) >= 1 /\ IsFiniteSet(to)
    <2>1. Cardinality(to) \in Nat /\ IsFiniteSet(to)
      BY <1>1, SendsTyped DEF Structure
    <2>2. Cardinality(to) # 0
      BY <1>1, <2>1, FS_EmptySet
    <2> QED BY <1>1, <2>1, <2>2 DEF Sends
  <1>3. NextPc = then /\ Rank \in Nat
    BY <1>1, Numbers DEF NextPc
  <1>4. CASE Send(s)
    <2>1. to' = to \ {s} /\ pc' \in {then, "send"}
      BY <1>4 DEF Send
    <2>2. NextPc' = then
      BY <1>1, <2>1 DEF NextPc
    <2>3. Rank' = Rank
      BY <1>1, <1>3, <2>2 DEF Rank
    <2>4. Cardinality(to \ {s}) = Cardinality(to) - 1
      BY <1>1, <1>2, FS_RemoveElement
    <2>5. Sends' = Cardinality(to \ {s}) \/ Sends' = 0
      BY <1>1, <2>1 DEF Sends
    <2>6. Lowered
      BY <1>2, <1>3, <2>3, <2>4, <2>5 DEF Lowered
    <2>7. Ends'
      BY <1>1, <2>1 DEF Ends, Publishing
    <2> QED BY <2>6, <2>7
  <1>5. CASE Panic(s)
    <2>1. to' = {} /\ pc' = IF event.seq = End THEN "over" ELSE "finish"
      BY <1>5 DEF Panic
    <2>2. Sends' = 0 /\ Ends'
      BY <2>1 DEF Sends, Ends, Publishing
    <2>3. NextPc' = IF then = "over" THEN "over" ELSE "finish"
      BY <1>1, <2>1 DEF NextPc, Ends, Publishing
    <2>4. Rank' <= Rank /\ Rank' \in Nat
      <3>1. CASE then = "over"
        BY <1>1, <1>3, <2>3, <3>1 DEF Rank
      <3>2. CASE then # "over"
        <4>1. Rank' = 2
          BY <2>3, <3>2 DEF Rank
        <4>2. NumSteps \in Nat /\ step \in Nat /\ step < NumSteps
          BY Numbers
        <4>3. Rank \in {2 * (NumSteps - step) + 2, 2 * (NumSteps - step) + 1, 2}
          BY <1>1, <1>3, <3>2 DEF Rank
        <4> QED BY <1>3, <4>1, <4>2, <4>3
      <3> QED BY <3>1, <3>2
    <2>5. Lowered
      BY <1>2, <1>3, <2>2, <2>4 DEF Lowered
    <2> QED BY <2>2, <2>5
  <1> QED BY <1>4, <1>5

LEMMA EndsStep ==
  ASSUME Structure, Ends, [Next]_vars
  PROVE  (UNCHANGED <<job, worker>> \/ Lowered) /\ Ends'
  <1>1. CASE WorkerStep
    BY <1>1, AppendLowers, FinishLowers, EndLowers, CopyLowers, SendLowers DEF WorkerStep
  <1>2. ASSUME UNCHANGED <<job, worker>> PROVE Ends'
    BY <1>2 DEF worker, Ends, Publishing
  <1>3. ASSUME NEW s \in Streams, StreamStep(s) \/ Drop(s) \/ \E t \in Tabs : Connect(t, s)
        PROVE  UNCHANGED <<job, worker>>
    BY <1>3 DEF StreamStep, Subscribe, Replay, WriteReplay, CheckStatus, Forward, ClientGone, Drop, Connect
  <1>4. CASE UNCHANGED vars
    BY <1>2, <1>4 DEF vars
  <1> QED BY <1>1, <1>2, <1>3, <1>4 DEF Next

\* Followers cannot hold a job up: every step of the worker and of the sweeper lowers the pair of
\* Rank and Sends, and nothing raises it. A job takes a bounded number of steps of its worker, for
\* any number of tabs, streams, steps and failures, and channels of any size.
THEOREM WorkerStops == Spec => WorkerWindsDown
  <1>1. Init => Structure /\ Ends
    BY InitStructure DEF Init, Ends, Publishing
  <1>2. Structure /\ Ends /\ [Next]_vars => Structure' /\ Ends'
    BY StructureStep, EndsStep
  <1>3. Structure /\ Ends /\ [Next]_vars =>
          [UNCHANGED <<job, worker>> \/ Rank' < Rank \/ (Rank' = Rank /\ Sends' < Sends)]_vars
    BY EndsStep DEF Lowered
  <1> QED BY <1>1, <1>2, <1>3, PTL DEF Spec, WorkerWindsDown

-----------------------------------------------------------------------------
(* What Flow promises                                                      *)

\* The inductive invariant, where a channel takes the events of a job.
THEOREM FlowInv ==
  ASSUME Roomy
  PROVE  Spec => []IInv
  <1>1. Init => IInv
    BY InitStructure, InitFlow DEF IInv
  <1>2. IInv /\ [Next]_vars => IInv'
    BY StructureStep, FlowStep DEF IInv
  <1> QED BY <1>1, <1>2, PTL DEF Spec

\* No tab that has caught up misses a step (StreamJob subscribes before it reads the rows, and
\* reads those after the Last-Event-ID), for any number of tabs and of lost connections.
THEOREM CaughtUpTabsHaveAll ==
  ASSUME Roomy
  PROVE  Spec => []NoStepMissed
  <1>1. IInv => NoStepMissed
    <2> SUFFICES ASSUME IInv, ~panicked, NEW s \in Streams, CaughtUp(s), Sighted(owner[s]),
                        NEW k \in Steps, row[k] # "none"
                 PROVE  seen[owner[s]][k] # "none"
      BY DEF NoStepMissed
    <2>1. /\ at[s] = "loop" /\ s \in link /\ pc # "copy" /\ s \notin to
          /\ chan[s] = <<>> \/ Head(chan[s]).seq = End
      BY DEF CaughtUp
    <2>2. Structure /\ ChannelTrue(s) /\ StreamTrue(s)
      BY DEF IInv, Flow
    <2>3. k \in Nat /\ k < NumSteps /\ NumSteps \in Nat /\ Len(chan[s]) \in Nat
      BY <2>2, Numbers
    <2>4. ~InChannel(s, k)
      <3> SUFFICES ASSUME NEW i \in 1..Len(chan[s]) PROVE chan[s][i].seq # k
        BY DEF InChannel
      <3>1. chan[s] \in Seq(StepEvent \cup EndEvent)
        BY <2>2 DEF Structure
      <3>2. chan[s] # <<>> /\ 1 \in 1..Len(chan[s]) /\ Head(chan[s]) = chan[s][1]
        BY <2>3, <3>1, RestOf
      <3>3. chan[s][1].seq = NumSteps
        BY <2>1, <3>2 DEF End
      <3>4. chan[s][i].seq \in Nat
        BY <2>2, Numbers
      <3>5. i # 1 => chan[s][1].seq <= chan[s][i].seq
        <4>1. i # 1 => 1 < i
          OBVIOUS
        <4> QED BY <2>2, <3>2, <4>1 DEF ChannelTrue
      <3> QED BY <2>3, <3>3, <3>4, <3>5
    <2>5. ~Coming(s, k)
      BY <2>1, <2>4 DEF Coming, Pending
    <2> QED BY <2>1, <2>2, <2>5 DEF StreamTrue, Reaches, Seen
  <1> QED BY <1>1, FlowInv, PTL

\* No connected tab waits for an end that nobody will tell it: StreamJob asks for the status of the
\* job once more after it has subscribed and replayed, and a channel has a place for the end.
THEOREM EndsAreTold ==
  ASSUME Roomy
  PROVE  Spec => []NoneWaitsInVain
  <1>1. IInv => NoneWaitsInVain
    <2> SUFFICES ASSUME IInv, ~panicked, pc = "over", status \in Terminal, NEW s \in Streams,
                        at[s] = "loop", s \notin blind
                 PROVE  \E i \in DOMAIN chan[s] : chan[s][i].seq = End
      BY DEF NoneWaitsInVain
    <2>1. Structure /\ WorkerTrue /\ StreamTrue(s)
      BY DEF IInv, Flow
    <2>2. Coming(s, End) /\ ~Pending(s)
      BY <2>1 DEF StreamTrue, WorkerTrue, Pending
    <2>3. InChannel(s, End)
      BY <2>2 DEF Coming
    <2>4. DOMAIN chan[s] = 1..Len(chan[s])
      BY <2>1 DEF Structure
    <2> QED BY <2>3, <2>4 DEF InChannel
  <1> QED BY <1>1, FlowInv, PTL
=============================================================================
