------------------------------ MODULE JobStream ------------------------------
(***************************************************************************)
(* How a browser follows a job: the worker writes the job's steps to the   *)
(* database and publishes them through the Broker, a StreamJob handler per *)
(* connection replays what the database has and then forwards what is      *)
(* published, and a tab that loses its connection comes back with the id   *)
(* of the last event it got (Last-Event-ID).                               *)
(*                                                                         *)
(* One job of one user is followed. Every database statement, every        *)
(* section under the broker's lock and every send to a channel is a step.  *)
(***************************************************************************)
EXTENDS Integers, Sequences, FiniteSets

CONSTANTS
  Tabs,        \* pages of the user that show the job
  Streams,     \* connections to StreamJob, in the order they are made
  NumSteps,    \* steps of the job
  Buffer,      \* capacity of a subscriber's channel
  MaxPerUser,  \* maxSSEConnPerUser
  MaxFaults,   \* bound on the failures of the database
  None         \* no tab

ASSUME JobStreamAssumption ==
  /\ NumSteps \in Nat \ {0} /\ Buffer \in Nat \ {0} /\ MaxPerUser \in Nat \ {0}
  /\ MaxFaults \in Nat /\ Streams \subseteq Nat /\ IsFiniteSet(Streams)
  /\ None \notin Tabs

VARIABLES
  row,      \* provisioning_job_steps: the status of each step
  status,   \* provisioning_jobs.status
  pc,       \* what the worker does next
  step,     \* the step it is at
  outcome,  \* the status it will finish the job with
  event,    \* what it is publishing
  then,     \* and what it does afterwards
  to,       \* the channels Publish copied and has not sent to yet
  subs,     \* the channels the broker knows
  chan,     \* what is in each channel
  at,       \* where the handler of each stream is
  owner,    \* the tab a stream serves
  from,     \* the Last-Event-ID it was asked for
  backlog,  \* rows it has read and not written yet
  link,     \* streams whose connection is up
  conns,    \* JobsHandler.conns of the user
  seen,     \* the step list of each tab
  lastID,   \* the id of the last event each tab got
  ended,    \* the final status each tab was told
  panicked, \* a send to a closed channel has panicked
  blind,    \* streams whose replay failed
  faults    \* failures of the database so far

job     == <<row, status>>
worker  == <<pc, step, outcome, event, then, to>>
broker  == <<subs, chan>>
handler == <<at, owner, from, backlog, conns, blind>>
tabs    == <<seen, lastID, ended>>
vars == <<job, worker, broker, handler, link, tabs, panicked, faults>>

Steps == 0..(NumSteps - 1)
End   == NumSteps           \* the seq of the event with Terminal set

StepStatus == {"running", "succeeded", "failed"}
Terminal   == {"succeeded", "failed", "partial"}
Event      == [seq : Steps \cup {End}, status : StepStatus \cup Terminal]
Live       == {"subscribe", "replay", "write", "check", "loop"}

TypeOK ==
  /\ row \in [Steps -> StepStatus \cup {"none"}]
  /\ status \in Terminal \cup {"running"}
  /\ pc \in {"append", "call", "finish", "copy", "send", "over"}
  /\ step \in Steps
  /\ outcome \in Terminal
  /\ event \in Event
  /\ then \in {"append", "call", "finish", "over"}
  /\ to \subseteq Streams
  /\ subs \subseteq Streams
  /\ \A s \in Streams : chan[s] \in Seq(Event) /\ Len(chan[s]) <= Buffer
  /\ at \in [Streams -> Live \cup {"new", "closed"}]
  /\ owner \in [Streams -> Tabs \cup {None}]
  /\ from \in [Streams -> Steps \cup {-1}]
  /\ \A s \in Streams : backlog[s] \in Seq(Event)
  /\ link \subseteq Streams
  /\ conns \in 0..MaxPerUser
  /\ seen \in [Tabs -> [Steps -> StepStatus \cup {"none"}]]
  /\ lastID \in [Tabs -> Steps \cup {-1}]
  /\ ended \in [Tabs -> Terminal \cup {"no"}]
  /\ panicked \in BOOLEAN
  /\ blind \subseteq Streams
  /\ faults \in 0..MaxFaults

\* The worker has just marked the job running.
Init ==
  /\ row = [k \in Steps |-> "none"] /\ status = "running"
  /\ pc = "append" /\ step = 0 /\ outcome = "succeeded"
  /\ event = [seq |-> End, status |-> "succeeded"] /\ then = "over" /\ to = {}
  /\ subs = {} /\ chan = [s \in Streams |-> <<>>]
  /\ at = [s \in Streams |-> "new"] /\ owner = [s \in Streams |-> None]
  /\ from = [s \in Streams |-> -1] /\ backlog = [s \in Streams |-> <<>>]
  /\ conns = 0 /\ link = {} /\ blind = {}
  /\ seen = [t \in Tabs |-> [k \in Steps |-> "none"]]
  /\ lastID = [t \in Tabs |-> -1] /\ ended = [t \in Tabs |-> "no"]
  /\ panicked = FALSE /\ faults = 0

Fault == faults < MaxFaults /\ faults' = faults + 1
NoFault == UNCHANGED faults

-----------------------------------------------------------------------------
(* The worker: Run's steps, finalize, and Publish                          *)

\* What the worker does after it has published, or at once when there is nothing to publish.
Publish(e, next) == event' = e /\ then' = next /\ pc' = "copy"
Skip(next) == pc' = next /\ UNCHANGED <<event, then>>

\* Runtime.step: a row that cannot be inserted is logged and not published.
AppendStep ==
  /\ pc = "append"
  /\ \/ /\ NoFault
        /\ row' = [row EXCEPT ![step] = "running"]
        /\ Publish([seq |-> step, status |-> "running"], "call")
     \/ Fault /\ UNCHANGED row /\ Skip("call")
  /\ UNCHANGED <<status, step, outcome, to, broker, handler, link, tabs, panicked>>

\* The call to Incus is over, and finishStep updates the row, reads it again and publishes
\* what it read. A step whose row was never inserted matches nothing.
FinishStep ==
  /\ pc = "call"
  /\ \E result \in {"succeeded", "failed"} :
       LET more == result = "succeeded" /\ step + 1 \in Steps
           next == IF more THEN "append" ELSE "finish"
       IN
       /\ step' = IF more THEN step + 1 ELSE step
       /\ outcome' = IF result = "failed" THEN "failed" ELSE outcome
       /\ \/ /\ NoFault /\ row[step] # "none"
             /\ row' = [row EXCEPT ![step] = result]
             /\ Publish([seq |-> step, status |-> result], next)
          \/ NoFault /\ row[step] = "none" /\ UNCHANGED row /\ Skip(next)
          \/ /\ Fault /\ row[step] # "none"   \* UpdateStep fails
             /\ UNCHANGED row
             /\ Publish([seq |-> step, status |-> row[step]], next)
          \/ /\ Fault /\ row[step] # "none"   \* ListSteps fails
             /\ row' = [row EXCEPT ![step] = result]
             /\ Skip(next)
  /\ UNCHANGED <<status, to, broker, handler, link, tabs, panicked>>

\* finalize publishes the end even if Finish failed.
Finalize ==
  /\ pc = "finish"
  /\ \/ NoFault /\ status' = outcome
     \/ Fault /\ UNCHANGED status
  /\ Publish([seq |-> End, status |-> outcome], "over")
  /\ UNCHANGED <<row, step, outcome, to, broker, handler, link, tabs, panicked>>

\* The sweeper finds a job that Finish failed to finish.
Recover ==
  /\ pc = "over" /\ status = "running"
  /\ status' = "partial" /\ outcome' = "partial"
  /\ Publish([seq |-> End, status |-> "partial"], "over")
  /\ UNCHANGED <<row, step, to, broker, handler, link, tabs, panicked, faults>>

\* Publish copies the subscribers under the read lock ...
CopySubs ==
  /\ pc = "copy"
  /\ to' = subs
  /\ pc' = IF subs = {} THEN then ELSE "send"
  /\ UNCHANGED <<job, step, outcome, event, then, broker, handler, link, tabs, panicked,
                 faults>>

\* ... and sends without it, in the order of a map. A full channel drops the event.
Send(s) ==
  /\ pc = "send" /\ s \in to /\ at[s] # "closed"
  /\ chan' = IF Len(chan[s]) < Buffer THEN [chan EXCEPT ![s] = Append(@, event)] ELSE chan
  /\ to' = to \ {s}
  /\ pc' = IF to' = {} THEN then ELSE "send"
  /\ UNCHANGED <<job, step, outcome, event, then, subs, handler, link, tabs, panicked, faults>>

\* releaseSlot; mistaken: once by the defer and once more by hand.
ReleasedTwice(n) == conns - 2 * n
Released(n) == conns - n

\* The handlers of the streams in gone return: cancel closes their channels and releaseSlot
\* gives their slots back. What they held is garbage.
Return(gone) ==
  /\ at' = [s \in Streams |-> IF s \in gone THEN "closed" ELSE at[s]]
  /\ chan' = [s \in Streams |-> IF s \in gone THEN <<>> ELSE chan[s]]
  /\ backlog' = [s \in Streams |-> IF s \in gone THEN <<>> ELSE backlog[s]]
  /\ from' = [s \in Streams |-> IF s \in gone THEN -1 ELSE from[s]]
  /\ subs' = subs \ gone
  /\ link' = link \ gone
  /\ conns' = Released(Cardinality(gone))
  /\ UNCHANGED <<owner, blind>>

\* The channel was closed after the copy. The panic ends Run like a failure of it; in finalize
\* it is caught by the worker; in the sweeper, which nothing guards, the process dies and
\* takes the streams with it.
Panic(s) ==
  /\ pc = "send" /\ s \in to /\ at[s] = "closed"
  /\ panicked' = TRUE
  /\ to' = {}
  /\ IF event.seq = End
     THEN pc' = "over" /\ UNCHANGED outcome
     ELSE pc' = "finish" /\ outcome' = "failed"
  /\ IF outcome = "partial"
     THEN Return({x \in Streams : at[x] \in Live})
     ELSE UNCHANGED <<broker, handler, link>>
  /\ UNCHANGED <<job, step, event, then, tabs, faults>>

WorkerStep ==
  \/ AppendStep \/ FinishStep \/ Finalize \/ Recover \/ CopySubs
  \/ \E s \in Streams : Send(s) \/ Panic(s)

-----------------------------------------------------------------------------
(* JobsHandler.StreamJob and the tab at the other end                      *)

\* acquireSlot.
HasSlot == conns < MaxPerUser

\* A tab connects for the first time, or again after it lost its connection; streams are
\* numbered as they come, as the channels of the broker are.
Connect(t, s) ==
  /\ at[s] = "new" /\ \A x \in Streams : x < s => at[x] # "new"
  /\ ended[t] = "no"
  /\ \A x \in link : owner[x] # t
  /\ HasSlot
  /\ conns' = conns + 1
  /\ at' = [at EXCEPT ![s] = "subscribe"]
  /\ owner' = [owner EXCEPT ![s] = t]
  /\ from' = [from EXCEPT ![s] = lastID[t]]
  /\ link' = link \cup {s}
  /\ UNCHANGED <<job, worker, broker, backlog, blind, tabs, panicked, faults>>

Subscribe(s) ==
  /\ at[s] = "subscribe"
  /\ subs' = subs \cup {s}
  /\ at' = [at EXCEPT ![s] = "replay"]
  /\ UNCHANGED <<job, worker, chan, owner, from, backlog, conns, blind, link, tabs, panicked,
                 faults>>

\* What ListSteps returns for the id the tab came with; mistaken: one row too few.
ReplayedLate(s, k) == k > from[s] + 1 /\ row[k] # "none"
Replayed(s, k) == k > from[s] /\ row[k] # "none"

\* Rows in the order of their seq; if they cannot be read, none, and the stream goes on.
Replay(s) ==
  LET rows == {k \in Steps : Replayed(s, k)}
      nth(i) == CHOOSE k \in rows : Cardinality({j \in rows : j < k}) = i - 1
  IN
  /\ at[s] = "replay"
  /\ \/ /\ NoFault
        /\ backlog' = [backlog EXCEPT ![s] = [i \in 1..Cardinality(rows) |->
                                               [seq |-> nth(i), status |-> row[nth(i)]]]]
        /\ UNCHANGED blind
     \/ Fault /\ blind' = blind \cup {s} /\ UNCHANGED backlog
  /\ at' = [at EXCEPT ![s] = "write"]
  /\ UNCHANGED <<job, worker, broker, owner, from, conns, link, tabs, panicked>>

\* A step on the wire: the tab replaces its row of that seq. What is written to a connection
\* that is down is lost.
Deliver(s, e) ==
  IF s \in link
  THEN /\ seen' = [seen EXCEPT ![owner[s]][e.seq] = e.status]
       /\ lastID' = [lastID EXCEPT ![owner[s]] = e.seq]
       /\ UNCHANGED ended
  ELSE UNCHANGED tabs

\* "event: done": the tab does not connect again.
Done(s, final) ==
  /\ IF s \in link THEN ended' = [ended EXCEPT ![owner[s]] = final] ELSE UNCHANGED ended
  /\ UNCHANGED <<seen, lastID>>

WriteReplay(s) ==
  /\ at[s] = "write"
  /\ IF backlog[s] = <<>>
     THEN at' = [at EXCEPT ![s] = "check"] /\ UNCHANGED <<backlog, tabs>>
     ELSE /\ Deliver(s, Head(backlog[s]))
          /\ backlog' = [backlog EXCEPT ![s] = Tail(@)]
          /\ UNCHANGED at
  /\ UNCHANGED <<job, worker, broker, owner, from, conns, blind, link, panicked, faults>>

\* Is the job over by now? Mistaken: never asked.
OverUnchecked == FALSE
Over == status \in Terminal

CheckStatus(s) ==
  /\ at[s] = "check"
  /\ \/ NoFault /\ Over /\ Done(s, status) /\ Return({s})
     \/ /\ \/ NoFault /\ ~Over /\ UNCHANGED blind
           \/ Fault /\ blind' = blind \cup {s}
        /\ at' = [at EXCEPT ![s] = "loop"]
        /\ UNCHANGED <<broker, owner, from, backlog, conns, link, tabs>>
  /\ UNCHANGED <<job, worker, panicked>>

Forward(s) ==
  /\ at[s] = "loop" /\ chan[s] # <<>>
  /\ LET e == Head(chan[s]) IN
     IF e.seq = End
     THEN Done(s, e.status) /\ Return({s})
     ELSE /\ Deliver(s, e)
          /\ chan' = [chan EXCEPT ![s] = Tail(@)]
          /\ UNCHANGED <<subs, handler, link>>
  /\ UNCHANGED <<job, worker, panicked, faults>>

\* The handler notices, at a write or in its loop, that the connection is down.
ClientGone(s) ==
  /\ at[s] \in {"write", "loop"} /\ s \notin link
  /\ Return({s})
  /\ UNCHANGED <<job, worker, tabs, panicked, faults>>

\* The network or the user breaks the connection.
Drop(s) ==
  /\ s \in link
  /\ link' = link \ {s}
  /\ UNCHANGED <<job, worker, broker, handler, tabs, panicked, faults>>

StreamStep(s) ==
  \/ Subscribe(s) \/ Replay(s) \/ WriteReplay(s) \/ CheckStatus(s) \/ Forward(s)
  \/ ClientGone(s)

Next ==
  \/ WorkerStep
  \/ \E s \in Streams : StreamStep(s) \/ Drop(s) \/ \E t \in Tabs : Connect(t, s)

Spec == Init /\ [][Next]_vars

-----------------------------------------------------------------------------
(* Properties                                                              *)

\* No read of the tab's streams failed.
Sighted(t) == \A s \in blind : owner[s] # t

\* Stream s has forwarded all that was published so far, but for the end.
CaughtUp(s) ==
  /\ at[s] = "loop" /\ s \in link
  /\ chan[s] = <<>> \/ Head(chan[s]).seq = End
  /\ pc # "copy" /\ s \notin to

\* A tab whose stream has caught up has every step of the job on its list, however often it
\* lost the connection: what is published between the read of the rows and the subscription,
\* or while the tab is away, is replayed or forwarded (StreamJob's order of the two).
NoStepMissed ==
  ~panicked =>
    \A s \in Streams : CaughtUp(s) /\ Sighted(owner[s]) =>
      \A k \in Steps : row[k] # "none" => seen[owner[s]][k] # "none"

\* No connected tab waits for an end that nobody will tell it: when the worker is through and
\* the job is finished, a stream that waits has the end in its channel. One that subscribed
\* too late to get the event finds the status in the database (StreamJob's second GetByID).
NoneWaitsInVain ==
  ~panicked /\ pc = "over" /\ status \in Terminal =>
    \A s \in Streams :
      at[s] = "loop" /\ s \in link /\ s \notin blind =>
        \E i \in DOMAIN chan[s] : chan[s][i].seq = End

\* What the worker does when it has published.
NextPc == IF pc \in {"copy", "send"} THEN then ELSE pc

\* How many events the worker may still publish ...
Rank ==
  CASE NextPc = "append" -> 2 * (NumSteps - step) + 2
    [] NextPc = "call"   -> 2 * (NumSteps - step) + 1
    [] NextPc = "finish" -> 2
    [] NextPc = "over"   -> IF status = "running" THEN 1 ELSE 0

\* ... and how many sends the one it is publishing may still take.
Sends ==
  CASE pc = "copy" -> Cardinality(Streams) + 1
    [] pc = "send" -> Cardinality(to)
    [] OTHER       -> 0

\* Followers cannot hold a job up, whatever they do: every step of the worker, and of the sweeper
\* that recovers its job, brings it nearer to its end, through dropped events, panics and failed
\* statements, and no step of a stream or a tab takes it back (Publish does not wait for a channel).
WorkerWindsDown ==
  [][\/ UNCHANGED <<job, worker>>
     \/ Rank' < Rank
     \/ Rank' = Rank /\ Sends' < Sends]_vars
=============================================================================
