------------------------------- MODULE Worker -------------------------------
(***************************************************************************)
(* The Kafka side of the worker (src/src/main.rs).  A number of identical  *)
(* processes share one consumer group.  Each of them takes one request     *)
(* message at a time, runs the job, lets a publisher task forward the      *)
(* job's events, waits for that task to drain, and only then commits the   *)
(* offset, asynchronously.  Processes crash, are shut down and started     *)
(* again, partitions move between them, commits and sends fail.            *)
(*                                                                         *)
(* A job is reduced to the events it emits: some progress events, then one *)
(* result.  What happens inside it is the subject of the other modules.    *)
(***************************************************************************)
EXTENDS Naturals, Sequences

CONSTANTS
  Workers,      \* worker processes of the consumer group
  Partitions,   \* partitions of the request topic
  LogLen,       \* request messages in every partition
  Malformed,    \* messages that are not UTF-8 or not a MirRequest
  None,         \* "no worker" and "no message"
  MaxEvents,    \* bound: progress events a job emits before it finishes
  MaxFaults,    \* bound: crashes, revocations and lost commits together
  MaxShutdowns  \* bound: graceful shutdowns

Offsets  == 0 .. LogLen - 1
Messages == Partitions \X Offsets

ASSUME ConstantsAssumption ==
  /\ LogLen \in Nat
  /\ MaxEvents \in Nat \ {0}
  /\ MaxFaults \in Nat
  /\ MaxShutdowns \in Nat
  /\ Malformed \subseteq Messages
  /\ None \notin Workers
  /\ None \notin Messages

VARIABLES
  \* The broker: committed offset, owner and fetch position of a partition.
  committed, owner, position,
  \* A worker process: control point, message in hand, channel to the
  \* publisher task, asynchronous commits that the broker has not seen.
  pc, job, channel, commits,
  \* History: events emitted by the current attempt, the numbers of those that
  \* Kafka has got, as they came, requests whose result was delivered, requests
  \* whose result was given up, messages received.
  emitted, sent, answered, dropped, taken,
  \* Budgets.
  faults, shutdowns

broker == <<committed, owner, position>>
local  == <<pc, job, channel, commits>>
vars   == <<committed, owner, position, pc, job, channel, commits,
            emitted, sent, answered, dropped, taken, faults, shutdowns>>

(***************************************************************************)
(* "waiting" is the select! of the main loop, "processing" awaits          *)
(* process_request_streaming, "draining" awaits the publisher task,        *)
(* "closing" is the consumer being dropped after the loop has ended.       *)
(***************************************************************************)
Points == {"down", "waiting", "processing", "draining", "closing"}
Busy(w)   == pc[w] \in {"processing", "draining"}
Member(w) == Busy(w) \/ pc[w] = "waiting"

Event  == [n : Nat \ {0}, kind : {"progress", "result"}]
Commit == [partition : Partitions, next : 0 .. LogLen]

TypeOK ==
  /\ committed \in [Partitions -> 0 .. LogLen]
  /\ owner     \in [Partitions -> Workers \union {None}]
  /\ position  \in [Partitions -> 0 .. LogLen]
  /\ pc        \in [Workers -> Points]
  /\ job       \in [Workers -> Messages \union {None}]
  /\ channel   \in [Workers -> Seq(Event)]
  /\ commits   \in [Workers -> Seq(Commit)]
  /\ emitted   \in [Workers -> Nat]
  /\ sent      \in [Workers -> Seq(Nat)]
  /\ answered  \in SUBSET Messages
  /\ dropped   \in SUBSET Messages
  /\ taken     \in SUBSET Messages
  /\ faults    \in 0 .. MaxFaults
  /\ shutdowns \in 0 .. MaxShutdowns

Init ==
  /\ committed = [p \in Partitions |-> 0]
  /\ owner     = [p \in Partitions |-> None]
  /\ position  = [p \in Partitions |-> 0]
  /\ pc        = [w \in Workers |-> "down"]
  /\ job       = [w \in Workers |-> None]
  /\ channel   = [w \in Workers |-> << >>]
  /\ commits   = [w \in Workers |-> << >>]
  /\ emitted   = [w \in Workers |-> 0]
  /\ sent      = [w \in Workers |-> << >>]
  /\ answered  = {}
  /\ dropped   = {}
  /\ taken     = {}
  /\ faults    = 0
  /\ shutdowns = 0

-----------------------------------------------------------------------------
(* Kafka: membership, assignment, commits (external).                      *)

\* A process starts, creates its consumer and subscribes.
Start(w) ==
  /\ pc[w] = "down"
  /\ pc' = [pc EXCEPT ![w] = "waiting"]
  /\ UNCHANGED <<broker, job, channel, commits, emitted, sent, answered,
                 dropped, taken, faults, shutdowns>>

AssignFrom(p, w, offset) ==
  /\ Member(w)
  /\ owner[p] = None \/ faults < MaxFaults
  /\ faults' = IF owner[p] = None THEN faults ELSE faults + 1
  /\ owner' = [owner EXCEPT ![p] = w]
  /\ position' = [position EXCEPT ![p] = offset]
  /\ UNCHANGED <<committed, local, emitted, sent, answered, dropped, taken,
                 shutdowns>>

\* Seeded bugs: fetching starts one past the committed offset; a partition
\* without a committed offset starts at its end (auto.offset.reset = latest).
AssignPastCommitted(p, w) == AssignFrom(p, w, committed[p] + 1)
AssignLatest(p, w) ==
  AssignFrom(p, w, IF committed[p] = 0 THEN LogLen ELSE committed[p])

\* The group gives p to w, which fetches from the committed offset (or, with
\* auto.offset.reset = earliest, from the start).  Taking p away from a
\* process, even to hand it back to the same one, is a revocation.
Assign(p, w) ==
  AssignFrom(p, w, committed[p])

\* Seeded bug: the newest commit overtakes the others.
NewestCommitArrives(w) ==
  /\ commits[w] # << >>
  /\ LET c == commits[w][Len(commits[w])] IN
       committed' = [committed EXCEPT ![c.partition] = c.next]
  /\ commits' = [commits EXCEPT ![w] = SubSeq(@, 1, Len(@) - 1)]
  /\ UNCHANGED <<owner, position, pc, job, channel, emitted, sent, answered,
                 dropped, taken, faults, shutdowns>>

\* The broker receives the oldest outstanding commit of w.  It checks the
\* member, not whether the member still owns the partition.
CommitArrives(w) ==
  /\ commits[w] # << >>
  /\ committed' = [committed EXCEPT
                     ![Head(commits[w]).partition] = Head(commits[w]).next]
  /\ commits' = [commits EXCEPT ![w] = Tail(@)]
  /\ UNCHANGED <<owner, position, pc, job, channel, emitted, sent, answered,
                 dropped, taken, faults, shutdowns>>

\* The commit fails; nobody looks at its outcome.
CommitFails(w) ==
  /\ commits[w] # << >>
  /\ faults < MaxFaults
  /\ faults' = faults + 1
  /\ commits' = [commits EXCEPT ![w] = Tail(@)]
  /\ UNCHANGED <<broker, pc, job, channel, emitted, sent, answered, dropped,
                 taken, shutdowns>>

-----------------------------------------------------------------------------
(* The main loop and handle_message.                                       *)

\* Seeded bug: the same message is fetched again and again.
ReceiveAgain(w, p) ==
  /\ pc[w] = "waiting" /\ owner[p] = w /\ position[p] < LogLen
  /\ taken' = taken \union {<<p, position[p]>>}
  /\ UNCHANGED position

\* stream.next() yields the next message of p.
Receive(w, p) ==
  /\ pc[w] = "waiting"
  /\ owner[p] = w
  /\ position[p] < LogLen
  /\ position' = [position EXCEPT ![p] = @ + 1]
  /\ taken' = taken \union {<<p, position[p]>>}

\* Seeded bug: the commit is one too far.
CommitTooFar(w, m) ==
  commits' = [commits EXCEPT
                ![w] = Append(@, [partition |-> m[1], next |-> m[2] + 2])]

CommitAfter(w, m) ==
  commits' = [commits EXCEPT
                ![w] = Append(@, [partition |-> m[1], next |-> m[2] + 1])]

\* Seeded bug: a malformed message is skipped without a commit.
SkipUncommitted(w, p) ==
  /\ Receive(w, p)
  /\ <<p, position[p]>> \in Malformed
  /\ UNCHANGED <<committed, owner, local, emitted, sent, answered, dropped,
                 faults, shutdowns>>

\* The payload is not UTF-8 or does not parse: log it, commit it, forget it.
SkipMalformed(w, p) ==
  /\ Receive(w, p)
  /\ <<p, position[p]>> \in Malformed
  /\ CommitAfter(w, <<p, position[p]>>)
  /\ UNCHANGED <<committed, owner, pc, job, channel, emitted, sent, answered,
                 dropped, faults, shutdowns>>

\* A request: spawn the publisher and start the job, which pushes its
\* "received" event before it first yields.
StartJob(w, p) ==
  /\ Receive(w, p)
  /\ <<p, position[p]>> \notin Malformed
  /\ pc' = [pc EXCEPT ![w] = "processing"]
  /\ job' = [job EXCEPT ![w] = <<p, position[p]>>]
  /\ channel' = [channel EXCEPT ![w] = <<[n |-> 1, kind |-> "progress"]>>]
  /\ emitted' = [emitted EXCEPT ![w] = 1]
  /\ UNCHANGED <<committed, owner, commits, sent, answered, dropped, faults,
                 shutdowns>>

\* The job reports progress.
Progress(w) ==
  /\ pc[w] = "processing"
  /\ emitted[w] < MaxEvents
  /\ emitted' = [emitted EXCEPT ![w] = @ + 1]
  /\ channel' = [channel EXCEPT
                   ![w] = Append(@, [n |-> emitted[w] + 1, kind |-> "progress"])]
  /\ UNCHANGED <<broker, pc, job, commits, sent, answered, dropped, taken,
                 faults, shutdowns>>

\* The job ends: a success is a last progress event and the result, a failure
\* is the result alone.  event_tx is dropped before the next await.
FinishJob(w, last) ==
  /\ pc[w] = "processing"
  /\ pc' = [pc EXCEPT ![w] = "draining"]
  /\ channel' = [channel EXCEPT ![w] = @ \o last]
  /\ emitted' = [emitted EXCEPT ![w] = @ + Len(last)]
  /\ UNCHANGED <<broker, job, commits, sent, answered, dropped, taken, faults,
                 shutdowns>>

Success(w) == FinishJob(w, <<[n |-> emitted[w] + 1, kind |-> "progress"],
                             [n |-> emitted[w] + 2, kind |-> "result"]>>)
Failure(w) == FinishJob(w, <<[n |-> emitted[w] + 1, kind |-> "result"]>>)

\* One turn of publish_events.  A failed send is logged, not repeated.
PublishEvent(w, delivered, event, rest) ==
  /\ Busy(w)
  /\ channel' = [channel EXCEPT ![w] = rest]
  /\ sent' = IF delivered THEN [sent EXCEPT ![w] = Append(@, event.n)] ELSE sent
  /\ answered' = IF delivered /\ event.kind = "result"
                   THEN answered \union {job[w]}
                   ELSE answered
  /\ dropped' = IF ~delivered /\ event.kind = "result"
                  THEN dropped \union {job[w]}
                  ELSE dropped
  /\ UNCHANGED <<broker, pc, job, commits, emitted, taken, faults, shutdowns>>

\* Seeded bug: an event is put back after it has been sent.
PublishAndKeep(w, delivered) ==
  /\ channel[w] # << >>
  /\ PublishEvent(w, delivered, Head(channel[w]), channel[w])

Publish(w, delivered) ==
  /\ channel[w] # << >>
  /\ PublishEvent(w, delivered, Head(channel[w]), Tail(channel[w]))

\* The attempt is over, its event counters go with it.
Forget(w) ==
  /\ emitted' = [emitted EXCEPT ![w] = 0]
  /\ sent' = [sent EXCEPT ![w] = << >>]

\* Seeded bug: the offset is committed without waiting for the publisher.
AcknowledgeEarly(w) ==
  /\ pc[w] = "draining"
  /\ CommitAfter(w, job[w])
  /\ pc' = [pc EXCEPT ![w] = "waiting"]
  /\ job' = [job EXCEPT ![w] = None]
  /\ Forget(w)
  /\ UNCHANGED <<broker, channel, answered, dropped, taken, faults,
                 shutdowns>>

\* The publisher has drained the closed channel: commit and loop.  (That the
\* await of the publisher fails, main.rs:112, takes a panic of publish_events,
\* which has nothing that panics; the commit would follow all the same.)
Acknowledge(w) ==
  /\ pc[w] = "draining"
  /\ channel[w] = << >>
  /\ CommitAfter(w, job[w])
  /\ pc' = [pc EXCEPT ![w] = "waiting"]
  /\ job' = [job EXCEPT ![w] = None]
  /\ Forget(w)
  /\ UNCHANGED <<broker, channel, answered, dropped, taken, faults,
                 shutdowns>>

-----------------------------------------------------------------------------
(* Shutdown and crash.                                                     *)

\* Ctrl-C ends the loop.  The future that listens for it lives only inside
\* select!, so a signal that arrives while a job runs has no effect.
Shutdown(w) ==
  /\ pc[w] = "waiting"
  /\ shutdowns < MaxShutdowns
  /\ shutdowns' = shutdowns + 1
  /\ pc' = [pc EXCEPT ![w] = "closing"]
  /\ UNCHANGED <<broker, job, channel, commits, emitted, sent, answered,
                 dropped, taken, faults>>

Leave(w) == owner' = [p \in Partitions |->
                        IF owner[p] = w THEN None ELSE owner[p]]

\* Seeded bug: outstanding commits are forgotten.
CloseAtOnce(w) ==
  /\ pc[w] = "closing"
  /\ commits' = [commits EXCEPT ![w] = << >>]
  /\ pc' = [pc EXCEPT ![w] = "down"]
  /\ Leave(w)
  /\ UNCHANGED <<committed, position, job, channel, emitted, sent,
                 answered, dropped, taken, faults, shutdowns>>

\* Dropping the consumer waits for outstanding commits and leaves the group.
Close(w) ==
  /\ pc[w] = "closing"
  /\ commits[w] = << >>
  /\ pc' = [pc EXCEPT ![w] = "down"]
  /\ Leave(w)
  /\ UNCHANGED <<committed, position, job, channel, commits, emitted, sent,
                 answered, dropped, taken, faults, shutdowns>>

\* The process dies (SIGTERM included); everything in memory goes with it.
Crash(w) ==
  /\ pc[w] # "down"
  /\ faults < MaxFaults
  /\ faults' = faults + 1
  /\ pc' = [pc EXCEPT ![w] = "down"]
  /\ job' = [job EXCEPT ![w] = None]
  /\ channel' = [channel EXCEPT ![w] = << >>]
  /\ commits' = [commits EXCEPT ![w] = << >>]
  /\ Leave(w)
  /\ Forget(w)
  /\ UNCHANGED <<committed, position, answered, dropped, taken, shutdowns>>

\* All messages consumed, all commits in: every process awaits more input.
Idle ==
  /\ \A w \in Workers : pc[w] = "waiting" /\ commits[w] = << >>
  /\ \A p \in Partitions : owner[p] # None /\ position[p] = LogLen
  /\ UNCHANGED vars

-----------------------------------------------------------------------------
Step(w) ==
  \/ Start(w)
  \/ \E p \in Partitions :
       Assign(p, w) \/ SkipMalformed(w, p) \/ StartJob(w, p)
  \/ CommitArrives(w)
  \/ CommitFails(w)
  \/ Progress(w)
  \/ Success(w)
  \/ Failure(w)
  \/ \E delivered \in BOOLEAN : Publish(w, delivered)
  \/ Acknowledge(w)
  \/ Shutdown(w)
  \/ Close(w)
  \/ Crash(w)

Next == Idle \/ \E w \in Workers : Step(w)

Spec == Init /\ [][Next]_vars

(***************************************************************************)
(* Fairness: a stopped process is started again, free partitions are       *)
(* assigned, the broker processes commits, the runtime polls the loop and  *)
(* the publisher, and a job ends.  The last is an assumption here: a tool  *)
(* that hangs can keep a job from ending, which Service takes into account.*)
(***************************************************************************)
Fairness ==
  /\ \A w \in Workers :
       /\ WF_vars(Start(w))
       /\ WF_vars(CommitArrives(w))
       /\ WF_vars(Success(w) \/ Failure(w))
       /\ WF_vars(\E delivered \in BOOLEAN : Publish(w, delivered))
       /\ WF_vars(Acknowledge(w))
       /\ WF_vars(Close(w))
       /\ WF_vars(\E p \in Partitions : SkipMalformed(w, p) \/ StartJob(w, p))
  /\ \A p \in Partitions :
       WF_vars(owner[p] = None /\ \E w \in Workers : Assign(p, w))

FairSpec == Spec /\ Fairness

-----------------------------------------------------------------------------
(* Properties.                                                             *)

\* Nothing is left to do for m: it needs no answer, or its result was handed
\* to Kafka at least once, whether or not Kafka took it.
Settled(m) == m \in Malformed \union answered \union dropped

\* At-least-once intake: whatever crashes, rebalances, lost or late commits
\* happen, no offset is committed past a request whose result has not been
\* handed to Kafka (main.rs:104-122, the commit is the last thing done).
NoRequestSkipped ==
  \A p \in Partitions : \A o \in Offsets : o < committed[p] => Settled(<<p, o>>)

\* What makes NoRequestSkipped inductive: the commits on their way, the fetch
\* positions and the jobs in hand all have only settled requests below them,
\* and an attempt that is draining still has its result to send or has sent it.
CommitsCoverSettled ==
  \A w \in Workers : \A i \in 1 .. Len(commits[w]) : \A o \in Offsets :
    o < commits[w][i].next => Settled(<<commits[w][i].partition, o>>)
FetchedIsSettledOrInHand ==
  \A p \in Partitions : \A o \in Offsets :
    owner[p] # None /\ o < position[p] =>
      Settled(<<p, o>>) \/ (Busy(owner[p]) /\ job[owner[p]] = <<p, o>>)
JobInHandIsNext ==
  \A w \in Workers : Busy(w) =>
    /\ job[w] \in Messages \ Malformed
    /\ \A o \in Offsets : o < job[w][2] => Settled(<<job[w][1], o>>)
ResultStillDue ==
  \A w \in Workers : pc[w] = "draining" =>
    \/ Settled(job[w])
    \/ \E i \in 1 .. Len(channel[w]) : channel[w][i].kind = "result"
IntakeInv ==
  /\ TypeOK
  /\ NoRequestSkipped
  /\ CommitsCoverSettled
  /\ FetchedIsSettledOrInHand
  /\ JobInHandIsNext
  /\ ResultStillDue

\* The publisher runs beside the job, yet Kafka gets the events of an attempt
\* in the order in which the job emitted them: none overtakes another, none
\* comes twice, though some may be lost (main.rs:125-141).
PublishedInOrder ==
  \A w \in Workers : \A i, j \in 1 .. Len(sent[w]) :
    i < j => sent[w][i] < sent[w][j]

\* Without a fault no request is taken twice: in particular a graceful
\* shutdown with commits under way does not cause a redelivery.
RedeliveryNeedsFault ==
  [][faults = 0 => \A w \in Workers : job'[w] \in taken => job'[w] = job[w]]_vars

\* Only a fault (a revoked worker committing late) moves an offset backwards.
CommitRegressionNeedsFault ==
  [][faults = 0 => \A p \in Partitions : committed[p] <= committed'[p]]_vars

\* Every request is eventually settled, despite the bounded faults.
AllSettled == \A m \in Messages : <>Settled(m)

\* Without faults the group's lag eventually reaches zero for good.
LagVanishes ==
  <>[](faults = 0 => \A p \in Partitions : committed[p] = LogLen)

\* What README.md:15 and the log line main.rs:119 suggest: a committed
\* request has a published result.  publish_events only logs a failed send,
\* so this does not hold.
CommittedMeansAnswered ==
  \A p \in Partitions : \A o \in Offsets :
    o < committed[p] => <<p, o>> \in Malformed \union answered

\* Worker implements the at-least-once queue of RequestIntake.
Intake == INSTANCE RequestIntake WITH
            settled <- Malformed \union answered \union dropped,
            acked   <- committed
IntakeSpec == Intake!Spec
=============================================================================
