---------------------------- MODULE WorkerProofs ----------------------------
(***************************************************************************)
(* What TLAPS proves of Worker, for every number of workers, partitions    *)
(* and messages and every bound: the intake invariant, with it that no     *)
(* committed offset skips a request, that Worker implements the            *)
(* at-least-once queue of RequestIntake, that the events of an attempt are *)
(* published in order, and what cannot happen without a fault.             *)
(***************************************************************************)
EXTENDS Worker, SequenceTheorems, TLAPS

USE DEF Offsets, Messages

-----------------------------------------------------------------------------
(* Type correctness.                                                       *)

\* In the initial state every worker is down and nothing is committed.
LEMMA TypeInit == Init => TypeOK
  BY ConstantsAssumption DEF Init, TypeOK, Points, Event, Commit

\* Appending the commit of a message keeps the commit queues typed.
LEMMA CommitAfterTyped ==
  ASSUME TypeOK, NEW w \in Workers, NEW m \in Messages, CommitAfter(w, m)
  PROVE  commits' \in [Workers -> Seq(Commit)]
<1> DEFINE c == [partition |-> m[1], next |-> m[2] + 1]
<1>1. m[1] \in Partitions /\ m[2] + 1 \in 0 .. LogLen
  BY ConstantsAssumption
<1>2. c \in Commit
  BY <1>1 DEF Commit
<1>3. commits[w] \in Seq(Commit) /\ commits \in [Workers -> Seq(Commit)]
  BY DEF TypeOK
<1>4. Append(commits[w], c) \in Seq(Commit)
  BY <1>2, <1>3, AppendProperties
<1> HIDE DEF c
<1> QED BY <1>3, <1>4 DEF CommitAfter, c

\* Every action preserves the types.
LEMMA TypeStep == TypeOK /\ JobInHandIsNext /\ [Next]_vars => TypeOK'
<1> SUFFICES ASSUME TypeOK, JobInHandIsNext, [Next]_vars PROVE TypeOK'
  OBVIOUS
<1> USE ConstantsAssumption
<1>1. ASSUME NEW w \in Workers, Start(w) PROVE TypeOK'
  BY <1>1 DEF TypeOK, Start, broker, Points
<1>2. ASSUME NEW w \in Workers, NEW p \in Partitions, Assign(p, w) PROVE TypeOK'
  <2>1. owner' \in [Partitions -> Workers \union {None}]
    BY <1>2 DEF TypeOK, Assign, AssignFrom
  <2>2. position' \in [Partitions -> 0 .. LogLen]
    BY <1>2 DEF TypeOK, Assign, AssignFrom
  <2>3. faults' \in 0 .. MaxFaults
    BY <1>2 DEF TypeOK, Assign, AssignFrom
  <2>4. UNCHANGED <<committed, local, emitted, sent, answered, dropped, taken,
                    shutdowns>>
    BY <1>2 DEF Assign, AssignFrom
  <2> QED BY <2>1, <2>2, <2>3, <2>4 DEF TypeOK, local
<1>3. ASSUME NEW w \in Workers, NEW p \in Partitions, SkipMalformed(w, p)
      PROVE  TypeOK'
  <2>1. <<p, position[p]>> \in Messages /\ position'[p] \in 0 .. LogLen
    BY <1>3 DEF TypeOK, SkipMalformed, Receive
  <2>2. commits' \in [Workers -> Seq(Commit)]
    BY <1>3, <2>1, CommitAfterTyped DEF SkipMalformed
  <2> QED BY <1>3, <2>1, <2>2 DEF TypeOK, SkipMalformed, Receive
<1>4. ASSUME NEW w \in Workers, NEW p \in Partitions, StartJob(w, p)
      PROVE  TypeOK'
  <2>1. <<p, position[p]>> \in Messages /\ position'[p] \in 0 .. LogLen
    BY <1>4 DEF TypeOK, StartJob, Receive
  <2>2. channel' \in [Workers -> Seq(Event)]
    BY <1>4 DEF TypeOK, StartJob, Event
  <2> QED BY <1>4, <2>1, <2>2 DEF TypeOK, StartJob, Receive, Points
<1>5. ASSUME NEW w \in Workers, CommitArrives(w) PROVE TypeOK'
  <2>1. Head(commits[w]) \in Commit /\ Tail(commits[w]) \in Seq(Commit)
    BY <1>5 DEF TypeOK, CommitArrives
  <2> QED BY <1>5, <2>1 DEF TypeOK, CommitArrives, Commit
<1>6. ASSUME NEW w \in Workers, CommitFails(w) PROVE TypeOK'
  <2>1. Tail(commits[w]) \in Seq(Commit)
    BY <1>6 DEF TypeOK, CommitFails
  <2>2. commits' \in [Workers -> Seq(Commit)]
    BY <1>6, <2>1 DEF TypeOK, CommitFails
  <2>3. faults' \in 0 .. MaxFaults
    BY <1>6 DEF TypeOK, CommitFails
  <2> QED BY <1>6, <2>2, <2>3 DEF TypeOK, CommitFails, broker
<1>7. ASSUME NEW w \in Workers, Progress(w) PROVE TypeOK'
  <2>1. channel[w] \in Seq(Event) /\ emitted[w] + 1 \in Nat \ {0}
    BY DEF TypeOK
  <2>2. [n |-> emitted[w] + 1, kind |-> "progress"] \in Event
    BY <2>1 DEF Event
  <2>3. channel' \in [Workers -> Seq(Event)]
    BY <1>7, <2>1, <2>2, AppendProperties DEF TypeOK, Progress
  <2> QED BY <1>7, <2>1, <2>3 DEF TypeOK, Progress, broker
<1>8. ASSUME NEW w \in Workers, Success(w) \/ Failure(w) PROVE TypeOK'
  <2>1. channel[w] \in Seq(Event) /\ emitted[w] \in Nat
    BY DEF TypeOK
  <2>2. \A n \in Nat \ {0}, kind \in {"progress", "result"} :
          [n |-> n, kind |-> kind] \in Event
    BY DEF Event
  <2>3. \A e \in Event : <<e>> \in Seq(Event)
    OBVIOUS
  <2>4. \A e, f \in Event : <<e, f>> \in Seq(Event)
    OBVIOUS
  <2>5. PICK last \in Seq(Event) : FinishJob(w, last)
    <3>1. CASE Success(w)
      <4>1. <<[n |-> emitted[w] + 1, kind |-> "progress"],
              [n |-> emitted[w] + 2, kind |-> "result"]>> \in Seq(Event)
        <5>1. /\ emitted[w] + 1 \in Nat \ {0}
              /\ emitted[w] + 2 \in Nat \ {0}
          BY <2>1
        <5> QED BY <5>1, <2>2, <2>4
      <4> QED BY <3>1, <4>1 DEF Success
    <3>2. CASE Failure(w)
      <4>1. <<[n |-> emitted[w] + 1, kind |-> "result"]>> \in Seq(Event)
        <5>1. emitted[w] + 1 \in Nat \ {0}
          BY <2>1
        <5> QED BY <5>1, <2>2, <2>3
      <4> QED BY <3>2, <4>1 DEF Failure
    <3> QED BY <1>8, <3>1, <3>2
  <2>6. channel[w] \o last \in Seq(Event) /\ emitted[w] + Len(last) \in Nat
    BY <2>1, ConcatProperties
  <2>7. channel' \in [Workers -> Seq(Event)] /\ emitted' \in [Workers -> Nat]
    BY <2>5, <2>6 DEF TypeOK, FinishJob
  <2> QED BY <2>5, <2>7 DEF TypeOK, FinishJob, Points, broker
<1>9. ASSUME NEW w \in Workers, NEW delivered \in BOOLEAN, Publish(w, delivered)
      PROVE  TypeOK'
  <2>1. Head(channel[w]) \in Event /\ Tail(channel[w]) \in Seq(Event)
    BY <1>9 DEF TypeOK, Publish
  <2>2. job[w] \in Messages
    BY <1>9 DEF Publish, PublishEvent, JobInHandIsNext
  <2>3. sent' \in [Workers -> Seq(Nat)]
    <3>1. Append(sent[w], Head(channel[w]).n) \in Seq(Nat)
      <4>1. Head(channel[w]).n \in Nat /\ sent[w] \in Seq(Nat)
        BY <2>1 DEF TypeOK, Event
      <4> QED BY <4>1, AppendProperties
    <3>2. sent' = sent \/ sent' = [sent EXCEPT ![w] = Append(sent[w], Head(channel[w]).n)]
      BY <1>9 DEF Publish, PublishEvent
    <3> QED BY <3>1, <3>2 DEF TypeOK
  <2>4. channel' \in [Workers -> Seq(Event)]
    BY <1>9, <2>1 DEF TypeOK, Publish, PublishEvent
  <2> QED BY <1>9, <2>2, <2>3, <2>4 DEF TypeOK, Publish, PublishEvent, broker
<1>10. ASSUME NEW w \in Workers, Acknowledge(w) PROVE TypeOK'
  <2>1. job[w] \in Messages
    BY <1>10 DEF Acknowledge, JobInHandIsNext, Busy
  <2>2. commits' \in [Workers -> Seq(Commit)]
    BY <1>10, <2>1, CommitAfterTyped DEF Acknowledge
  <2>3. sent' \in [Workers -> Seq(Nat)] /\ emitted' \in [Workers -> Nat]
    BY <1>10 DEF TypeOK, Acknowledge, Forget
  <2> QED BY <1>10, <2>2, <2>3 DEF TypeOK, Acknowledge, Points, broker
<1>11. ASSUME NEW w \in Workers, Shutdown(w) PROVE TypeOK'
  <2>1. pc' \in [Workers -> Points]
    BY <1>11 DEF TypeOK, Shutdown, Points
  <2>2. shutdowns' \in 0 .. MaxShutdowns
    BY <1>11, ConstantsAssumption DEF TypeOK, Shutdown
  <2> QED BY <1>11, <2>1, <2>2 DEF TypeOK, Shutdown, broker
<1>12. ASSUME NEW w \in Workers, Close(w) \/ Crash(w) PROVE TypeOK'
  <2>1. CASE Close(w)
    BY <2>1 DEF TypeOK, Close, Leave, Points
  <2>2. CASE Crash(w)
    <3>1. faults' \in 0 .. MaxFaults
      BY <2>2 DEF TypeOK, Crash
    <3>2. /\ channel' \in [Workers -> Seq(Event)]
          /\ commits' \in [Workers -> Seq(Commit)]
      BY <2>2 DEF TypeOK, Crash
    <3> QED BY SMTT(30), <2>2, <3>1, <3>2 DEF TypeOK, Crash, Leave, Forget, Points
  <2> QED BY <1>12, <2>1, <2>2
<1>13. CASE UNCHANGED vars
  BY <1>13 DEF TypeOK, vars
<1>14. ASSUME NEW w \in Workers, Step(w) PROVE TypeOK'
  <2>1. CASE \E p \in Partitions :
               Assign(p, w) \/ SkipMalformed(w, p) \/ StartJob(w, p)
    BY <2>1, <1>2, <1>3, <1>4
  <2>2. CASE \E delivered \in BOOLEAN : Publish(w, delivered)
    BY <2>2, <1>9
  <2> QED BY <1>1, <1>5, <1>6, <1>7, <1>8, <1>10, <1>11, <1>12, <1>14, <2>1,
             <2>2 DEF Step
<1> QED BY <1>13, <1>14 DEF Next, Idle
-----------------------------------------------------------------------------
(* The intake invariant.                                                   *)

\* Initially nothing is committed, fetched, in hand or under way.
LEMMA IntakeInit == Init => IntakeInv
<1> SUFFICES ASSUME Init PROVE IntakeInv
  OBVIOUS
<1>1. TypeOK
  BY TypeInit
<1> QED BY <1>1, ConstantsAssumption
        DEF Init, IntakeInv, NoRequestSkipped, CommitsCoverSettled,
            FetchedIsSettledOrInHand, JobInHandIsNext, ResultStillDue, Busy

\* What is settled stays settled: no action takes an answer back.
LEMMA SettledForGood ==
  ASSUME TypeOK, [Next]_vars, NEW m, Settled(m)
  PROVE  Settled(m)'
<1>1. ASSUME NEW w \in Workers, NEW p \in Partitions,
             Assign(p, w) \/ SkipMalformed(w, p) \/ StartJob(w, p)
      PROVE  UNCHANGED <<answered, dropped>>
  BY <1>1 DEF Assign, AssignFrom, local, SkipMalformed, StartJob
<1>2. ASSUME NEW w \in Workers,
             \/ Start(w) \/ CommitArrives(w) \/ CommitFails(w)
             \/ Progress(w) \/ Success(w) \/ Failure(w)
      PROVE  UNCHANGED <<answered, dropped>>
  BY <1>2 DEF Start, CommitArrives, CommitFails, Progress, Success, Failure, FinishJob
<1>3. ASSUME NEW w \in Workers, NEW delivered \in BOOLEAN, Publish(w, delivered)
      PROVE  answered \subseteq answered' /\ dropped \subseteq dropped'
  BY <1>3 DEF Publish, PublishEvent
<1>4. ASSUME NEW w \in Workers, Acknowledge(w) \/ Shutdown(w) \/ Close(w) \/ Crash(w)
      PROVE  UNCHANGED <<answered, dropped>>
  BY <1>4 DEF Acknowledge, Shutdown, Close, Crash, local
<1>5. CASE Idle \/ UNCHANGED vars
  BY <1>5 DEF Idle, vars, Settled
<1> QED
  BY <1>1, <1>2, <1>3, <1>4, <1>5 DEF Next, Step, Settled

\* The commits under way of every worker cover settled requests still when
\* worker w has sent a commit up to and including the settled message m.
LEMMA CommitAfterSettled ==
  ASSUME IntakeInv, NEW w \in Workers, NEW m \in Messages, CommitAfter(w, m),
         Settled(m), UNCHANGED <<answered, dropped>>,
         \A o \in Offsets : o < m[2] => Settled(<<m[1], o>>)
  PROVE  CommitsCoverSettled'
<1> DEFINE c == [partition |-> m[1], next |-> m[2] + 1]
<1>1. commits \in [Workers -> Seq(Commit)] /\ c \in Commit
  <2>1. m[1] \in Partitions /\ m[2] + 1 \in 0 .. LogLen
    BY ConstantsAssumption
  <2> QED BY <2>1 DEF IntakeInv, TypeOK, Commit
<1>2. m = <<m[1], m[2]>> /\ m[2] \in Offsets
  OBVIOUS
<1>3. \A o \in Offsets : o < c.next => Settled(<<c.partition, o>>)'
  <2> SUFFICES ASSUME NEW o \in Offsets, o < c.next
               PROVE  Settled(<<c.partition, o>>)'
    OBVIOUS
  <2>1. CASE o < m[2]
    BY <2>1 DEF Settled
  <2>2. CASE o = m[2]
    BY <2>2, <1>2 DEF Settled
  <2> QED BY <2>1, <2>2, <1>2, ConstantsAssumption
<1>4. commits' = [commits EXCEPT ![w] = Append(commits[w], c)]
  BY DEF CommitAfter
<1> HIDE DEF c
<1> SUFFICES ASSUME NEW v \in Workers, NEW i \in 1 .. Len(commits'[v]),
                    NEW o \in Offsets, o < commits'[v][i].next
             PROVE  Settled(<<commits[v][i].partition, o>>)'
  BY DEF CommitsCoverSettled
<1>5. CASE commits'[v] = commits[v]
  BY <1>5 DEF IntakeInv, CommitsCoverSettled, Settled
<1>6. CASE v = w
  <2>1. commits'[w] = Append(commits[w], c)
    BY <1>1, <1>4
  <2>2. CASE i <= Len(commits[w])
    <3>1. commits'[v][i] = commits[v][i]
      BY <1>1, <1>6, <2>1, <2>2, AppendProperties
    <3>2. i \in 1 .. Len(commits[v])
      BY <1>1, <1>6, <2>2
    <3> QED BY <3>1, <3>2 DEF IntakeInv, CommitsCoverSettled, Settled
  <2>3. CASE i = Len(commits[w]) + 1
    <3>1. commits'[v][i] = c
      BY <1>1, <1>6, <2>1, <2>3, AppendProperties
    <3> QED BY <3>1, <1>3
  <2>4. Len(commits'[v]) = Len(commits[w]) + 1 /\ Len(commits[w]) \in Nat
    BY <1>1, <1>6, <2>1, AppendProperties
  <2> QED BY <2>2, <2>3, <2>4
<1> QED BY <1>1, <1>4, <1>5, <1>6

\* One action at a time: what each of them does to the parts of IntakeInv.
LEMMA IntakeStep == IntakeInv /\ [Next]_vars => IntakeInv'
<1> SUFFICES ASSUME IntakeInv, [Next]_vars PROVE IntakeInv'
  OBVIOUS
<1> USE ConstantsAssumption
<1>t. TypeOK /\ TypeOK'
  BY TypeStep DEF IntakeInv
<1>s. \A m : Settled(m) => Settled(m)'
  BY <1>t, SettledForGood
<1> DEFINE Rest == /\ NoRequestSkipped
                   /\ CommitsCoverSettled
                   /\ FetchedIsSettledOrInHand
                   /\ JobInHandIsNext
                   /\ ResultStillDue
<1>r. Rest
  BY DEF IntakeInv
<1>1. ASSUME NEW w \in Workers, Start(w) \/ Shutdown(w) PROVE Rest'
  <2>1. pc[w] \in {"down", "waiting"} /\ pc' = [pc EXCEPT ![w] = pc'[w]]
        /\ pc'[w] \in {"waiting", "closing"}
    BY <1>1, <1>t DEF Start, Shutdown, TypeOK
  <2>2. UNCHANGED <<committed, owner, position, job, channel, commits, answered,
                    dropped>>
    BY <1>1 DEF Start, Shutdown, broker
  <2>3. \A v \in Workers : /\ Busy(v)' <=> Busy(v)
                           /\ pc'[v] = "draining" <=> pc[v] = "draining"
    BY <2>1, <1>t DEF Busy, TypeOK
  <2>4. FetchedIsSettledOrInHand'
    BY <2>2, <2>3, <1>r, <1>t DEF FetchedIsSettledOrInHand, Settled, TypeOK
  <2>5. JobInHandIsNext' /\ ResultStillDue'
    BY <2>2, <2>3, <1>r DEF JobInHandIsNext, ResultStillDue, Settled
  <2> QED BY <2>2, <2>4, <2>5, <1>r
          DEF NoRequestSkipped, CommitsCoverSettled, Settled
<1>2. ASSUME NEW w \in Workers, NEW p \in Partitions, Assign(p, w) PROVE Rest'
  <2>1. UNCHANGED <<committed, pc, job, channel, commits, answered, dropped>>
    BY <1>2 DEF Assign, AssignFrom, local
  <2>2. /\ owner' = [owner EXCEPT ![p] = w]
        /\ position' = [position EXCEPT ![p] = committed[p]]
    BY <1>2 DEF Assign, AssignFrom
  <2>3. FetchedIsSettledOrInHand'
    <3> SUFFICES ASSUME NEW q \in Partitions, NEW o \in Offsets,
                        owner'[q] # None, o < position'[q]
                 PROVE  \/ Settled(<<q, o>>)'
                        \/ /\ pc'[owner'[q]] \in {"processing", "draining"}
                           /\ job'[owner'[q]] = <<q, o>>
      BY DEF FetchedIsSettledOrInHand, Busy
    <3>1. CASE q = p
      <4>1. position'[q] = committed[q]
        BY <2>2, <3>1, <1>t DEF TypeOK
      <4> QED BY <4>1, <1>r, <1>s DEF NoRequestSkipped
    <3>2. CASE q # p
      <4>1. owner'[q] = owner[q] /\ position'[q] = position[q]
        BY <2>2, <3>2, <1>t DEF TypeOK
      <4>2. Settled(<<q, o>>) \/ (Busy(owner[q]) /\ job[owner[q]] = <<q, o>>)
        BY <4>1, <1>r DEF FetchedIsSettledOrInHand
      <4> QED BY <2>1, <4>1, <4>2, <1>s DEF Busy
    <3> QED BY <3>1, <3>2
  <2> QED BY <2>1, <2>3, <1>r
          DEF NoRequestSkipped, CommitsCoverSettled, JobInHandIsNext,
              ResultStillDue, Settled, Busy
<1>3. ASSUME NEW w \in Workers, NEW p \in Partitions, SkipMalformed(w, p)
      PROVE  Rest'
  <2> DEFINE m == <<p, position[p]>>
  <2>1. UNCHANGED <<committed, owner, pc, job, channel, answered, dropped>>
    BY <1>3 DEF SkipMalformed
  <2>2. /\ m \in Malformed /\ CommitAfter(w, m)
        /\ owner[p] = w /\ ~Busy(w)
        /\ position' = [position EXCEPT ![p] = position[p] + 1]
    BY <1>3 DEF SkipMalformed, Receive, Busy
  <2>3. Settled(m)
    BY <2>2 DEF Settled
  <2>4. \A o \in Offsets : o < position[p] => Settled(<<p, o>>)
    BY <2>2, <1>r, <1>t DEF FetchedIsSettledOrInHand, TypeOK
  <2>5. CommitsCoverSettled'
    BY <2>1, <2>2, <2>3, <2>4, CommitAfterSettled
  <2>6. FetchedIsSettledOrInHand'
    <3> SUFFICES ASSUME NEW q \in Partitions, NEW o \in Offsets,
                        owner'[q] # None, o < position'[q]
                 PROVE  \/ Settled(<<q, o>>)'
                        \/ Busy(owner[q])' /\ job'[owner'[q]] = <<q, o>>
      BY DEF FetchedIsSettledOrInHand
    <3>1. CASE q = p
      <4>1. o < position[p] \/ o = position[p]
        <5>1. position[p] \in Nat /\ position'[p] = position[p] + 1
          BY <2>2, <1>t DEF TypeOK
        <5>2. o < position[p] + 1
          BY <3>1, <5>1
        <5> QED BY <5>1, <5>2
      <4> QED BY <3>1, <4>1, <2>1, <2>3, <2>4 DEF Settled
    <3>2. CASE q # p
      BY <3>2, <2>1, <2>2, <1>r, <1>t
      DEF FetchedIsSettledOrInHand, Settled, Busy, TypeOK
    <3> QED BY <3>1, <3>2
  <2> QED BY <2>1, <2>5, <2>6, <1>r
          DEF NoRequestSkipped, JobInHandIsNext, ResultStillDue, Settled, Busy
<1>4. ASSUME NEW w \in Workers, NEW p \in Partitions, StartJob(w, p) PROVE Rest'
  <2> DEFINE m == <<p, position[p]>>
  <2>1. UNCHANGED <<committed, owner, commits, answered, dropped>>
    BY <1>4 DEF StartJob
  <2>2. /\ m \in Messages \ Malformed
        /\ owner[p] = w /\ pc[w] = "waiting"
        /\ position' = [position EXCEPT ![p] = position[p] + 1]
        /\ pc' = [pc EXCEPT ![w] = "processing"]
        /\ job' = [job EXCEPT ![w] = m]
        /\ \A v \in Workers : v # w => channel'[v] = channel[v]
    BY <1>4, <1>t DEF StartJob, Receive, TypeOK
  <2>3. \A o \in Offsets : o < position[p] => Settled(<<p, o>>)
    BY <2>2, <1>r, <1>t DEF FetchedIsSettledOrInHand, TypeOK, Busy
  <2>7. /\ pc'[w] = "processing" /\ job'[w] = m
        /\ \A v \in Workers : v # w => pc'[v] = pc[v] /\ job'[v] = job[v]
    BY <2>2, <1>t DEF TypeOK
  <2>4. FetchedIsSettledOrInHand'
    <3> SUFFICES ASSUME NEW q \in Partitions, NEW o \in Offsets,
                        owner'[q] # None, o < position'[q]
                 PROVE  \/ Settled(<<q, o>>)'
                        \/ Busy(owner[q])' /\ job'[owner'[q]] = <<q, o>>
      BY DEF FetchedIsSettledOrInHand
    <3>1. CASE q = p
      <4>1. o < position[p] \/ o = position[p]
        <5>1. position[p] \in Nat /\ position'[p] = position[p] + 1
          BY <2>2, <1>t DEF TypeOK
        <5>2. o < position[p] + 1
          BY <3>1, <5>1
        <5> QED BY <5>1, <5>2
      <4> QED BY <3>1, <4>1, <2>1, <2>2, <2>3, <2>7 DEF Settled, Busy
    <3>2. CASE q # p
      <4>1. Settled(<<q, o>>) \/ (Busy(owner[q]) /\ job[owner[q]] = <<q, o>>)
        BY <3>2, <2>1, <2>2, <1>r, <1>t DEF FetchedIsSettledOrInHand, TypeOK
      <4>2. Busy(owner[q]) => owner[q] # w
        BY <2>2 DEF Busy
      <4>3. owner[q] \in Workers
        BY <2>1, <1>t DEF TypeOK
      <4> QED BY <4>1, <4>2, <4>3, <2>1, <2>7 DEF Settled, Busy
    <3> QED BY <3>1, <3>2
  <2>5. JobInHandIsNext'
    BY <2>1, <2>2, <2>3, <2>7, <1>r DEF JobInHandIsNext, Settled, Busy
  <2>6. ResultStillDue'
    BY <2>1, <2>2, <2>7, <1>r DEF ResultStillDue, Settled
  <2> QED BY <2>1, <2>4, <2>5, <2>6, <1>r
          DEF NoRequestSkipped, CommitsCoverSettled, Settled
<1>5. ASSUME NEW w \in Workers, CommitArrives(w) \/ CommitFails(w) PROVE Rest'
  <2>1. UNCHANGED <<owner, position, pc, job, channel, answered, dropped>>
    BY <1>5 DEF CommitArrives, CommitFails, broker
  <2>2. commits[w] # << >> /\ commits' = [commits EXCEPT ![w] = Tail(commits[w])]
    BY <1>5 DEF CommitArrives, CommitFails
  <2>3. commits \in [Workers -> Seq(Commit)]
    BY <1>t DEF TypeOK
  <2>4. 1 \in 1 .. Len(commits[w]) /\ Head(commits[w]) = commits[w][1]
    BY <2>2, <2>3
  <2>5. NoRequestSkipped'
    <3>1. CASE UNCHANGED committed
      BY <3>1, <2>1, <1>r DEF NoRequestSkipped, Settled
    <3>2. CASE CommitArrives(w)
      BY <3>2, <2>1, <2>4, <1>r, <1>t
      DEF CommitArrives, NoRequestSkipped, CommitsCoverSettled, Settled, TypeOK
    <3> QED BY <1>5, <3>1, <3>2 DEF CommitFails, broker
  <2>6. \A i \in 1 .. Len(commits'[w]) :
          i + 1 \in 1 .. Len(commits[w]) /\ commits'[w][i] = commits[w][i + 1]
    BY <2>2, <2>3, HeadTailProperties
  <2>7. \A v \in Workers \ {w} : commits'[v] = commits[v]
    BY <2>2, <2>3
  <2>8. CommitsCoverSettled'
    <3> SUFFICES ASSUME NEW v \in Workers, NEW i \in 1 .. Len(commits'[v]),
                        NEW o \in Offsets, o < commits'[v][i].next
                 PROVE  Settled(<<commits[v][i].partition, o>>)'
      BY DEF CommitsCoverSettled
    <3>1. PICK j \in 1 .. Len(commits[v]) : commits'[v][i] = commits[v][j]
      BY <2>6, <2>7
    <3> QED BY <3>1, <2>1, <1>r DEF CommitsCoverSettled, Settled
  <2> QED BY <2>1, <2>5, <2>8, <1>r
          DEF FetchedIsSettledOrInHand, JobInHandIsNext, ResultStillDue, Settled,
              Busy
<1>6. ASSUME NEW w \in Workers, Progress(w) PROVE Rest'
  <2>1. UNCHANGED <<committed, owner, position, pc, job, commits, answered,
                    dropped>>
    BY <1>6 DEF Progress, broker
  <2>2. pc[w] = "processing" /\ \A v \in Workers \ {w} : channel'[v] = channel[v]
    BY <1>6, <1>t DEF Progress, TypeOK
  <2>3. ResultStillDue'
    BY <2>1, <2>2, <1>r DEF ResultStillDue, Settled
  <2> QED BY <2>1, <2>3, <1>r
          DEF NoRequestSkipped, CommitsCoverSettled, FetchedIsSettledOrInHand,
              JobInHandIsNext, Settled, Busy
<1>7. ASSUME NEW w \in Workers, Success(w) \/ Failure(w) PROVE Rest'
  <2>1. UNCHANGED <<committed, owner, position, job, commits, answered, dropped>>
    BY <1>7 DEF Success, Failure, FinishJob, broker
  <2>2. pc[w] = "processing" /\ pc' = [pc EXCEPT ![w] = "draining"]
    BY <1>7 DEF Success, Failure, FinishJob
  <2>3. \A v \in Workers \ {w} : channel'[v] = channel[v]
    BY <1>7, <1>t DEF Success, Failure, FinishJob, TypeOK
  <2>4. \E i \in 1 .. Len(channel'[w]) : channel'[w][i].kind = "result"
    <3>1. channel[w] \in Seq(Event)
      BY <1>t DEF TypeOK
    <3>2. CASE Success(w)
      <4> DEFINE e == [n |-> emitted[w] + 1, kind |-> "progress"]
                 f == [n |-> emitted[w] + 2, kind |-> "result"]
      <4>1. channel'[w] = channel[w] \o <<e, f>>
        BY <3>2, <1>t DEF Success, FinishJob, TypeOK
      <4>2. f.kind = "result"
        OBVIOUS
      <4> HIDE DEF e, f
      <4>3. /\ Len(channel'[w]) = Len(channel[w]) + 2
            /\ channel'[w][Len(channel[w]) + 2] = f
        BY <3>1, <4>1
      <4> QED BY <3>1, <4>2, <4>3
    <3>3. CASE Failure(w)
      <4> DEFINE f == [n |-> emitted[w] + 1, kind |-> "result"]
      <4>1. channel'[w] = channel[w] \o <<f>>
        BY <3>3, <1>t DEF Failure, FinishJob, TypeOK
      <4>2. f.kind = "result"
        OBVIOUS
      <4> HIDE DEF f
      <4>3. /\ Len(channel'[w]) = Len(channel[w]) + 1
            /\ channel'[w][Len(channel[w]) + 1] = f
        BY <3>1, <4>1
      <4> QED BY <3>1, <4>2, <4>3
    <3> QED BY <1>7, <3>2, <3>3
  <2>5. ResultStillDue'
    <3> SUFFICES ASSUME NEW v \in Workers, pc'[v] = "draining"
                 PROVE  \/ Settled(job[v])
                        \/ \E i \in 1 .. Len(channel'[v]) : channel'[v][i].kind = "result"
      BY <2>1 DEF ResultStillDue, Settled
    <3>1. CASE v = w
      BY <2>4, <3>1
    <3>2. CASE v # w
      <4>1. pc[v] = "draining" /\ channel'[v] = channel[v]
        BY <2>2, <2>3, <3>2, <1>t DEF TypeOK
      <4> QED BY <4>1, <1>r DEF ResultStillDue
    <3> QED BY <3>1, <3>2
  <2>6. \A v \in Workers : Busy(v)' <=> Busy(v)
    BY <2>2, <1>t DEF Busy, TypeOK
  <2> QED BY <2>1, <2>5, <2>6, <1>r, <1>t
          DEF NoRequestSkipped, CommitsCoverSettled, FetchedIsSettledOrInHand,
              JobInHandIsNext, Settled, TypeOK
<1>8. ASSUME NEW w \in Workers, NEW delivered \in BOOLEAN, Publish(w, delivered)
      PROVE  Rest'
  <2>1. UNCHANGED <<committed, owner, position, pc, job, commits>>
    BY <1>8 DEF Publish, PublishEvent, broker
  <2>2. /\ channel[w] # << >> /\ channel' = [channel EXCEPT ![w] = Tail(channel[w])]
        /\ Head(channel[w]).kind = "result" =>
             job[w] \in answered' \union dropped'
    BY <1>8 DEF Publish, PublishEvent
  <2>3. channel \in [Workers -> Seq(Event)]
    BY <1>t DEF TypeOK
  <2>4. ResultStillDue'
    <3> SUFFICES ASSUME NEW v \in Workers, pc[v] = "draining", ~Settled(job[v])'
                 PROVE  \E i \in 1 .. Len(channel'[v]) :
                          channel'[v][i].kind = "result"
      BY <2>1 DEF ResultStillDue
    <3>1. PICK i \in 1 .. Len(channel[v]) : channel[v][i].kind = "result"
      BY <2>1, <1>r, <1>s DEF ResultStillDue, Settled
    <3>2. CASE v = w
      <4>1. i # 1
        BY <3>1, <3>2, <2>1, <2>2, <2>3 DEF Settled
      <4>2. i - 1 \in 1 .. Len(Tail(channel[w]))
            /\ Tail(channel[w])[i - 1] = channel[w][i]
        BY <3>2, <4>1, <2>2, <2>3, HeadTailProperties
      <4> QED BY <3>1, <3>2, <4>2, <2>2, <2>3
    <3>3. CASE v # w
      BY <3>1, <3>3, <2>2, <2>3
    <3> QED BY <3>2, <3>3
  <2> QED BY <2>1, <2>4, <1>r, <1>s
          DEF NoRequestSkipped, CommitsCoverSettled, FetchedIsSettledOrInHand,
              JobInHandIsNext, Busy, Settled
<1>9. ASSUME NEW w \in Workers, Acknowledge(w) PROVE Rest'
  <2>1. UNCHANGED <<committed, owner, position, channel, answered, dropped>>
    BY <1>9 DEF Acknowledge, broker
  <2>2. /\ pc[w] = "draining" /\ channel[w] = << >> /\ CommitAfter(w, job[w])
        /\ pc' = [pc EXCEPT ![w] = "waiting"] /\ job' = [job EXCEPT ![w] = None]
    BY <1>9 DEF Acknowledge
  <2>3. job[w] \in Messages /\ \A o \in Offsets :
          o < job[w][2] => Settled(<<job[w][1], o>>)
    BY <2>2, <1>r DEF JobInHandIsNext, Busy
  <2>4. Settled(job[w])
    BY <2>2, <1>r, <1>t DEF ResultStillDue, TypeOK
  <2>5. CommitsCoverSettled'
    BY <2>1, <2>2, <2>3, <2>4, CommitAfterSettled
  <2>6. FetchedIsSettledOrInHand'
    <3> SUFFICES ASSUME NEW q \in Partitions, NEW o \in Offsets,
                        owner[q] # None, o < position[q]
                 PROVE  \/ Settled(<<q, o>>)'
                        \/ /\ pc'[owner[q]] \in {"processing", "draining"}
                           /\ job'[owner[q]] = <<q, o>>
      BY <2>1 DEF FetchedIsSettledOrInHand, Busy
    <3>1. Settled(<<q, o>>) \/ (Busy(owner[q]) /\ job[owner[q]] = <<q, o>>)
      BY <1>r DEF FetchedIsSettledOrInHand
    <3>2. CASE owner[q] = w
      BY <2>4, <3>1, <3>2, <1>s
    <3>3. CASE owner[q] # w
      <4>1. pc'[owner[q]] = pc[owner[q]] /\ job'[owner[q]] = job[owner[q]]
        BY <2>2, <3>3, <1>t DEF TypeOK
      <4> QED BY <3>1, <4>1, <1>s DEF Busy
    <3> QED BY <3>2, <3>3
  <2> QED BY <2>1, <2>2, <2>5, <2>6, <1>r, <1>t
          DEF NoRequestSkipped, JobInHandIsNext, ResultStillDue, Settled, Busy,
              TypeOK
<1>10. ASSUME NEW w \in Workers, Close(w) \/ Crash(w) PROVE Rest'
  <2>1. UNCHANGED <<committed, position, answered, dropped>>
    BY <1>10 DEF Close, Crash
  <2>2. /\ pc' = [pc EXCEPT ![w] = "down"] /\ Leave(w)
        /\ \A v \in Workers \ {w} :
             job'[v] = job[v] /\ channel'[v] = channel[v] /\ commits'[v] = commits[v]
        /\ commits'[w] = << >>
    BY <1>10, <1>t DEF Close, Crash, TypeOK
  <2>3. \A v \in Workers : v # w => (Busy(v)' <=> Busy(v))
    BY <2>2, <1>t DEF Busy, TypeOK
  <2>4. ~Busy(w)' /\ pc'[w] # "draining"
    BY <2>2, <1>t DEF Busy, TypeOK
  <2>5. FetchedIsSettledOrInHand'
    <3> SUFFICES ASSUME NEW q \in Partitions, NEW o \in Offsets,
                        owner'[q] # None, o < position'[q]
                 PROVE  \/ Settled(<<q, o>>)'
                        \/ Busy(owner[q])' /\ job'[owner'[q]] = <<q, o>>
      BY DEF FetchedIsSettledOrInHand
    <3>1. owner'[q] = owner[q] /\ owner[q] \in Workers \ {w}
      BY <2>2, <1>t DEF Leave, TypeOK
    <3>2. Settled(<<q, o>>) \/ (Busy(owner[q]) /\ job[owner[q]] = <<q, o>>)
      BY <3>1, <2>1, <1>r, <1>t DEF FetchedIsSettledOrInHand, TypeOK
    <3> QED BY SMTT(30), <2>1, <2>2, <3>1, <3>2, <1>t DEF Settled, Busy, TypeOK
  <2>6. JobInHandIsNext'
    BY <2>1, <2>2, <2>3, <2>4, <1>r DEF JobInHandIsNext, Settled
  <2>8. ResultStillDue'
    <3>1. \A v \in Workers \ {w} : pc'[v] = pc[v]
      BY <2>2, <1>t DEF TypeOK
    <3> QED BY <2>1, <2>2, <2>4, <3>1, <1>r DEF ResultStillDue, Settled
  <2>7. CommitsCoverSettled'
    BY <2>1, <2>2, <1>r DEF CommitsCoverSettled, Settled
  <2> QED BY <2>1, <2>5, <2>6, <2>7, <2>8, <1>r DEF NoRequestSkipped, Settled
<1>11. ASSUME UNCHANGED vars PROVE Rest'
  BY <1>11, <1>r
  DEF vars, NoRequestSkipped, CommitsCoverSettled, FetchedIsSettledOrInHand,
      JobInHandIsNext, ResultStillDue, Settled, Busy
<1>12. ASSUME NEW w \in Workers, Step(w) PROVE Rest'
  <2>1. CASE \E p \in Partitions :
               Assign(p, w) \/ SkipMalformed(w, p) \/ StartJob(w, p)
    BY <2>1, <1>2, <1>3, <1>4
  <2>2. CASE \E delivered \in BOOLEAN : Publish(w, delivered)
    BY <2>2, <1>8
  <2> HIDE DEF Rest
  <2>3. CASE Start(w) \/ Shutdown(w)
    BY <2>3, <1>1
  <2>4. CASE CommitArrives(w) \/ CommitFails(w)
    BY <2>4, <1>5
  <2>5. CASE Success(w) \/ Failure(w)
    BY <2>5, <1>7
  <2>6. CASE Close(w) \/ Crash(w)
    BY <2>6, <1>10
  <2> QED BY <1>6, <1>9, <1>12, <2>1, <2>2, <2>3, <2>4, <2>5, <2>6 DEF Step
<1>13. Rest'
  <2> HIDE DEF Rest
  <2> QED BY <1>11, <1>12 DEF Next, Idle
<1> QED
  <2>1. IntakeInv' <=> TypeOK' /\ Rest'
    BY DEF IntakeInv
  <2> HIDE DEF Rest
  <2> QED BY <1>13, <1>t, <2>1

\* The intake invariant holds in every reachable state.
THEOREM IntakeInvariant == Spec => []IntakeInv
<1>1. IntakeInv /\ [Next]_vars => IntakeInv'
  BY IntakeStep
<1> QED BY IntakeInit, <1>1, PTL DEF Spec

\* Type correctness of the worker.
THEOREM TypeCorrect == Spec => []TypeOK
<1>1. IntakeInv => TypeOK
  BY DEF IntakeInv
<1> QED BY <1>1, IntakeInvariant, PTL

\* At-least-once intake: no committed offset skips a request whose result has
\* not been handed to Kafka (main.rs:104-122).
THEOREM NothingSkipped == Spec => []NoRequestSkipped
<1>1. IntakeInv => NoRequestSkipped
  BY DEF IntakeInv
<1> QED BY <1>1, IntakeInvariant, PTL

-----------------------------------------------------------------------------
(* Worker implements RequestIntake.                                        *)

\* Worker starts where the queue starts, and every step of it settles one
\* request, or acknowledges an offset below which all is settled, or stutters.
THEOREM ImplementsIntake == Spec => IntakeSpec
<1>1. Init => Intake!Init
  BY DEF Init, Intake!Init
<1>2. IntakeInv /\ IntakeInv' /\ [Next]_vars =>
        [Intake!Next]_<<Malformed \union answered \union dropped, committed>>
  <2> DEFINE settled == Malformed \union answered \union dropped
  <2> SUFFICES ASSUME IntakeInv, IntakeInv', [Next]_vars,
                      ~UNCHANGED <<settled, committed>>
               PROVE  Intake!Next
    OBVIOUS
  <2>1. PICK w \in Workers : Step(w)
    BY DEF Next, Idle, vars
  <2>2. \/ CommitArrives(w)
        \/ \E delivered \in BOOLEAN : Publish(w, delivered)
    BY <2>1
    DEF Step, Start, Assign, AssignFrom, SkipMalformed, StartJob, CommitFails,
        Progress, Success, Failure, FinishJob, Acknowledge, Shutdown, Close,
        Crash, broker, local
  <2>3. CASE CommitArrives(w)
    <3> DEFINE c == Head(commits[w])
    <3>1. c \in Commit
      BY <2>3 DEF CommitArrives, IntakeInv, TypeOK
    <3>2. committed' = [committed EXCEPT ![c.partition] = c.next]
          /\ UNCHANGED settled
      BY <2>3 DEF CommitArrives
    <3>3. c.partition \in Partitions /\ c.next \in 0 .. LogLen
      BY <3>1 DEF Commit
    <3>4. committed'[c.partition] = c.next
      BY <3>2, <3>3 DEF IntakeInv, TypeOK
    <3>5. \A o \in 0 .. LogLen - 1 : o < c.next => <<c.partition, o>> \in settled
      BY <3>2, <3>3, <3>4 DEF IntakeInv, NoRequestSkipped, Settled
    <3> HIDE DEF c
    <3>6. Intake!Acknowledge(c.partition, c.next)
      BY <3>2, <3>5 DEF Intake!Acknowledge
    <3> QED BY <3>3, <3>6 DEF Intake!Next
  <2>4. CASE \E delivered \in BOOLEAN : Publish(w, delivered)
    <3>1. PICK delivered \in BOOLEAN : Publish(w, delivered)
      BY <2>4
    <3>2. UNCHANGED committed /\ Busy(w)
      BY <3>1 DEF Publish, PublishEvent, broker
    <3>3. job[w] \in Messages
      BY <3>2 DEF IntakeInv, JobInHandIsNext
    <3>4. settled' \in {settled, settled \union {job[w]}}
      BY <3>1 DEF Publish, PublishEvent
    <3>5. Intake!Settle(job[w])
      BY <3>2, <3>4 DEF Intake!Settle
    <3> QED BY <3>3, <3>5 DEF Intake!Next, Intake!Messages
  <2> QED BY <2>2, <2>3, <2>4
<1> QED BY <1>1, <1>2, IntakeInvariant, PTL DEF Spec, IntakeSpec, Intake!Spec

-----------------------------------------------------------------------------
(* The order of the events.                                                *)

\* The channel holds the last events that the attempt has emitted, only earlier
\* ones were sent, and those in order.
Numbered ==
  \A w \in Workers :
    /\ \A i \in 1 .. Len(channel[w]) :
         channel[w][i].n = emitted[w] - Len(channel[w]) + i
    /\ \A i \in 1 .. Len(sent[w]) : sent[w][i] + Len(channel[w]) <= emitted[w]
    /\ \A i, j \in 1 .. Len(sent[w]) : i < j => sent[w][i] < sent[w][j]
    /\ ~Busy(w) => channel[w] = << >> /\ emitted[w] = 0 /\ sent[w] = << >>

\* The job pushes the events that follow the last one into the channel.
LEMMA PushKeepsNumbers ==
  ASSUME TypeOK, Numbered, NEW w \in Workers, NEW last \in Seq(Event),
         \A i \in 1 .. Len(last) : last[i].n = emitted[w] + i,
         channel' = [channel EXCEPT ![w] = @ \o last],
         emitted' = [emitted EXCEPT ![w] = @ + Len(last)],
         UNCHANGED <<sent, job>>, Busy(w),
         \A v \in Workers : Busy(v)' <=> Busy(v)
  PROVE  Numbered'
<1> DEFINE c == channel[w]
<1>1. /\ c \in Seq(Event) /\ emitted[w] \in Nat /\ sent[w] \in Seq(Nat)
      /\ \A i \in 1 .. Len(sent[w]) : sent[w][i] \in Nat
  BY DEF TypeOK
<1>2. channel'[w] = c \o last /\ emitted'[w] = emitted[w] + Len(last)
  BY DEF TypeOK
<1>3. /\ Len(c \o last) = Len(c) + Len(last)
      /\ \A i \in 1 .. Len(c) + Len(last) :
           (c \o last)[i] = IF i <= Len(c) THEN c[i] ELSE last[i - Len(c)]
  BY <1>1, ConcatProperties
<1>4. \A i \in 1 .. Len(c) : c[i].n = emitted[w] - Len(c) + i
  BY DEF Numbered
<1>5. Len(c) \in Nat /\ Len(last) \in Nat
  BY <1>1, LenProperties
<1> HIDE DEF c
<1>6. ASSUME NEW i \in 1 .. Len(c) + Len(last)
      PROVE  (c \o last)[i].n = emitted[w] + Len(last) - (Len(c) + Len(last)) + i
  <2>1. CASE i <= Len(c)
    BY <1>1, <1>3, <1>4, <1>5, <2>1
  <2>2. CASE i > Len(c)
    <3>1. i - Len(c) \in 1 .. Len(last) /\ (c \o last)[i] = last[i - Len(c)]
      BY <1>3, <1>5, <2>2
    <3>2. last[i - Len(c)].n = emitted[w] + (i - Len(c))
      BY <3>1
    <3> QED BY <1>1, <1>5, <3>1, <3>2
  <2> QED BY <1>5, <2>1, <2>2
<1>7. \A v \in Workers \ {w} : channel'[v] = channel[v] /\ emitted'[v] = emitted[v]
  BY DEF TypeOK
<1>8. /\ \A i \in 1 .. Len(channel'[w]) :
           channel'[w][i].n = emitted'[w] - Len(channel'[w]) + i
      /\ \A i \in 1 .. Len(sent'[w]) : sent'[w][i] + Len(channel'[w]) <= emitted'[w]
      /\ Busy(w)'
  <2>1. \A i \in 1 .. Len(sent[w]) : sent[w][i] + Len(c) <= emitted[w]
    BY DEF Numbered, c
  <2>2. sent'[w] = sent[w] /\ Busy(w)'
    OBVIOUS
  <2>3. Len(channel'[w]) = Len(c) + Len(last)
    BY <1>2, <1>3
  <2>4. ASSUME NEW i \in 1 .. Len(sent'[w])
        PROVE  sent'[w][i] + Len(channel'[w]) <= emitted'[w]
    <3>1. sent[w][i] \in Nat /\ sent[w][i] + Len(c) <= emitted[w]
      BY <1>1, <2>1, <2>2
    <3>2. /\ sent'[w][i] = sent[w][i]
          /\ Len(channel'[w]) = Len(c) + Len(last)
          /\ emitted'[w] = emitted[w] + Len(last)
      BY <1>2, <2>2, <2>3
    <3>3. sent[w][i] + (Len(c) + Len(last)) <= emitted[w] + Len(last)
      <4>1. \A x, y, z, l \in Nat : x + y <= z => x + (y + l) <= z + l
        OBVIOUS
      <4>2. emitted[w] \in Nat
        BY <1>1
      <4> QED BY <1>5, <3>1, <4>1, <4>2
    <3> QED BY <3>2, <3>3
  <2>5. ASSUME NEW i \in 1 .. Len(channel'[w])
        PROVE  channel'[w][i].n = emitted'[w] - Len(channel'[w]) + i
    <3>1. (c \o last)[i].n = emitted[w] + Len(last) - (Len(c) + Len(last)) + i
      BY <1>6, <2>3
    <3>2. channel'[w][i].n = emitted[w] + Len(last) - (Len(c) + Len(last)) + i
      BY <1>2, <3>1, Zenon
    <3>3. emitted'[w] - Len(channel'[w]) + i
            = emitted[w] + Len(last) - (Len(c) + Len(last)) + i
      BY <1>2, <2>3, <1>1, <1>5, SMT
    <3> QED BY <3>2, <3>3, Zenon
  <2> QED BY <2>2, <2>4, <2>5
<1> QED BY <1>7, <1>8 DEF Numbered

\* The publisher takes the oldest event, whose number is above all it has sent.
LEMMA PublishKeepsNumbers ==
  ASSUME TypeOK, Numbered, NEW w \in Workers, NEW delivered \in BOOLEAN,
         Publish(w, delivered)
  PROVE  Numbered'
<1> DEFINE c == channel[w]
           s == sent[w]
<1>1. /\ c \in Seq(Event) /\ c # << >> /\ Busy(w)
      /\ emitted[w] \in Nat /\ s \in Seq(Nat)
      /\ \A i \in 1 .. Len(s) : s[i] \in Nat
  BY DEF TypeOK, Publish, PublishEvent
<1>2. /\ channel' = [channel EXCEPT ![w] = Tail(c)]
      /\ sent' = IF delivered THEN [sent EXCEPT ![w] = Append(s, Head(c).n)] ELSE sent
      /\ UNCHANGED <<pc, emitted>>
  BY DEF Publish, PublishEvent
<1>3. /\ Len(c) \in Nat \ {0} /\ Head(c) = c[1] /\ Len(Tail(c)) = Len(c) - 1
      /\ \A i \in 1 .. Len(c) - 1 : Tail(c)[i] = c[i + 1]
  BY <1>1
<1>4. /\ \A i \in 1 .. Len(c) : c[i].n = emitted[w] - Len(c) + i
      /\ \A i \in 1 .. Len(s) : s[i] + Len(c) <= emitted[w]
      /\ \A i, j \in 1 .. Len(s) : i < j => s[i] < s[j]
  BY DEF Numbered
<1> DEFINE h == Head(c).n
<1>5. h = emitted[w] - Len(c) + 1
  BY <1>3, <1>4
<1>e. h \in Nat /\ \A i \in 1 .. Len(s) : s[i] < h
  <2>1. Head(c) \in Event
    BY <1>1
  <2>2. h \in Nat
    BY <2>1 DEF Event
  <2> HIDE DEF h, c, s
  <2> QED BY <1>1, <1>3, <1>4, <1>5, <2>2
<1>6. /\ sent'[w] \in {s, Append(s, h)}
      /\ channel'[w] = Tail(c)
      /\ \A v \in Workers \ {w} : sent'[v] = sent[v] /\ channel'[v] = channel[v]
  BY <1>2 DEF TypeOK
<1> HIDE DEF c, s, h
<1>7. /\ \A i \in 1 .. Len(sent'[w]) : sent'[w][i] + Len(Tail(c)) <= emitted[w]
      /\ \A i, j \in 1 .. Len(sent'[w]) : i < j => sent'[w][i] < sent'[w][j]
  <2>1. CASE sent'[w] = s
    <3>1. \A i \in 1 .. Len(s) : s[i] + Len(Tail(c)) <= emitted[w]
      BY <1>1, <1>3, <1>4
    <3> QED BY <1>4, <2>1, <3>1
  <2>2. CASE sent'[w] = Append(s, h)
    <3>1. /\ Len(sent'[w]) = Len(s) + 1 /\ Len(s) \in Nat
          /\ \A i \in 1 .. Len(s) : sent'[w][i] = s[i]
          /\ sent'[w][Len(s) + 1] = h
      BY <1>1, <1>e, <2>2, AppendProperties
    <3>2. ASSUME NEW i \in 1 .. Len(sent'[w])
          PROVE  sent'[w][i] + Len(Tail(c)) <= emitted[w]
      <4>1. CASE i \in 1 .. Len(s)
        BY SMTT(30), <1>1, <1>3, <1>4, <3>1, <4>1
      <4>2. CASE i = Len(s) + 1
        BY <1>1, <1>3, <1>5, <3>1, <4>2
      <4> QED BY <3>1, <4>1, <4>2
    <3>3. ASSUME NEW i \in 1 .. Len(sent'[w]), NEW j \in 1 .. Len(sent'[w]), i < j
          PROVE  sent'[w][i] < sent'[w][j]
      <4>1. i \in 1 .. Len(s)
        BY <3>1, <3>3
      <4>2. CASE j \in 1 .. Len(s)
        BY <1>4, <3>1, <3>3, <4>1, <4>2
      <4>3. CASE j = Len(s) + 1
        BY <1>e, <3>1, <4>1, <4>3
      <4> QED BY <3>1, <4>2, <4>3
    <3> QED BY <3>2, <3>3
  <2> QED BY <1>6, <2>1, <2>2
<1>8. \A i \in 1 .. Len(Tail(c)) : Tail(c)[i].n = emitted[w] - Len(Tail(c)) + i
  <2> SUFFICES ASSUME NEW i \in 1 .. Len(c) - 1
               PROVE  Tail(c)[i].n = emitted[w] - (Len(c) - 1) + i
    BY <1>3
  <2>1. i + 1 \in 1 .. Len(c) /\ Tail(c)[i] = c[i + 1]
    BY <1>3
  <2>2. c[i + 1].n = emitted[w] - Len(c) + (i + 1)
    BY <1>4, <2>1
  <2>3. emitted[w] - Len(c) + (i + 1) = emitted[w] - (Len(c) - 1) + i
    BY <1>1, <1>3
  <2> QED BY <2>1, <2>2, <2>3
<1>9. \A v \in Workers : Busy(v)' <=> Busy(v)
  BY <1>2 DEF Busy
<1> SUFFICES ASSUME NEW v \in Workers
             PROVE  /\ \A i \in 1 .. Len(channel'[v]) :
                         channel'[v][i].n = emitted'[v] - Len(channel'[v]) + i
                    /\ \A i \in 1 .. Len(sent'[v]) :
                         sent'[v][i] + Len(channel'[v]) <= emitted'[v]
                    /\ \A i, j \in 1 .. Len(sent'[v]) :
                         i < j => sent'[v][i] < sent'[v][j]
                    /\ ~Busy(v)' =>
                         channel'[v] = << >> /\ emitted'[v] = 0 /\ sent'[v] = << >>
  BY DEF Numbered
<1>10. emitted' = emitted /\ (Busy(v)' <=> Busy(v))
  BY <1>2, <1>9
<1>11. CASE v = w
  BY <1>1, <1>6, <1>7, <1>8, <1>10, <1>11
<1>12. CASE v # w
  <2>1. channel'[v] = channel[v] /\ sent'[v] = sent[v]
    BY <1>6, <1>12
  <2> QED BY <1>10, <2>1 DEF Numbered
<1> QED BY <1>11, <1>12

\* Every step keeps the numbers.
LEMMA NumberedStep ==
  ASSUME TypeOK, Numbered, [Next]_vars
  PROVE  Numbered'
<1>1. ASSUME UNCHANGED <<channel, emitted, sent>>,
             \A w \in Workers : Busy(w)' <=> Busy(w)
      PROVE  Numbered'
  BY <1>1 DEF Numbered
<1>2. ASSUME UNCHANGED vars
      PROVE  Numbered'
  BY <1>1, <1>2 DEF vars, Busy
<1>3. ASSUME NEW w \in Workers, Start(w) \/ Shutdown(w) \/ Close(w)
      PROVE  Numbered'
  BY <1>1, <1>3 DEF Start, Shutdown, Close, Busy, TypeOK
<1>4. ASSUME NEW w \in Workers,
             \/ \E p \in Partitions : Assign(p, w) \/ SkipMalformed(w, p)
             \/ CommitArrives(w) \/ CommitFails(w)
      PROVE  Numbered'
  BY <1>1, <1>4
  DEF Assign, AssignFrom, SkipMalformed, CommitArrives, CommitFails, local, Busy
<1>5. ASSUME NEW w \in Workers, NEW p \in Partitions, StartJob(w, p)
      PROVE  Numbered'
  <2>1. /\ pc' = [pc EXCEPT ![w] = "processing"]
        /\ channel' = [channel EXCEPT ![w] = <<[n |-> 1, kind |-> "progress"]>>]
        /\ emitted' = [emitted EXCEPT ![w] = 1]
        /\ sent' = sent /\ ~Busy(w)
    BY <1>5 DEF StartJob, Receive, Busy
  <2>2. sent[w] = << >>
    BY <2>1 DEF Numbered
  <2>3. /\ channel'[w] = <<[n |-> 1, kind |-> "progress"]>> /\ emitted'[w] = 1
        /\ Busy(w)'
    BY <2>1 DEF TypeOK, Busy
  <2>4. \A v \in Workers \ {w} : /\ channel'[v] = channel[v]
                                 /\ emitted'[v] = emitted[v]
                                 /\ Busy(v)' <=> Busy(v)
    BY <2>1 DEF TypeOK, Busy
  <2> QED BY <2>1, <2>2, <2>3, <2>4 DEF Numbered
<1>6. ASSUME NEW w \in Workers, Progress(w)
      PROVE  Numbered'
  <2> DEFINE last == <<[n |-> emitted[w] + 1, kind |-> "progress"]>>
  <2>1. emitted[w] \in Nat /\ channel[w] \in Seq(Event)
    BY DEF TypeOK
  <2>2. /\ last \in Seq(Event) /\ Len(last) = 1
        /\ \A i \in 1 .. Len(last) : last[i].n = emitted[w] + i
    BY <2>1 DEF Event
  <2>3. channel[w] \o last = Append(channel[w], last[1])
    BY <2>1, <2>2
  <2>4. /\ channel' = [channel EXCEPT ![w] = channel[w] \o last]
        /\ emitted' = [emitted EXCEPT ![w] = @ + Len(last)]
    BY <1>6, <2>2, <2>3 DEF Progress
  <2>5. UNCHANGED <<pc, sent, job>> /\ Busy(w)
    BY <1>6 DEF Progress, Busy
  <2>6. \A v \in Workers : Busy(v)' <=> Busy(v)
    BY <2>5 DEF Busy
  <2> HIDE DEF last
  <2> QED BY <2>2, <2>4, <2>5, <2>6, PushKeepsNumbers
<1>7. ASSUME NEW w \in Workers, Success(w) \/ Failure(w)
      PROVE  Numbered'
  <2>1. emitted[w] \in Nat
    BY DEF TypeOK
  <2>2. PICK last \in Seq(Event) :
          /\ FinishJob(w, last)
          /\ \A i \in 1 .. Len(last) : last[i].n = emitted[w] + i
    <3>1. CASE Success(w)
      <4> DEFINE last == <<[n |-> emitted[w] + 1, kind |-> "progress"],
                           [n |-> emitted[w] + 2, kind |-> "result"]>>
      <4>1. last \in Seq(Event) /\ \A i \in 1 .. Len(last) : last[i].n = emitted[w] + i
        BY <2>1 DEF Event
      <4>2. FinishJob(w, last)
        BY <3>1 DEF Success
      <4> HIDE DEF last
      <4> QED BY <4>1, <4>2
    <3>2. CASE Failure(w)
      <4> DEFINE last == <<[n |-> emitted[w] + 1, kind |-> "result"]>>
      <4>1. last \in Seq(Event) /\ \A i \in 1 .. Len(last) : last[i].n = emitted[w] + i
        BY <2>1 DEF Event
      <4>2. FinishJob(w, last)
        BY <3>2 DEF Failure
      <4> HIDE DEF last
      <4> QED BY <4>1, <4>2
    <3> QED BY <1>7, <3>1, <3>2
  <2>3. /\ channel' = [channel EXCEPT ![w] = @ \o last]
        /\ emitted' = [emitted EXCEPT ![w] = @ + Len(last)]
        /\ UNCHANGED <<sent, job>> /\ Busy(w)
        /\ \A v \in Workers : Busy(v)' <=> Busy(v)
    BY <2>2 DEF FinishJob, Busy, TypeOK
  <2> QED BY <2>2, <2>3, PushKeepsNumbers
<1>8. ASSUME NEW w \in Workers, NEW delivered \in BOOLEAN, Publish(w, delivered)
      PROVE  Numbered'
  BY <1>8, PublishKeepsNumbers
<1>9. ASSUME NEW w \in Workers, Acknowledge(w) \/ Crash(w)
      PROVE  Numbered'
  <2>1. channel'[w] = << >> /\ emitted'[w] = 0 /\ sent'[w] = << >> /\ ~Busy(w)'
    BY <1>9 DEF Acknowledge, Crash, Forget, Busy, TypeOK
  <2>2. \A v \in Workers \ {w} : /\ channel'[v] = channel[v]
                                 /\ emitted'[v] = emitted[v]
                                 /\ sent'[v] = sent[v]
                                 /\ Busy(v)' <=> Busy(v)
    BY <1>9 DEF Acknowledge, Crash, Forget, Busy, TypeOK
  <2> QED BY <2>1, <2>2 DEF Numbered
<1>10. ASSUME NEW w \in Workers, Step(w)
       PROVE  Numbered'
  BY <1>3, <1>4, <1>5, <1>6, <1>7, <1>8, <1>9, <1>10 DEF Step
<1> QED BY <1>2, <1>10 DEF Next, Idle

\* Kafka gets the events of an attempt in the order in which the job emitted
\* them, none before an earlier one and none twice (main.rs:125-141).
THEOREM EventsInOrder == Spec => []PublishedInOrder
<1>1. Init => Numbered
  <2> SUFFICES ASSUME Init PROVE Numbered
    OBVIOUS
  <2>1. \A w \in Workers : channel[w] = << >> /\ emitted[w] = 0 /\ sent[w] = << >>
    BY DEF Init
  <2> SUFFICES ASSUME NEW w \in Workers
               PROVE  /\ \A i \in 1 .. Len(channel[w]) :
                           channel[w][i].n = emitted[w] - Len(channel[w]) + i
                      /\ \A i \in 1 .. Len(sent[w]) :
                           sent[w][i] + Len(channel[w]) <= emitted[w]
                      /\ \A i, j \in 1 .. Len(sent[w]) : i < j => sent[w][i] < sent[w][j]
                      /\ channel[w] = << >> /\ emitted[w] = 0 /\ sent[w] = << >>
    BY DEF Numbered
  <2>2. Len(channel[w]) = 0 /\ Len(sent[w]) = 0
    BY <2>1, EmptySeq, Zenon
  <2>3. 1 .. Len(channel[w]) = {} /\ 1 .. Len(sent[w]) = {}
    BY <2>2
  <2> QED BY <2>1, <2>3
<1>2. TypeOK /\ Numbered /\ [Next]_vars => Numbered'
  BY NumberedStep
<1>3. Numbered => PublishedInOrder
  BY DEF Numbered, PublishedInOrder
<1> QED BY <1>1, <1>2, <1>3, TypeCorrect, PTL DEF Spec

-----------------------------------------------------------------------------
(* What cannot happen without a fault.                                     *)

\* The commits a worker has under way are for partitions it owns, lie between
\* the committed offset and the fetch position, and are in order.
CommitsOwned ==
  \A w \in Workers : \A i \in 1 .. Len(commits[w]) :
    LET c == commits[w][i] IN
      /\ owner[c.partition] = w
      /\ committed[c.partition] <= c.next /\ c.next <= position[c.partition]
CommitsSorted ==
  \A w \in Workers : \A i, j \in 1 .. Len(commits[w]) :
    i <= j /\ commits[w][i].partition = commits[w][j].partition =>
      commits[w][i].next <= commits[w][j].next

\* The request in hand is the last one fetched, from a partition still owned.
HandIsLatest ==
  \A w \in Workers : Busy(w) =>
    owner[job[w][1]] = w /\ position[job[w][1]] = job[w][2] + 1

\* What has been fetched is committed, or its commit is under way, or it is in
\* hand; all that was ever taken lies below the fetch position.
UnderWay(p) ==
  /\ owner[p] # None
  /\ \/ Busy(owner[p]) /\ job[owner[p]][1] = p
     \/ \E i \in 1 .. Len(commits[owner[p]]) :
          /\ commits[owner[p]][i].partition = p
          /\ commits[owner[p]][i].next = position[p]
FetchedIsUnderWay ==
  \A p \in Partitions :
    /\ committed[p] <= position[p]
    /\ committed[p] = position[p] \/ UnderWay(p)
    /\ \A o \in Offsets : <<p, o>> \in taken => o < position[p]

Orderly == CommitsOwned /\ CommitsSorted /\ HandIsLatest /\ FetchedIsUnderWay
FaultFreeInv == IntakeInv /\ (faults = 0 => Orderly)

\* A worker appends the commit of a message of a partition it owns, fetched last.
LEMMA AppendKeepsOrder ==
  ASSUME TypeOK, CommitsOwned, CommitsSorted, NEW w \in Workers, NEW m \in Messages,
         CommitAfter(w, m), UNCHANGED <<committed, owner>>,
         position' \in [Partitions -> Nat],
         \A p \in Partitions : position[p] <= position'[p],
         committed[m[1]] <= position[m[1]],
         owner[m[1]] = w, position'[m[1]] = m[2] + 1
  PROVE  /\ CommitsOwned' /\ CommitsSorted'
         /\ \E i \in 1 .. Len(commits'[w]) :
              commits'[w][i].partition = m[1] /\ commits'[w][i].next = m[2] + 1
         /\ \A v \in Workers : \A i \in 1 .. Len(commits[v]) :
              i \in 1 .. Len(commits'[v]) /\ commits'[v][i] = commits[v][i]
<1> DEFINE c == [partition |-> m[1], next |-> m[2] + 1]
           s == commits[w]
<1>1. m[1] \in Partitions /\ m[2] \in Nat
  BY ConstantsAssumption
<1>2. s \in Seq(Commit) /\ c.partition = m[1] /\ c.next = m[2] + 1
  BY DEF TypeOK
<1>3. commits' = [commits EXCEPT ![w] = Append(s, c)]
  BY DEF CommitAfter
<1>4. /\ commits'[w] = Append(s, c)
      /\ \A v \in Workers \ {w} : commits'[v] = commits[v]
  BY <1>3 DEF TypeOK
<1> DEFINE t == Append(s, c)
<1> HIDE DEF c, s
<1>5. /\ Len(s) \in Nat /\ Len(t) = Len(s) + 1
      /\ \A i \in 1 .. Len(s) : t[i] = s[i]
      /\ t[Len(s) + 1] = c
  BY <1>2, AppendProperties
<1> HIDE DEF t
<1>6. commits'[w] = t
  BY <1>4 DEF t
<1>7. \A v \in Workers : \A i \in 1 .. Len(commits[v]) :
        /\ commits[v][i] \in Commit
        /\ i \in 1 .. Len(commits'[v]) /\ commits'[v][i] = commits[v][i]
  <2> SUFFICES ASSUME NEW v \in Workers, NEW i \in 1 .. Len(commits[v])
               PROVE  /\ commits[v][i] \in Commit
                      /\ i \in 1 .. Len(commits'[v])
                      /\ commits'[v][i] = commits[v][i]
    OBVIOUS
  <2>1. commits[v] \in Seq(Commit)
    BY DEF TypeOK
  <2>2. commits[v][i] \in Commit
    BY <2>1
  <2>3. CASE v = w
    BY <1>5, <1>6, <2>2, <2>3 DEF s
  <2>4. CASE v # w
    BY <1>4, <2>2, <2>4
  <2> QED BY <2>3, <2>4
<1>8. \A i \in 1 .. Len(t) : i \in 1 .. Len(s) \/ i = Len(s) + 1
  BY <1>5
<1>9. \A v \in Workers : \A i \in 1 .. Len(commits[v]) :
        LET d == commits[v][i] IN
          /\ owner[d.partition] = v
          /\ committed[d.partition] <= d.next /\ d.next <= position'[d.partition]
  <2> SUFFICES ASSUME NEW v \in Workers, NEW i \in 1 .. Len(commits[v])
               PROVE  LET d == commits[v][i] IN
                        /\ owner[d.partition] = v
                        /\ committed[d.partition] <= d.next
                        /\ d.next <= position'[d.partition]
    OBVIOUS
  <2> DEFINE d == commits[v][i]
  <2>1. d.partition \in Partitions /\ d.next \in Nat
    BY <1>7 DEF Commit
  <2>2. /\ owner[d.partition] = v
        /\ committed[d.partition] <= d.next /\ d.next <= position[d.partition]
    BY DEF CommitsOwned
  <2>3. /\ position[d.partition] \in Nat /\ position'[d.partition] \in Nat
        /\ position[d.partition] <= position'[d.partition]
        /\ committed[d.partition] \in Nat
    <3> DEFINE q == d.partition
    <3> HIDE DEF d
    <3>1. q \in Partitions
      BY <2>1
    <3>2. \A x \in Partitions : position[x] \in Nat /\ committed[x] \in Nat
      BY ConstantsAssumption DEF TypeOK
    <3> HIDE DEF q
    <3>3. position[q] \in Nat /\ position'[q] \in Nat /\ position[q] <= position'[q]
          /\ committed[q] \in Nat
      BY <3>1, <3>2
    <3> QED BY <3>3 DEF q
  <2> QED BY <2>1, <2>2, <2>3
<1>10. CommitsOwned'
  <2> SUFFICES ASSUME NEW v \in Workers, NEW i \in 1 .. Len(commits'[v])
               PROVE  LET d == commits'[v][i] IN
                        /\ owner[d.partition] = v
                        /\ committed[d.partition] <= d.next
                        /\ d.next <= position'[d.partition]
    BY DEF CommitsOwned
  <2>1. CASE i \in 1 .. Len(commits[v])
    <3>1. commits'[v][i] = commits[v][i]
      BY <1>7, <2>1
    <3> QED BY <1>9, <2>1, <3>1
  <2>2. CASE v = w /\ i = Len(s) + 1
    <3>1. commits'[v][i] = c
      BY <1>5, <1>6, <2>2
    <3>2. committed[m[1]] <= m[2] + 1 /\ m[2] + 1 <= position'[m[1]]
      <4>1. committed[m[1]] \in Nat /\ position[m[1]] \in Nat
        BY <1>1 DEF TypeOK
      <4>2. position[m[1]] <= position'[m[1]]
        BY <1>1
      <4> QED BY <1>1, <4>1, <4>2
    <3> QED BY <1>2, <2>2, <3>1, <3>2
  <2> QED BY <1>4, <1>6, <1>8, <2>1, <2>2 DEF s
<1>11. CommitsSorted'
  <2> SUFFICES ASSUME NEW v \in Workers,
                      NEW i \in 1 .. Len(commits'[v]), NEW j \in 1 .. Len(commits'[v]),
                      i <= j, commits'[v][i].partition = commits'[v][j].partition
               PROVE  commits'[v][i].next <= commits'[v][j].next
    BY DEF CommitsSorted
  <2>1. CASE i \in 1 .. Len(commits[v]) /\ j \in 1 .. Len(commits[v])
    BY <1>7, <2>1 DEF CommitsSorted
  <2>2. CASE v = w /\ j = Len(s) + 1
    <3>1. commits'[v][j] = c
      BY <1>5, <1>6, <2>2
    <3>2. CASE i = Len(s) + 1
      BY <1>1, <1>2, <2>2, <3>1, <3>2
    <3>3. CASE i \in 1 .. Len(s)
      <4>1. commits'[v][i] = commits[v][i] /\ commits[v][i].partition = m[1]
        BY <1>2, <1>7, <2>2, <3>1, <3>3 DEF s
      <4>2. commits[v][i].next <= position'[m[1]]
        BY <1>9, <2>2, <3>3, <4>1 DEF s
      <4> QED BY <1>2, <3>1, <4>1, <4>2
    <3> QED BY <1>6, <1>8, <2>2, <3>2, <3>3
  <2>3. CASE v = w /\ i = Len(s) + 1 /\ j \in 1 .. Len(s)
    BY <1>5, <2>3
  <2> QED BY <1>4, <1>6, <1>8, <2>1, <2>2, <2>3 DEF s
<1>12. \E i \in 1 .. Len(commits'[w]) :
         commits'[w][i].partition = m[1] /\ commits'[w][i].next = m[2] + 1
  <2>1. Len(s) + 1 \in 1 .. Len(commits'[w]) /\ commits'[w][Len(s) + 1] = c
    BY <1>5, <1>6
  <2> QED BY <1>2, <2>1
<1> QED BY <1>7, <1>10, <1>11, <1>12

\* What a commit under way is for stays so when the commits of a worker do.
LEMMA UnderWayStays ==
  ASSUME NEW p, UnderWay(p), UNCHANGED owner, position'[p] = position[p],
         Busy(owner[p]) => Busy(owner[p])' /\ job'[owner[p]] = job[owner[p]],
         \A i \in 1 .. Len(commits[owner[p]]) :
           /\ i \in 1 .. Len(commits'[owner[p]])
           /\ commits'[owner[p]][i] = commits[owner[p]][i]
  PROVE  UnderWay(p)'
<1>1. CASE Busy(owner[p]) /\ job[owner[p]][1] = p
  BY <1>1 DEF UnderWay
<1>2. CASE \E i \in 1 .. Len(commits[owner[p]]) :
              /\ commits[owner[p]][i].partition = p
              /\ commits[owner[p]][i].next = position[p]
  BY <1>2 DEF UnderWay
<1> QED BY <1>1, <1>2 DEF UnderWay

\* The broker gets the oldest commit of a worker: the offset moves forwards.
LEMMA ArrivalKeepsOrder ==
  ASSUME TypeOK, Orderly, NEW w \in Workers, CommitArrives(w)
  PROVE  /\ Orderly'
         /\ \A p \in Partitions : committed[p] <= committed'[p]
<1> DEFINE s == commits[w]
           c == Head(s)
<1>1. /\ s \in Seq(Commit) /\ s # << >> /\ c \in Commit /\ c = s[1]
      /\ Len(s) \in Nat \ {0} /\ Len(Tail(s)) = Len(s) - 1
      /\ \A i \in 1 .. Len(s) - 1 : Tail(s)[i] = s[i + 1]
  BY DEF TypeOK, CommitArrives
<1>2. /\ committed' = [committed EXCEPT ![c.partition] = c.next]
      /\ commits' = [commits EXCEPT ![w] = Tail(s)]
      /\ UNCHANGED <<owner, position, pc, job, taken>>
  BY DEF CommitArrives
<1> DEFINE q == c.partition
<1>3. /\ q \in Partitions /\ c.next \in Nat
      /\ owner[q] = w /\ committed[q] <= c.next /\ c.next <= position[q]
  BY <1>1 DEF Orderly, CommitsOwned, Commit
<1>4. /\ commits'[w] = Tail(s)
      /\ \A v \in Workers \ {w} : commits'[v] = commits[v]
      /\ committed'[q] = c.next
      /\ \A p \in Partitions \ {q} : committed'[p] = committed[p]
  BY <1>2, <1>3 DEF TypeOK
<1>5. \A v \in Workers : Busy(v)' <=> Busy(v)
  BY <1>2 DEF Busy
<1> HIDE DEF c, s
\* The commits that are left are commits from before.
<1>6. ASSUME NEW v \in Workers, NEW i \in 1 .. Len(commits'[v])
      PROVE  \E k \in 1 .. Len(commits[v]) :
               /\ commits'[v][i] = commits[v][k] /\ commits[v][k] \in Commit
               /\ v = w => k = i + 1
  <2>1. CASE v = w
    <3>1. i + 1 \in 1 .. Len(s) /\ commits'[v][i] = s[i + 1]
      <4>1. i \in 1 .. Len(s) - 1 /\ commits'[v][i] = Tail(s)[i]
        BY <1>1, <1>4, <2>1
      <4> QED BY <1>1, <4>1
    <3>2. s[i + 1] \in Commit
      BY <1>1, <3>1
    <3> QED BY <2>1, <3>1, <3>2 DEF s
  <2>2. CASE v # w
    <3>1. commits'[v] = commits[v] /\ commits[v] \in Seq(Commit)
      BY <1>4, <2>2 DEF TypeOK
    <3> QED BY <2>2, <3>1
  <2> QED BY <2>1, <2>2
<1>7. CommitsOwned'
  <2> SUFFICES ASSUME NEW v \in Workers, NEW i \in 1 .. Len(commits'[v])
               PROVE  LET d == commits'[v][i] IN
                        /\ owner'[d.partition] = v
                        /\ committed'[d.partition] <= d.next
                        /\ d.next <= position'[d.partition]
    BY DEF CommitsOwned
  <2>1. PICK k \in 1 .. Len(commits[v]) :
          /\ commits'[v][i] = commits[v][k] /\ commits[v][k] \in Commit
          /\ v = w => k = i + 1
    BY <1>6
  <2> DEFINE d == commits[v][k]
  <2>2. /\ owner[d.partition] = v
        /\ committed[d.partition] <= d.next /\ d.next <= position[d.partition]
        /\ d.partition \in Partitions
    BY <2>1 DEF Orderly, CommitsOwned, Commit
  <2>3. committed'[d.partition] <= d.next
    <3>1. CASE d.partition = q
      <4>1. v = w /\ k \in 1 .. Len(s) /\ 1 \in 1 .. Len(s) /\ 1 <= k
        BY <1>1, <1>3, <2>2, <3>1 DEF s
      <4>2. c.next <= d.next
        BY <1>1, <3>1, <4>1 DEF s, Orderly, CommitsSorted
      <4> QED BY <1>4, <3>1, <4>2
    <3>2. CASE d.partition # q
      BY <1>4, <2>2, <3>2
    <3> QED BY <3>1, <3>2
  <2> QED BY <1>2, <2>1, <2>2, <2>3
<1>8. CommitsSorted'
  <2> SUFFICES ASSUME NEW v \in Workers,
                      NEW i \in 1 .. Len(commits'[v]), NEW j \in 1 .. Len(commits'[v]),
                      i <= j, commits'[v][i].partition = commits'[v][j].partition
               PROVE  commits'[v][i].next <= commits'[v][j].next
    BY DEF CommitsSorted
  <2>1. CASE v = w
    <3>1. /\ i + 1 \in 1 .. Len(s) /\ j + 1 \in 1 .. Len(s) /\ i + 1 <= j + 1
          /\ commits'[v][i] = s[i + 1] /\ commits'[v][j] = s[j + 1]
      <4>1. /\ i \in 1 .. Len(s) - 1 /\ j \in 1 .. Len(s) - 1
            /\ commits'[v][i] = Tail(s)[i] /\ commits'[v][j] = Tail(s)[j]
        BY <1>1, <1>4, <2>1
      <4> QED BY <1>1, <4>1
    <3> QED BY <2>1, <3>1 DEF s, Orderly, CommitsSorted
  <2>2. CASE v # w
    BY <1>4, <2>2 DEF Orderly, CommitsSorted
  <2> QED BY <2>1, <2>2
<1>9. HandIsLatest'
  BY <1>2, <1>5 DEF Orderly, HandIsLatest
<1>10. ASSUME NEW p, UnderWay(p), Busy(owner[p]), job[owner[p]][1] = p
       PROVE  UnderWay(p)'
  BY <1>2, <1>10 DEF UnderWay, Busy
<1>11. ASSUME NEW p, UnderWay(p), NEW i \in 1 .. Len(commits'[owner[p]]),
              commits'[owner[p]][i].partition = p,
              commits'[owner[p]][i].next = position[p]
       PROVE  UnderWay(p)'
  BY <1>2, <1>11 DEF UnderWay
<1>12. ASSUME NEW p \in Partitions, UnderWay(p), p = q => c.next # position[p]
       PROVE  UnderWay(p)'
  <2>1. CASE Busy(owner[p]) /\ job[owner[p]][1] = p
    BY <1>10, <1>12, <2>1
  <2>2. CASE \E i \in 1 .. Len(commits[owner[p]]) :
               /\ commits[owner[p]][i].partition = p
               /\ commits[owner[p]][i].next = position[p]
    <3>1. PICK i \in 1 .. Len(commits[owner[p]]) :
            /\ commits[owner[p]][i].partition = p
            /\ commits[owner[p]][i].next = position[p]
      BY <2>2
    <3>2. CASE owner[p] = w
      <4>1. i \in 1 .. Len(s) /\ s[i].partition = p /\ s[i].next = position[p]
        BY <3>1, <3>2 DEF s
      <4>2. i # 1
        BY <1>1, <1>12, <4>1
      <4> DEFINE k == i - 1
      <4>3. k \in 1 .. Len(s) - 1 /\ k + 1 = i
        BY <1>1, <4>1, <4>2
      <4> HIDE DEF k
      <4>4. k \in 1 .. Len(commits'[w]) /\ commits'[w][k] = s[i]
        BY <1>1, <1>4, <4>3
      <4> QED BY <1>11, <1>12, <3>2, <4>1, <4>4
    <3>3. CASE owner[p] # w
      <4>1. owner[p] \in Workers
        BY <1>12 DEF UnderWay, TypeOK
      <4>2. commits'[owner[p]] = commits[owner[p]]
        BY <1>4, <3>3, <4>1
      <4> QED BY <1>11, <1>12, <3>1, <4>2
    <3> QED BY <3>2, <3>3
  <2> QED BY <1>12, <2>1, <2>2 DEF UnderWay
<1>13. FetchedIsUnderWay'
  <2> SUFFICES ASSUME NEW p \in Partitions
               PROVE  /\ committed'[p] <= position[p]
                      /\ committed'[p] = position[p] \/ UnderWay(p)'
    BY <1>2 DEF Orderly, FetchedIsUnderWay
  <2>1. committed[p] <= position[p] /\ (committed[p] = position[p] \/ UnderWay(p))
    BY DEF Orderly, FetchedIsUnderWay
  <2>2. CASE p = q /\ c.next = position[p]
    BY <1>3, <1>4, <2>2
  <2>3. CASE p = q /\ c.next # position[p]
    <3>1. committed[p] # position[p]
      <4>1. committed[q] \in Nat /\ position[q] \in Nat
        BY <1>3 DEF TypeOK
      <4> QED BY <1>3, <2>3, <4>1
    <3>2. UnderWay(p)'
      BY <1>12, <2>1, <2>3, <3>1
    <3> QED BY <1>3, <1>4, <2>3, <3>2
  <2>4. CASE p # q
    BY <1>4, <1>12, <2>1, <2>4
  <2> QED BY <2>2, <2>3, <2>4
<1>14. \A p \in Partitions : committed[p] <= committed'[p]
  <2> SUFFICES ASSUME NEW p \in Partitions PROVE committed[p] <= committed'[p]
    OBVIOUS
  <2>1. committed[p] \in Nat
    BY DEF TypeOK
  <2> QED BY <1>3, <1>4, <2>1
<1> QED BY <1>7, <1>8, <1>9, <1>13, <1>14 DEF Orderly

LEMMA CommitTyped ==
  ASSUME TypeOK, NEW v \in Workers, NEW i \in 1 .. Len(commits[v])
  PROVE  commits[v][i].partition \in Partitions /\ commits[v][i].next \in Nat
<1>1. commits[v] \in Seq(Commit)
  BY DEF TypeOK
<1>2. commits[v][i] \in Commit
  BY <1>1
<1> QED BY <1>2 DEF Commit

\* A step that leaves offsets, owners, commits and the jobs in hand alone.
LEMMA OrderUnmoved ==
  ASSUME TypeOK, Orderly,
         UNCHANGED <<committed, owner, position, job, commits, taken>>,
         \A v \in Workers : Busy(v)' <=> Busy(v)
  PROVE  Orderly'
<1>1. CommitsOwned' /\ CommitsSorted'
  BY DEF Orderly, CommitsOwned, CommitsSorted
<1>2. HandIsLatest'
  BY DEF Orderly, HandIsLatest
<1>3. ASSUME NEW p \in Partitions, UnderWay(p) PROVE UnderWay(p)'
  <2>1. owner[p] \in Workers
    BY <1>3 DEF UnderWay, TypeOK
  <2> QED BY <1>3, <2>1, UnderWayStays
<1>4. FetchedIsUnderWay'
  BY <1>3 DEF Orderly, FetchedIsUnderWay
<1> QED BY <1>1, <1>2, <1>4 DEF Orderly

\* A free partition is assigned: nothing of it is under way, so what is fetched
\* next is what is committed.
LEMMA AssignKeepsOrder ==
  ASSUME TypeOK, Orderly, NEW p \in Partitions, NEW w \in Workers,
         Assign(p, w), owner[p] = None
  PROVE  Orderly'
<1>1. /\ owner' = [owner EXCEPT ![p] = w]
      /\ position' = [position EXCEPT ![p] = committed[p]]
      /\ UNCHANGED <<committed, pc, job, commits, taken>>
  BY DEF Assign, AssignFrom, local
<1>2. committed[p] = position[p]
  BY DEF Orderly, FetchedIsUnderWay, UnderWay
<1>3. position' = position
  BY <1>1, <1>2 DEF TypeOK
<1>4. /\ owner'[p] = w
      /\ \A q \in Partitions \ {p} : owner'[q] = owner[q]
  BY <1>1 DEF TypeOK
<1>5. None \notin Workers
  BY ConstantsAssumption
<1>6. \A v : Busy(v)' <=> Busy(v)
  BY <1>1 DEF Busy
<1>7. CommitsOwned'
  <2> SUFFICES ASSUME NEW v \in Workers, NEW i \in 1 .. Len(commits[v])
               PROVE  LET d == commits[v][i] IN
                        /\ owner'[d.partition] = v
                        /\ committed[d.partition] <= d.next
                        /\ d.next <= position[d.partition]
    BY <1>1, <1>3 DEF CommitsOwned
  <2> DEFINE d == commits[v][i]
  <2>1. /\ owner[d.partition] = v
        /\ committed[d.partition] <= d.next /\ d.next <= position[d.partition]
    BY DEF Orderly, CommitsOwned
  <2>2. d.partition \in Partitions
    BY CommitTyped
  <2> QED BY <1>4, <1>5, <2>1, <2>2
<1>8. CommitsSorted'
  BY <1>1 DEF Orderly, CommitsSorted
<1>9. HandIsLatest'
  <2> SUFFICES ASSUME NEW v \in Workers, Busy(v)
               PROVE  /\ owner'[job[v][1]] = v
                      /\ position[job[v][1]] = job[v][2] + 1
    BY <1>1, <1>3, <1>6 DEF HandIsLatest
  <2>1. /\ owner[job[v][1]] = v
        /\ position[job[v][1]] = job[v][2] + 1
    BY DEF Orderly, HandIsLatest
  <2> QED BY <1>1, <1>5, <2>1 DEF TypeOK
<1>10. FetchedIsUnderWay'
  <2> SUFFICES ASSUME NEW q \in Partitions, committed[q] # position[q]
               PROVE  UnderWay(q)'
    BY <1>1, <1>3 DEF Orderly, FetchedIsUnderWay
  <2>1. UnderWay(q) /\ owner'[q] = owner[q]
    BY <1>2, <1>4 DEF Orderly, FetchedIsUnderWay
  <2> QED BY <1>1, <1>3, <1>6, <2>1 DEF UnderWay
<1> QED BY <1>7, <1>8, <1>9, <1>10 DEF Orderly

\* A worker that has no commit under way and no request in hand gives up its
\* partitions: all it has fetched from them is committed.
LEMMA CloseKeepsOrder ==
  ASSUME TypeOK, JobInHandIsNext, Orderly, NEW w \in Workers, Close(w)
  PROVE  Orderly'
<1>1. /\ owner' = [p \in Partitions |-> IF owner[p] = w THEN None ELSE owner[p]]
      /\ pc' = [pc EXCEPT ![w] = "down"] /\ pc[w] = "closing"
      /\ commits[w] = << >>
      /\ UNCHANGED <<committed, position, job, commits, taken>>
  BY DEF Close, Leave
<1>2. Len(commits[w]) = 0
  BY <1>1, EmptySeq, Zenon
<1>3. ~Busy(w) /\ ~Busy(w)' /\ \A v \in Workers : Busy(v)' <=> Busy(v)
  BY <1>1 DEF Busy, TypeOK
<1>4. CommitsOwned'
  <2> SUFFICES ASSUME NEW v \in Workers, NEW i \in 1 .. Len(commits[v])
               PROVE  LET d == commits[v][i] IN
                        /\ owner'[d.partition] = v
                        /\ committed[d.partition] <= d.next
                        /\ d.next <= position[d.partition]
    BY <1>1 DEF CommitsOwned
  <2> DEFINE d == commits[v][i]
  <2>1. /\ owner[d.partition] = v
        /\ committed[d.partition] <= d.next /\ d.next <= position[d.partition]
    BY DEF Orderly, CommitsOwned
  <2>2. d.partition \in Partitions
    BY CommitTyped
  <2>3. v # w
    BY <1>2
  <2> QED BY <1>1, <2>1, <2>2, <2>3
<1>5. CommitsSorted'
  BY <1>1 DEF Orderly, CommitsSorted
<1>6. HandIsLatest'
  <2> SUFFICES ASSUME NEW v \in Workers, Busy(v)
               PROVE  /\ owner'[job[v][1]] = v
                      /\ position[job[v][1]] = job[v][2] + 1
    BY <1>1, <1>3 DEF HandIsLatest
  <2>1. /\ owner[job[v][1]] = v
        /\ position[job[v][1]] = job[v][2] + 1
        /\ v # w
    BY <1>3 DEF Orderly, HandIsLatest
  <2>2. job[v][1] \in Partitions
    BY DEF JobInHandIsNext, Messages
  <2> QED BY <1>1, <2>1, <2>2
<1>7. FetchedIsUnderWay'
  <2> SUFFICES ASSUME NEW p \in Partitions, committed[p] # position[p]
               PROVE  UnderWay(p)'
    BY <1>1 DEF Orderly, FetchedIsUnderWay
  <2>1. UnderWay(p)
    BY DEF Orderly, FetchedIsUnderWay
  <2>2. owner[p] # w
    BY <1>2, <1>3, <2>1 DEF UnderWay
  <2>3. owner[p] \in Workers /\ owner'[p] = owner[p]
    BY <1>1, <2>1, <2>2 DEF UnderWay, TypeOK
  <2> QED BY <1>1, <1>3, <2>1, <2>3 DEF UnderWay
<1> QED BY <1>4, <1>5, <1>6, <1>7 DEF Orderly

\* A request is fetched and started: it is in hand.  Nothing was taken twice.
LEMMA StartJobKeepsOrder ==
  ASSUME TypeOK, Orderly, NEW w \in Workers, NEW p \in Partitions, StartJob(w, p)
  PROVE  Orderly' /\ job'[w] \notin taken
<1> DEFINE m == <<p, position[p]>>
<1>1. /\ pc[w] = "waiting" /\ owner[p] = w /\ position[p] < LogLen
      /\ position' = [position EXCEPT ![p] = position[p] + 1]
      /\ taken' = taken \union {m}
      /\ pc' = [pc EXCEPT ![w] = "processing"]
      /\ job' = [job EXCEPT ![w] = m]
      /\ UNCHANGED <<committed, owner, commits>>
  BY DEF StartJob, Receive
<1>2. /\ position[p] \in Nat /\ committed[p] \in Nat /\ position[p] \in Offsets
      /\ committed[p] <= position[p]
  BY <1>1, ConstantsAssumption DEF TypeOK, Offsets, Orderly, FetchedIsUnderWay
<1>3. /\ position'[p] = position[p] + 1 /\ position'[p] \in Nat
      /\ \A q \in Partitions \ {p} : position'[q] = position[q]
  BY <1>1, <1>2 DEF TypeOK
<1>4. /\ ~Busy(w) /\ Busy(w)' /\ \A v \in Workers \ {w} : Busy(v)' <=> Busy(v)
      /\ job'[w] = m /\ \A v \in Workers \ {w} : job'[v] = job[v]
  BY <1>1 DEF Busy, TypeOK
<1>5. m \notin taken
  BY <1>2 DEF Orderly, FetchedIsUnderWay
<1>6. CommitsOwned'
  <2> SUFFICES ASSUME NEW v \in Workers, NEW i \in 1 .. Len(commits[v])
               PROVE  LET d == commits[v][i] IN
                        /\ owner[d.partition] = v
                        /\ committed[d.partition] <= d.next
                        /\ d.next <= position'[d.partition]
    BY <1>1 DEF CommitsOwned
  <2> DEFINE d == commits[v][i]
  <2>1. /\ owner[d.partition] = v
        /\ committed[d.partition] <= d.next /\ d.next <= position[d.partition]
    BY DEF Orderly, CommitsOwned
  <2>2. d.partition \in Partitions /\ d.next \in Nat
    BY CommitTyped
  <2> QED BY <1>2, <1>3, <2>1, <2>2
<1>7. CommitsSorted'
  BY <1>1 DEF Orderly, CommitsSorted
<1>8. HandIsLatest'
  <2> SUFFICES ASSUME NEW v \in Workers, Busy(v)'
               PROVE  /\ owner[job'[v][1]] = v
                      /\ position'[job'[v][1]] = job'[v][2] + 1
    BY <1>1 DEF HandIsLatest
  <2>1. CASE v = w
    BY <1>1, <1>3, <1>4, <2>1
  <2>2. CASE v # w
    <3>1. Busy(v) /\ job'[v] = job[v]
      BY <1>4, <2>2
    <3>2. owner[job[v][1]] = v /\ position[job[v][1]] = job[v][2] + 1
      BY <3>1 DEF Orderly, HandIsLatest
    <3>3. job[v][1] # p
      BY <1>1, <2>2, <3>2
    <3>4. position'[job[v][1]] = position[job[v][1]]
      BY <1>1, <3>3 DEF TypeOK
    <3> QED BY <3>1, <3>2, <3>4
  <2> QED BY <2>1, <2>2
<1>9. FetchedIsUnderWay'
  <2>1. UnderWay(p)'
    BY <1>1, <1>4, ConstantsAssumption DEF UnderWay
  <2>2. ASSUME NEW q \in Partitions \ {p}, UnderWay(q) PROVE UnderWay(q)'
    <3>1. owner[q] \in Workers
      BY <2>2 DEF UnderWay, TypeOK
    <3> QED BY <1>1, <1>3, <1>4, <2>2, <3>1 DEF UnderWay
  <2>3. ASSUME NEW q \in Partitions
        PROVE  /\ committed[q] <= position'[q]
               /\ committed[q] = position'[q] \/ UnderWay(q)'
    <3>1. committed[q] <= position[q] /\ (committed[q] = position[q] \/ UnderWay(q))
      BY DEF Orderly, FetchedIsUnderWay
    <3> QED BY <1>2, <1>3, <2>1, <2>2, <3>1
  <2>4. ASSUME NEW q \in Partitions, NEW o \in Offsets, <<q, o>> \in taken'
        PROVE  o < position'[q]
    <3>1. o \in Nat /\ position[q] \in Nat
      BY ConstantsAssumption DEF Offsets, TypeOK
    <3>2. CASE <<q, o>> \in taken
      <4>1. o < position[q]
        BY <3>2 DEF Orderly, FetchedIsUnderWay
      <4> QED BY <1>2, <1>3, <3>1, <4>1
    <3>3. CASE <<q, o>> = m
      BY <1>2, <1>3, <3>3
    <3> QED BY <1>1, <2>4, <3>2, <3>3
  <2> QED BY <1>1, <2>3, <2>4 DEF FetchedIsUnderWay
<1> QED BY <1>4, <1>5, <1>6, <1>7, <1>8, <1>9 DEF Orderly

\* A malformed message is fetched and its commit sent.
LEMMA SkipKeepsOrder ==
  ASSUME TypeOK, Orderly, NEW w \in Workers, NEW p \in Partitions,
         SkipMalformed(w, p)
  PROVE  Orderly'
<1> DEFINE m == <<p, position[p]>>
<1>1. /\ pc[w] = "waiting" /\ owner[p] = w /\ position[p] < LogLen
      /\ position' = [position EXCEPT ![p] = position[p] + 1]
      /\ taken' = taken \union {m} /\ CommitAfter(w, m)
      /\ UNCHANGED <<committed, owner, pc, job>>
  BY DEF SkipMalformed, Receive
<1>2. /\ position[p] \in Nat /\ committed[p] \in Nat /\ position[p] \in Offsets
      /\ committed[p] <= position[p]
  BY <1>1, ConstantsAssumption DEF TypeOK, Offsets, Orderly, FetchedIsUnderWay
<1>3. /\ position'[p] = position[p] + 1
      /\ \A q \in Partitions \ {p} : position'[q] = position[q]
      /\ position' \in [Partitions -> Nat]
      /\ \A q \in Partitions : position[q] \in Nat /\ position[q] <= position'[q]
  BY <1>1, <1>2 DEF TypeOK
<1>4. ~Busy(w) /\ \A v : Busy(v)' <=> Busy(v)
  BY <1>1 DEF Busy
<1>5. m \in Messages /\ m[1] = p /\ m[2] = position[p]
  BY <1>2 DEF Messages
<1>6. CommitsOwned /\ CommitsSorted /\ HandIsLatest /\ FetchedIsUnderWay
  BY DEF Orderly
<1> HIDE DEF m
<1>7. /\ CommitsOwned' /\ CommitsSorted'
      /\ \E i \in 1 .. Len(commits'[w]) :
           commits'[w][i].partition = p /\ commits'[w][i].next = position'[p]
      /\ \A v \in Workers : \A i \in 1 .. Len(commits[v]) :
           i \in 1 .. Len(commits'[v]) /\ commits'[v][i] = commits[v][i]
  BY <1>1, <1>2, <1>3, <1>5, <1>6, AppendKeepsOrder
<1>8. HandIsLatest'
  <2> SUFFICES ASSUME NEW v \in Workers, Busy(v)
               PROVE  /\ owner[job[v][1]] = v
                      /\ position'[job[v][1]] = job[v][2] + 1
    BY <1>1, <1>4 DEF HandIsLatest
  <2>1. owner[job[v][1]] = v /\ position[job[v][1]] = job[v][2] + 1
    BY <1>6 DEF HandIsLatest
  <2>2. job[v][1] # p
    BY <1>1, <1>4, <2>1
  <2> QED BY <1>1, <2>1, <2>2 DEF TypeOK
<1>9. UnderWay(p)'
  BY <1>1, <1>7, ConstantsAssumption DEF UnderWay
<1>10. ASSUME NEW q \in Partitions \ {p}, UnderWay(q) PROVE UnderWay(q)'
  <2>1. owner[q] \in Workers
    BY <1>10 DEF UnderWay, TypeOK
  <2> QED BY <1>1, <1>3, <1>4, <1>7, <1>10, <2>1, UnderWayStays
<1>11. FetchedIsUnderWay'
  <2>1. ASSUME NEW q \in Partitions
        PROVE  /\ committed[q] <= position'[q]
               /\ committed[q] = position'[q] \/ UnderWay(q)'
    <3>1. committed[q] <= position[q] /\ (committed[q] = position[q] \/ UnderWay(q))
      BY <1>6 DEF FetchedIsUnderWay
    <3> QED BY <1>2, <1>3, <1>9, <1>10, <3>1
  <2>2. ASSUME NEW q \in Partitions, NEW o \in Offsets, <<q, o>> \in taken'
        PROVE  o < position'[q]
    <3>1. o \in Nat
      BY ConstantsAssumption DEF Offsets
    <3>2. CASE <<q, o>> \in taken
      <4>1. o < position[q]
        BY <1>6, <3>2 DEF FetchedIsUnderWay
      <4>2. position[q] \in Nat /\ position'[q] \in Nat /\ position[q] <= position'[q]
        BY <1>3
      <4> QED BY <3>1, <4>1, <4>2
    <3>3. CASE <<q, o>> = m
      BY <1>2, <1>3, <3>3 DEF m
    <3> QED BY <1>1, <2>2, <3>2, <3>3
  <2> QED BY <1>1, <2>1, <2>2 DEF FetchedIsUnderWay
<1> QED BY <1>6, <1>7, <1>8, <1>11 DEF Orderly

\* The job is over: its request is no longer in hand, its commit is under way.
LEMMA AcknowledgeKeepsOrder ==
  ASSUME TypeOK, JobInHandIsNext, Orderly, NEW w \in Workers, Acknowledge(w)
  PROVE  Orderly'
<1> DEFINE m == job[w]
<1>1. /\ Busy(w) /\ CommitAfter(w, m)
      /\ pc' = [pc EXCEPT ![w] = "waiting"] /\ job' = [job EXCEPT ![w] = None]
      /\ UNCHANGED <<committed, owner, position, taken>>
  BY DEF Acknowledge, Busy, broker
<1>2. m \in Messages /\ m[1] \in Partitions
  BY <1>1 DEF JobInHandIsNext, Messages
<1>3. CommitsOwned /\ CommitsSorted /\ HandIsLatest /\ FetchedIsUnderWay
  BY DEF Orderly
<1>4. owner[m[1]] = w /\ position[m[1]] = m[2] + 1
  BY <1>1, <1>3 DEF HandIsLatest
<1>5. ~Busy(w)' /\ \A v \in Workers \ {w} : (Busy(v)' <=> Busy(v)) /\ job'[v] = job[v]
  BY <1>1 DEF Busy, TypeOK
<1>6. /\ position' \in [Partitions -> Nat]
      /\ \A p \in Partitions : position[p] <= position'[p]
      /\ committed[m[1]] <= position[m[1]]
      /\ position'[m[1]] = m[2] + 1
  <2>1. position \in [Partitions -> Nat]
    BY DEF TypeOK
  <2>2. \A p \in Partitions : position[p] <= position[p]
    BY <2>1
  <2> QED BY <1>1, <1>2, <1>3, <1>4, <2>1, <2>2 DEF FetchedIsUnderWay
<1> HIDE DEF m
<1>7. /\ CommitsOwned' /\ CommitsSorted'
      /\ \E i \in 1 .. Len(commits'[w]) :
           commits'[w][i].partition = m[1] /\ commits'[w][i].next = m[2] + 1
      /\ \A v \in Workers : \A i \in 1 .. Len(commits[v]) :
           i \in 1 .. Len(commits'[v]) /\ commits'[v][i] = commits[v][i]
  BY <1>1, <1>2, <1>3, <1>4, <1>6, AppendKeepsOrder
<1>8. HandIsLatest'
  <2> SUFFICES ASSUME NEW v \in Workers, Busy(v)'
               PROVE  /\ owner[job'[v][1]] = v
                      /\ position[job'[v][1]] = job'[v][2] + 1
    BY <1>1 DEF HandIsLatest
  <2>1. v # w
    BY <1>5
  <2> QED BY <1>3, <1>5, <2>1 DEF HandIsLatest
<1>9. ASSUME NEW q \in Partitions, q = m[1] PROVE UnderWay(q)'
  BY <1>1, <1>4, <1>7, <1>9, ConstantsAssumption DEF UnderWay
<1>10. ASSUME NEW q \in Partitions, q # m[1], UnderWay(q) PROVE UnderWay(q)'
  <2>1. owner[q] \in Workers
    BY <1>10 DEF UnderWay, TypeOK
  <2>2. CASE Busy(owner[q]) /\ job[owner[q]][1] = q
    <3>1. owner[q] # w
      BY <1>10, <2>2 DEF m
    <3> QED BY <1>1, <1>5, <1>10, <2>1, <2>2, <3>1 DEF UnderWay
  <2>3. CASE \E i \in 1 .. Len(commits[owner[q]]) :
               /\ commits[owner[q]][i].partition = q
               /\ commits[owner[q]][i].next = position[q]
    BY <1>1, <1>7, <1>10, <2>1, <2>3 DEF UnderWay
  <2> QED BY <1>10, <2>2, <2>3 DEF UnderWay
<1>11. FetchedIsUnderWay'
  BY <1>1, <1>3, <1>9, <1>10 DEF FetchedIsUnderWay
<1> QED BY <1>7, <1>8, <1>11 DEF Orderly

\* Every step: while no fault has happened order is kept; the step itself takes
\* no request again and moves no offset back.
LEMMA OrderlyStep ==
  ASSUME IntakeInv, faults = 0, Orderly, [Next]_vars
  PROVE  /\ faults' = 0 => Orderly'
         /\ \A v \in Workers : job'[v] \in taken => job'[v] = job[v]
         /\ \A p \in Partitions : committed[p] <= committed'[p]
<1> DEFINE Forwards == \A p \in Partitions : committed[p] <= committed'[p]
           Once == \A v \in Workers : job'[v] \in taken => job'[v] = job[v]
<1>1. TypeOK /\ JobInHandIsNext
  BY DEF IntakeInv
<1>2. None \notin taken
  BY <1>1, ConstantsAssumption DEF TypeOK
<1>3. UNCHANGED committed => Forwards
  BY <1>1 DEF TypeOK
<1>4. UNCHANGED job => Once
  OBVIOUS
<1>5. ASSUME UNCHANGED <<committed, owner, position, job, commits, taken>>,
             \A v \in Workers : Busy(v)' <=> Busy(v)
      PROVE  Orderly' /\ Once /\ Forwards
  BY <1>1, <1>3, <1>4, <1>5, OrderUnmoved
<1>6. ASSUME NEW w \in Workers, NEW x \in Points, UNCHANGED <<committed, owner, position,
             job, commits, taken>>, pc' = [pc EXCEPT ![w] = x],
             Busy(w) <=> x \in {"processing", "draining"}
      PROVE  Orderly' /\ Once /\ Forwards
  <2>1. \A v \in Workers : Busy(v)' <=> Busy(v)
    BY <1>1, <1>6 DEF Busy, TypeOK
  <2> QED BY <1>5, <1>6, <2>1
<1>7. ASSUME NEW w \in Workers, job' = [job EXCEPT ![w] = None]
      PROVE  Once
  BY <1>1, <1>2, <1>7 DEF TypeOK
<1>8. CASE UNCHANGED vars
  BY <1>5, <1>8 DEF vars, Busy
<1>9. ASSUME NEW w \in Workers, Step(w)
      PROVE  (faults' = 0 => Orderly') /\ Once /\ Forwards
  <2>1. CASE Start(w)
    BY <1>6, <2>1 DEF Start, Busy, Points, broker
  <2>2. ASSUME NEW p \in Partitions, Assign(p, w)
        PROVE  (faults' = 0 => Orderly') /\ Once /\ Forwards
    <3>1. UNCHANGED <<committed, job>> /\ (faults' = 0 => owner[p] = None)
      BY <2>2 DEF Assign, AssignFrom, local
    <3> QED BY <1>1, <1>3, <1>4, <2>2, <3>1, AssignKeepsOrder
  <2>3. ASSUME NEW p \in Partitions, SkipMalformed(w, p)
        PROVE  Orderly' /\ Once /\ Forwards
    <3>1. UNCHANGED <<committed, job>>
      BY <2>3 DEF SkipMalformed
    <3> QED BY <1>1, <1>3, <1>4, <2>3, <3>1, SkipKeepsOrder
  <2>4. ASSUME NEW p \in Partitions, StartJob(w, p)
        PROVE  Orderly' /\ Once /\ Forwards
    <3>1. UNCHANGED committed /\ \A v \in Workers \ {w} : job'[v] = job[v]
      BY <1>1, <2>4 DEF StartJob, TypeOK
    <3>2. Orderly' /\ job'[w] \notin taken
      BY <1>1, <2>4, StartJobKeepsOrder
    <3> QED BY <1>3, <3>1, <3>2
  <2>5. CASE CommitArrives(w)
    <3>1. UNCHANGED job
      BY <2>5 DEF CommitArrives
    <3> QED BY <1>1, <1>4, <2>5, <3>1, ArrivalKeepsOrder
  <2>6. CASE CommitFails(w)
    <3>1. UNCHANGED <<committed, job>> /\ faults' # 0
      BY <2>6 DEF CommitFails, broker
    <3> QED BY <1>3, <1>4, <3>1
  <2>7. CASE Progress(w)
    BY <1>5, <2>7 DEF Progress, Busy, broker
  <2>8. ASSUME NEW last, FinishJob(w, last) PROVE Orderly' /\ Once /\ Forwards
    BY <1>6, <2>8 DEF FinishJob, Busy, Points, broker
  <2>9. ASSUME NEW delivered \in BOOLEAN, Publish(w, delivered)
        PROVE  Orderly' /\ Once /\ Forwards
    BY <1>5, <2>9 DEF Publish, PublishEvent, Busy, broker
  <2>10. CASE Acknowledge(w)
    <3>1. UNCHANGED committed /\ job' = [job EXCEPT ![w] = None]
      BY <2>10 DEF Acknowledge, broker
    <3> QED BY <1>1, <1>3, <1>7, <2>10, <3>1, AcknowledgeKeepsOrder
  <2>11. CASE Shutdown(w)
    BY <1>6, <2>11 DEF Shutdown, Busy, Points, broker
  <2>12. CASE Close(w)
    <3>1. UNCHANGED <<committed, job>>
      BY <2>12 DEF Close
    <3> QED BY <1>1, <1>3, <1>4, <2>12, <3>1, CloseKeepsOrder
  <2>13. CASE Crash(w)
    <3>1. UNCHANGED committed /\ faults' # 0 /\ job' = [job EXCEPT ![w] = None]
      BY <2>13 DEF Crash
    <3> QED BY <1>3, <1>7, <3>1
  <2> QED BY <1>9, <2>1, <2>2, <2>3, <2>4, <2>5, <2>6, <2>7, <2>8, <2>9, <2>10,
             <2>11, <2>12, <2>13 DEF Step, Success, Failure
<1> QED BY <1>8, <1>9 DEF Next, Idle

LEMMA FaultsCount == TypeOK /\ [Next]_vars /\ faults' = 0 => faults = 0
<1> SUFFICES ASSUME TypeOK, [Next]_vars, faults' = 0 PROVE faults = 0
  OBVIOUS
<1>1. faults \in Nat
  BY ConstantsAssumption DEF TypeOK
<1>2. CASE UNCHANGED vars
  BY <1>2 DEF vars
<1>3. ASSUME NEW w \in Workers, Step(w) PROVE UNCHANGED faults \/ faults' = faults + 1
  BY <1>3 DEF Step, Start, Assign, AssignFrom, SkipMalformed, StartJob,
              CommitArrives, CommitFails, Progress, Success, Failure, FinishJob,
              Publish, PublishEvent, Acknowledge, Shutdown, Close, Crash
<1> QED BY <1>1, <1>2, <1>3 DEF Next, Idle

LEMMA OrderlyInit == Init => Orderly
<1> SUFFICES ASSUME Init PROVE Orderly
  OBVIOUS
<1>1. \A w \in Workers : ~Busy(w)
  BY DEF Init, Busy
<1>2. ASSUME NEW w \in Workers PROVE 1 .. Len(commits[w]) = {}
  <2>1. Len(commits[w]) = 0
    BY EmptySeq, Zenon DEF Init
  <2> QED BY <2>1
<1>3. \A p \in Partitions : committed[p] = 0 /\ position[p] = 0
  BY DEF Init
<1>4. taken = {}
  BY DEF Init
<1> QED BY <1>1, <1>2, <1>3, <1>4
        DEF Orderly, CommitsOwned, CommitsSorted, HandIsLatest, FetchedIsUnderWay

\* As long as no fault has happened, the fetched offsets are accounted for.
THEOREM FaultFreeInvariant == Spec => []FaultFreeInv
<1>1. Init => FaultFreeInv
  BY IntakeInit, OrderlyInit DEF FaultFreeInv
<1>2. FaultFreeInv /\ [Next]_vars => FaultFreeInv'
  <2> SUFFICES ASSUME FaultFreeInv, [Next]_vars PROVE FaultFreeInv'
    OBVIOUS
  <2>1. IntakeInv /\ IntakeInv' /\ TypeOK
    BY IntakeStep DEF FaultFreeInv, IntakeInv
  <2>2. faults' = 0 => Orderly'
    BY <2>1, OrderlyStep, FaultsCount DEF FaultFreeInv
  <2> QED BY <2>1, <2>2 DEF FaultFreeInv
<1> QED BY <1>1, <1>2, PTL DEF Spec

\* A request is taken a second time only if there has been a fault: a graceful
\* shutdown, with commits under way or without, causes no redelivery
\* (main.rs:75-91 and the drop of the consumer).
THEOREM NoRedelivery == Spec => RedeliveryNeedsFault
<1>1. FaultFreeInv /\ [Next]_vars =>
        [faults = 0 => \A w \in Workers : job'[w] \in taken => job'[w] = job[w]]_vars
  BY OrderlyStep DEF FaultFreeInv
<1> QED BY <1>1, FaultFreeInvariant, PTL DEF Spec, RedeliveryNeedsFault

\* A committed offset moves backwards only if there has been a fault, although
\* commits are asynchronous and the broker takes them from any member
\* (main.rs:115-122).
THEOREM NoRegression == Spec => CommitRegressionNeedsFault
<1>1. FaultFreeInv /\ [Next]_vars =>
        [faults = 0 => \A p \in Partitions : committed[p] <= committed'[p]]_vars
  BY OrderlyStep DEF FaultFreeInv
<1> QED BY <1>1, FaultFreeInvariant, PTL DEF Spec, CommitRegressionNeedsFault
=============================================================================
