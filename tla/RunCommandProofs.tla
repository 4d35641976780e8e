-------------------------- MODULE RunCommandProofs --------------------------
(***************************************************************************)
(* What TLAPS proves of RunCommand, for every size of limit, marker,       *)
(* buffer and pipe and every amount of output: the captured output is      *)
(* exact, success means that everything was read of a child that ended by  *)
(* itself, no child is left running, and nothing but a descendant that     *)
(* holds the pipes can keep the caller waiting.                            *)
(***************************************************************************)
EXTENDS RunCommand, Integers, TLAPS

\* What the task has read of a stream decides what it has captured: all of it up
\* to the limit, and beyond it as much as the limit and the marker, once.
Consumed(s) == written[s] - pipe[s]
Captured ==
  \A s \in Streams :
    /\ todo[s] + written[s] <= MaxOutput
    /\ pipe[s] <= written[s]
    /\ truncated[s] <=> Consumed(s) > Limit
    /\ output[s] = IF Consumed(s) <= Limit THEN Consumed(s) ELSE Limit + Marker

\* A task that is done has found the pipe empty and its writers gone; the caller
\* joins when the child is gone, the second task after the first.
Ordered ==
  /\ caller = "start" => child = "none" /\ \A s \in Streams : task[s] = "none"
  /\ caller = "joining" => child = "gone"
  /\ caller = "returned" => child # "running"
  /\ \A s \in Streams : task[s] = "done" => child = "gone" /\ pipe[s] = 0
  /\ joining = "stderr" =>
       task["stdout"] = "done" /\ caller \in {"joining", "returned"}
  /\ caller # "returned" => result = "none"
  /\ result = "ok" => \A s \in Streams : task[s] = "done"

RunInv == TypeOK /\ Captured /\ Ordered

-----------------------------------------------------------------------------
\* Before the command is spawned nothing has been written or read.
LEMMA InvInit == Init => RunInv
<1> SUFFICES ASSUME Init PROVE RunInv
  OBVIOUS
<1>1. Limit \in Nat /\ Marker \in Nat /\ MaxOutput \in Nat /\ PipeCapacity \in Nat
  BY RunCommandAssumption
<1> QED
  BY <1>1 DEF Init, RunInv, TypeOK, Captured, Consumed, Ordered, Streams

\* What the child and its descendant do, and the ends of the two tasks.
LEMMA ProcessesKeep ==
  ASSUME RunInv,
         \/ Exit \/ Abort \/ Dies \/ LeaveDescendant \/ DescendantExits
         \/ \E s \in Streams : EndOfFile(s) \/ ReadFails(s)
  PROVE  RunInv'
<1> USE DEF RunInv, TypeOK, Captured, Consumed, Ordered, Streams, processes,
            capture, control
<1>1. CASE Exit \/ Abort \/ Dies
  BY <1>1 DEF Exit, Abort, Dies, Ends
<1>2. CASE LeaveDescendant \/ DescendantExits
  BY <1>2 DEF LeaveDescendant, DescendantExits
<1>3. ASSUME NEW s \in Streams, EndOfFile(s) \/ ReadFails(s) PROVE RunInv'
  BY <1>3 DEF EndOfFile, ReadFails, TaskEnds
<1> QED
  BY <1>1, <1>2, <1>3

\* A write moves output from the child to the pipe.
LEMMA WriteKeeps ==
  ASSUME RunInv, NEW s \in Streams, Write(s) PROVE RunInv'
<1> USE RunCommandAssumption
    DEF RunInv, TypeOK, Captured, Consumed, Ordered, Streams, capture, control
<1>1. PICK k \in 1 .. Smaller(todo[s], PipeCapacity - pipe[s]) :
        /\ todo' = [todo EXCEPT ![s] = @ - k]
        /\ written' = [written EXCEPT ![s] = @ + k]
        /\ pipe' = [pipe EXCEPT ![s] = @ + k]
  BY DEF Write
<1>2. k \in Nat /\ k <= todo[s] /\ k <= PipeCapacity - pipe[s]
  BY <1>1 DEF Smaller
<1>3. TypeOK'
  BY <1>1, <1>2 DEF Write
<1>4. Captured'
  BY <1>1, <1>2 DEF Write
<1>5. Ordered'
  BY <1>1 DEF Write
<1> QED
  BY <1>3, <1>4, <1>5

\* A read moves it on to the buffer, which it does not overfill.
LEMMA ReadKeeps ==
  ASSUME RunInv, NEW s \in Streams, Read(s) PROVE RunInv'
<1> USE RunCommandAssumption DEF Streams
<1>1. PICK read \in 1 .. Smaller(Buffer, pipe[s]) :
        LET keep == Smaller(read, Remaining(s))
            mark == keep < read /\ ~truncated[s]
        IN  /\ pipe' = [pipe EXCEPT ![s] = @ - read]
            /\ output' = [output EXCEPT
                            ![s] = @ + keep + IF mark THEN Marker ELSE 0]
            /\ truncated' = [truncated EXCEPT ![s] = @ \/ mark]
  BY DEF Read, ReadSome
<1>2. read \in Nat \ {0} /\ read <= pipe[s]
  BY <1>1 DEF Smaller, RunInv, TypeOK
<1>3. /\ task[s] = "reading"
      /\ UNCHANGED <<processes, task, control>>
  BY DEF Read, ReadSome
<1> DEFINE c == Consumed(s)
<1>4. c \in Nat /\ Consumed(s)' = c + read
  BY <1>1, <1>2, <1>3 DEF RunInv, TypeOK, Captured, Consumed, processes
<1>5. /\ truncated'[s] <=> c + read > Limit
      /\ output'[s] = IF c + read <= Limit THEN c + read ELSE Limit + Marker
  <2>1. /\ truncated[s] <=> c > Limit
        /\ output[s] = IF c <= Limit THEN c ELSE Limit + Marker
    BY DEF RunInv, Captured
  <2>2. truncated[s] \in BOOLEAN /\ Limit \in Nat /\ Marker \in Nat
    BY DEF RunInv, TypeOK
  <2>3. CASE c > Limit
    BY <1>1, <1>2, <1>4, <2>1, <2>2, <2>3
    DEF Smaller, Remaining, RunInv, TypeOK
  <2>4. CASE c <= Limit /\ c + read <= Limit
    BY <1>1, <1>2, <1>4, <2>1, <2>2, <2>4
    DEF Smaller, Remaining, RunInv, TypeOK
  <2>5. CASE c <= Limit /\ c + read > Limit
    <3>1. Remaining(s) = Limit - c /\ ~truncated[s] /\ output[s] = c
      BY <1>4, <2>1, <2>2, <2>5 DEF Remaining
    <3>2. Smaller(read, Remaining(s)) = Limit - c /\ Limit - c < read
      BY <1>2, <1>4, <2>2, <2>5, <3>1 DEF Smaller
    <3> HIDE DEF c
    <3>3. output' = [output EXCEPT ![s] = c + (Limit - c) + Marker]
          /\ truncated' = [truncated EXCEPT ![s] = TRUE]
      BY <1>1, <3>1, <3>2
    <3> QED
      BY <1>2, <1>4, <2>2, <2>5, <3>3 DEF RunInv, TypeOK
  <2> QED
    BY <1>2, <1>4, <2>2, <2>3, <2>4, <2>5
<1>6. \A r \in Streams \ {s} : /\ pipe'[r] = pipe[r] /\ output'[r] = output[r]
                               /\ truncated'[r] = truncated[r]
  BY <1>1 DEF RunInv, TypeOK
<1>7. Captured'
  BY <1>1, <1>2, <1>3, <1>4, <1>5, <1>6
  DEF RunInv, TypeOK, Captured, Consumed, processes
<1>8. TypeOK'
  BY <1>1, <1>2, <1>3, <1>4, <1>5 DEF RunInv, TypeOK, processes, control
<1>9. Ordered'
  BY <1>1, <1>2, <1>3 DEF RunInv, TypeOK, Ordered, processes, control
<1> QED
  BY <1>7, <1>8, <1>9 DEF RunInv

\* The steps of the caller.
LEMMA CallerKeeps ==
  ASSUME RunInv, Caller \/ WaitFails \/ Timeout PROVE RunInv'
<1> USE DEF RunInv, TypeOK, Captured, Consumed, Ordered, Streams, processes,
            capture, control
<1>1. CASE Spawn
  BY <1>1 DEF Spawn
<1>2. CASE SpawnFails
  BY <1>2 DEF SpawnFails
<1>3. CASE ChildExited
  BY <1>3 DEF ChildExited
<1>4. CASE AfterKill \/ WaitFails
  BY <1>4 DEF AfterKill, WaitFails, AbortTasks
<1>5. CASE Timeout
  BY <1>5 DEF Timeout
<1>6. CASE Join
  BY <1>6 DEF Join
<1>7. CASE JoinFails
  BY <1>7 DEF JoinFails
<1> QED
  BY <1>1, <1>2, <1>3, <1>4, <1>5, <1>6, <1>7 DEF Caller

\* The invariant in every reachable state (process.rs:26-126).
THEOREM CommandInvariant == Spec => []RunInv
<1>1. RunInv /\ [Next]_vars => RunInv'
  <2> SUFFICES ASSUME RunInv, [Next]_vars PROVE RunInv'
    OBVIOUS
  <2>1. CASE UNCHANGED vars
    BY <2>1 DEF vars, processes, capture, control, RunInv, TypeOK, Captured,
       Consumed, Ordered
  <2> QED
    BY <2>1, ProcessesKeep, WriteKeeps, ReadKeeps, CallerKeeps
    DEF Next, Task, Done
<1> QED
  BY InvInit, <1>1, PTL DEF Spec

-----------------------------------------------------------------------------
\* The output is captured completely or cut at the limit and marked once, however
\* it is cut into reads; with type correctness (process.rs:110-126).
THEOREM ExactCapture == Spec => []CaptureExact
<1>1. RunInv => CaptureExact
  BY RunCommandAssumption
  DEF RunInv, TypeOK, Captured, Consumed, Ordered, CaptureExact, Streams
<1> QED
  BY <1>1, CommandInvariant, PTL

\* Success is reported only of a child that ended by itself and whose output was
\* read to its end (process.rs:43-52).
THEOREM DrainedOnSuccess == Spec => []OkMeansDrained
<1>1. RunInv => OkMeansDrained
  BY DEF RunInv, Ordered, OkMeansDrained, Streams
<1> QED
  BY <1>1, CommandInvariant, PTL

\* On no path does run_command return and leave the child running.
THEOREM ChildNotLeft == Spec => []NoChildLeftRunning
<1>1. RunInv => NoChildLeftRunning
  BY DEF RunInv, Ordered, NoChildLeftRunning
<1> QED
  BY <1>1, CommandInvariant, PTL

-----------------------------------------------------------------------------
(* The steps that are left.                                                *)

\* What the child has still to write is written and read, and the task ends.
StreamLeft(s) == 2 * todo[s] + pipe[s] + CASE task[s] = "none"    -> 2
                                           [] task[s] = "reading" -> 1
                                           [] OTHER               -> 0
ChildLeft == CASE child = "none"    -> 3
               [] child = "running" -> 2
               [] child = "dying"   -> 1
               [] child = "gone"    -> 0
DescendantLeft == CASE descendant = "none"    -> 2
                    [] descendant = "running" -> 1
                    [] descendant = "gone"    -> 0
CallerLeft == CASE caller = "start"    -> 4
                [] caller = "waiting"  -> 3
                [] caller = "killing"  -> 2
                [] caller = "joining"  -> IF joining = "stdout" THEN 2 ELSE 1
                [] caller = "returned" -> 0
StepsLeft == StreamLeft("stdout") + StreamLeft("stderr")
               + ChildLeft + DescendantLeft + CallerLeft
StepsBounded == StepsLeft \in 0 .. 4 * MaxOutput + 13

\* run_command can go on, or the task it awaits can, reading or at the end of the
\* stream.
GoesOn ==
  \/ caller \in {"start", "waiting", "killing"}
  \/ /\ caller = "joining"
     /\ \/ task[joining] \in {"done", "failed"}
        \/ /\ task[joining] = "reading"
           /\ pipe[joining] > 0 \/ (child = "gone" /\ descendant # "running")
\* The tasks it awaits are its own, and none of them has been aborted.
AwaitsTasks ==
  caller \in {"waiting", "joining"} =>
    \A s \in Streams : task[s] \in {"reading", "done", "failed"}

LEMMA LeftTypes ==
  ASSUME RunInv
  PROVE  /\ ChildLeft \in 0 .. 3 /\ DescendantLeft \in 0 .. 2 /\ CallerLeft \in 0 .. 4
         /\ \A s \in Streams : StreamLeft(s) \in 0 .. 2 * MaxOutput + 2
<1> USE DEF RunInv, TypeOK
<1>1. ChildLeft \in 0 .. 3 /\ DescendantLeft \in 0 .. 2 /\ CallerLeft \in 0 .. 4
  BY DEF ChildLeft, DescendantLeft, CallerLeft
<1>2. ASSUME NEW s \in Streams PROVE StreamLeft(s) \in 0 .. 2 * MaxOutput + 2
  <2>1. /\ todo[s] \in Nat /\ pipe[s] \in Nat /\ written[s] \in Nat /\ MaxOutput \in Nat
        /\ todo[s] + written[s] <= MaxOutput /\ pipe[s] <= written[s]
    BY RunCommandAssumption DEF Captured
  <2> QED BY <2>1 DEF StreamLeft
<1> QED BY <1>1, <1>2

\* The child and the tasks do not go back.
LEMMA StreamSteps ==
  ASSUME RunInv, RunInv', NEW s \in Streams, Write(s) \/ Task(s) \/ ReadFails(s)
  PROVE  StepsLeft' < StepsLeft
<1>1. UNCHANGED <<child, descendant, caller, joining>>
  BY DEF Write, Task, Read, ReadSome, EndOfFile, ReadFails, TaskEnds, processes,
     capture, control
<1>2. /\ ChildLeft' = ChildLeft /\ DescendantLeft' = DescendantLeft
      /\ CallerLeft' = CallerLeft
  BY <1>1 DEF ChildLeft, DescendantLeft, CallerLeft
<1>3. ASSUME NEW r \in Streams, r # s PROVE StreamLeft(r)' = StreamLeft(r)
  BY <1>3 DEF RunInv, TypeOK, StreamLeft, Write, Task, Read, ReadSome, EndOfFile,
     ReadFails, TaskEnds, processes, capture, control
<1>4. StreamLeft(s)' < StreamLeft(s)
  <2>1. CASE Write(s)
    <3>1. PICK k \in 1 .. Smaller(todo[s], PipeCapacity - pipe[s]) :
            todo' = [todo EXCEPT ![s] = @ - k] /\ pipe' = [pipe EXCEPT ![s] = @ + k]
      BY <2>1 DEF Write
    <3>2. /\ k \in Nat \ {0} /\ todo[s] \in Nat /\ pipe[s] \in Nat
          /\ todo'[s] = todo[s] - k /\ pipe'[s] = pipe[s] + k /\ task' = task
          /\ task[s] = "reading"
      BY <2>1, <3>1, RunCommandAssumption DEF Write, capture, RunInv, TypeOK, Smaller
    <3> QED BY <3>2 DEF StreamLeft
  <2>2. CASE Read(s)
    <3>1. PICK k \in 1 .. Smaller(Buffer, pipe[s]) : pipe' = [pipe EXCEPT ![s] = @ - k]
      BY <2>2 DEF Read, ReadSome
    <3>2. /\ k \in Nat \ {0} /\ todo[s] \in Nat /\ pipe[s] \in Nat
          /\ pipe'[s] = pipe[s] - k /\ todo' = todo /\ task' = task
          /\ task[s] = "reading"
      BY <2>2, <3>1, RunCommandAssumption
         DEF Read, ReadSome, processes, RunInv, TypeOK, Smaller
    <3> QED BY <3>2 DEF StreamLeft
  <2>3. CASE EndOfFile(s) \/ ReadFails(s)
    <3>1. /\ todo[s] \in Nat /\ pipe[s] \in Nat /\ task[s] = "reading"
          /\ UNCHANGED <<todo, pipe>> /\ task'[s] \in {"done", "failed"}
      BY <2>3 DEF EndOfFile, ReadFails, TaskEnds, processes, RunInv, TypeOK
    <3> QED BY <3>1 DEF StreamLeft
  <2> QED BY <2>1, <2>2, <2>3 DEF Task
<1>5. \A r \in Streams : StreamLeft(r) \in Int
  BY LeftTypes, RunCommandAssumption
<1>6. StreamLeft(s)' \in Int
  <2>1. todo'[s] \in Int /\ pipe'[s] \in Int
    BY DEF RunInv, TypeOK
  <2> QED BY <2>1 DEF StreamLeft
<1>7. ChildLeft \in Int /\ DescendantLeft \in Int /\ CallerLeft \in Int
  BY LeftTypes
<1> QED BY <1>2, <1>3, <1>4, <1>5, <1>6, <1>7 DEF StepsLeft, Streams

\* The other processes and the caller do not go back, either.
LEMMA ProcessSteps ==
  ASSUME RunInv, RunInv',
         \/ Exit \/ Abort \/ Dies \/ LeaveDescendant \/ DescendantExits
         \/ Caller \/ WaitFails \/ Timeout
  PROVE  StepsLeft' < StepsLeft
<1> DEFINE P == ChildLeft + DescendantLeft + CallerLeft
<1>1. ASSUME NEW s \in Streams
      PROVE  StreamLeft(s) \in Int /\ StreamLeft(s)' \in Int
             /\ StreamLeft(s)' <= StreamLeft(s)
  <2>1. /\ todo[s] \in Int /\ pipe[s] \in Int /\ UNCHANGED <<todo, pipe>>
        /\ \/ task'[s] = task[s]
           \/ task[s] = "none" /\ task'[s] = "reading"
           \/ task[s] = "reading" /\ task'[s] = "aborted"
    BY DEF RunInv, TypeOK, Ordered, Exit, Abort, Dies, Ends, LeaveDescendant,
       DescendantExits, Caller, Spawn, SpawnFails, ChildExited, AfterKill, Join,
       JoinFails, WaitFails, AbortTasks, Timeout, processes, capture, control
  <2> QED BY <2>1 DEF StreamLeft
<1>2. P \in Int /\ P' \in Int /\ P' < P
  BY DEF RunInv, TypeOK, Ordered, Exit, Abort, Dies, Ends, LeaveDescendant,
     DescendantExits, Caller, Spawn, SpawnFails, ChildExited, AfterKill, Join,
     JoinFails, WaitFails, AbortTasks, Timeout, processes, capture, control, Streams,
     ChildLeft, DescendantLeft, CallerLeft
<1>3. /\ ChildLeft \in Int /\ DescendantLeft \in Int /\ CallerLeft \in Int
      /\ ChildLeft' \in Int /\ DescendantLeft' \in Int /\ CallerLeft' \in Int
  BY DEF RunInv, TypeOK, ChildLeft, DescendantLeft, CallerLeft
<1>4. /\ StepsLeft = StreamLeft("stdout") + StreamLeft("stderr") + P
      /\ StepsLeft' = StreamLeft("stdout")' + StreamLeft("stderr")' + P'
  BY <1>1, <1>3 DEF StepsLeft, Streams
<1> HIDE DEF P
<1> QED BY <1>1, <1>2, <1>4 DEF Streams

\* Whatever the child writes, and whatever hangs or fails, run_command takes a
\* bounded number of steps with its tasks and the child, and while it has not
\* returned it or the task it awaits can take one, unless a descendant of a
\* child that is gone holds a pipe open (process.rs:38-52).  That they take
\* them is what ReturnsByTimer adds to it.
THEOREM HeldUpByDescendantOnly ==
  Spec => /\ [] StepsBounded /\ [][StepsLeft' < StepsLeft]_vars
          /\ [](caller # "returned" /\ descendant # "running" => GoesOn)
<1>1. RunInv => StepsBounded
  <2> SUFFICES ASSUME RunInv PROVE StepsBounded
    OBVIOUS
  <2>1. MaxOutput \in Nat
    BY RunCommandAssumption
  <2> QED BY <2>1, LeftTypes DEF StepsBounded, StepsLeft, Streams
<1>2. RunInv /\ RunInv' /\ [Next]_vars => [StepsLeft' < StepsLeft]_vars
  BY StreamSteps, ProcessSteps DEF Next, Done
<1>3. Init => AwaitsTasks
  BY DEF Init, AwaitsTasks
<1>4. RunInv /\ AwaitsTasks /\ [Next]_vars => AwaitsTasks'
  <2> SUFFICES ASSUME RunInv, AwaitsTasks, [Next]_vars PROVE AwaitsTasks'
    OBVIOUS
  <2> USE DEF AwaitsTasks
  <2>1. CASE UNCHANGED <<caller, task>>
    BY <2>1
  <2>2. ASSUME NEW s \in Streams, EndOfFile(s) \/ ReadFails(s) PROVE AwaitsTasks'
    BY <2>2 DEF EndOfFile, ReadFails, TaskEnds, control, RunInv, TypeOK
  <2>3. CASE ChildExited \/ Join
    BY <2>3 DEF ChildExited, Join, capture, RunInv, TypeOK, Ordered, Streams
  <2>4. CASE Spawn \/ SpawnFails \/ AfterKill \/ WaitFails \/ Timeout \/ JoinFails
    BY <2>4 DEF Spawn, SpawnFails, AfterKill, WaitFails, AbortTasks, Timeout, JoinFails
  <2> QED
    BY <2>1, <2>2, <2>3, <2>4
    DEF Next, Task, Write, Read, ReadSome, Exit, Abort, Dies, Ends, LeaveDescendant,
        DescendantExits, Caller, Done, vars, processes, capture, control
<1>5. RunInv /\ AwaitsTasks => (caller # "returned" /\ descendant # "running" => GoesOn)
  BY DEF RunInv, TypeOK, Ordered, AwaitsTasks, GoesOn
<1> QED BY <1>1, <1>2, <1>3, <1>4, <1>5, CommandInvariant, PTL DEF Spec
=============================================================================
