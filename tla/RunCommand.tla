----------------------------- MODULE RunCommand -----------------------------
(***************************************************************************)
(* Running Ghostscript or LibreOffice (src/src/worker/processor/           *)
(* process.rs): the caller waits for the child with a timeout while two    *)
(* tasks drain its output into bounded buffers.  Concurrent actors: the    *)
(* child, a descendant that inherited its pipes, the two tasks, the        *)
(* caller and the timer.  Sizes are in arbitrary units.                    *)
(***************************************************************************)
EXTENDS Naturals

CONSTANTS
  Limit,        \* OUTPUT_CAPTURE_LIMIT_BYTES
  Marker,       \* length of OUTPUT_TRUNCATED_MARKER
  Buffer,       \* size of the read buffer
  PipeCapacity, \* what a pipe holds before its writer blocks
  Width,        \* values of usize, for arithmetic that wraps
  MaxOutput,    \* bound: what the child writes to a stream
  Descendants   \* whether the child may leave a descendant behind

ASSUME RunCommandAssumption ==
  /\ {Limit, Marker, MaxOutput} \subseteq Nat
  /\ {Buffer, PipeCapacity} \subseteq Nat \ {0}
  /\ Width \in Nat /\ Width > Limit + Marker
  /\ Descendants \in BOOLEAN

Streams == {"stdout", "stderr"}
Smaller(a, b) == IF a < b THEN a ELSE b

VARIABLES
  child,      \* "none", "running", "dying" (SIGKILL sent) or "gone"
  descendant, \* "none", "running" or "gone"
  todo,       \* what the child has still to write to each stream
  written,    \* history: what it wrote
  pipe,       \* what a pipe holds
  task,       \* "none", "reading", "done", "failed" or "aborted"
  output,     \* length of the captured output
  truncated,  \* whether the marker was appended
  caller,     \* "start", "waiting", "killing", "joining", "returned"
  joining,    \* stream whose task the caller awaits
  result      \* "none", "ok", "timeout" or "io"

processes == <<child, descendant, todo, written>>
capture   == <<task, output, truncated>>
control   == <<caller, joining, result>>
vars      == <<processes, pipe, capture, control>>

TypeOK ==
  /\ child \in {"none", "running", "dying", "gone"}
  /\ descendant \in {"none", "running", "gone"}
  /\ todo \in [Streams -> 0 .. MaxOutput]
  /\ written \in [Streams -> 0 .. MaxOutput]
  /\ pipe \in [Streams -> 0 .. PipeCapacity]
  /\ task \in [Streams -> {"none", "reading", "done", "failed", "aborted"}]
  /\ output \in [Streams -> 0 .. Limit + Marker]
  /\ truncated \in [Streams -> BOOLEAN]
  /\ caller \in {"start", "waiting", "killing", "joining", "returned"}
  /\ joining \in Streams
  /\ result \in {"none", "ok", "timeout", "io"}

Init ==
  /\ child = "none" /\ descendant = "none"
  /\ todo \in [Streams -> 0 .. MaxOutput]
  /\ written = [s \in Streams |-> 0]
  /\ pipe = [s \in Streams |-> 0]
  /\ task = [s \in Streams |-> "none"]
  /\ output = [s \in Streams |-> 0]
  /\ truncated = [s \in Streams |-> FALSE]
  /\ caller = "start" /\ joining = "stdout" /\ result = "none"

-----------------------------------------------------------------------------
(* The child and its descendant (external).                                *)

\* A write blocks while the pipe is full.
Write(s) ==
  /\ child = "running" /\ todo[s] > 0 /\ pipe[s] < PipeCapacity
  /\ task[s] = "reading"
  /\ \E k \in 1 .. Smaller(todo[s], PipeCapacity - pipe[s]) :
       /\ todo' = [todo EXCEPT ![s] = @ - k]
       /\ written' = [written EXCEPT ![s] = @ + k]
       /\ pipe' = [pipe EXCEPT ![s] = @ + k]
  /\ UNCHANGED <<child, descendant, capture, control>>

\* The child exits when it has written everything, or crashes, or writes into a
\* pipe that nobody reads any more, or is killed.
Ends == child' = "gone" /\ UNCHANGED <<descendant, todo, written, pipe, capture,
                                       control>>
Exit  == child = "running" /\ (\A s \in Streams : todo[s] = 0) /\ Ends
Abort == child = "running" /\ (\E s \in Streams : todo[s] > 0) /\ Ends
BrokenPipe == Abort /\ \E s \in Streams : todo[s] > 0 /\ task[s] # "reading"
Dies  == child = "dying" /\ Ends

LeaveDescendant ==
  /\ Descendants /\ child = "running" /\ descendant = "none"
  /\ descendant' = "running"
  /\ UNCHANGED <<child, todo, written, pipe, capture, control>>

DescendantExits ==
  /\ descendant = "running"
  /\ descendant' = "gone"
  /\ UNCHANGED <<child, todo, written, pipe, capture, control>>

-----------------------------------------------------------------------------
(* capture_output, one task per stream.                                    *)

\* Seeded bug: a subtraction that wraps once the marker has been appended.
WrappingRemaining(s) == (Limit + Width - output[s]) % Width
\* saturating_sub: the marker makes the output longer than the limit.
Remaining(s) == IF output[s] < Limit THEN Limit - output[s] ELSE 0

ReadSome(s) ==
  /\ task[s] = "reading" /\ pipe[s] > 0
  /\ \E read \in 1 .. Smaller(Buffer, pipe[s]) :
       LET keep == Smaller(read, Remaining(s))
           mark == keep < read /\ ~truncated[s]
       IN  /\ pipe' = [pipe EXCEPT ![s] = @ - read]
           /\ output' = [output EXCEPT ![s] = @ + keep + IF mark THEN Marker ELSE 0]
           /\ truncated' = [truncated EXCEPT ![s] = @ \/ mark]
  /\ UNCHANGED <<processes, task, control>>

\* Seeded bug: a task that has captured enough stops reading.
ReadToLimit(s) == ~truncated[s] /\ ReadSome(s)
Read(s) == ReadSome(s)

TaskEnds(s, how) ==
  /\ task[s] = "reading"
  /\ task' = [task EXCEPT ![s] = how]
  /\ UNCHANGED <<processes, pipe, output, truncated, control>>

\* The writers are gone and the pipe is empty.
EndOfFile(s) == /\ child = "gone" /\ descendant # "running" /\ pipe[s] = 0
                /\ TaskEnds(s, "done")
ReadFails(s) == TaskEnds(s, "failed")

-----------------------------------------------------------------------------
(* run_command and wait_for_child.                                         *)

Spawn ==
  /\ caller = "start"
  /\ child' = "running"
  /\ task' = [s \in Streams |-> "reading"]
  /\ caller' = "waiting"
  /\ UNCHANGED <<descendant, todo, written, pipe, output, truncated, joining,
                 result>>

SpawnFails ==
  /\ caller = "start"
  /\ caller' = "returned" /\ result' = "io"
  /\ UNCHANGED <<processes, pipe, capture, joining>>

ChildExited ==
  /\ caller = "waiting" /\ child = "gone"
  /\ caller' = "joining"
  /\ UNCHANGED <<processes, pipe, capture, joining, result>>

\* abort_output_tasks; kill_on_drop kills a child that still runs.
AbortTasks(outcome) ==
  /\ task' = [s \in Streams |-> IF task[s] = "reading" THEN "aborted" ELSE task[s]]
  /\ child' = IF child = "running" THEN "dying" ELSE child
  /\ caller' = "returned" /\ result' = outcome
  /\ UNCHANGED <<descendant, todo, written, pipe, output, truncated, joining>>

WaitFails == caller = "waiting" /\ AbortTasks("io")

\* Seeded bugs: there is no timer; the child is not killed when it fires.
NoTimer == FALSE
TimeoutNoKill ==
  /\ caller = "waiting"
  /\ caller' = "returned" /\ result' = "timeout"
  /\ UNCHANGED <<processes, pipe, capture, joining>>

\* The timer may fire although the child has just exited.
Timeout ==
  /\ caller = "waiting"
  /\ child' = IF child = "running" THEN "dying" ELSE child
  /\ caller' = "killing"
  /\ UNCHANGED <<descendant, todo, written, pipe, capture, joining, result>>

\* The killed child is gone or POST_KILL_WAIT_TIMEOUT is over.
AfterKill == caller = "killing" /\ AbortTasks("timeout")

\* Seeded bug: the caller awaits one of the tasks only.
JoinOne ==
  /\ caller = "joining" /\ task[joining] = "done"
  /\ caller' = "returned" /\ result' = "ok"
  /\ UNCHANGED <<processes, pipe, capture, joining>>

\* join_output_task, stdout first.  There is no timeout here.
Join ==
  /\ caller = "joining" /\ task[joining] = "done"
  /\ IF joining = "stdout"
       THEN joining' = "stderr" /\ UNCHANGED <<caller, result>>
       ELSE caller' = "returned" /\ result' = "ok" /\ UNCHANGED joining
  /\ UNCHANGED <<processes, pipe, capture>>

JoinFails ==
  /\ caller = "joining" /\ task[joining] = "failed"
  /\ caller' = "returned" /\ result' = "io"
  /\ UNCHANGED <<processes, pipe, capture, joining>>

Done == caller = "returned" /\ UNCHANGED vars

-----------------------------------------------------------------------------
Caller == Spawn \/ SpawnFails \/ ChildExited \/ AfterKill \/ Join \/ JoinFails
Task(s) == Read(s) \/ EndOfFile(s)

Next ==
  \/ \E s \in Streams : Write(s) \/ Task(s) \/ ReadFails(s)
  \/ Exit \/ Abort \/ Dies \/ LeaveDescendant \/ DescendantExits
  \/ Caller \/ WaitFails \/ Timeout \/ Done

Spec == Init /\ [][Next]_vars

\* The runtime polls the caller and the tasks, the timers fire, a killed
\* process dies.  The child is under no obligation.
TimerFairness ==
  /\ WF_vars(Caller) /\ WF_vars(Timeout) /\ WF_vars(Dies)
  /\ \A s \in Streams : WF_vars(Task(s))
FairSpec == Spec /\ TimerFairness

\* A child and a descendant that write what they have to and exit, and a
\* timeout so long that it need not fire.
PatientFairness ==
  /\ WF_vars(Caller) /\ WF_vars(Exit) /\ WF_vars(BrokenPipe)
  /\ WF_vars(DescendantExits) /\ WF_vars(Dies)
  /\ \A s \in Streams : WF_vars(Task(s)) /\ WF_vars(Write(s))

-----------------------------------------------------------------------------
(* Properties.                                                             *)

\* However the output is cut into reads, it is captured completely or cut at
\* the limit and marked once; the buffer never grows beyond that, and every
\* variable has its type (process.rs:110-126).
CaptureExact ==
  /\ TypeOK
  /\ \A s \in Streams : output[s] <= Limit + Marker
  /\ result = "ok" => \A s \in Streams :
       output[s] = IF written[s] <= Limit THEN written[s] ELSE Limit + Marker

\* Success is reported only when the child ended by itself and everything it
\* wrote has been read.
OkMeansDrained ==
  result = "ok" => /\ child = "gone"
                   /\ \A s \in Streams : pipe[s] = 0 /\ task[s] = "done"

\* When run_command returns, by whichever path, the child is not left running.
NoChildLeftRunning == caller = "returned" => child # "running"

\* run_command returns.  README.md:49 calls AZURE_DI_SUBPROCESS_TIMEOUT_SECS
\* the Ghostscript and LibreOffice timeout.
CommandReturns == <>(caller = "returned")

\* It does unless a descendant holds the pipes for ever: the timer ends a child
\* that hangs, also one that has filled a pipe (process.rs:58-66).
ReturnsByTimer ==
  TimerFairness /\ []<>(descendant # "running") => CommandReturns

\* And it does without the timer: no amount of output blocks a child that
\* writes and exits, since the tasks read on beyond the limit
\* (process.rs:115-121).
ReturnsIfPatient == PatientFairness => CommandReturns
=============================================================================
