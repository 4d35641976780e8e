------------------------------ MODULE Service ------------------------------
(***************************************************************************)
(* The worker as a whole: Worker takes one request from Kafka and Job does *)
(* what it asks for.  Where Worker has a job emit events and end, here the *)
(* job's own steps do; where Job has a request be delivered again and a    *)
(* worker die, here Kafka and the faults of Worker do.  There is one       *)
(* request, in one partition; the workers compete for it.                  *)
(***************************************************************************)
EXTENDS Worker, FiniteSets

CONSTANTS
  MaxAttempts, \* bound: deliveries of the request
  Milestones   \* bound: percentages Azure's analysis reports

VARIABLES
  \* Job's variables; at is its control point.
  request, attempts, store, at, attempt, dir, input, document, text, outcome,
  percent, verdict, stored, measured, stuck,
  told         \* history: the verdicts that reached Kafka

J == INSTANCE Job WITH pc <- at

jobvars == <<request, attempts, store, at, attempt, dir, input, document, text,
             outcome, percent, verdict, stored, measured, stuck>>
all     == <<vars, jobvars, told>>

ASSUME OneRequest ==
  /\ LogLen = 1 /\ (\E p \in Partitions : Partitions = {p}) /\ Malformed = {}
  /\ MaxAttempts \in Nat /\ Milestones \subseteq 20 .. 78
  \* the bounds on events and deliveries do not get in the way of a job
  /\ MaxEvents >= 6 /\ MaxAttempts > MaxFaults + 1

ServiceInit == Init /\ J!Init /\ told = {}

ServiceTypeOK ==
  /\ TypeOK /\ J!TypeOK
  /\ told \subseteq {"success", "retryable", "failure"}

-----------------------------------------------------------------------------
\* What happens between the worker and Kafka only.
Kafka(w) ==
  /\ \/ Start(w)
     \/ \E p \in Partitions : Assign(p, w)
     \/ CommitArrives(w) \/ CommitFails(w) \/ Acknowledge(w)
     \/ Shutdown(w) \/ Close(w)
  /\ UNCHANGED <<jobvars, told>>

\* handle_message calls process_request_streaming.
Take(w) ==
  /\ \E p \in Partitions : StartJob(w, p)
  /\ J!Accept(w)
  /\ UNCHANGED told

\* The steps of the job that push an event into the channel ...
Report(w) ==
  /\ Progress(w)
  /\ J!CreateDir(w) \/ J!Convert(w) \/ J!Analyzed(w) \/ J!Saved(w)
  /\ UNCHANGED told
ToolReports(w) == Progress(w) /\ J!MarkItDownExits(w) /\ UNCHANGED told
AzureReports(w, p) ==
  /\ emitted[w] < MaxEvents - 3
  /\ Progress(w) /\ J!AnalyzeProgress(w, p)
  /\ UNCHANGED told

\* ... and those that do not.
Work(w) ==
  /\ pc[w] = "processing"
  /\ \/ J!CreateDirFails(w)
     \/ J!StartDownload(w) \/ J!Downloaded(w) \/ J!DownloadFails(w)
     \/ at[w] = "extract" /\ J!ExtractionFails(w)
     \/ J!StartSave(w) \/ J!SaveFails(w)
     \/ J!ReadDocument(w) \/ J!Uploaded(w) \/ J!UploadFails(w)
     \/ J!Measured(w) \/ J!MeasureFails(w)
     \/ J!Finalize(w) \/ J!FinalizeFails(w)
  /\ UNCHANGED <<vars, told>>
ToolFails(w) ==
  /\ at[w] = "converting" /\ J!ExtractionFails(w)
  /\ UNCHANGED <<vars, told>>

\* push_success_events and push_failure_event.
End(w) ==
  /\ \/ Success(w) /\ J!ReportSuccess(w)
     \/ Failure(w) /\ J!ReportFailure(w)
  /\ UNCHANGED told

\* The result the publisher sends is the verdict of the attempt.
Tell(w) ==
  told' = told \union (IF Head(channel[w]).kind = "result" THEN {verdict[w]} ELSE {})
\* (That Kafka may not take an event matters here for a result only.)
Send(w, delivered) ==
  /\ Publish(w, delivered)
  /\ delivered \/ Head(channel[w]).kind = "result"
  /\ IF delivered THEN Tell(w) ELSE UNCHANGED told
  /\ UNCHANGED jobvars

\* A worker dies, with the job it is at.
Die(w) ==
  /\ Crash(w)
  /\ IF at[w] = "idle" THEN UNCHANGED jobvars ELSE J!Crash(w)
  /\ UNCHANGED told

Rest == Idle /\ UNCHANGED all

ServiceNext ==
  \/ Rest
  \/ \E w \in Workers :
       \/ Kafka(w) \/ Take(w)
       \/ Report(w) \/ ToolReports(w) \/ \E p \in Milestones : AzureReports(w, p)
       \/ Work(w) \/ ToolFails(w) \/ End(w)
       \/ \E delivered \in BOOLEAN : Send(w, delivered)
       \/ Die(w)

ServiceSpec == ServiceInit /\ [][ServiceNext]_all

\* A job is in the hands of others while it is extracted: run_markitdown awaits a
\* process without a timeout (extraction.rs:69-74), and on the way through Azure
\* run_command, whose timeout ends the tool, awaits the readers of its pipes,
\* which a descendant of Ghostscript or LibreOffice can keep open
\* (process.rs:43-44; RunCommand).
Outside(w) == at[w] = IF request.engine = "azure" THEN "extract" ELSE "converting"

\* The fairness of Worker, with that of a job's own steps in place of the
\* assumption that a job ends.  What is Outside is under no obligation to end;
\* that the transfers from and to S3 and the operations on files end is assumed.
ServiceFairness ==
  /\ \A w \in Workers :
       /\ WF_all(Start(w) /\ Kafka(w))
       /\ WF_all(CommitArrives(w) /\ Kafka(w))
       /\ WF_all(Acknowledge(w) /\ Kafka(w))
       /\ WF_all(Close(w) /\ Kafka(w))
       /\ WF_all(Take(w))
       /\ WF_all(\E delivered \in BOOLEAN : Send(w, delivered))
       /\ WF_all(~Outside(w) /\ (Report(w) \/ Work(w) \/ End(w)))
  /\ \A p \in Partitions :
       WF_all(owner[p] = None /\ \E w \in Workers : Assign(p, w) /\ Kafka(w))
ServiceFairSpec == ServiceSpec /\ ServiceFairness

-----------------------------------------------------------------------------
(* Properties.                                                             *)

\* Whoever is told "success" finds a complete document in the storage, and so
\* it stays, whatever later or overlapping attempts do (job.rs:108, 146).
SuccessToldMeansStored == "success" \in told => store \in 1 .. MaxAttempts

\* A request is delivered once, and once more for a fault at most, be it a
\* crash, a revocation or a lost commit; the job is not run, Azure not paid and
\* the client not told two verdicts more often than that (main.rs:122).  Every
\* variable has its type.
DeliveriesBounded ==
  /\ ServiceTypeOK
  /\ attempts <= 1 + faults /\ Cardinality(told) <= attempts

\* Every request is settled and every attempt ends, or a worker waits for ever
\* for its extraction, the only step of a job that nothing is sure to end
\* (extraction.rs:69-74, process.rs:43-44).
SettledUnlessHung ==
  \/ /\ \A m \in Messages : <>Settled(m)
     /\ \A w \in Workers : []<>(at[w] = "idle")
  \/ \E w \in Workers : <>[]Outside(w)
=============================================================================
