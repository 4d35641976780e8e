# A TLA+ model of the MIR Azure worker

`mir-azure` takes document-processing requests from a Kafka topic, one at a
time, turns every document into Markdown (with Azure Document Intelligence, or
with the local tool MarkItDown), uploads the Markdown to S3 and publishes
progress and a result. This directory models it in TLA+: the modules, the TLC
configurations that check them on small instances, and the theorems that TLAPS
proves of them for every value of the constants. Paths such as `main.rs:104`
are relative to `src/src/`, or to `src/src/worker/processor/` for the files of
the processor.

    tlc -config MCWorker.cfg MCWorker       # one run; PROJECT.json lists them
    tlapm WorkerProofs.tla                  # the proofs of one module

## 1. The system

### Components

| Component | Source | State | Operations | Model |
| --- | --- | --- | --- | --- |
| Message loop | `main.rs:43-123` | message in hand, asynchronous commits | receive, skip malformed, run job, wait for publisher, commit, shut down | `Worker` |
| Publisher task | `main.rs:125-159` | channel of events | send one event, log a failure, drain | `Worker` |
| Kafka consumer group | external | committed offsets, owners, fetch positions | assign, revoke, commit | `Worker` |
| Job lifecycle | `job.rs`, `events.rs`, `progress.rs` | job directory, its files, the text, events | create, download, extract, save, upload, remove, report | `Job` |
| Engine selection, MarkItDown | `extraction.rs` | none | choose, run the tool, read its file | `Media`, `Job` |
| Error classification | `result.rs` | none | error to result and failure kind | `Media`, `Job` |
| S3 storage | `worker/storage.rs` | bucket client | download, upload | `Job` |
| Submission and recovery | `submission.rs`, `submission_error.rs`, `pdf_prepare.rs`, `office_prepare.rs`, `rate_limit.rs` | file in hand, retry counter | optimise, submit, retry, recover | `Submission` |
| Azure client | `azure/client.rs` | one operation | post, poll | `AzureClient` |
| Chunked analysis | `pdf_chunk.rs`, `pdf_chunk_support.rs`, `pdf.rs`, `pdf_raster.rs` | recursion, temporary files, texts | cut, submit, bisect, rasterise, join | `Chunking` |
| Subprocess runner | `process.rs` | child, pipes, two tasks, timer | spawn, capture, kill, join | `RunCommand` |
| Office conversion | `office.rs`, `office_prepare.rs` | converted file | clear, run LibreOffice, look for the output | `Preparation`; one step of `Submission` |
| Media types | `media.rs` | none | extension to content type | `Media` |
| Documents and sizes | `document.rs` | path, size, optimised or not | file size | `Submission`, `Preparation` |
| Command line, context | `worker/config.rs`, `context.rs` | configuration | parse, build clients | the limits, in `Submission` |
| Packaging, CI | `Dockerfile`, `scripts/`, `.github/` | none | build | not modelled |

### How they interact

The loop calls `process_request_streaming` and hands it a callback that pushes
events into an unbounded channel. A publisher task, spawned for each message,
takes them out and sends them to Kafka; the loop awaits the job, drops the
sender, awaits the task, and commits. The job calls the extraction with the path
of the downloaded file; the extraction calls Azure through `submission.rs`, which
may call Ghostscript or LibreOffice through `process.rs`, and in the end the
chunked analysis, which comes back to `submit_prepared_document` for every chunk.
The parts share no memory; what outlives a call are files in the job directory,
the object in S3, the committed offset and the events already sent.

### What is hard

* **Crash and redelivery.** The only durable progress marker is the offset. A
  process that dies repeats the whole job, perhaps on a disk that holds what the
  dead attempt left, perhaps on another worker while the first still works.
* **Asynchronous commits** whose outcome nobody looks at, and which can arrive
  after a rebalance.
* **Two tasks per message**, and the order of drop, join and commit.
* **Partial failure**: a send fails, an upload succeeds and its answer is lost, a
  file cannot be removed.
* **The recovery ladder** after `InvalidContentLength`: optimise, convert, cut,
  bisect, rasterise, with percentages that have to fit together.
* **Child processes** that fill their pipes, hang, or leave descendants behind.
* **Arithmetic**: bisection, chunk counts of zero and one, saturating buffers,
  capped back-off, two configured limits of either order.

### What makes each part correct

* Worker: no offset is committed past a request whose result was not handed to
  Kafka; events in order; no redelivery and no offset going back without a fault;
  every request is settled in the end.
* Job: what is stored is the whole text of the attempt that stores it; the
  directory goes away on every path; success only with an artifact; retry asked
  for only without one; percentages never go back; nothing but the extraction can
  hang (MarkItDown, which has no timeout, and a tool on the way through Azure whose
  pipes a descendant keeps open).
* Submission: the size limit; what has been tried before a document is cut up or
  given up; a bound on the POSTs and on each back-off; an end.
* Chunking: every page once and in order; no file left; logarithmic depth, linear
  number of submissions; an end.
* RunCommand: exact capture; success means everything was read; no child is left
  running; it returns.
* Preparation: what is submitted was made of this attempt's input, whatever is on
  the disk.
* Together: the submission and the chunked analysis behave as their modules say;
  Azure is not sent more than the retries of each submission add up to; the result
  follows from Azure's answers; a client told of success finds a document; a fault
  costs one delivery.

## 2. The modules

### Worker, and the abstract RequestIntake

`Worker` models any number of processes of one consumer group and the broker's
side of it. `pc` is the place in `main`: `waiting` is the `select!`, `processing`
the await of the job, `draining` the await of the publisher, `closing` the drop
of the consumer. `channel` is the mpsc channel, `commits` the commits that
`CommitMode::Async` has queued. The actions are `Receive` with `SkipMalformed` or
`StartJob` (`handle_message` up to the job), `Progress`, `Success` and `Failure`
(the job, reduced to its events), `Publish` (a turn of `publish_events`, which
may fail), `Acknowledge` (the publisher has drained; commit), `Shutdown` and
`Close`, `Crash`, and Kafka's `Assign`, `CommitArrives`, `CommitFails`. The
broker may accept a commit of a member that has lost the partition, as Kafka does
once that member has rejoined the group; SIGINT has an effect in `select!`
only, and SIGTERM is a crash, since the program does not catch it. An error of
the stream is only logged and has no action. A publisher that panics
(`main.rs:112-114` logs it and commits all the same) is left out: nothing in
`publish_events` panics. `sent` is a history of the events Kafka took of the
attempt in hand, by number.

`RequestIntake` is the promise to whoever posts requests: an at-least-once queue
whose acknowledged offset covers settled requests only. It may go back, since a
late commit may. A request is *settled* when its result was handed to Kafka,
whether Kafka took it or not, or when it is malformed.

### Job, and the abstract JobContract

`Job` models the attempts at *one* job: deliveries of the request, on workers
with a disk each, one after the other or overlapping. The content of a file is
the number of the attempt that downloaded what it was made from, so that "the
text of the wrong attempt" and "half a file" can be told from the right one;
writes take two steps, with a partial file in between. The actions follow
`run_job`, `run_job_in_dir`, `upload_markdown`, `finalize_job_dir` and
`process_request_streaming`; `Abandon` is the `?` operator, which skips the rest
but not `finalize_job_dir`. `request` fixes at the start whether the source is
in S3 or local, which engine its extension selects, and whether the workers have
a storage; all combinations are initial states. `Crash` may happen anywhere. The
tools a dead worker has started die with it, as the worker is the main process
of its container (`Dockerfile`). `UploadFails` includes a `put_object` that took
effect although its answer was lost. The model assumes of MarkItDown that exit
status 0 means it wrote `document.md`: `extraction.rs:69-77` looks at the status
only, and does not remove an older file first, as `office.rs:35` does.

`JobContract` is the promise to a reader of the events: percentages that never
go back up to 90, then one verdict; success (100) only with a stored artifact;
retryable only without one.

### Submission with AzureClient

`AzureClient` is one call of the client by the classes of answers its callers tell
apart: status 429, an API error that names `InvalidContentLength`, another API
error, a transport error, an unusable response, the exhausted polls, success. That
these classes are disjoint assumes of Azure that the body of a 429 does not name
`InvalidContentLength` (`submission.rs:111-132`, `157`). The module has no
specification of its own; `Submission` EXTENDS and drives it. `Submission` walks
one document of kind `pdf`, `doc` (what LibreOffice converts) or `other` through
`prepare_document`, `submit_prepared_document_with_retries` and
`retry_after_invalid_content_length`; `stage` says which of the three submissions
it is. Sizes are small numbers, the two configured limits are of any order, and
Ghostscript and LibreOffice write files of any size. `Chunks` is one step here.

### Chunking

The recursion `analyze_pdf_range` / `split_failing_range` is a stack of frames,
one for every call under way; `result` is what the innermost call is about to
return. The text of a page is its number, so that text lost, repeated or out
of order is visible. Azure may refuse any submission, Ghostscript may fail with
or without an output file, and a removal may fail, `MaxStuck` times.

### Pipeline: Submission with Chunking and AzureClient, by Media

`Media` holds the tables of `media.rs`, `extraction.rs` and `result.rs` as
operators. `Pipeline` EXTENDS `Submission` and instantiates `Chunking` for what
Submission does in the one step `Chunks`, and `AzureClient` a second time for the
call of the chunk in hand. A step of Submission (`Whole`) leaves the chunking
alone; while `pc = "chunks"` only Chunking moves, the submissions of chunks with
polls and retries of their own (`CutSubmit`, `CutCall`, `CutRetry`, and one action
for each kind of answer), until `CutEnds` hands the result back. `cause` is the
error that ends the chunking, of which Chunking knows only "too large" and
"other"; its initial percentage of zero is mapped. `SubmissionSpec` and
`ChunkingSpec` are the refinements.

### Service: Worker with Job

`Service` EXTENDS `Worker` for one request and instantiates `Job`, with `at` for
its control point. Each step of the job that reports something is Worker's
`Progress`, `Success` or `Failure` at the same time, the others leave Worker
alone; a delivery is `StartJob` and `Accept`, a crash is one for both. `told` are
the verdicts Kafka took. A progress event that Kafka does not take changes
nothing here, so only results get lost. Each step is by construction one of Worker,
one of Job, or one of both; what the runs and the theorems are about is what the
two do together. An attempt is `Outside` while it waits for its extraction.

### Preparation

The files of one worker's disk over several attempts: the input, LibreOffice's
PDF and Ghostscript's, under the same names in every attempt. The content of a
file is the attempt whose input it was made from. Attempts end at any point, by
a crash, or with a directory that could not be removed; a tool fails with
part of a file written, or LibreOffice exits with status 0 and no output. Its
launcher is killed on a time-out but what it started goes on as an orphan and may
write later. LibreOffice's profile directory is left out: what is in it can make
a conversion fail, as other things can, but is not a document.

### RunCommand

The concurrent actors of `run_command`: the child, a descendant that inherits its
pipes, the task for each stream, the caller and its timer. Sizes are in arbitrary
units; `Remaining` is the `saturating_sub` of `capture_output`.

### Seeded bugs

Operators commented "Seeded bug" are plausible errors in the code next to the
definition they would replace. The specifications do not use them; `mutants` in
PROJECT.json says which run and property notices each.

## 3. The runs

| Run | Question | Instance |
| --- | --- | --- |
| `worker` | Is any request skipped, reordered or repeated without a fault? Does Worker implement RequestIntake? | 2 workers, 1 partition of a malformed message and two requests, 2 faults, 1 shutdown |
| `worker_live` | Is everything settled in the end, does the lag vanish? | 2 workers, 2 partitions of one message, 1 fault, 1 shutdown |
| `worker_unanswered` | Does a committed request always have a published result? **No.** | 1 worker, 1 request, no fault |
| `job` | Own text, clean directories, the contract | 2 workers, 3 deliveries, all requests |
| `service` | Does "success" mean a document, whichever attempt dies where; what does a fault cost, and a shutdown? | 2 workers, 1 request for Azure, 1 fault, 1 shutdown |
| `service_live` | Does everything end unless an extraction hangs? | 1 worker, 1 request for either engine, 1 fault, 1 shutdown |
| `preparation` | Is what is submitted this attempt's own? | 3 attempts on one disk |
| `submission` | Limits, what precedes cutting and giving up, POSTs and back-offs, percentages, termination | all kinds, sizes and limits up to 2, 8 retries |
| `pipeline` | Do Submission, Chunking and the retries fit together; does the result follow from the answers? | all extensions, up to 4 pages in chunks of 3, 1 retry, 1 poll, sizes up to 2, one configuration |
| `chunking` | Pages, files, depth, cost, termination | up to 8 pages in chunks of 5, 1 file that cannot be removed |
| `command` | Capture, drain, kill; does the command return, by its timer or without it? | limit 2, output up to 5 on each stream, a descendant |
| `command_holder` | Does the timeout bound the command? **No.** | a descendant |

### Bounds

* Two workers are what a rebalance needs; a third would only repeat the role of
  one of them. Three messages make a malformed one followed by two requests, so
  that offsets can move back by one and by two. Two faults allow a revocation
  during a job and a lost or late commit, or a crash after a crash; the workers
  are interchangeable, which the symmetry of the safety runs uses. (Liveness runs
  have no symmetry.)
* Three deliveries allow an attempt that dies, one that finds its files, and one
  that overlaps on the other worker. In `service` one fault makes two attempts,
  which is what an overlap takes, and the shutdown is one of either worker at any
  point of the other's work. `MaxEvents` = 6 is the longest job without Azure's
  percentages, which an assumption of Service requires; one percentage is added in
  `service_live`.
* Three attempts of Preparation: two may leave files and orphans to the third.
* Chunks of five pages go through every shape of bisection (5 = 2 + 3,
  3 = 1 + 2), and documents of up to eight pages have one initial range or two,
  the last one full or partial. The pipeline's four pages in chunks of three make
  a range that is bisected twice and a second one.
* The pipeline has one configuration, with which a PDF may be sent as it is,
  optimised, refused in either form, or given up since Ghostscript leaves it above
  the maximum; all files can be removed.
  Submission goes through all configurations, Chunking through a failed removal.
* `Limit = 2`, `Marker = 1`, `Buffer = 2` and five units of output allow output
  below, at and beyond the limit, a read that crosses it, and reads after the
  marker was appended.
* `MaxPolls = 2` stands for `POLL_MAX_ATTEMPTS` = 120: polls differ only in their
  number, and with two the last poll and one before it both occur; in the pipeline
  one poll is both. `MaxRetries` has the value of the code in `submission`; in the
  pipeline one retry is the first and the last. Sizes from 0 to 2 give every
  order of size, threshold and maximum, and the empty file.

### Fairness

The fairness is weak throughout.

* `Worker`: a process that stopped is started again (a container that restarts),
  a free partition is assigned to a member, the broker answers commits, the
  runtime polls the loop and the publisher (whose sends end by librdkafka's
  delivery timeout), and a job ends. The last is what the other modules show but
  for MarkItDown and descendants; a job that never ends stops its worker, until
  after `max.poll.interval.ms`, 24 hours, the group takes its partition away.
  Faults are bounded, since a worker that crashes for ever settles nothing.
* `Service`: that of Worker, but instead of "a job ends" every step of the job is
  fair except where it is `Outside`: in the run of MarkItDown, which the code
  gives no timeout (`extraction.rs:69-74`), and on the whole way through Azure, where
  `run_command` may wait for the readers of a tool's pipes for as long as a
  descendant keeps them open (`process.rs:43-44`). That transfers from and to S3
  and operations on files end is assumed. Crashes are not fair: nothing has to die.
* `Submission`, `Chunking`: the only actor is the task itself, every wait of which
  is bounded: 300 seconds for an HTTP request, 120 polls, the subprocess timeout.
  The last takes no descendant of Ghostscript or LibreOffice to keep the pipes
  open for ever, which the timeout does not cover (`command_holder`); the theorems
  on the steps left do not need it. Pipeline adds no waits, and is checked for
  safety and deadlock.
* `RunCommand`: the fairness is part of the properties, so that one run asks both
  questions. `TimerFairness`: the runtime polls the caller and the tasks, timers
  fire, a killed process dies; the child is under no obligation, not even to
  exit. `PatientFairness`: the child and the descendant do what they have to, and
  it is the timer that need not fire.

A run of `Worker` can stutter where every message is consumed (`Idle`), of `Job`
and `Preparation` where attempts are used up (`Quiet`), of the others where they
are done (`Done`); deadlock is checked in every run.

### What the code does and its documentation does not say

* `worker_unanswered`. `README.md:15` lists "Publish MIR progress and terminal
  result events." and `main.rs:119` logs "MIR Azure job events published", but
  `publish_events` only logs a failed send, and the offset is committed all the
  same. TLC shows it without any crash: the requester never gets a result, and
  no redelivery follows. This is why `Settled` says "handed to Kafka".
* `command_holder`. `README.md:49` calls `AZURE_DI_SUBPROCESS_TIMEOUT_SECS` the
  "Ghostscript and LibreOffice timeout." It covers the wait for the child only.
  When the child has exited, the output tasks are joined without a timeout, and
  they read until *every* process that holds the pipes is gone.
* `TooLargeByExtension` shows that the conversion of a .docx, which `media.rs:55`
  provides for, is unreachable: `extraction.rs:91-106` gives every .docx to
  MarkItDown. Only a .doc is converted.
* `RefusedPdfIsCut` shows that the second optimisation of a PDF, at 45 to 55
  percent, is unreachable: both preparations compare with the same threshold.
* `TooLargeByExtension` and `GivenUpLast` tell the two ways of being too large
  apart. A PDF that Azure refuses is cut up, down to single pages and pictures of
  them, before it is given up; one that Ghostscript leaves above the maximum fails
  at once (`pdf_prepare.rs:71-84`), although its chunks might be small enough.

## 4. The proofs

TLAPS proves every safety invariant, every action property and every refinement
that a passing run checks, for every set of workers and partitions and every value
of the constants that their assumptions admit. Of the liveness of the sequential
parts it proves what needs no fairness (`StepsLeft`, below). The assumptions:

* `ConstantsAssumption`, `JobAssumption`, `SubmissionAssumption`,
  `PollAssumption`, `PreparationAssumption`: the bounds are naturals, polls and
  events positive ones, and `Milestones` lie within 20 to 78, the percentages
  `Submission` and `Chunking` are shown to stay in;
* `ChunkingAssumption`, `PipelineAssumption`: a chunk has at least one page, which
  the start-up of the worker ensures (`config.rs:120-135`);
* `RunCommandAssumption`: buffers and pipes hold at least one unit, and a `usize` at
  least the limit and the marker (262 144 bytes in the code);
* `OneRequest`: Service is the way of one request, so the log has one message, and
  the bounds on events and deliveries leave room for a whole job. Several messages
  and partitions are the subject of Worker alone.

A temporal theorem is proved from an inductive invariant, which is the
property and what it needs.

Liveness under fairness is out of the provers' reach. For the parts that have
one task to run (Submission, Chunking, Pipeline and RunCommand) two theorems
come close to it. A measure of the steps left (`StepsLeft`) is bounded, and *every*
step lessens it, so no pattern of refusals, retries and recoveries goes round in a
circle. And in every state that is not final one of a few guards, spelled out as
`GoesOn`, holds: no answer, index or returned text is without a branch that
takes it. What fairness adds in `Terminates` is only that the worker takes the
steps it can. That `GoesOn` lists guards, and is not `ENABLED Next`, is on purpose:
`ENABLED` cannot be reasoned about here. TLC checks the other half, that these
guards suffice, as the absence of deadlock.

**WorkerProofs.** That no commit skips an unsettled request is not inductive: a
commit on its way must not do so either (`CommitsCoverSettled`), nor may a fetch
position, except for the request in hand (`FetchedIsSettledOrInHand`), the
request in hand has only settled ones below it (`JobInHandIsNext`), and an
attempt that is draining still has its result in the channel or has sent it
(`ResultStillDue`). Their conjunction `IntakeInv` is proved action by action
(`IntakeInvariant`). A revoked worker that goes on is covered: below *its* job
everything was settled when it took the job, and settled requests stay so.
`TypeCorrect` and `NothingSkipped` follow, and `ImplementsIntake`: every step of
`Worker` settles a request, moves an offset over settled ones, or stutters.

`EventsInOrder` says that the numbers of the events Kafka took of an attempt
strictly increase, so that none is overtaken and none comes twice. It rests on
`Numbered`: the channel holds the last events the attempt has emitted, numbered
without a gap, and only earlier ones were sent.
`NoRedelivery` and `NoRegression` say what happens without faults, so their
invariant is conditional (`FaultFreeInv`): until the first fault, commits are on
their way from owners only (`CommitsOwned`) and in the order of their offsets
(`CommitsSorted`), the request in hand is the last one fetched (`HandIsLatest`),
and whatever was fetched and is not committed is in hand or its commit is on
its way (`FetchedIsUnderWay`). The first fault ends all of this, which is why both
properties need the fault.

**JobProofs.** `JobInv` relates control point and files: from the download on, input,
document and text are those of the attempt (`OwnFiles`), an `ok` outcome has
measured what it stored, and a running attempt has no verdict yet. From it
follow `OwnTextStored`, for every content a dead attempt may have left;
`CompleteOnSuccess`; and `DirectoryRemoved`, with a further invariant on the way
from `finalize` to the verdict. `ImplementsContract` adds `Announced`, the
percentage an attempt has reported at every control point. `StoredStaysStep`,
that an object is replaced and never removed, is there for Service.

**SubmissionProofs.** `SizeLimitRespected` needs to know how a document got to its
submission: `InLimits` says that what is or will be submitted is within the
maximum and, unless Ghostscript made it, within the threshold. The second half
also gives `RefusedPdfIsCut`: a refused PDF that is not optimised is within the
threshold, so preparing it again finds nothing to optimise. `NothingGivenUpEarly`
proves `GivenUpLast`, which says for each way of failing what has been posted by
then. It rests on `Tried`: a form is left only for the next one, after a POST of
it was refused, so there is a POST for each form gone through, and one more for
each retry of the form in hand.

`CostBounded` is an account (`Paid`): the POSTs so far are at most those of the
document's first form, once it was converted, plus one for each attempt of the
submission under way, and each back-off lasts one to eight seconds. The sleeps
between polls (`client.rs:175`) are not counted. For
`ProgressNeverBack` the percentage is bounded at every point by the one that will
be reported next (`Reported`).

`EndsInBoundedSteps` measures a document by its form (a first submission has a
recovery before it), the attempts left of that form, each a POST, its polls and
its end, and the percentages still to be reported by the chunks.
`EveryAnswerTaken` needs that a call never returns without an answer
(`Returned`); then stage, kind, size and attempt leave no answer without a branch.

**ChunkingProofs.** `RangeInv` is what TLC checks as `ChunkInv` (each call has a half
of its caller's range; the left text is kept; what is returned is the text of the
range) with what makes it inductive: every range lies in the initial range in
hand (`Inside`), ranges get smaller (`Shrinking`), and the analysis stops only with
an empty stack (`Stops`). The lemmas about the operators, that halves tile a
range, that initial ranges tile the document, and that the texts of adjacent ranges
join, then give `EveryPageOnceInOrder`. `PictureFirst`, that an analysis fails as too
large exactly if a page was refused even as a picture, and a page of every call
that fails with it, adds that the pages of a call are among its caller's
(`PagesOfCaller`).

`FilesCleanedUp` needs `FilesInv`: a file that could not be removed belongs to pages
that are done with (`StuckIsPast`), so no later call meets a file of its own among
them, and the only picture that may exist is the one in hand.
`ThreePerPage` needs `CostInv`. A binary tree with k leaves has k - 1 inner nodes,
but while it is being walked the inner nodes come first: calls whose left half is
in hand are paid in advance, out of the pages still to come (`LeftsBelow`).
`CallAffordable`, that the next submission is always within the bound, and
`PercentSoFar`, that the percentage is at most that of the next range, are there
for Pipeline.

`RangesHalve` proves that each range has at most half the pages of its caller's.
`DepthLogarithmic` turns this into the bound on the depth, a power of two
(`PowerOf2`), although no theorem with a predicate as a parameter can be used: were
there calls on the stack whose range, doubled as often as it was halved, exceeds
the chunk, there would be an outermost one, since a set of numbers has a least
element (`LeastNumber`), and its caller would be one, too.

In `EndsInBoundedSteps` a range of k pages takes at most 8k - 3 steps with all its
parts: five for each page that ends up as a picture, and three for each of the
k - 1 ranges that are cut in two, again because a binary tree with k leaves has
k - 1 inner nodes. With a step to open each initial range and one to finish, an
analysis of p pages in c chunks takes 8p - 2c + 1 steps once they are counted. The
bound is exact: for 8 pages in chunks of 5 the longest behaviour TLC finds has
these 61 steps after the count. `NeverStuck` follows
from `RangeInv`: the callers on the stack are at their left or right half, and no
index passes the ranges.

**RunCommandProofs.** `Captured` says what is in the buffer as a function of what was
read of a stream: all of it up to the limit, from then on the limit and the marker,
once, whatever the sizes of the reads. `Ordered` says what the caller and the
two tasks know of each other: a task is done only when the child is gone and the
pipe is empty, and the caller joins only when the child is gone. The three
properties follow from their conjunction.

`HeldUpByDescendantOnly` says what may keep `run_command` from returning. Its steps,
those of the child and of the two tasks, are bounded by the output, and some step is
possible until it has returned (the child's, the timer's, the awaited task's), unless
a descendant of the child holds a pipe open. The exception is needed: without it
TLC finds the state in which the child is gone, the timer does not count any more,
and the task waits for the end of the pipe, the one the run `command_holder` shows.

**PreparationProofs.** `SubmittedIsOwn` is extended to a tool at work
(`OwnInHand`), and to the place its output goes (`WayCleared`): what
`remove_existing_file` leaves there is nothing, or an orphan's.

**ServiceProofs.** By construction a step of Service is one of Worker or leaves it
alone, and the same for Job (the lemmas `WorkerWithin` and `JobWithin`), so
`IntakeInv` and `JobInv` hold without being proved again: `WorkerProofs` is
extended and `JobProofs` is an instance (`JP`). The invariant adds how the two
fit: a worker processes a message exactly while its job runs (`InJob`), a result
is the last event of its channel (`ResultIsLast`), the verdicts told and those
still to be told are no more than the attempts (`ToldOnce`), a success that was
told has its object in the store (`ToldStored`, with `StoredStaysStep`), and there
is at most one delivery more than faults, the last of which uses the request up:
it is in hand, or its commit is on its way or done (`OncePerFault`). Hence
`ToldIsStored` and `OneDeliveryPerFault`.

**PipelineProofs.** Here `SubmissionProofs` is extended and `ChunkingProofs` an instance
(`CP`). `RefinesChunking` needs that pages are known exactly from the moment the
document is cut (`PagesKnown`), since Chunking's percentage is mapped by them; it
gives `RangeInv`, `CostInv` and `PercentSoFar` here. `RefinesSubmission` needs these,
and that a document to be cut has not been reported beyond 60 percent
(`CutPercent`), for its progress goes on at 65; and that the analysis fails
only with an error a chunk can get (`Heard`). In turn it gives all invariants of
Submission. On top of both:

* `VerdictFollows` from `Heard` (a call is under way only for the chunk in hand; the
  cause of the failure is a transient error exactly if the last answer is) and
  `Answerable`, the same for the answers about the whole document;
* `WhenTooLarge` from `GivenUp`: the kind is that of the extension, a PDF or a .doc is
  too large for Azure exactly if a page was refused even as a picture, and one given
  up after optimisation has cost no POST;
* `AllPosts` from `ChunksPaid`: every submission of a chunk has cost at most one
  POST and its retries, and the one in hand as many as it has made; the number
  of submissions is bounded by `CallAffordable`;
* `AllEndsInBoundedSteps` from the measures of the two parts: each step of the chunking
  weighs as much as a whole submission with its retries (`ChunkCallLeft` is always
  less), for each may begin one. With R steps for a submission, a document of p
  pages in c chunks ends within R(8p - 2c + 2) steps of being counted;
* `EveryAnswerOfAllTaken`: the submission in hand is answered when its call is over
  (`Heeded`), for what is being submitted has just been written
  (`SubmittedIsWritten`), and every answer has a branch. A range that is too large
  has two pages or more and is bisected, or one and becomes a picture; none has
  no page.

Only model-checked:

* the liveness properties (`AllSettled`, `LagVanishes`, `Terminates`,
  `ReturnsByTimer`, `ReturnsIfPatient`, `SettledUnlessHung`), which depend on
  fairness and on where actions are enabled; of `Terminates` and `ReturnsByTimer`
  the part that needs no fairness is proved, as said above;
* what the two runs that find a disagreement refute.

## 5. Not modelled

* The content of documents and of events, names of topics, keys and objects.
* Start-up: parsing of the command line, TLS set-up, the wiring of clients. It
  runs once, and a failure ends the process before it takes a message. The models
  assume what it establishes: a positive chunk size and timeout
  (`config.rs:120-135`) and a storage or none (`context.rs:36-53`). `retry_topic`
  is configured and never used; a TLS path that is not UTF-8 is left out without
  an error (`main.rs:180`).
* The texts of `result.rs`, and how the extension is cut out of a name.
* Two workers that share one output root. `Job` gives each a disk of its own, as
  the containers do; the code does not enforce it.
* How long the sleeps take: a back-off is the number of its seconds in `Submission`,
  and those between polls and between the retries of a chunk are not counted.
* A publisher that panics (`main.rs:112-114`).
* A second signal, and what `select!` does when a message and SIGINT are both
  ready beyond taking either.
* `analyze_document` of the client (bytes, not a stream), which has no caller.
* Packaging and CI.

## 6. Plan

Done, in this order: Worker with RequestIntake and its proofs; Chunking;
RunCommand; AzureClient and Submission; Job with JobContract and its proofs; Media
and Pipeline; Service; Preparation and its proof; the proofs of Submission,
RunCommand and Chunking; those of Service and Pipeline, which reuse the others;
the depth of the chunks and the steps left of Chunking, Submission, RunCommand and
Pipeline.

Next, extending the model:

1. `Service` with a malformed message and a second request.
2. Two workers on one output root, as a variant of Job.

Then, proving more:

1. The bounds of Service for more than one message: a delivery of each for every
   fault.
2. A property of Job that no run states: an attempt without a crash or an overlap
   leaves the store as its verdict says.
3. The steps left of Job, whose extraction would be bounded by those of Pipeline.
