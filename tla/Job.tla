--------------------------------- MODULE Job ---------------------------------
(***************************************************************************)
(* The attempts at one job (src/src/worker/processor/job.rs, extraction.rs,*)
(* result.rs).  An attempt works in a directory named after the job, which *)
(* it creates or finds: downloads the source, extracts the text, saves it, *)
(* uploads it, removes the directory and reports its verdict.  A worker    *)
(* may die at any moment, also in the middle of writing a file; then Kafka *)
(* delivers the request again, to the same worker, who finds what is left  *)
(* on its disk, or to another.  A worker that has lost its partition works *)
(* on, so that attempts also overlap.                                      *)
(*                                                                         *)
(* Every worker has an output root of its own.  The content of a file is   *)
(* the number of the attempt that downloaded what it was made from.        *)
(***************************************************************************)
EXTENDS Integers

CONSTANTS
  Workers,     \* worker processes, each with its disk
  MaxAttempts, \* bound: deliveries of the request
  Milestones   \* bound: percentages reported during the extraction

ASSUME JobAssumption ==
  /\ MaxAttempts \in Nat
  /\ Milestones \subseteq 20 .. 78

Attempts == 1 .. MaxAttempts
Nothing  == -1                  \* no such file
Partial  == 0                   \* a file written in part
Contents == {Nothing, Partial} \union Attempts

VARIABLES
  request,   \* its source and engine, and whether the workers have a storage
  attempts,  \* deliveries so far
  store,     \* content of the artifact in S3
  \* of a worker: control point, number of its attempt, whether the job has a
  \* directory and what the two files in it hold, the text in memory, the
  \* outcome to report
  pc, attempt, dir, input, document, text, outcome,
  \* history of a worker: the percentage and the verdict it reported last,
  \* whether its attempt has stored an artifact, the content whose size it
  \* reports, whether the directory could not be created or removed
  percent, verdict, stored, measured, stuck

shared == <<request, attempts, store>>
disk   == <<dir, input, document>>
events == <<percent, verdict>>
vars   == <<request, attempts, store, pc, attempt, dir, input, document, text,
            outcome, percent, verdict, stored, measured, stuck>>

Engines == {"azure", "markitdown"}
Points  == {"idle", "accepted", "download", "downloading", "extract",
            "converting", "save", "saving", "upload", "uploading", "measure",
            "finalize", "report"}
Errors  == {"storage", "io", "upstream", "document"}

TypeOK ==
  /\ request \in [source : {"s3", "local"}, engine : Engines, storage : BOOLEAN]
  /\ attempts \in 0 .. MaxAttempts
  /\ store \in Contents
  /\ pc \in [Workers -> Points]
  /\ attempt \in [Workers -> 0 .. MaxAttempts]
  /\ dir \in [Workers -> BOOLEAN]
  /\ input \in [Workers -> Contents]
  /\ document \in [Workers -> Contents]
  /\ text \in [Workers -> Contents]
  /\ outcome \in [Workers -> Errors \union {"none", "ok"}]
  /\ percent \in [Workers -> 0 .. 100]
  /\ verdict \in [Workers -> {"none", "success", "retryable", "failure"}]
  /\ stored \in [Workers -> BOOLEAN]
  /\ measured \in [Workers -> Contents]
  /\ stuck \in [Workers -> BOOLEAN]

Init ==
  /\ request \in [source : {"s3", "local"}, engine : Engines, storage : BOOLEAN]
  /\ attempts = 0
  /\ store = Nothing
  /\ pc       = [w \in Workers |-> "idle"]
  /\ attempt  = [w \in Workers |-> 0]
  /\ dir      = [w \in Workers |-> FALSE]
  /\ input    = [w \in Workers |-> Nothing]
  /\ document = [w \in Workers |-> Nothing]
  /\ text     = [w \in Workers |-> Nothing]
  /\ outcome  = [w \in Workers |-> "none"]
  /\ percent  = [w \in Workers |-> 0]
  /\ verdict  = [w \in Workers |-> "none"]
  /\ stored   = [w \in Workers |-> FALSE]
  /\ measured = [w \in Workers |-> Nothing]
  /\ stuck    = [w \in Workers |-> FALSE]

-----------------------------------------------------------------------------
Goto(w, from, to) == pc[w] = from /\ pc' = [pc EXCEPT ![w] = to]
Tell(w, p) == percent' = [percent EXCEPT ![w] = p] /\ UNCHANGED verdict

\* process_request_streaming: "received".  The request may be a repetition.
Accept(w) ==
  /\ attempts < MaxAttempts
  /\ Goto(w, "idle", "accepted")
  /\ attempts' = attempts + 1
  /\ attempt' = [attempt EXCEPT ![w] = attempts + 1]
  /\ percent' = [percent EXCEPT ![w] = 0]
  /\ verdict' = [verdict EXCEPT ![w] = "none"]
  /\ stored' = [stored EXCEPT ![w] = FALSE]
  /\ measured' = [measured EXCEPT ![w] = Nothing]
  /\ stuck' = [stuck EXCEPT ![w] = FALSE]
  /\ UNCHANGED <<request, store, disk, text, outcome>>

-----------------------------------------------------------------------------
(* run_job and run_job_in_dir.                                             *)

\* create_dir_all accepts a directory that is already there.
CreateDir(w) ==
  /\ Goto(w, "accepted", "download")
  /\ dir' = [dir EXCEPT ![w] = TRUE]
  /\ UNCHANGED <<input, document>>
  /\ Tell(w, 10)
  /\ UNCHANGED <<shared, attempt, text, outcome, stored, measured, stuck>>

\* An error skips the rest, but not finalize_job_dir ...
Abandon(w, from, error) ==
  /\ Goto(w, from, "finalize")
  /\ outcome' = [outcome EXCEPT ![w] = error]
  /\ UNCHANGED <<request, attempts, attempt, text, events, measured, stuck>>

\* ... unless it is the directory itself that cannot be created.
CreateDirFails(w) ==
  /\ Goto(w, "accepted", "report")
  /\ outcome' = [outcome EXCEPT ![w] = "io"]
  /\ stuck' = [stuck EXCEPT ![w] = TRUE]
  /\ UNCHANGED <<shared, attempt, disk, text, events, stored, measured>>

\* Seeded bug: an input that is already there is not downloaded again.
ReuseInput(w) ==
  /\ request.source = "local" \/ request.storage
  /\ IF input[w] = Nothing
       THEN Goto(w, "download", "downloading")
            /\ input' = [input EXCEPT ![w] = Partial]
            /\ UNCHANGED <<dir, document>>
       ELSE Goto(w, "download", "extract") /\ UNCHANGED disk
  /\ UNCHANGED <<shared, attempt, text, outcome, events, stored, measured, stuck>>

StartDownload(w) ==
  /\ request.source = "local" \/ request.storage
  /\ Goto(w, "download", "downloading")
  /\ input' = [input EXCEPT ![w] = Partial]
  /\ UNCHANGED <<shared, attempt, dir, document, text, outcome, events, stored,
                 measured, stuck>>

Downloaded(w) ==
  /\ Goto(w, "downloading", "extract")
  /\ input' = [input EXCEPT ![w] = attempt[w]]
  /\ UNCHANGED <<shared, attempt, dir, document, text, outcome, events, stored,
                 measured, stuck>>

\* Seeded bug: a download that fails is repeated for ever.
RepeatDownload(w) ==
  /\ Goto(w, "downloading", "download")
  /\ UNCHANGED <<shared, attempt, disk, text, outcome, events, stored, measured,
                 stuck>>

\* No storage, no such object, a local file that cannot be copied.
DownloadFails(w) ==
  /\ \E from \in {"download", "downloading"} :
       Abandon(w, from, IF request.source = "s3" THEN "storage" ELSE "io")
  /\ UNCHANGED <<store, disk, stored>>

\* analyze_document reports its progress; that it never goes back is shown in
\* Submission and Chunking.
AnalyzeProgress(w, p) ==
  /\ request.engine = "azure"
  /\ Goto(w, "extract", "extract")
  /\ percent[w] <= p
  /\ Tell(w, p)
  /\ UNCHANGED <<shared, attempt, disk, text, outcome, stored, measured, stuck>>

Extracted(w, from) ==
  /\ Goto(w, from, "save")
  /\ Tell(w, 80)
  /\ UNCHANGED <<shared, attempt, outcome, stored, measured, stuck>>

Analyzed(w) ==
  /\ request.engine = "azure"
  /\ Extracted(w, "extract")
  /\ text' = [text EXCEPT ![w] = input[w]]
  /\ UNCHANGED disk

\* run_markitdown: the tool writes document.md, the worker reads it.  That status
\* zero means a document.md written by this run is an assumption about the tool:
\* the worker checks the status only and does not clear the file first
\* (extraction.rs:69-77), as it does before LibreOffice (office.rs:35).
Convert(w) ==
  /\ request.engine = "markitdown"
  /\ Goto(w, "extract", "converting")
  /\ Tell(w, 30)
  /\ UNCHANGED <<shared, attempt, disk, text, outcome, stored, measured, stuck>>

MarkItDownExits(w) ==
  /\ Extracted(w, "converting")
  /\ document' = [document EXCEPT ![w] = input[w]]
  /\ UNCHANGED <<dir, input>>
  /\ text' = [text EXCEPT ![w] = input[w]]

\* Azure may be to blame; MarkItDown may leave part of its output.
ExtractionFails(w) ==
  \/ /\ request.engine = "azure"
     /\ \E e \in {"upstream", "document"} : Abandon(w, "extract", e)
     /\ UNCHANGED <<store, disk, stored>>
  \/ /\ Abandon(w, "converting", "document")
     /\ \E d \in {document[w], Partial, input[w]} :
          document' = [document EXCEPT ![w] = d]
     /\ UNCHANGED <<store, dir, input, stored>>

\* Seeded bug: a document that is already there, MarkItDown's for one, is not
\* written again.
SaveMissing(w) ==
  /\ IF document[w] = Nothing
       THEN Goto(w, "save", "saving") /\ Tell(w, percent[w])
            /\ document' = [document EXCEPT ![w] = Partial]
            /\ UNCHANGED <<dir, input>>
       ELSE Goto(w, "save", "upload") /\ Tell(w, 90) /\ UNCHANGED disk
  /\ UNCHANGED <<shared, attempt, text, outcome, stored, measured, stuck>>

StartSave(w) ==
  /\ Goto(w, "save", "saving")
  /\ document' = [document EXCEPT ![w] = Partial]
  /\ UNCHANGED <<shared, attempt, dir, input, text, outcome, events, stored,
                 measured, stuck>>

Saved(w) ==
  /\ Goto(w, "saving", "upload")
  /\ document' = [document EXCEPT ![w] = text[w]]
  /\ UNCHANGED <<dir, input>>
  /\ Tell(w, 90)
  /\ UNCHANGED <<shared, attempt, text, outcome, stored, measured, stuck>>

SaveFails(w) ==
  /\ \E from \in {"save", "saving"} : Abandon(w, from, "io")
  /\ UNCHANGED <<store, disk, stored>>

-----------------------------------------------------------------------------
(* upload_markdown: read the file, put the object, ask for the file's size.*)

ReadDocument(w) ==
  /\ request.storage
  /\ Goto(w, "upload", "uploading")
  /\ text' = [text EXCEPT ![w] = document[w]]
  /\ UNCHANGED <<shared, attempt, disk, outcome, events, stored, measured, stuck>>

Put(w) == store' = text[w] /\ stored' = [stored EXCEPT ![w] = TRUE]

Uploaded(w) ==
  /\ Goto(w, "uploading", "measure")
  /\ Put(w)
  /\ UNCHANGED <<request, attempts, attempt, disk, text, outcome, events,
                 measured, stuck>>

\* Seeded bug: an upload that fails is logged and forgotten.
IgnoreUploadError(w) ==
  /\ Goto(w, "uploading", "measure")
  /\ stored' = [stored EXCEPT ![w] = TRUE]
  /\ UNCHANGED <<shared, attempt, disk, text, outcome, events, measured, stuck>>

\* No storage, no document, or S3 refuses; or its answer is lost.
UploadFails(w) ==
  /\ \/ \E from \in {"upload", "uploading"} :
          Abandon(w, from, "storage") /\ UNCHANGED <<store, stored>>
     \/ Abandon(w, "uploading", "storage") /\ Put(w)
  /\ UNCHANGED disk

Measured(w) ==
  /\ Goto(w, "measure", "finalize")
  /\ measured' = [measured EXCEPT ![w] = document[w]]
  /\ outcome' = [outcome EXCEPT ![w] = "ok"]
  /\ UNCHANGED <<shared, attempt, disk, text, events, stored, stuck>>

\* The artifact is stored, the attempt fails all the same.
MeasureFails(w) == Abandon(w, "measure", "io") /\ UNCHANGED <<store, disk, stored>>

-----------------------------------------------------------------------------
(* finalize_job_dir and the verdict.                                       *)

Remove(w) ==
  /\ dir' = [dir EXCEPT ![w] = FALSE]
  /\ input' = [input EXCEPT ![w] = Nothing]
  /\ document' = [document EXCEPT ![w] = Nothing]

\* Seeded bug: the directory is removed on success only.
FinalizeSuccess(w) ==
  /\ Goto(w, "finalize", "report")
  /\ IF outcome[w] = "ok" THEN Remove(w) ELSE UNCHANGED disk
  /\ UNCHANGED <<shared, attempt, text, outcome, events, stored, measured, stuck>>

Finalize(w) ==
  /\ Goto(w, "finalize", "report")
  /\ Remove(w)
  /\ UNCHANGED <<shared, attempt, text, outcome, events, stored, measured, stuck>>

\* The removal fails, with any of the files gone; a warning is logged.
FinalizeFails(w) ==
  /\ Goto(w, "finalize", "report")
  /\ \E i \in {input[w], Nothing}, d \in {document[w], Nothing} :
       /\ input' = [input EXCEPT ![w] = i]
       /\ document' = [document EXCEPT ![w] = d]
  /\ stuck' = [stuck EXCEPT ![w] = TRUE]
  /\ UNCHANGED <<dir, shared, attempt, text, outcome, events, stored, measured>>

\* Seeded bug: errors of the storage are retryable, too.
ClassifyStorage(error) ==
  IF error \in {"upstream", "storage"} THEN "retryable" ELSE "failure"
\* classify_error: what Azure is to blame for can be retried.
Classify(error) == IF error = "upstream" THEN "retryable" ELSE "failure"

Forget(w) ==
  /\ outcome' = [outcome EXCEPT ![w] = "none"]
  /\ text' = [text EXCEPT ![w] = Nothing]
  /\ UNCHANGED <<shared, attempt, stored, measured>>

ReportSuccess(w) ==
  /\ outcome[w] = "ok"
  /\ Goto(w, "report", "idle")
  /\ percent' = [percent EXCEPT ![w] = 100]
  /\ verdict' = [verdict EXCEPT ![w] = "success"]
  /\ Forget(w)
  /\ UNCHANGED <<disk, stuck>>

ReportFailure(w) ==
  /\ outcome[w] # "ok"
  /\ Goto(w, "report", "idle")
  /\ verdict' = [verdict EXCEPT ![w] = Classify(outcome[w])]
  /\ Forget(w)
  /\ UNCHANGED <<disk, percent, stuck>>

\* The worker dies; a file that is being written stays as it is, the tools it
\* has started die with it.
Crash(w) ==
  /\ pc[w] # "idle"
  /\ pc' = [pc EXCEPT ![w] = "idle"]
  /\ \E d \in {document[w]} \union
              (IF pc[w] = "converting" THEN {Partial, input[w]} ELSE {}) :
       document' = [document EXCEPT ![w] = d]
  /\ Forget(w)
  /\ UNCHANGED <<dir, input, events, stuck>>

-----------------------------------------------------------------------------
\* What the worker does by itself, the runs of MarkItDown excepted.
Work(w) ==
  \/ CreateDir(w) \/ CreateDirFails(w)
  \/ StartDownload(w) \/ Downloaded(w) \/ DownloadFails(w)
  \/ Analyzed(w) \/ Convert(w) \/ (pc[w] = "extract" /\ ExtractionFails(w))
  \/ StartSave(w) \/ Saved(w) \/ SaveFails(w)
  \/ ReadDocument(w) \/ Uploaded(w) \/ UploadFails(w)
  \/ Measured(w) \/ MeasureFails(w)
  \/ Finalize(w) \/ FinalizeFails(w)
  \/ ReportSuccess(w) \/ ReportFailure(w)

Step(w) ==
  \/ Accept(w)
  \/ Work(w)
  \/ \E p \in Milestones : AnalyzeProgress(w, p)
  \/ MarkItDownExits(w)
  \/ pc[w] = "converting" /\ ExtractionFails(w)
  \/ Crash(w)

\* The request has been delivered often enough.
Quiet == attempts = MaxAttempts /\ (\A w \in Workers : pc[w] = "idle")
                                /\ UNCHANGED vars

Next == Quiet \/ \E w \in Workers : Step(w)

Spec == Init /\ [][Next]_vars

-----------------------------------------------------------------------------
(* Properties.                                                             *)

\* What an attempt stores is the complete text of the source as this attempt
\* downloaded it, whatever an earlier attempt that died has left in the
\* directory (job.rs:75, 95-112).
StoresOwnText ==
  [][\A w \in Workers : stored[w] # stored'[w] /\ stored'[w] =>
       store' = attempt[w]]_vars

\* Why that is so: from the download on, the files and the text that count are
\* those of the attempt.
OwnFiles ==
  \A w \in Workers :
    /\ pc[w] \in {"extract", "converting"} => input[w] = attempt[w]
    /\ pc[w] \in {"save", "saving", "uploading"} => text[w] = attempt[w]
    /\ pc[w] \in {"upload", "uploading", "measure"} => document[w] = attempt[w]

\* A success reports the size of what was stored, and a partial text is never
\* in the storage.
SuccessIsComplete ==
  /\ store # Partial
  /\ \A w \in Workers : verdict[w] = "success" => measured[w] = attempt[w]

\* The strengthening under which the properties above are inductive.
JobInv ==
  /\ TypeOK
  /\ OwnFiles
  /\ SuccessIsComplete
  /\ \A w \in Workers :
       /\ pc[w] # "idle" => attempt[w] \in Attempts /\ verdict[w] = "none"
       /\ outcome[w] = "ok" => measured[w] = attempt[w] /\ stored[w]
       /\ pc[w] = "measure" => stored[w]
       /\ outcome[w] # "none" => pc[w] \in {"finalize", "report"}

\* An attempt that gets as far as its verdict leaves no directory, on whatever
\* path and whatever it found there, unless creating or removing it failed.
NothingLeftBehind ==
  \A w \in Workers :
    verdict[w] # "none" /\ dir[w] => stuck[w]

\* The events and the artifact keep the promises of JobContract.
Phase == [w \in Workers |-> IF pc[w] = "idle" THEN "idle" ELSE "running"]
Contract == INSTANCE JobContract WITH phase <- Phase
ContractSpec == Contract!Spec
=============================================================================
