----------------------------- MODULE Submission -----------------------------
(***************************************************************************)
(* What the worker does to get one document through Azure (submission.rs,  *)
(* pdf_prepare.rs, office_prepare.rs, rate_limit.rs in                     *)
(* src/src/worker/processor): optimise a PDF that is too big, submit,      *)
(* retry while rate limited, and when Azure answers InvalidContentLength   *)
(* recover, a PDF by cutting it into chunks, a .doc by converting it to    *)
(* PDF first.  The chunks are the subject of Chunking; here they are one   *)
(* step.                                                                   *)
(***************************************************************************)
EXTENDS AzureClient

CONSTANTS
  MaxRetries,  \* ANALYZE_RATE_LIMIT_MAX_RETRIES
  MaxSize      \* bound: file sizes are 0 .. MaxSize

ASSUME SubmissionAssumption == MaxRetries \in Nat /\ MaxSize \in Nat

\* An empty file and a limit of zero bytes are accepted by the code.
Sizes == 0 .. MaxSize

VARIABLES
  config,    \* the configured threshold and maximum size of a PDF
  kind,      \* content type of the input: "pdf", "doc" or "other"
  size,      \* size of the PDF or other file in hand
  optimized, \* whether that file is Ghostscript's output
  pc,        \* "prepare", "optimize", "convert", "submit", "call", "chunks", "done"
  stage,     \* "first", "pdf_retry" or "office_retry"
  attempt,   \* retries of the current submission
  delay,     \* history: seconds of back-off before the last retry
  percent,   \* history: the last progress percentage reported
  chunked,   \* history: whether the document was cut into chunks
  outcome    \* "none", "ok", or the kind of the error

progress == <<percent, chunked>>
file     == <<config, kind, size, optimized>>
vars     == <<azure, file, pc, stage, attempt, delay, progress, outcome>>

LocalErrors == {"io", "optimization", "too_large_optimized", "split", "raster",
                "pdf_retry", "office_retry"}
ChunkErrors == Answers \union {"io", "split", "raster"}

TypeOK ==
  /\ AzureTypeOK
  /\ config \in [threshold : Sizes, max : Sizes]
  /\ kind \in {"pdf", "doc", "other"} /\ size \in Sizes /\ optimized \in BOOLEAN
  /\ pc \in {"prepare", "optimize", "convert", "submit", "call", "chunks", "done"}
  /\ stage \in {"first", "pdf_retry", "office_retry"}
  /\ attempt \in 0 .. MaxRetries
  /\ delay \in Nat
  /\ percent \in 0 .. 100 /\ chunked \in BOOLEAN
  /\ outcome \in Answers \union LocalErrors \union {"none"}

Init ==
  /\ AzureInit
  /\ config \in [threshold : Sizes, max : Sizes]
  /\ kind \in {"pdf", "doc", "other"} /\ size \in Sizes /\ optimized = FALSE
  /\ pc = "prepare" /\ stage = "first" /\ attempt = 0 /\ delay = 0
  /\ percent = 10 /\ chunked = FALSE
  /\ outcome = "none"

-----------------------------------------------------------------------------
(* effective_pdf_optimize_threshold_bytes, and retry_delay in seconds.     *)

\* Seeded bug: the configured threshold is taken as it is.
ThresholdAlone == config.threshold
effective_threshold == IF config.threshold < config.max THEN config.threshold
                                                         ELSE config.max

\* Seeded bug: the exponential delay is not capped.
UncappedDelay(n) == 2 ^ n
retry_delay(n) == <<1, 2, 4, 8>>[IF n < 3 THEN n + 1 ELSE 4]

\* The percentages reported at the start and at the end of an optimisation,
\* and at the submission that follows.
StartPercent  == [first |-> 20, pdf_retry |-> 45, office_retry |-> 52]
DonePercent   == [first |-> 25, pdf_retry |-> 50, office_retry |-> 57]
\* Seeded bug: the converted document is reported like a first submission.
SubmitAlways30 == [first |-> 30, pdf_retry |-> 30, office_retry |-> 30]
SubmitPercent == [first |-> 30, pdf_retry |-> 55, office_retry |-> 60]

\* Errors met while recovering are wrapped together with Azure's first error.
Wrapped(error) == IF stage = "first" THEN error ELSE stage

Fail(error) ==
  /\ pc' = "done" /\ outcome' = error

-----------------------------------------------------------------------------
(* prepare_document, prepare_pdf_before_send, convert_office_before_send.  *)

\* No optimisation is needed.  When recovering a PDF there is nothing to gain
\* from submitting it again and it is cut into chunks.
Fits(limit) == (stage = "first" /\ kind # "pdf") \/ size <= limit
PrepareAsIs(limit) ==
  /\ pc = "prepare" /\ Fits(limit)
  /\ pc' = IF stage = "pdf_retry" THEN "chunks" ELSE "submit"
  /\ UNCHANGED <<azure, file, stage, attempt, delay, progress, outcome>>

PrepareOptimized(limit) ==
  /\ pc = "prepare" /\ ~Fits(limit)
  /\ pc' = "optimize"
  /\ percent' = StartPercent[stage]
  /\ UNCHANGED <<azure, file, stage, attempt, delay, chunked, outcome>>

\* Seeded bug: when recovering, a PDF of exactly the threshold is optimised.
PrepareStrictly ==
  LET limit == IF stage = "pdf_retry" THEN effective_threshold - 1
                                      ELSE effective_threshold
  IN  PrepareAsIs(limit) \/ PrepareOptimized(limit)
Prepare == PrepareAsIs(effective_threshold) \/ PrepareOptimized(effective_threshold)

\* Ghostscript writes a file of any size; one above the maximum is refused.
Optimized(new) ==
  /\ pc = "optimize"
  /\ size' = new /\ optimized' = TRUE
  /\ percent' = DonePercent[stage]
  /\ IF new > config.max THEN Fail(Wrapped("too_large_optimized"))
                         ELSE pc' = "submit" /\ UNCHANGED outcome
  /\ UNCHANGED <<azure, config, kind, stage, attempt, delay, chunked>>

\* LibreOffice writes a PDF of any size, which is prepared like an input PDF.
Converted(new) ==
  /\ pc = "convert"
  /\ size' = new
  /\ pc' = "prepare"
  /\ percent' = 50
  /\ UNCHANGED <<azure, config, kind, optimized, stage, attempt, delay,
                 chunked, outcome>>

\* Ghostscript or LibreOffice fails, or a file cannot be read.
LocalFailure ==
  /\ \/ pc = "prepare"  /\ Fail(Wrapped("io"))
     \/ pc = "optimize" /\ \E e \in {"optimization", "io"} : Fail(Wrapped(e))
     \/ pc = "convert"  /\ Fail(Wrapped("io"))
     \/ pc = "call" /\ call = "posting" /\ Fail("io")
  /\ UNCHANGED <<azure, file, stage, attempt, delay, progress>>

-----------------------------------------------------------------------------
(* submit_prepared_document and submit_prepared_document_with_retries.     *)

Submit ==
  /\ pc = "submit"
  /\ Begin
  /\ pc' = "call"
  /\ percent' = SubmitPercent[stage]
  /\ UNCHANGED <<file, stage, attempt, delay, chunked, outcome>>

AzureAnswers ==
  /\ pc = "call" /\ AzureStep
  /\ UNCHANGED <<file, pc, stage, attempt, delay, progress, outcome>>

Answered(a) == pc = "call" /\ call = "idle" /\ answer = a

\* Status 429 of the POST or of a poll: sleep for retry_delay, then submit the
\* whole again.  (The sleeps between polls, client.rs:175, are not part of delay;
\* there is one before each poll, and AzureClient counts the polls.)
Retry ==
  /\ Answered("rate_limited") /\ attempt < MaxRetries
  /\ delay' = retry_delay(attempt)
  /\ attempt' = attempt + 1
  /\ Begin
  /\ UNCHANGED <<file, pc, stage, progress, outcome>>

Succeed ==
  /\ Answered("ok")
  /\ pc' = "done" /\ outcome' = "ok"
  /\ UNCHANGED <<azure, file, stage, attempt, delay, progress>>

Refused ==
  /\ \E a \in Answers \ {"ok", "too_large", "rate_limited"} :
       Answered(a) /\ Fail(a)
  /\ UNCHANGED <<azure, file, stage, attempt, delay, progress>>
RateLimitedForGood ==
  /\ Answered("rate_limited") /\ attempt = MaxRetries
  /\ Fail("rate_limited")
  /\ UNCHANGED <<azure, file, stage, attempt, delay, progress>>
TooLarge(final) ==
  /\ Answered("too_large") /\ final
  /\ Fail("too_large")
  /\ UNCHANGED <<azure, file, stage, attempt, delay, progress>>
\* Seeded bug: what Azure refuses as too large is given up.
NothingRecovers == TooLarge(TRUE)
NotRecoverable  == TooLarge(stage = "first" /\ kind = "other")

-----------------------------------------------------------------------------
(* retry_after_invalid_content_length and its branches.                    *)

\* A new submission counts its retries from zero.
Recover ==
  /\ Answered("too_large")
  /\ attempt' = 0 /\ UNCHANGED delay

\* A PDF that is already optimised, and any recovered document, is cut up.
RecoverByChunks ==
  /\ Recover
  /\ (kind = "pdf" /\ optimized) \/ stage # "first"
  /\ pc' = "chunks"
  /\ UNCHANGED <<azure, file, stage, progress, outcome>>

RecoverPdf ==
  /\ Recover
  /\ stage = "first" /\ kind = "pdf" /\ ~optimized
  /\ stage' = "pdf_retry" /\ pc' = "prepare"
  /\ UNCHANGED <<azure, file, progress, outcome>>

RecoverDoc ==
  /\ Recover
  /\ stage = "first" /\ kind = "doc"
  /\ stage' = "office_retry" /\ pc' = "convert"
  /\ percent' = 45
  /\ UNCHANGED <<azure, file, chunked, outcome>>

\* analyze_pdf_in_chunks, see Chunking and Pipeline: it reports progress, and
\* ends with any answer a chunk can get or with a failure of Ghostscript.
ChunkProgress(new) ==
  /\ pc = "chunks"
  /\ percent' = new /\ new >= percent
  /\ UNCHANGED <<azure, file, pc, stage, attempt, delay, chunked, outcome>>
Chunks(result) ==
  /\ pc = "chunks"
  /\ chunked' = TRUE
  /\ pc' = "done" /\ outcome' = result
  /\ UNCHANGED <<azure, file, stage, attempt, delay, percent>>

Done == pc = "done" /\ UNCHANGED vars

-----------------------------------------------------------------------------
Next ==
  \/ Prepare
  \/ \E new \in Sizes : Optimized(new) \/ Converted(new)
  \/ LocalFailure
  \/ Submit
  \/ AzureAnswers
  \/ Retry \/ Succeed \/ Refused \/ RateLimitedForGood \/ NotRecoverable
  \/ RecoverByChunks \/ RecoverPdf \/ RecoverDoc
  \/ \E new \in 65 .. 78 : ChunkProgress(new)
  \/ \E result \in ChunkErrors : Chunks(result)
  \/ Done

Spec == Init /\ [][Next]_vars

\* The HTTP client and the tools have timeouts.  That a tool then returns takes
\* that none of its descendants keeps its pipes open for ever, which RunCommand
\* is about; where one does, the document waits in "optimize" or "convert".
FairSpec == Spec /\ WF_vars(Next)

-----------------------------------------------------------------------------
(* Properties.                                                             *)

\* No PDF above the configured maximum is sent whole, whether it arrived small
\* enough, was optimised or was converted, and whichever of the threshold and
\* the maximum is configured larger (README.md:47, config.rs:104-106).
SizeLimitRespected ==
  pc = "call" /\ (kind = "pdf" \/ stage = "office_retry") => size <= config.max

\* A PDF that Azure refused as too large is cut up, never sent whole again:
\* both preparations compare with the same threshold, so the second finds
\* nothing to optimise (submission.rs:56, pdf_prepare.rs:21); the submission
\* at 55 percent is unreachable.
RefusedPdfIsCut == stage = "pdf_retry" => pc \notin {"optimize", "submit", "call"}

\* What Azure refuses is given up only after all that can be tried, counted in
\* POSTs: a document is cut up when every form it can be sent in has been posted;
\* uncut, it fails as too large only if it cannot be recovered (submission.rs:188),
\* and as rate limited only after all retries of its last form.  Two ways to fail
\* leave the cutting out: a PDF that Ghostscript leaves above the maximum is given
\* up as too large before any POST (pdf_prepare.rs:71-84), and a recovery that
\* fails in its own preparation, for the same reason among others, is the end of
\* a document that has been posted (submission.rs:201).
forms == IF stage = "office_retry" THEN 2 ELSE 1
GivenUpLast ==
  /\ chunked => posts >= forms
  /\ outcome = "too_large" => chunked \/ (kind = "other" /\ posts > 0)
  /\ outcome = "rate_limited" => chunked \/ posts >= MaxRetries + forms
  /\ outcome = "too_large_optimized" =>
       kind = "pdf" /\ optimized /\ size > config.max /\ posts = 0 /\ ~chunked
  /\ outcome \in {"pdf_retry", "office_retry"} =>
       stage = outcome /\ posts > 0 /\ ~chunked

\* However often Azure answers 429, to a POST or to a poll of an operation it
\* has already started (submission.rs:112), a document is posted at most once
\* and MaxRetries times more for each of the two forms it can be sent in, and
\* before each of these retries the worker backs off for one to eight seconds.
\* Every variable has its type.
PostsBounded ==
  /\ TypeOK
  /\ posts <= (MaxRetries + 1) * forms
  /\ attempt > 0 => delay \in 1 .. 8

\* Progress never goes back, whichever recovery is taken.
ProgressMonotone == [][percent <= percent']_vars

\* The document gets its outcome.
Terminates == <>(pc = "done")
=============================================================================
