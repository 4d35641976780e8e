------------------------------ MODULE Pipeline ------------------------------
(***************************************************************************)
(* The whole way of one document through Azure: Submission, whose step     *)
(* "chunks" is Chunking, each of whose submissions is a call of the Azure  *)
(* client with the retries of submit_prepared_document, as in Submission.  *)
(* The document enters by its extension (Media) and leaves as a result.    *)
(*                                                                         *)
(* The variables of Submission are those of the whole document; the call   *)
(* for a chunk has its own.                                                *)
(***************************************************************************)
EXTENDS Submission, Media, Sequences, FiniteSets

CONSTANTS
  ChunkSize,  \* AZURE_DI_PDF_SPLIT_PAGE_COUNT
  MaxPages,   \* bound: pages of a document
  MaxStuck    \* bound: temporary files that cannot be removed

\* config.rs:120-135.
ASSUME PipelineAssumption ==
  /\ ChunkSize \in Nat \ {0}
  /\ MaxPages \in Nat \ {0}
  /\ MaxStuck \in Nat

VARIABLES
  extension,  \* of the document's name
  phase, pages, index, stack, result, parts, files, stuck, calls, refused,
  ccall, cpolls, canswer, cposts, \* the call for the chunk in hand
  cattempt,   \* its retries
  cause       \* why the chunk in hand, and with it the document, fails

Cut  == INSTANCE Chunking
Call == INSTANCE AzureClient
          WITH call <- ccall, polls <- cpolls, answer <- canswer, posts <- cposts

cut    == <<phase, pages, index, stack, result, parts, files, stuck, calls,
            refused>>
retry  == <<ccall, cpolls, canswer, cposts, cattempt>>
whole  == <<azure, file, pc, stage, attempt, delay, chunked, outcome>>
all    == <<vars, extension, cut, retry, cause>>

PipelineTypeOK ==
  /\ TypeOK /\ Cut!TypeOK /\ Call!AzureTypeOK
  /\ extension \in Extensions
  /\ cattempt \in 0 .. MaxRetries
  /\ cause \in ChunkErrors \union {"none"}

kind_of(type) == IF is_pdf_content_type(type) THEN "pdf"
                 ELSE IF is_convertible_office_content_type(type) THEN "doc"
                 ELSE "other"

\* extract_markdown and analyze_document: the document is one for Azure.
PipelineInit ==
  /\ Init
  /\ extension \in Extensions /\ select_engine(extension) = "azure"
  /\ kind = kind_of(infer_content_type(extension))
  /\ phase = "counting" /\ pages = 0 /\ index = 0
  /\ stack = << >> /\ result = Cut!Pending /\ parts = << >>
  /\ files = {} /\ stuck = {} /\ calls = 0 /\ refused = {}
  /\ Call!AzureInit /\ cattempt = 0
  /\ cause = "none"

-----------------------------------------------------------------------------
\* A step of Submission other than its last resort.
Whole ==
  /\ \/ Prepare
     \/ \E new \in Sizes : Optimized(new) \/ Converted(new)
     \/ LocalFailure \/ Submit \/ AzureAnswers
     \/ Retry \/ Succeed \/ Refused \/ RateLimitedForGood \/ NotRecoverable
     \/ RecoverByChunks \/ RecoverPdf \/ RecoverDoc
  /\ UNCHANGED <<extension, cut, retry, cause>>

\* A step of Chunking.
Inner == pc = "chunks" /\ UNCHANGED <<whole, extension>>

\* A failing step of it; the first failure is the only one.
Failing(error) == Inner /\ cause' = error

\* What a step of Chunking may do with the file it removes.
Removal(Step(_)) ==
  \E removed \in BOOLEAN :
    (removed \/ Cardinality(stuck) < MaxStuck) /\ Step(removed)

-----------------------------------------------------------------------------
(* Ghostscript's work on the ranges, and the joining of the texts.         *)

CutLocally ==
  /\ Inner
  /\ \/ \E p \in 1 .. MaxPages : Cut!Count(p)
     \/ Cut!OpenRange \/ Cut!Finish
     \/ Removal(Cut!ReturnPart) \/ Removal(Cut!ReturnLeft)
     \/ Removal(Cut!ReturnRight) \/ Removal(Cut!ReturnError)
  /\ UNCHANGED <<retry, cause>>

CutFails ==
  /\ \/ Cut!CountFails /\ Failing("split")
     \/ Cut!WriteChunkFails /\ \E e \in {"split", "io"} : Failing(e)
     \/ /\ Removal(LAMBDA removed :
             Cut!WritePictureFails(IF removed THEN {}
                                              ELSE {Cut!Picture(Cut!top.range)}))
        /\ \E e \in {"raster", "io"} : Failing(e)
  /\ UNCHANGED retry

-----------------------------------------------------------------------------
(* submit_prepared_document_with_retries for a chunk or a picture.         *)

CBegin(n) == Call!Begin /\ cattempt' = n

\* The chunk or the picture is there and is submitted.
CutSubmit ==
  /\ Inner
  /\ Cut!WriteChunk \/ Cut!WritePicture
  /\ CBegin(0)
  /\ UNCHANGED cause

CutCall ==
  /\ Inner
  /\ Call!AzureStep
  /\ UNCHANGED <<percent, cut, cattempt, cause>>

\* The call for the chunk or picture in hand has returned.
CDone == ccall = "idle" /\ (Cut!At("submit") \/ Cut!At("picture"))

\* The back-off of retry_delay is left out here; Submission has it.
CutRetryBelow(limit) ==
  /\ Inner /\ CDone
  /\ canswer = "rate_limited" /\ cattempt < limit
  /\ CBegin(cattempt + 1)
  /\ UNCHANGED <<percent, cut, cause>>
\* Seeded bug: the retries of a chunk go on one time too many.
CutRetryOnceMore == CutRetryBelow(MaxRetries + 1)
\* Seeded bug: the chunk is thought to be done with when Azure has answered.
CutRetryWithoutFile ==
  /\ Inner /\ CDone
  /\ canswer = "rate_limited" /\ cattempt < MaxRetries
  /\ CBegin(cattempt + 1)
  /\ files' = {}
  /\ UNCHANGED <<percent, phase, pages, index, stack, result, parts, stuck,
                 calls, refused, cause>>
CutRetry == CutRetryBelow(MaxRetries)

CutSucceeds ==
  /\ Inner /\ CDone /\ canswer = "ok"
  /\ Cut!SubmitSucceeds \/ Removal(Cut!PictureSucceeds)
  /\ UNCHANGED <<retry, cause>>

CutTooLarge ==
  /\ Inner /\ CDone /\ canswer = "too_large"
  /\ Cut!Bisect \/ Cut!Rasterise
  /\ UNCHANGED <<retry, cause>>

\* An answer that ends the chunk, or a file that cannot be opened.
CutRefused(e) ==
  /\ \/ /\ CDone /\ canswer = e /\ e \notin {"ok", "too_large"}
        /\ e = "rate_limited" => cattempt = MaxRetries
        /\ UNCHANGED retry
     \/ /\ ccall = "posting" /\ e = "io"
        /\ ccall' = "idle"
        /\ UNCHANGED <<cpolls, canswer, cposts, cattempt>>
  /\ Failing(e)
  /\ \/ Cut!SubmitFails
     \/ Removal(LAMBDA removed : Cut!SubmitPicture(Cut!Err("other"), removed))

\* A single page is refused even as a picture.
CutRefusesPicture ==
  /\ CDone /\ canswer = "too_large"
  /\ Failing("too_large")
  /\ Removal(LAMBDA removed : Cut!SubmitPicture(Cut!Err("too_large"), removed))
  /\ UNCHANGED retry

\* Seeded bug: when the chunks have failed the document is submitted again.
SubmitAfterChunks ==
  /\ phase \in {"succeeded", "failed"}
  /\ IF phase = "succeeded" THEN Chunks("ok")
     ELSE /\ pc = "chunks" /\ pc' = "submit"
          /\ UNCHANGED <<azure, config, kind, file, stage, attempt, delay,
                         percent, chunked, outcome>>
  /\ UNCHANGED <<extension, cut, retry, cause>>
\* analyze_pdf_in_chunks returns.
CutEnds ==
  /\ phase \in {"succeeded", "failed"}
  /\ Chunks(IF phase = "succeeded" THEN "ok" ELSE cause)
  /\ UNCHANGED <<extension, cut, retry, cause>>

PipelineDone == pc = "done" /\ UNCHANGED all

PipelineNext ==
  \/ Whole
  \/ CutLocally \/ CutFails \/ CutSubmit \/ CutCall \/ CutRetry
  \/ CutSucceeds \/ CutTooLarge \/ CutRefusesPicture
  \/ \E e \in ChunkErrors : CutRefused(e)
  \/ CutEnds
  \/ PipelineDone

PipelineSpec == PipelineInit /\ [][PipelineNext]_all

-----------------------------------------------------------------------------
(* Properties.                                                             *)

\* The composition is a refinement of both parts: the chunking is a last
\* resort as Submission describes it, and inside it nothing but Chunking
\* happens, retries included (submission.rs:213, pdf_chunk.rs:89).
SubmissionSpec == Spec
CutSpec == INSTANCE Chunking WITH percent <- IF pages = 0 THEN 0 ELSE percent
ChunkingSpec == CutSpec!Spec

\* However Azure answers, a document of that many pages is posted so often and
\* no more: retries multiply the submissions of every level, but do not
\* multiply each other (submission.rs:112, pdf_chunk.rs:89, 96).  Every
\* variable has its type.
AllPostsBounded ==
  /\ PipelineTypeOK
  /\ posts + cposts <= (MaxRetries + 1)
       * ((IF stage = "office_retry" THEN 2 ELSE 1)
          + (IF pages = 0 THEN 0 ELSE 3 * pages - Cut!chunk_count))

\* The result says "retry" exactly if the last thing the worker heard from
\* Azure, about the document or about any chunk of it, was a transient error,
\* and names Azure as the cause in the same cases; an error of the worker
\* itself, or one it met while recovering, is final (result.rs:69, 90).
LastAnswer == IF cposts = 0 THEN answer ELSE canswer
VerdictFollowsAnswer ==
  pc = "done" =>
    LET verdict == create_result(outcome)
        blamed  == LastAnswer \in {"request", "timeout", "rate_limited"}
    IN  /\ verdict.result = "retryable" <=> blamed
        /\ verdict.kind = "upstream" <=> blamed
        /\ verdict.result = "success" <=> outcome = "ok"

\* When a PDF or a .doc, the one office format that goes to Azure, is too large.
\* Azure has the last word exactly if the document has been cut up and one of its
\* pages is refused even as a picture.  The worker itself gives up only a PDF, one
\* that Ghostscript leaves above the maximum, and Azure has then seen nothing of
\* it, neither whole nor in chunks (pdf_prepare.rs:71-84).  A .docx never gets
\* there, whose conversion media.rs:55 provides for.
TooLargeByExtension ==
  /\ pc = "convert" => extension = "doc"
  /\ pc = "done" /\ extension \in {"pdf", "doc", "docx"} =>
       (outcome = "too_large" <=> refused # {})
  /\ outcome = "too_large_optimized" =>
       extension = "pdf" /\ size > config.max /\ posts = 0 /\ cposts = 0
=============================================================================
