------------------------------ MODULE Chunking ------------------------------
(***************************************************************************)
(* The last resort for a PDF that Azure refuses as too large               *)
(* (src/src/worker/processor/pdf_chunk.rs, pdf_chunk_support.rs): the      *)
(* document is cut into ranges of ChunkSize pages, each range is submitted *)
(* on its own, a refused range is bisected, and a refused single page is   *)
(* rasterised and submitted as a picture.  The texts are joined in page    *)
(* order.  Every range and every picture is a temporary file.              *)
(*                                                                         *)
(* The recursion of analyze_pdf_range is an explicit stack of frames; the  *)
(* text of a page is the page's number.                                    *)
(***************************************************************************)
EXTENDS Integers, Sequences, FiniteSets

CONSTANTS
  ChunkSize,  \* AZURE_DI_PDF_SPLIT_PAGE_COUNT
  MaxPages,   \* bound: pages of the document
  MaxStuck    \* bound: temporary files that cannot be removed

ASSUME ChunkingAssumption ==
  /\ ChunkSize \in Nat \ {0}
  /\ MaxPages \in Nat \ {0}
  /\ MaxStuck \in Nat

VARIABLES
  phase,    \* "counting", "running", "succeeded" or "failed"
  pages,    \* page count Ghostscript reports
  index,    \* initial ranges that are finished
  stack,    \* calls of analyze_pdf_range, the innermost last
  result,   \* what the innermost call is about to return
  parts,    \* the joined texts of the finished initial ranges
  files,    \* temporary files on disk
  stuck,    \* history: files whose removal failed
  calls,    \* history: documents submitted
  refused,  \* history: pages whose picture Azure refused as too large
  percent   \* history: the last progress percentage reported

vars == <<phase, pages, index, stack, result, parts, files, stuck, calls,
          refused, percent>>

-----------------------------------------------------------------------------
(* PageRange.                                                              *)

PageRange == [first : 1 .. MaxPages, last : 1 .. MaxPages]
Span(a, b) == [first |-> a, last |-> b]
page_count(r) == r.last - r.first + 1

\* Seeded bugs: the midpoint is one too high; one page is split off at a time.
MidpointTooHigh(r) == r.first + page_count(r) \div 2
MidpointFirst(r)   == r.first
midpoint(r) == r.first + page_count(r) \div 2 - 1
Left(r) == Span(r.first, midpoint(r))
\* Seeded bug: the halves share a page.
RightOverlapping(r) == Span(midpoint(r), r.last)
Right(r) == Span(midpoint(r) + 1, r.last)

chunk_count == (pages + ChunkSize - 1) \div ChunkSize
LastPage(i) == IF (i + 1) * ChunkSize < pages THEN (i + 1) * ChunkSize ELSE pages
InitialRange(i) == Span(i * ChunkSize + 1, LastPage(i))

\* The percentage reported for the initial range i and all its parts.
chunk_progress_percent(i) == IF chunk_count <= 1 THEN 66
                             ELSE 66 + (12 * i) \div (chunk_count - 1)

-----------------------------------------------------------------------------
\* The text Azure returns for the pages a to b.
Pages(a, b) == [i \in 1 .. b - a + 1 |-> a + i - 1]
Text(r) == Pages(r.first, r.last)

Chunk(r)   == [range |-> r, kind |-> "pdf"]
Picture(r) == [range |-> r, kind |-> "png"]

\* A call works through: writing the chunk, submitting it, and when it is too
\* large its two halves, or writing and submitting the picture of its page.
Frame(r) == [range |-> r, at |-> "split", left |-> << >>]
Frames == [range : PageRange, left : Seq(1 .. MaxPages),
           at : {"split", "submit", "left", "right", "raster", "picture"}]

\* "too_large" is Azure's InvalidContentLength, "other" any other error.
Pending  == [kind |-> "pending", text |-> << >>]
Ok(text) == [kind |-> "ok", text |-> text]
Err(e)   == [kind |-> e, text |-> << >>]
Results  == [kind : {"pending", "ok", "too_large", "other"},
             text : Seq(1 .. MaxPages)]

n    == Len(stack)
top  == stack[n]
file == Chunk(top.range)

TypeOK ==
  /\ phase \in {"counting", "running", "succeeded", "failed"}
  /\ pages \in 0 .. MaxPages
  /\ index \in 0 .. MaxPages
  /\ stack \in Seq(Frames)
  /\ result \in Results
  /\ parts \in Seq(1 .. MaxPages)
  /\ files \in SUBSET [range : PageRange, kind : {"pdf", "png"}]
  /\ stuck \in SUBSET [range : PageRange, kind : {"pdf", "png"}]
  /\ calls \in Nat
  /\ refused \in SUBSET (1 .. MaxPages)
  /\ percent \in 0 .. 100

Init ==
  /\ phase = "counting"
  /\ pages = 0 /\ index = 0
  /\ stack = << >> /\ result = Pending /\ parts = << >>
  /\ files = {} /\ stuck = {}
  /\ calls = 0 /\ refused = {} /\ percent = 0

-----------------------------------------------------------------------------
(* analyze_pdf_in_chunks.                                                  *)

\* Ghostscript counts the pages; a count of zero is an error.
Count(p) ==
  /\ phase = "counting"
  /\ pages' = p
  /\ phase' = "running"
  /\ percent' = 65
  /\ UNCHANGED <<index, stack, result, parts, files, stuck, calls, refused>>

CountFails ==
  /\ phase = "counting"
  /\ phase' = "failed"
  /\ UNCHANGED <<pages, index, stack, result, parts, files, stuck, calls,
                 refused, percent>>

OpenRange ==
  /\ phase = "running" /\ stack = << >> /\ index < chunk_count
  /\ stack' = <<Frame(InitialRange(index))>>
  /\ UNCHANGED <<phase, pages, index, result, parts, files, stuck, calls,
                 refused, percent>>

Finish ==
  /\ phase = "running" /\ stack = << >> /\ index = chunk_count
  /\ phase' = "succeeded"
  /\ UNCHANGED <<pages, index, stack, result, parts, files, stuck, calls,
                 refused, percent>>

-----------------------------------------------------------------------------
(* analyze_pdf_range, split_failing_range, the rasterised page.            *)

At(step) == phase = "running" /\ stack # << >> /\ result = Pending /\ top.at = step
Goto(step) == stack' = [stack EXCEPT ![n].at = step]

WriteChunk ==
  /\ At("split")
  /\ files' = files \union {file}
  /\ Goto("submit")
  /\ percent' = chunk_progress_percent(index)
  /\ UNCHANGED <<phase, pages, index, result, parts, stuck, calls, refused>>

\* Ghostscript may fail with or without a partial output file.
WriteChunkFails ==
  /\ At("split")
  /\ files' \in {files, files \union {file}}
  /\ result' = Err("other")
  /\ UNCHANGED <<phase, pages, index, stack, parts, stuck, calls, refused,
                 percent>>

\* Azure answers the submission of the chunk; with an answer other than "too
\* large" the call is done.
Submit(answer) ==
  /\ At("submit")
  /\ calls' = calls + 1
  /\ result' = answer
  /\ UNCHANGED <<phase, pages, index, stack, parts, files, stuck, refused,
                 percent>>
SubmitSucceeds == Submit(Ok(Text(top.range)))
SubmitFails    == Submit(Err("other"))

\* Too large and more than one page: analyse the left half.
Bisect ==
  /\ At("submit") /\ page_count(top.range) > 1
  /\ calls' = calls + 1
  /\ stack' = Append([stack EXCEPT ![n].at = "left"], Frame(Left(top.range)))
  /\ UNCHANGED <<phase, pages, index, result, parts, files, stuck, refused,
                 percent>>

\* Too large and a single page.  Seeded bug: it is given up.
TooLargePage(action) ==
  /\ At("submit") /\ page_count(top.range) = 1
  /\ calls' = calls + 1
  /\ action
  /\ UNCHANGED <<phase, pages, index, parts, files, stuck, refused, percent>>
GiveUpPage == TooLargePage(UNCHANGED stack /\ result' = Err("too_large"))
Rasterise  == TooLargePage(Goto("raster") /\ UNCHANGED result)

WritePicture ==
  /\ At("raster")
  /\ files' = files \union {Picture(top.range)}
  /\ Goto("picture")
  /\ UNCHANGED <<phase, pages, index, result, parts, stuck, calls, refused,
                 percent>>

\* finalize_chunk_path: remove f, and let it be if that fails.
Finalize(f, removed) ==
  IF removed \/ f \notin files
    THEN files' = files \ {f} /\ UNCHANGED stuck
    ELSE stuck' = stuck \union {f} /\ UNCHANGED files

WritePictureFails(left_over) ==
  /\ At("raster")
  /\ files' = files \union left_over
  /\ stuck' = stuck \union left_over
  /\ result' = Err("other")
  /\ UNCHANGED <<phase, pages, index, stack, parts, calls, refused, percent>>

SubmitPicture(answer, removed) ==
  /\ At("picture")
  /\ calls' = calls + 1
  /\ refused' = IF answer.kind = "too_large" THEN refused \union {top.range.first}
                                            ELSE refused
  /\ result' = answer
  /\ Finalize(Picture(top.range), removed)
  /\ UNCHANGED <<phase, pages, index, stack, parts, percent>>
PictureSucceeds(removed) == SubmitPicture(Ok(Text(top.range)), removed)
PictureFails(removed) ==
  \E e \in {"too_large", "other"} : SubmitPicture(Err(e), removed)

-----------------------------------------------------------------------------
(* The innermost call returns, after removing its chunk.                   *)

Returns(removed) ==
  /\ phase = "running" /\ stack # << >> /\ result # Pending
  /\ Finalize(file, removed)
  /\ UNCHANGED <<pages, calls, refused, percent>>
callers == SubSeq(stack, 1, n - 1)
caller  == stack[n - 1]

\* ... to analyze_pdf_in_chunks.
ReturnPart(removed) ==
  /\ Returns(removed) /\ n = 1 /\ result.kind = "ok"
  /\ parts' = parts \o result.text
  /\ index' = index + 1
  /\ stack' = << >> /\ result' = Pending
  /\ UNCHANGED phase

\* ... the left half, to the call that goes on with the right half.
ReturnLeft(removed) ==
  /\ Returns(removed) /\ n > 1 /\ result.kind = "ok" /\ caller.at = "left"
  /\ stack' = Append([callers EXCEPT ![n - 1] =
                        [caller EXCEPT !.at = "right", !.left = result.text]],
                     Frame(Right(caller.range)))
  /\ result' = Pending
  /\ UNCHANGED <<phase, index, parts>>

\* ... the right half, to the call that joins the two and returns in turn.
ReturnRightTo(removed, joined) ==
  /\ Returns(removed) /\ n > 1 /\ result.kind = "ok" /\ caller.at = "right"
  /\ stack' = callers
  /\ result' = Ok(joined)
  /\ UNCHANGED <<phase, index, parts>>
\* Seeded bug: the halves are joined in the wrong order.
ReturnRightSwapped(removed) == ReturnRightTo(removed, result.text \o caller.left)
ReturnRight(removed) == ReturnRightTo(removed, caller.left \o result.text)

\* ... an error, which the ? operators pass on to the outermost caller.
\* Seeded bugs: the outermost caller swallows it; the chunk is not removed.
SwallowError ==
  /\ result.kind \in {"too_large", "other"}
  /\ stack' = callers
  /\ UNCHANGED <<phase, index, result, parts>>
PropagateError ==
  /\ result.kind \in {"too_large", "other"}
  /\ stack' = callers
  /\ phase' = IF n = 1 THEN "failed" ELSE phase
  /\ UNCHANGED <<index, result, parts>>
LeaveChunkBehind(removed) ==
  /\ phase = "running" /\ stack # << >> /\ removed
  /\ PropagateError
  /\ UNCHANGED <<pages, files, stuck, calls, refused, percent>>
ReturnError(removed) == Returns(removed) /\ PropagateError

Done == phase \in {"succeeded", "failed"} /\ UNCHANGED vars

-----------------------------------------------------------------------------
Next ==
  \/ \E p \in 1 .. MaxPages : Count(p)
  \/ CountFails
  \/ OpenRange
  \/ Finish
  \/ WriteChunk
  \/ WriteChunkFails
  \/ SubmitSucceeds
  \/ SubmitFails
  \/ Bisect
  \/ Rasterise
  \/ WritePicture
  \/ \E removed \in BOOLEAN :
       /\ removed \/ Cardinality(stuck) < MaxStuck
       /\ \/ WritePictureFails(IF removed THEN {} ELSE {Picture(top.range)})
          \/ PictureSucceeds(removed)
          \/ PictureFails(removed)
          \/ ReturnPart(removed)
          \/ ReturnLeft(removed)
          \/ ReturnRight(removed)
          \/ ReturnError(removed)
  \/ Done

Spec == Init /\ [][Next]_vars

\* The Ghostscript runs and the Azure calls have timeouts, so the task goes on,
\* if no descendant of Ghostscript keeps its pipes open for ever (RunCommand).
FairSpec == Spec /\ WF_vars(Next)

-----------------------------------------------------------------------------
(* Properties.                                                             *)

\* Success means every page exactly once and in order, whichever ranges were
\* bisected or rasterised on the way (pdf_chunk.rs:49-57, 128-157).
PagesInOrder == phase = "succeeded" => parts = Pages(1, pages)

\* Why that is so.  Each call on the stack is one of the halves of the call
\* below it, a left half's text is kept until its right half returns, and what
\* a call returns is the text of its range.
Descent ==
  /\ n > 0 => index < chunk_count /\ stack[1].range = InitialRange(index)
  /\ \A i \in 1 .. n - 1 :
       /\ page_count(stack[i].range) > 1
       /\ \/ stack[i].at = "left" /\ stack[i + 1].range = Left(stack[i].range)
          \/ /\ stack[i].at = "right" /\ stack[i + 1].range = Right(stack[i].range)
             /\ stack[i].left = Text(Left(stack[i].range))
TextSoFar ==
  /\ phase = "succeeded" => index = chunk_count
  /\ phase = "counting" => n = 0 /\ index = 0
  /\ phase # "counting" => index <= chunk_count
  /\ parts = Pages(1, IF index * ChunkSize < pages THEN index * ChunkSize
                                                   ELSE pages)
  /\ result.kind = "ok" => n > 0 /\ result.text = Text(top.range)
  /\ n = 0 => result.kind # "ok"
  /\ n > 0 /\ result = Pending => top.at \notin {"left", "right"}
ChunkInv == TypeOK /\ Descent /\ TextSoFar

\* Temporary files: the chunk a call submits, rasterises or keeps for its
\* halves exists; apart from files that could not be removed there are no
\* others, and none at all when the analysis is over, also after an error.
TempFiles ==
  /\ stuck \subseteq files
  /\ \A i \in 1 .. n : stack[i].at # "split" => Chunk(stack[i].range) \in files
  /\ \A f \in files \ stuck :
       phase = "running" /\ \E i \in 1 .. n : f.range = stack[i].range

\* The chunks that exist at the same time are logarithmic in the chunk size.
PowerOf2[k \in Nat] == IF k = 0 THEN 1 ELSE 2 * PowerOf2[k - 1]
DepthBounded == PowerOf2[n] < 4 * ChunkSize

\* Azure gets at most three submissions per page, whatever it answers.
SubmissionsBounded == calls <= 3 * pages - (IF pages = 0 THEN 0 ELSE chunk_count)

\* The analysis fails as too large if and only if Azure has refused a page even
\* as a picture, and the page is one of those of each call that fails with it, up
\* to the initial range in hand (pdf_chunk.rs:96-126).
PictureBeforeGivingUp ==
  /\ result.kind = "too_large" <=> refused # {}
  /\ \A p \in refused :
       /\ index * ChunkSize < p
       /\ n > 0 => p \in top.range.first .. top.range.last

\* The analysis ends, in success or failure, for every pattern of refusals.
Terminates == <>(phase \in {"succeeded", "failed"})
=============================================================================
