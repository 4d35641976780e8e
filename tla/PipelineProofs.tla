--------------------------- MODULE PipelineProofs ---------------------------
(***************************************************************************)
(* What TLAPS proves of Pipeline, for every chunk size, number of pages,   *)
(* of retries and of polls: that it is a refinement of Chunking and of     *)
(* Submission, and with what those modules' proofs show, how often a       *)
(* document is posted, what its result says, how many steps it takes and   *)
(* that it can always take one.                                            *)
(***************************************************************************)
EXTENDS Pipeline, SubmissionProofs, SequenceTheorems

\* ChunkingProofs with the variables of Pipeline.
CP == INSTANCE ChunkingProofs WITH percent <- IF pages = 0 THEN 0 ELSE percent

-----------------------------------------------------------------------------
(* CutSpec and CP are the same module.                                     *)

LEMMA SameChunkingInit == CutSpec!Init <=> CP!Init
  BY DEF CutSpec!Init, CP!Init, CutSpec!Pending, CP!Pending

LEMMA SameCardinality == /\ CutSpec!Cardinality(stuck) = CP!Cardinality(stuck)
                         /\ CutSpec!Cardinality(stuck) = Cardinality(stuck)
  BY DEF CutSpec!Cardinality, CP!Cardinality, Cardinality

LEMMA SameChunkingNext == CutSpec!Next <=> CP!Next
<1> USE DEF CutSpec!n, CP!n, CutSpec!top, CP!top, CutSpec!file, CP!file,
            CutSpec!Chunk, CP!Chunk, CutSpec!Picture, CP!Picture,
            CutSpec!Pending, CP!Pending, CutSpec!Ok, CP!Ok, CutSpec!Err, CP!Err,
            CutSpec!At, CP!At, CutSpec!Goto, CP!Goto, CutSpec!Span, CP!Span,
            CutSpec!Frame, CP!Frame, CutSpec!chunk_count, CP!chunk_count,
            CutSpec!page_count, CP!page_count, CutSpec!midpoint, CP!midpoint,
            CutSpec!Text, CP!Text, CutSpec!Pages, CP!Pages,
            CutSpec!Finalize, CP!Finalize, CutSpec!Returns, CP!Returns,
            CutSpec!callers, CP!callers, CutSpec!caller, CP!caller
<1>1. ASSUME NEW p \in 1 .. MaxPages PROVE CutSpec!Count(p) <=> CP!Count(p)
  BY DEF CutSpec!Count, CP!Count
<1>2. CutSpec!CountFails <=> CP!CountFails
  BY DEF CutSpec!CountFails, CP!CountFails
<1>3. CutSpec!OpenRange <=> CP!OpenRange
  BY DEF CutSpec!OpenRange, CP!OpenRange, CutSpec!InitialRange, CP!InitialRange,
         CutSpec!LastPage, CP!LastPage
<1>4. CutSpec!Finish <=> CP!Finish
  BY DEF CutSpec!Finish, CP!Finish
<1>5. CutSpec!WriteChunk <=> CP!WriteChunk
  BY DEF CutSpec!WriteChunk, CP!WriteChunk, CutSpec!chunk_progress_percent,
         CP!chunk_progress_percent
<1>6. CutSpec!WriteChunkFails <=> CP!WriteChunkFails
  BY DEF CutSpec!WriteChunkFails, CP!WriteChunkFails
<1>7. CutSpec!SubmitSucceeds <=> CP!SubmitSucceeds
  BY DEF CutSpec!SubmitSucceeds, CP!SubmitSucceeds, CutSpec!Submit, CP!Submit
<1>8. CutSpec!SubmitFails <=> CP!SubmitFails
  BY DEF CutSpec!SubmitFails, CP!SubmitFails, CutSpec!Submit, CP!Submit
<1>9. CutSpec!Bisect <=> CP!Bisect
  BY DEF CutSpec!Bisect, CP!Bisect, CutSpec!Left, CP!Left
<1>10. CutSpec!Rasterise <=> CP!Rasterise
  BY DEF CutSpec!Rasterise, CP!Rasterise, CutSpec!TooLargePage, CP!TooLargePage
<1>11. CutSpec!WritePicture <=> CP!WritePicture
  BY DEF CutSpec!WritePicture, CP!WritePicture
<1>12. ASSUME NEW removed \in BOOLEAN
       PROVE  CutSpec!WritePictureFails(IF removed THEN {} ELSE {CutSpec!Picture(CutSpec!top.range)})
          <=> CP!WritePictureFails(IF removed THEN {} ELSE {CP!Picture(CP!top.range)})
  BY DEF CutSpec!WritePictureFails, CP!WritePictureFails
<1>13. ASSUME NEW removed \in BOOLEAN
       PROVE  CutSpec!PictureSucceeds(removed) <=> CP!PictureSucceeds(removed)
  BY DEF CutSpec!PictureSucceeds, CP!PictureSucceeds, CutSpec!SubmitPicture,
         CP!SubmitPicture
<1>14. ASSUME NEW removed \in BOOLEAN
       PROVE  CutSpec!PictureFails(removed) <=> CP!PictureFails(removed)
  BY DEF CutSpec!PictureFails, CP!PictureFails, CutSpec!SubmitPicture,
         CP!SubmitPicture
<1>15. ASSUME NEW removed \in BOOLEAN
       PROVE  CutSpec!ReturnPart(removed) <=> CP!ReturnPart(removed)
  BY DEF CutSpec!ReturnPart, CP!ReturnPart
<1>16. ASSUME NEW removed \in BOOLEAN
       PROVE  CutSpec!ReturnLeft(removed) <=> CP!ReturnLeft(removed)
  BY DEF CutSpec!ReturnLeft, CP!ReturnLeft, CutSpec!Right, CP!Right
<1>17. ASSUME NEW removed \in BOOLEAN
       PROVE  CutSpec!ReturnRight(removed) <=> CP!ReturnRight(removed)
  BY DEF CutSpec!ReturnRight, CP!ReturnRight, CutSpec!ReturnRightTo, CP!ReturnRightTo
<1>18. ASSUME NEW removed \in BOOLEAN
       PROVE  CutSpec!ReturnError(removed) <=> CP!ReturnError(removed)
  BY DEF CutSpec!ReturnError, CP!ReturnError, CutSpec!PropagateError, CP!PropagateError
<1>19. CutSpec!Done <=> CP!Done
  BY DEF CutSpec!Done, CP!Done, CutSpec!vars, CP!vars
<1>20. ASSUME NEW removed \in BOOLEAN
       PROVE  (\/ CutSpec!WritePictureFails(IF removed THEN {} ELSE {CutSpec!Picture(CutSpec!top.range)})
               \/ CutSpec!PictureSucceeds(removed) \/ CutSpec!PictureFails(removed)
               \/ CutSpec!ReturnPart(removed) \/ CutSpec!ReturnLeft(removed)
               \/ CutSpec!ReturnRight(removed) \/ CutSpec!ReturnError(removed))
          <=> (\/ CP!WritePictureFails(IF removed THEN {} ELSE {CP!Picture(CP!top.range)})
               \/ CP!PictureSucceeds(removed) \/ CP!PictureFails(removed)
               \/ CP!ReturnPart(removed) \/ CP!ReturnLeft(removed)
               \/ CP!ReturnRight(removed) \/ CP!ReturnError(removed))
  BY <1>12, <1>13, <1>14, <1>15, <1>16, <1>17, <1>18
<1>21. (\E p \in 1 .. MaxPages : CutSpec!Count(p)) <=> \E p \in 1 .. MaxPages : CP!Count(p)
  BY <1>1
<1>22. (\E removed \in BOOLEAN :
          /\ removed \/ CutSpec!Cardinality(stuck) < MaxStuck
          /\ \/ CutSpec!WritePictureFails(IF removed THEN {} ELSE {CutSpec!Picture(CutSpec!top.range)})
             \/ CutSpec!PictureSucceeds(removed) \/ CutSpec!PictureFails(removed)
             \/ CutSpec!ReturnPart(removed) \/ CutSpec!ReturnLeft(removed)
             \/ CutSpec!ReturnRight(removed) \/ CutSpec!ReturnError(removed))
   <=> \E removed \in BOOLEAN :
          /\ removed \/ CP!Cardinality(stuck) < MaxStuck
          /\ \/ CP!WritePictureFails(IF removed THEN {} ELSE {CP!Picture(CP!top.range)})
             \/ CP!PictureSucceeds(removed) \/ CP!PictureFails(removed)
             \/ CP!ReturnPart(removed) \/ CP!ReturnLeft(removed)
             \/ CP!ReturnRight(removed) \/ CP!ReturnError(removed)
  BY <1>20, SameCardinality, Zenon
<1> QED
  BY <1>21, <1>2, <1>3, <1>4, <1>5, <1>6, <1>7, <1>8, <1>9, <1>10, <1>11, <1>19,
     <1>22
  DEF CutSpec!Next, CP!Next

-----------------------------------------------------------------------------
(* Chunking inside.                                                        *)

\* The document has pages once they are counted, and they are counted only when
\* the document is to be cut.
PagesKnown ==
  /\ pc \notin {"chunks", "done"} => phase = "counting"
  /\ phase = "counting" => pages = 0
  /\ phase \in {"running", "succeeded"} => pages # 0

LEMMA WholeOutside ==
  ASSUME Whole
  PROVE  pc \notin {"chunks", "done"} /\ UNCHANGED <<extension, cut, retry, cause>>
  BY DEF Whole, Prepare, PrepareAsIs, PrepareOptimized, Optimized, Converted,
         LocalFailure, Submit, AzureAnswers, Retry, Succeed, Refused, Answered,
         RateLimitedForGood, NotRecoverable, TooLarge, RecoverByChunks, RecoverPdf,
         RecoverDoc, Recover

\* Where the percentage is mapped the two instances have the same steps.
LEMMA CutMoves ==
  ASSUME PagesKnown
  PROVE  /\ \A p \in 1 .. MaxPages : Cut!Count(p) => CutSpec!Count(p)
         /\ Cut!CountFails => CutSpec!CountFails
         /\ Cut!OpenRange => CutSpec!OpenRange
         /\ Cut!Finish => CutSpec!Finish
         /\ Cut!WriteChunk => CutSpec!WriteChunk
         /\ Cut!WriteChunkFails => CutSpec!WriteChunkFails
         /\ Cut!SubmitSucceeds => CutSpec!SubmitSucceeds
         /\ Cut!SubmitFails => CutSpec!SubmitFails
         /\ Cut!Bisect => CutSpec!Bisect
         /\ Cut!Rasterise => CutSpec!Rasterise
         /\ Cut!WritePicture => CutSpec!WritePicture
         /\ \A removed \in BOOLEAN :
              /\ Cut!WritePictureFails(IF removed THEN {} ELSE {Cut!Picture(Cut!top.range)})
                   => CutSpec!WritePictureFails(
                        IF removed THEN {} ELSE {CutSpec!Picture(CutSpec!top.range)})
              /\ Cut!PictureSucceeds(removed) => CutSpec!PictureSucceeds(removed)
              /\ \A e \in {"too_large", "other"} :
                   Cut!SubmitPicture(Cut!Err(e), removed) => CutSpec!PictureFails(removed)
              /\ Cut!ReturnPart(removed) => CutSpec!ReturnPart(removed)
              /\ Cut!ReturnLeft(removed) => CutSpec!ReturnLeft(removed)
              /\ Cut!ReturnRight(removed) => CutSpec!ReturnRight(removed)
              /\ Cut!ReturnError(removed) => CutSpec!ReturnError(removed)
<1> USE DEF CutSpec!n, Cut!n, CutSpec!top, Cut!top, CutSpec!file, Cut!file,
            CutSpec!Chunk, Cut!Chunk, CutSpec!Picture, Cut!Picture,
            CutSpec!Pending, Cut!Pending, CutSpec!Ok, Cut!Ok, CutSpec!Err, Cut!Err,
            CutSpec!At, Cut!At, CutSpec!Goto, Cut!Goto, CutSpec!Span, Cut!Span,
            CutSpec!Frame, Cut!Frame, CutSpec!chunk_count, Cut!chunk_count,
            CutSpec!page_count, Cut!page_count, CutSpec!midpoint, Cut!midpoint,
            CutSpec!Text, Cut!Text, CutSpec!Pages, Cut!Pages,
            CutSpec!Finalize, Cut!Finalize, CutSpec!Returns, Cut!Returns,
            CutSpec!callers, Cut!callers, CutSpec!caller, Cut!caller
<1>1. ASSUME NEW p \in 1 .. MaxPages PROVE Cut!Count(p) => CutSpec!Count(p)
  BY DEF CutSpec!Count, Cut!Count
<1>2. Cut!CountFails => CutSpec!CountFails
  BY DEF CutSpec!CountFails, Cut!CountFails
<1>3. Cut!OpenRange => CutSpec!OpenRange
  BY DEF CutSpec!OpenRange, Cut!OpenRange, CutSpec!InitialRange, Cut!InitialRange,
         CutSpec!LastPage, Cut!LastPage
<1>4. Cut!Finish => CutSpec!Finish
  BY DEF CutSpec!Finish, Cut!Finish
<1>5. Cut!WriteChunk => CutSpec!WriteChunk
  BY DEF CutSpec!WriteChunk, Cut!WriteChunk, CutSpec!chunk_progress_percent,
         Cut!chunk_progress_percent, PagesKnown
<1>6. Cut!WriteChunkFails => CutSpec!WriteChunkFails
  BY DEF CutSpec!WriteChunkFails, Cut!WriteChunkFails
<1>7. Cut!SubmitSucceeds => CutSpec!SubmitSucceeds
  BY DEF CutSpec!SubmitSucceeds, Cut!SubmitSucceeds, CutSpec!Submit, Cut!Submit
<1>8. Cut!SubmitFails => CutSpec!SubmitFails
  BY DEF CutSpec!SubmitFails, Cut!SubmitFails, CutSpec!Submit, Cut!Submit
<1>9. Cut!Bisect => CutSpec!Bisect
  BY DEF CutSpec!Bisect, Cut!Bisect, CutSpec!Left, Cut!Left
<1>10. Cut!Rasterise => CutSpec!Rasterise
  BY DEF CutSpec!Rasterise, Cut!Rasterise, CutSpec!TooLargePage, Cut!TooLargePage
<1>11. Cut!WritePicture => CutSpec!WritePicture
  BY DEF CutSpec!WritePicture, Cut!WritePicture
<1>12. ASSUME NEW removed \in BOOLEAN
       PROVE  Cut!WritePictureFails(IF removed THEN {} ELSE {Cut!Picture(Cut!top.range)})
           => CutSpec!WritePictureFails(
                IF removed THEN {} ELSE {CutSpec!Picture(CutSpec!top.range)})
  BY DEF CutSpec!WritePictureFails, Cut!WritePictureFails
<1>13. ASSUME NEW removed \in BOOLEAN
       PROVE  Cut!PictureSucceeds(removed) => CutSpec!PictureSucceeds(removed)
  BY DEF CutSpec!PictureSucceeds, Cut!PictureSucceeds, CutSpec!SubmitPicture,
         Cut!SubmitPicture
<1>14. ASSUME NEW removed \in BOOLEAN, NEW e \in {"too_large", "other"}
       PROVE  Cut!SubmitPicture(Cut!Err(e), removed) => CutSpec!PictureFails(removed)
  BY DEF CutSpec!PictureFails, CutSpec!SubmitPicture, Cut!SubmitPicture
<1>15. ASSUME NEW removed \in BOOLEAN
       PROVE  Cut!ReturnPart(removed) => CutSpec!ReturnPart(removed)
  BY DEF CutSpec!ReturnPart, Cut!ReturnPart
<1>16. ASSUME NEW removed \in BOOLEAN
       PROVE  Cut!ReturnLeft(removed) => CutSpec!ReturnLeft(removed)
  BY DEF CutSpec!ReturnLeft, Cut!ReturnLeft, CutSpec!Right, Cut!Right
<1>17. ASSUME NEW removed \in BOOLEAN
       PROVE  Cut!ReturnRight(removed) => CutSpec!ReturnRight(removed)
  BY DEF CutSpec!ReturnRight, Cut!ReturnRight, CutSpec!ReturnRightTo, Cut!ReturnRightTo
<1>18. ASSUME NEW removed \in BOOLEAN
       PROVE  Cut!ReturnError(removed) => CutSpec!ReturnError(removed)
  BY DEF CutSpec!ReturnError, Cut!ReturnError, CutSpec!PropagateError,
         Cut!PropagateError
<1> HIDE DEF CutSpec!n, Cut!n, CutSpec!top, Cut!top, CutSpec!Picture, Cut!Picture,
             CutSpec!Err, Cut!Err
<1> QED
  BY <1>1, <1>2, <1>3, <1>4, <1>5, <1>6, <1>7, <1>8, <1>9, <1>10, <1>11, <1>12,
     <1>13, <1>14, <1>15, <1>16, <1>17, <1>18

\* A step of the composition is one of Chunking, or leaves it alone.
CutMove ==
  \/ CutLocally \/ CutFails \/ CutSubmit \/ CutSucceeds \/ CutTooLarge
  \/ CutRefusesPicture
  \/ \E e \in ChunkErrors : CutRefused(e)

LEMMA ChunkingMoves ==
  ASSUME PagesKnown, PipelineNext
  PROVE  (CutMove => CutSpec!Next) /\ (CutMove \/ UNCHANGED CutSpec!vars)
<1> DEFINE May(removed) == removed \/ Cardinality(stuck) < MaxStuck
<1>0. ASSUME NEW removed \in BOOLEAN, May(removed),
             \/ CutSpec!WritePictureFails(
                  IF removed THEN {} ELSE {CutSpec!Picture(CutSpec!top.range)})
             \/ CutSpec!PictureSucceeds(removed) \/ CutSpec!PictureFails(removed)
             \/ CutSpec!ReturnPart(removed) \/ CutSpec!ReturnLeft(removed)
             \/ CutSpec!ReturnRight(removed) \/ CutSpec!ReturnError(removed)
      PROVE  CutSpec!Next
  BY <1>0, SameCardinality DEF CutSpec!Next
<1>1. ASSUME UNCHANGED cut,
             pc \notin {"chunks", "done"} \/ UNCHANGED percent
      PROVE  UNCHANGED CutSpec!vars
  BY <1>1 DEF PagesKnown, cut, CutSpec!vars
<1>2. ASSUME Whole PROVE UNCHANGED CutSpec!vars
  BY <1>1, <1>2, WholeOutside
<1>3. ASSUME CutLocally PROVE CutSpec!Next
  <2>1. ASSUME NEW p \in 1 .. MaxPages, Cut!Count(p) PROVE CutSpec!Next
    BY <2>1, CutMoves DEF CutSpec!Next
  <2>2. ASSUME Cut!OpenRange \/ Cut!Finish PROVE CutSpec!Next
    BY <2>2, CutMoves DEF CutSpec!Next
  <2>3. ASSUME NEW removed \in BOOLEAN, May(removed),
               \/ Cut!ReturnPart(removed) \/ Cut!ReturnLeft(removed)
               \/ Cut!ReturnRight(removed) \/ Cut!ReturnError(removed)
        PROVE  CutSpec!Next
    <3>1. \/ CutSpec!ReturnPart(removed) \/ CutSpec!ReturnLeft(removed)
          \/ CutSpec!ReturnRight(removed) \/ CutSpec!ReturnError(removed)
      BY <2>3, CutMoves
    <3> QED BY <1>0, <2>3, <3>1
  <2> QED BY <1>3, <2>1, <2>2, <2>3 DEF CutLocally, Removal
<1>4. ASSUME CutFails PROVE CutSpec!Next
  <2>1. ASSUME Cut!CountFails \/ Cut!WriteChunkFails PROVE CutSpec!Next
    BY <2>1, CutMoves DEF CutSpec!Next
  <2>2. ASSUME NEW removed \in BOOLEAN, May(removed),
               Cut!WritePictureFails(IF removed THEN {} ELSE {Cut!Picture(Cut!top.range)})
        PROVE  CutSpec!Next
    <3>1. CutSpec!WritePictureFails(
            IF removed THEN {} ELSE {CutSpec!Picture(CutSpec!top.range)})
      BY <2>2, CutMoves
    <3> QED BY <1>0, <2>2, <3>1
  <2> QED BY <1>4, <2>1, <2>2 DEF CutFails, Removal
<1>5. ASSUME CutSubmit PROVE CutSpec!Next
  BY <1>5, CutMoves DEF CutSubmit, CutSpec!Next
<1>6. ASSUME CutCall PROVE UNCHANGED CutSpec!vars
  BY <1>1, <1>6 DEF CutCall
<1>7. ASSUME CutRetry PROVE UNCHANGED CutSpec!vars
  BY <1>1, <1>7 DEF CutRetry, CutRetryBelow
<1>8. ASSUME CutSucceeds PROVE CutSpec!Next
  <2>1. ASSUME Cut!SubmitSucceeds PROVE CutSpec!Next
    BY <2>1, CutMoves DEF CutSpec!Next
  <2>2. ASSUME NEW removed \in BOOLEAN, May(removed), Cut!PictureSucceeds(removed)
        PROVE  CutSpec!Next
    BY <1>0, <2>2, CutMoves
  <2> QED BY <1>8, <2>1, <2>2 DEF CutSucceeds, Removal
<1>9. ASSUME CutTooLarge PROVE CutSpec!Next
  BY <1>9, CutMoves DEF CutTooLarge, CutSpec!Next
<1>10. ASSUME NEW removed \in BOOLEAN, May(removed), NEW e \in {"too_large", "other"},
              Cut!SubmitPicture(Cut!Err(e), removed)
       PROVE  CutSpec!Next
  BY <1>0, <1>10, CutMoves
<1>11. ASSUME CutRefusesPicture PROVE CutSpec!Next
  BY <1>10, <1>11 DEF CutRefusesPicture, Removal
<1>12. ASSUME NEW e \in ChunkErrors, CutRefused(e)
       PROVE  CutSpec!Next
  <2>1. CASE Cut!SubmitFails
    BY <2>1, CutMoves DEF CutSpec!Next
  <2> QED BY <1>10, <1>12, <2>1 DEF CutRefused, Removal
<1>13. ASSUME CutEnds PROVE UNCHANGED CutSpec!vars
  BY <1>1, <1>13 DEF CutEnds, Chunks
<1>14. ASSUME PipelineDone PROVE UNCHANGED CutSpec!vars
  BY <1>1, <1>14 DEF PipelineDone, all, vars, progress
<1> QED
  BY <1>2, <1>3, <1>4, <1>5, <1>6, <1>7, <1>8, <1>9, <1>11, <1>12, <1>13, <1>14
  DEF PipelineNext, CutMove

\* What a step of Chunking does with the count of the pages and the phase.
LEMMA CutPages ==
  ASSUME CutSpec!Next \/ UNCHANGED CutSpec!vars, PagesKnown
  PROVE  /\ phase' = "counting" => phase = "counting" /\ pages' = 0
         /\ phase' \in {"running", "succeeded"} => pages' # 0
<1>1. CASE \E p \in 1 .. MaxPages : CutSpec!Count(p)
  BY <1>1 DEF CutSpec!Count
<1>2. CASE /\ UNCHANGED pages
           /\ \/ UNCHANGED phase \/ phase' = "failed"
              \/ phase = "running" /\ phase' = "succeeded"
  BY <1>2 DEF PagesKnown
<1> QED
  BY <1>1, <1>2
  DEF CutSpec!Next, CutSpec!CountFails, CutSpec!OpenRange, CutSpec!Finish,
      CutSpec!WriteChunk, CutSpec!WriteChunkFails, CutSpec!SubmitSucceeds,
      CutSpec!SubmitFails, CutSpec!Submit, CutSpec!Bisect, CutSpec!Rasterise,
      CutSpec!TooLargePage, CutSpec!WritePicture, CutSpec!WritePictureFails,
      CutSpec!PictureSucceeds, CutSpec!PictureFails, CutSpec!SubmitPicture,
      CutSpec!Returns, CutSpec!ReturnPart, CutSpec!ReturnLeft, CutSpec!ReturnRight,
      CutSpec!ReturnRightTo, CutSpec!ReturnError, CutSpec!PropagateError,
      CutSpec!Done, CutSpec!vars

\* Where the whole is while its document is cut.
LEMMA PipelinePhases ==
  ASSUME PagesKnown, PipelineNext
  PROVE  \/ Whole
         \/ pc = "chunks" /\ UNCHANGED <<whole, extension>>
         \/ CutEnds
         \/ UNCHANGED all
  BY DEF PipelineNext, CutLocally, CutFails, CutSubmit, CutCall, CutRetry,
     CutRetryBelow, CutSucceeds, CutTooLarge, CutRefusesPicture, CutRefused,
     Failing, Inner, PipelineDone

LEMMA PagesKnownStep ==
  ASSUME PagesKnown, [PipelineNext]_all
  PROVE  PagesKnown'
<1>1. CASE UNCHANGED all
  BY <1>1 DEF all, cut, vars, PagesKnown
<1>2. CASE PipelineNext
  <2>1. /\ phase' = "counting" => phase = "counting" /\ pages' = 0
        /\ phase' \in {"running", "succeeded"} => pages' # 0
    BY <1>2, ChunkingMoves, CutPages
  <2>2. pc' \notin {"chunks", "done"} => phase' = "counting"
    <3>1. CASE Whole
      BY <3>1, WholeOutside DEF cut, PagesKnown
    <3>2. CASE UNCHANGED all
      BY <1>1, <3>2 DEF PagesKnown
    <3> QED BY <1>2, <3>1, <3>2, PipelinePhases DEF whole, CutEnds, Chunks, all, vars
  <2> QED BY <2>1, <2>2 DEF PagesKnown
<1> QED BY <1>1, <1>2

LEMMA PagesKnownAlways == PipelineSpec => []PagesKnown
<1>1. PipelineInit => PagesKnown
  BY DEF PipelineInit, Init, PagesKnown
<1> QED BY <1>1, PagesKnownStep, PTL DEF PipelineSpec

\* While a document is cut nothing happens but what Chunking describes, retries
\* included (pdf_chunk.rs:89).
THEOREM RefinesChunking == PipelineSpec => ChunkingSpec
<1>1. PipelineInit => CutSpec!Init
  BY DEF PipelineInit, CutSpec!Init, Cut!Pending, CutSpec!Pending
<1>2. PagesKnown /\ [PipelineNext]_all => [CutSpec!Next]_(CutSpec!vars)
  <2>1. UNCHANGED all => UNCHANGED CutSpec!vars
    BY DEF all, cut, vars, progress, CutSpec!vars
  <2> QED BY <2>1, ChunkingMoves
<1> QED
  BY <1>1, <1>2, PagesKnownAlways, PTL DEF PipelineSpec, ChunkingSpec, CutSpec!Spec

-----------------------------------------------------------------------------
(* What ChunkingProofs shows, here.                                        *)

LEMMA CutConstants == CP!ChunkingAssumption
BY PipelineAssumption DEF CP!ChunkingAssumption

CutInv == PagesKnown /\ CP!RangeInv /\ CP!CostInv /\ CP!PercentSoFar

LEMMA SameChunkingSpec == ChunkingSpec => CP!Spec
<1>1. CutSpec!vars = CP!vars
  BY DEF CutSpec!vars, CP!vars
<1>2. CutSpec!Init => CP!Init
  BY SameChunkingInit
<1>3. [CutSpec!Next]_(CutSpec!vars) => [CP!Next]_(CP!vars)
  BY <1>1, SameChunkingNext DEF CutSpec!vars, CP!vars
<1> QED BY <1>2, <1>3, PTL DEF ChunkingSpec, CutSpec!Spec, CP!Spec

LEMMA CutInvariant == PipelineSpec => []CutInv
<1>1. CP!Spec => []CP!RangeInv
  BY CutConstants, CP!RangeInvariant
<1>2. CP!Spec => []CP!CostInv
  BY CutConstants, CP!CostReachable
<1>3. CP!Spec => []CP!PercentSoFar
  BY CutConstants, CP!PercentReachable
<1> QED
  BY <1>1, <1>2, <1>3, SameChunkingSpec, RefinesChunking, PagesKnownAlways, PTL
  DEF CutInv

\* The chunk or the picture in hand is being submitted.
InHand == Cut!At("submit") \/ Cut!At("picture")

\* The range in hand, by the names of Pipeline.
LEMMA CutFacts ==
  ASSUME CP!RangeInv
  PROVE  /\ calls \in Nat
         /\ phase \in {"counting", "running"} /\ stack = << >> => result = Cut!Pending
         /\ Cut!WriteChunk => Cut!At("submit")'
         /\ Cut!WritePicture => Cut!At("picture")'
<1>1. CP!TypeOK /\ CP!Stops
  BY DEF CP!RangeInv, CP!ChunkInv
<1>2. stack # << >> => CP!n > 0
  BY <1>1, CutConstants, CP!FrameFacts
<1>3. stack = << >> => CP!n = 0
  BY EmptySeq DEF CP!n
<1>4. ASSUME NEW step \in {"submit", "picture"}, stack # << >>, Cut!Goto(step),
             phase' = "running", result' = Cut!Pending
      PROVE  Cut!At(step)'
  <2>1. CP!Goto(step)
    BY <1>4 DEF Cut!Goto, CP!Goto, Cut!n, CP!n
  <2>2. /\ CP!n' = CP!n /\ CP!top' = stack'[CP!n] /\ stack'[CP!n].at = step
    BY <1>1, <1>2, <1>4, <2>1, CutConstants, CP!GotoFacts
  <2>3. stack' # << >>
    BY <1>2, <1>4, <2>2, EmptySeq DEF CP!n
  <2>4. Cut!top' = CP!top'
    BY DEF Cut!top, CP!top, Cut!n, CP!n
  <2> QED BY <1>4, <2>2, <2>3, <2>4 DEF Cut!At, Cut!Pending
<1>5. Cut!WriteChunk => Cut!At("submit")'
  BY <1>4 DEF Cut!WriteChunk, Cut!At
<1>6. Cut!WritePicture => Cut!At("picture")'
  BY <1>4 DEF Cut!WritePicture, Cut!At
<1>7. phase \in {"counting", "running"} /\ stack = << >> => result = Cut!Pending
  BY <1>1, <1>3 DEF CP!Stops, CP!Pending, Cut!Pending
<1>8. calls \in Nat
  BY <1>1 DEF CP!TypeOK
<1> QED BY <1>5, <1>6, <1>7, <1>8

-----------------------------------------------------------------------------
(* What the worker has heard of the chunks.                                *)

\* A call is under way only for the chunk or picture in hand; the cause of the
\* failure is known from the first error on, and it is the last answer if that
\* was a transient error.
Heard ==
  /\ cposts = 0 => ccall = "idle" /\ canswer = "none"
  /\ ccall # "idle" => InHand /\ canswer = "none"
  /\ phase = "counting" => cposts = 0 /\ cause = "none"
  /\ phase = "running" => (cause # "none" <=> result.kind \in {"too_large", "other"})
  /\ phase = "succeeded" => cause = "none"
  /\ phase = "failed" => cause # "none"
  /\ cause = "none" /\ canswer \in Transient => InHand
  /\ cause # "none" =>
       /\ cause \in ChunkErrors \ {"ok"}
       /\ cause \in Transient <=> canswer \in Transient
  /\ cause = "too_large" <=> refused # {}

\* Every attempt to submit the chunk in hand is one POST, and the earlier chunks
\* have had all theirs.
ChunksPaid ==
  /\ Call!AzureTypeOK /\ cattempt \in 0 .. MaxRetries
  /\ cposts <= (MaxRetries + 1) * calls + (IF InHand THEN cattempt + 1 ELSE 0)

CallInv == Heard /\ ChunksPaid

\* The call in hand begins, goes on or begins again.
LEMMA CallGoesOn ==
  ASSUME CP!RangeInv, CallInv, CutSubmit \/ CutCall \/ CutRetry
  PROVE  CallInv'
<1> USE SubmissionAssumption, PollAssumption
<1>1. /\ cposts \in Nat /\ calls \in Nat /\ cattempt \in Nat
      /\ MaxRetries \in Nat /\ (MaxRetries + 1) * calls \in Nat
  BY CutFacts DEF CallInv, ChunksPaid, Call!AzureTypeOK
<1>2. InHand => phase = "running" /\ result = Cut!Pending /\ cause = "none"
  BY DEF InHand, Cut!At, CallInv, Heard, Cut!Pending
<1>3. UNCHANGED cut => (InHand' <=> InHand)
  BY DEF cut, InHand, Cut!At, Cut!top, Cut!n, Cut!Pending
<1>4. CASE CutSubmit
  <2>1. /\ phase = "running" /\ result = Cut!Pending /\ ~InHand
        /\ UNCHANGED <<phase, result, calls, refused, cause>>
    BY <1>4 DEF CutSubmit, Cut!WriteChunk, Cut!WritePicture, Cut!At, InHand
  <2>2. InHand'
    BY <1>4, CutFacts DEF CutSubmit, InHand
  <2>3. /\ ccall' = "posting" /\ cpolls' = 0 /\ canswer' = "none"
        /\ cposts' = cposts + 1 /\ cattempt' = 0
    BY <1>4 DEF CutSubmit, CBegin, Call!Begin
  <2>4. Heard'
    BY <1>1, <2>1, <2>2, <2>3 DEF CallInv, Heard, Cut!Pending, Transient
  <2>5. ChunksPaid'
    BY <1>1, <2>1, <2>2, <2>3 DEF CallInv, ChunksPaid, Call!AzureTypeOK
  <2> QED BY <2>4, <2>5 DEF CallInv
<1>5. CASE CutCall
  <2>1. /\ UNCHANGED <<cut, cattempt, cause>> /\ ccall # "idle" /\ InHand /\ InHand'
        /\ UNCHANGED <<phase, result, calls, refused>>
    BY <1>3, <1>5
    DEF CutCall, Call!AzureStep, Call!PostFails, Call!Accepted, Call!StillRunning,
        Call!PollAnswers, Call!PollsExhausted, Call!Poll, CallInv, Heard, cut
  <2>2. /\ Call!AzureTypeOK' /\ UNCHANGED cposts
        /\ ccall' # "idle" => canswer' = "none"
    <3>1. Call!AzureTypeOK /\ canswer = "none"
      BY <2>1 DEF CallInv, ChunksPaid, Heard
    <3>2. CASE Call!PostFails
      BY <3>1, <3>2 DEF Call!PostFails, Call!Return, Call!AzureTypeOK, Call!Answers,
         Call!ApiErrors
    <3>3. CASE Call!Accepted
      BY <3>1, <3>3 DEF Call!Accepted, Call!AzureTypeOK
    <3>4. CASE Call!StillRunning
      BY <3>1, <3>4 DEF Call!StillRunning, Call!Poll, Call!AzureTypeOK
    <3>5. CASE Call!PollAnswers
      BY <3>1, <3>5 DEF Call!PollAnswers, Call!Poll, Call!Return, Call!AzureTypeOK
    <3>6. CASE Call!PollsExhausted
      BY <3>1, <3>6 DEF Call!PollsExhausted, Call!Return, Call!AzureTypeOK,
         Call!Answers
    <3> QED BY <1>5, <3>2, <3>3, <3>4, <3>5, <3>6 DEF CutCall, Call!AzureStep
  <2>3. Heard'
    BY <1>2, <2>1, <2>2 DEF CallInv, Heard
  <2>4. ChunksPaid'
    BY <1>1, <2>1, <2>2 DEF CallInv, ChunksPaid
  <2> QED BY <2>3, <2>4 DEF CallInv
<1>6. CASE CutRetry
  <2>1. /\ UNCHANGED <<cut, cause>> /\ InHand /\ InHand' /\ cattempt < MaxRetries
        /\ UNCHANGED <<phase, result, calls, refused>>
    BY <1>3, <1>6 DEF CutRetry, CutRetryBelow, CDone, InHand, cut
  <2>2. /\ ccall' = "posting" /\ cpolls' = 0 /\ canswer' = "none"
        /\ cposts' = cposts + 1 /\ cattempt' = cattempt + 1
    BY <1>6 DEF CutRetry, CutRetryBelow, CBegin, Call!Begin
  <2>3. Heard'
    BY <1>1, <1>2, <2>1, <2>2 DEF CallInv, Heard
  <2>4. ChunksPaid'
    BY <1>1, <2>1, <2>2 DEF CallInv, ChunksPaid, Call!AzureTypeOK
  <2> QED BY <2>3, <2>4 DEF CallInv
<1> QED BY <1>4, <1>5, <1>6

\* The call in hand is over.
LEMMA CallEnds ==
  ASSUME CP!RangeInv, CallInv, InHand, calls' = calls + 1, UNCHANGED phase,
         ccall' = "idle",
         UNCHANGED <<canswer, cpolls, cposts, cattempt>>,
         \/ /\ canswer \notin Transient /\ UNCHANGED <<cause, refused>>
            /\ result'.kind \notin {"too_large", "other"}
         \/ /\ cause' \in ChunkErrors \ {"ok"} /\ (cause' \in Transient <=> canswer \in Transient)
            /\ result'.kind \in {"too_large", "other"}
            /\ IF cause' = "too_large" THEN refused' # {} ELSE UNCHANGED refused
  PROVE  CallInv'
<1>1. /\ cposts \in Nat /\ calls \in Nat /\ cattempt \in 0 .. MaxRetries
      /\ MaxRetries \in Nat /\ (MaxRetries + 1) * calls \in Nat
      /\ (MaxRetries + 1) * (calls + 1) = (MaxRetries + 1) * calls + (MaxRetries + 1)
  <2>1. cposts \in Nat /\ calls \in Nat /\ cattempt \in 0 .. MaxRetries
    BY CutFacts DEF CallInv, ChunksPaid, Call!AzureTypeOK
  <2> DEFINE M == MaxRetries
             c == calls
  <2>2. M \in Nat /\ c \in Nat
    BY <2>1, SubmissionAssumption
  <2> HIDE DEF M, c
  <2>3. (M + 1) * c \in Nat /\ (M + 1) * (c + 1) = (M + 1) * c + (M + 1)
    BY <2>2
  <2> QED BY <2>1, <2>2, <2>3 DEF M, c
<1>2. phase = "running" /\ cause = "none"
  BY DEF InHand, Cut!At, CallInv, Heard, Cut!Pending
<1>3. Heard'
  <2>1. cposts = 0 => canswer = "none"
    BY DEF CallInv, Heard
  <2>2. cause' = "too_large" <=> refused' # {}
    BY <1>2 DEF CallInv, Heard
  <2> QED BY <1>2, <2>1, <2>2 DEF Heard, ChunkErrors, Answers, ApiErrors, Transient
<1>4. ChunksPaid'
  <2>1. Call!AzureTypeOK'
    BY DEF CallInv, ChunksPaid, Call!AzureTypeOK
  <2>2. cposts <= (MaxRetries + 1) * calls + (cattempt + 1)
    BY DEF CallInv, ChunksPaid
  <2>3. cposts' <= (MaxRetries + 1) * calls'
    BY <1>1, <2>2
  <2>4. (MaxRetries + 1) * calls' \in Nat
    BY <1>1
  <2> QED BY <1>1, <2>1, <2>3, <2>4 DEF ChunksPaid
<1> QED BY <1>3, <1>4 DEF CallInv

\* A step that has nothing to do with a call.
LEMMA NoCall ==
  ASSUME CP!RangeInv, CallInv, ~InHand, UNCHANGED <<retry, calls, refused>>,
         cause' \in {cause, "split", "raster", "io"},
         UNCHANGED cause \/ cause = "none",
         phase' # "counting",
         phase' = "running" => (cause' # "none" <=> result'.kind \in {"too_large", "other"}),
         phase' = "succeeded" => cause' = "none",
         phase' = "failed" => cause' # "none"
  PROVE  CallInv'
<1>1. /\ cposts \in Nat /\ calls \in Nat /\ cattempt \in 0 .. MaxRetries
      /\ MaxRetries \in Nat /\ (MaxRetries + 1) * calls \in Nat
  BY CutFacts, SubmissionAssumption DEF CallInv, ChunksPaid, Call!AzureTypeOK
<1>2. Heard'
  BY DEF CallInv, Heard, retry, ChunkErrors, Answers, ApiErrors, Transient
<1>3. ChunksPaid'
  <2>1. Call!AzureTypeOK'
    BY DEF CallInv, ChunksPaid, Call!AzureTypeOK, retry
  <2> QED BY <1>1, <2>1 DEF CallInv, ChunksPaid, retry
<1> QED BY <1>2, <1>3 DEF CallInv

\* The calls of the chunks, step by step.
LEMMA CallStep ==
  ASSUME PagesKnown, CP!RangeInv, CallInv, [PipelineNext]_all
  PROVE  CallInv'
<1>1. ASSUME UNCHANGED <<cut, retry, cause>> PROVE CallInv'
  BY <1>1 DEF cut, retry, CallInv, Heard, ChunksPaid, InHand, Cut!At, Cut!top, Cut!n,
     Cut!Pending, Call!AzureTypeOK
<1>2. CASE Whole \/ CutEnds \/ PipelineDone \/ UNCHANGED all
  BY <1>1, <1>2 DEF Whole, CutEnds, PipelineDone, all
<1>3. CASE CutSubmit \/ CutCall \/ CutRetry
  BY <1>3, CallGoesOn
<1>4. /\ Cut!Pending.kind = "pending"
      /\ \A x : Cut!Ok(x).kind = "ok" /\ Cut!Err(x).kind = x
  BY DEF Cut!Pending, Cut!Ok, Cut!Err
<1>5. InHand <=> /\ phase = "running" /\ stack # << >> /\ result = Cut!Pending
                 /\ Cut!top.at \in {"submit", "picture"}
  BY DEF InHand, Cut!At
<1>6. /\ phase = "running" => (cause # "none" <=> result.kind \in {"too_large", "other"})
      /\ phase = "counting" => cause = "none"
  BY DEF CallInv, Heard
<1>7. CASE CutLocally
  <2>0. UNCHANGED <<retry, cause>>
    BY <1>7 DEF CutLocally
  <2>1. ASSUME NEW p \in 1 .. MaxPages, Cut!Count(p) PROVE CallInv'
    <3>1. /\ phase = "counting" /\ phase' = "running" /\ UNCHANGED <<stack, result, calls, refused>>
      BY <2>1 DEF Cut!Count
    <3>2. stack = << >>
      BY <3>1, CutConstants, EmptySeq DEF CP!RangeInv, CP!ChunkInv, CP!TextSoFar, CP!TypeOK, CP!n
    <3>3. result = Cut!Pending
      BY <3>1, <3>2, CutFacts
    <3> QED BY <1>4, <1>5, <1>6, <2>0, <3>1, <3>3, NoCall
  <2>2. CASE Cut!OpenRange
    BY <1>5, <1>6, <2>0, <2>2, NoCall DEF Cut!OpenRange
  <2>3. CASE Cut!Finish
    <3>1. /\ phase = "running" /\ stack = << >> /\ phase' = "succeeded"
          /\ UNCHANGED <<calls, refused>>
      BY <2>3 DEF Cut!Finish
    <3>2. cause = "none"
      BY <1>4, <1>6, <3>1, CutFacts
    <3> QED BY <1>5, <2>0, <3>1, <3>2, NoCall
  <2>4. ASSUME NEW removed \in BOOLEAN,
               \/ Cut!ReturnPart(removed) \/ Cut!ReturnLeft(removed)
               \/ Cut!ReturnRight(removed) \/ Cut!ReturnError(removed)
        PROVE  CallInv'
    <3>1. /\ phase = "running" /\ result # Cut!Pending /\ UNCHANGED <<calls, refused>>
      BY <2>4 DEF Cut!ReturnPart, Cut!ReturnLeft, Cut!ReturnRight, Cut!ReturnRightTo,
         Cut!ReturnError, Cut!Returns
    <3>2. CASE Cut!ReturnError(removed)
      <4>1. /\ result.kind \in {"too_large", "other"} /\ UNCHANGED result
            /\ phase' \in {"failed", "running"}
        BY <3>1, <3>2 DEF Cut!ReturnError, Cut!PropagateError
      <4> QED BY <1>5, <1>6, <2>0, <3>1, <4>1, NoCall
    <3>3. CASE ~Cut!ReturnError(removed)
      <4>1. result.kind = "ok" /\ UNCHANGED phase /\ result'.kind \in {"ok", "pending"}
        BY <1>4, <2>4, <3>3 DEF Cut!ReturnPart, Cut!ReturnLeft, Cut!ReturnRight,
           Cut!ReturnRightTo
      <4> QED BY <1>5, <1>6, <2>0, <3>1, <4>1, NoCall
    <3> QED BY <3>2, <3>3
  <2> QED BY <1>7, <2>1, <2>2, <2>3, <2>4 DEF CutLocally, Removal
<1>8. CASE CutFails
  <2>0. UNCHANGED retry
    BY <1>8 DEF CutFails
  <2>1. CASE Cut!CountFails /\ Failing("split")
    <3>1. phase = "counting" /\ phase' = "failed" /\ UNCHANGED <<calls, refused>>
      BY <2>1 DEF Cut!CountFails
    <3> QED BY <1>5, <1>6, <2>0, <2>1, <3>1, NoCall DEF Failing
  <2>2. ASSUME NEW e \in {"split", "raster", "io"}, Failing(e),
               \/ Cut!WriteChunkFails
               \/ \E left_over : Cut!WritePictureFails(left_over)
        PROVE  CallInv'
    <3>1. /\ phase = "running" /\ result = Cut!Pending /\ ~InHand
          /\ result'.kind = "other" /\ UNCHANGED <<phase, calls, refused>>
      BY <1>4, <2>2 DEF Cut!WriteChunkFails, Cut!WritePictureFails, Cut!At, InHand
    <3>2. cause = "none" /\ cause' = e
      BY <1>4, <1>6, <2>2, <3>1 DEF Failing
    <3> QED BY <2>0, <3>1, <3>2, NoCall
  <2> QED BY <1>8, <2>1, <2>2 DEF CutFails, Removal
<1>9. CASE CutSucceeds
  <2>1. /\ ccall = "idle" /\ InHand /\ canswer = "ok" /\ UNCHANGED <<retry, cause>>
    BY <1>9 DEF CutSucceeds, CDone, InHand
  <2>2. /\ calls' = calls + 1 /\ UNCHANGED <<phase, refused>>
        /\ result'.kind = "ok"
    BY <1>4, <1>9 DEF CutSucceeds, Cut!SubmitSucceeds, Cut!Submit, Removal,
       Cut!PictureSucceeds, Cut!SubmitPicture
  <2> QED BY <2>1, <2>2, CallEnds DEF retry, Transient
<1>10. CASE CutTooLarge
  <2>1. /\ ccall = "idle" /\ InHand /\ canswer = "too_large" /\ UNCHANGED <<retry, cause>>
    BY <1>10 DEF CutTooLarge, CDone, InHand
  <2>2. /\ calls' = calls + 1 /\ UNCHANGED <<phase, result, refused>>
        /\ result.kind = "pending"
    BY <1>4, <1>10 DEF CutTooLarge, Cut!Bisect, Cut!Rasterise, Cut!TooLargePage, Cut!At
  <2> QED BY <2>1, <2>2, CallEnds DEF retry, Transient
<1>11. ASSUME NEW e \in ChunkErrors, CutRefused(e) PROVE CallInv'
  <2>1. /\ InHand /\ ccall' = "idle" /\ UNCHANGED <<canswer, cpolls, cposts, cattempt>>
        /\ cause' = e /\ e \notin {"ok", "too_large"}
        /\ e \in Transient <=> canswer \in Transient
    <3>1. CASE CDone /\ canswer = e /\ e \notin {"ok", "too_large"} /\ UNCHANGED retry
      BY <1>11, <3>1 DEF CutRefused, CDone, InHand, retry, Failing
    <3>2. CASE /\ ccall = "posting" /\ e = "io" /\ ccall' = "idle"
               /\ UNCHANGED <<cpolls, canswer, cposts, cattempt>>
      <4>1. InHand /\ canswer = "none"
        BY <3>2 DEF CallInv, Heard
      <4> QED BY <1>11, <3>2, <4>1 DEF CutRefused, Failing, Transient
    <3> QED BY <1>11, <3>1, <3>2 DEF CutRefused
  <2>2. /\ calls' = calls + 1 /\ UNCHANGED <<phase, refused>>
        /\ result'.kind = "other"
    BY <1>4, <1>11 DEF CutRefused, Cut!SubmitFails, Cut!Submit, Removal, Cut!SubmitPicture
  <2> QED BY <2>1, <2>2, CallEnds
<1>12. CASE CutRefusesPicture
  <2>1. /\ ccall = "idle" /\ InHand /\ canswer = "too_large" /\ UNCHANGED retry
        /\ cause' = "too_large"
    BY <1>12 DEF CutRefusesPicture, CDone, InHand, Failing
  <2>2. /\ calls' = calls + 1 /\ UNCHANGED phase
        /\ refused' # {} /\ result'.kind = "too_large"
    BY <1>4, <1>12 DEF CutRefusesPicture, Removal, Cut!SubmitPicture
  <2>3. "too_large" \in ChunkErrors \ {"ok"} /\ "too_large" \notin Transient
    BY DEF ChunkErrors, Answers, ApiErrors, Transient
  <2> QED BY <2>1, <2>2, <2>3, CallEnds DEF retry
<1> QED
  BY <1>2, <1>3, <1>7, <1>8, <1>9, <1>10, <1>11, <1>12 DEF PipelineNext

LEMMA CallInit == PipelineInit => CallInv
<1> SUFFICES ASSUME PipelineInit PROVE CallInv
  OBVIOUS
<1>1. ~InHand /\ (MaxRetries + 1) * calls = 0
  BY SubmissionAssumption DEF PipelineInit, InHand, Cut!At
<1> QED
  BY <1>1, SubmissionAssumption, PollAssumption
  DEF PipelineInit, CallInv, Heard, ChunksPaid, Call!AzureInit, Call!AzureTypeOK, Transient

LEMMA CallInvariant == PipelineSpec => []CallInv
<1>1. CutInv => PagesKnown /\ CP!RangeInv
  BY DEF CutInv
<1>2. PagesKnown /\ CP!RangeInv /\ CallInv /\ [PipelineNext]_all => CallInv'
  BY CallStep
<1> QED BY <1>1, <1>2, CallInit, CutInvariant, PTL DEF PipelineSpec

-----------------------------------------------------------------------------
(* Submission outside.                                                     *)

\* A document that is to be cut has not been reported further than its last
\* submission, 60 percent, when its pages are counted.
CutPercent == pc = "chunks" /\ pages = 0 => percent <= 60

\* What a step of Chunking reports is progress as Submission describes it.
LEMMA InnerReports ==
  ASSUME CutInv, CutPercent, Typed, PipelineNext, Inner
  PROVE  /\ UNCHANGED vars \/ \E new \in 65 .. 78 : ChunkProgress(new)
         /\ pages' = 0 => pages = 0 /\ UNCHANGED percent
<1>1. percent \in 0 .. 100
  BY DEF Typed
<1>2. ASSUME UNCHANGED percent PROVE UNCHANGED vars
  BY <1>2 DEF Inner, whole, vars, progress
<1>3. ASSUME percent' \in 65 .. 78, percent <= percent'
      PROVE  \E new \in 65 .. 78 : ChunkProgress(new)
  BY <1>3 DEF Inner, whole, ChunkProgress
<1>4. PagesKnown /\ CP!RangeInv /\ CP!PercentSoFar
  BY DEF CutInv
<1>5. CP!Next \/ UNCHANGED CP!vars
  BY <1>4, ChunkingMoves, SameChunkingNext DEF CutSpec!vars, CP!vars
<1>6. phase = "counting" \/ UNCHANGED pages
  BY <1>4, <1>5, CutConstants, CP!PercentStep
<1>7. phase = "counting" <=> pages = 0 /\ phase = "counting"
  BY <1>4 DEF PagesKnown
<1>8. ASSUME NEW p \in 1 .. MaxPages, Cut!Count(p)
      PROVE  /\ \E new \in 65 .. 78 : ChunkProgress(new)
             /\ pages' # 0
  <2>1. phase = "counting" /\ pages' = p /\ percent' = 65
    BY <1>8 DEF Cut!Count
  <2>2. percent <= 60
    BY <1>7, <2>1 DEF CutPercent, Inner
  <2> QED BY <1>1, <1>3, <2>1, <2>2
<1>9. ASSUME Cut!WriteChunk
      PROVE  /\ UNCHANGED vars \/ \E new \in 65 .. 78 : ChunkProgress(new)
             /\ pages' # 0
  <2>1. pages # 0 /\ UNCHANGED pages
    BY <1>4, <1>9 DEF Cut!WriteChunk, Cut!At, PagesKnown
  <2>2. phase = "running"
    BY <1>9 DEF Cut!WriteChunk, Cut!At
  <2>3. \/ UNCHANGED percent
        \/ percent' \in 65 .. 78 /\ percent <= percent'
    BY <1>4, <1>5, <2>1, <2>2, CutConstants, CP!PercentStep
  <2> QED BY <1>2, <1>3, <2>1, <2>3
<1>10. \/ \E p \in 1 .. MaxPages : Cut!Count(p)
       \/ Cut!WriteChunk
       \/ UNCHANGED percent
  <2>1. ASSUME Whole \/ CutEnds \/ PipelineDone PROVE FALSE
    BY <2>1, WholeOutside DEF CutEnds, Chunks, PipelineDone, Inner, whole
  <2>2. ASSUME NEW left_over, Cut!WritePictureFails(left_over) PROVE UNCHANGED percent
    BY <2>2 DEF Cut!WritePictureFails
  <2>3. ASSUME NEW x, NEW removed, Cut!SubmitPicture(x, removed) PROVE UNCHANGED percent
    BY <2>3 DEF Cut!SubmitPicture
  <2>4. ASSUME NEW removed, \/ Cut!ReturnPart(removed) \/ Cut!ReturnLeft(removed)
                            \/ Cut!ReturnRight(removed) \/ Cut!ReturnError(removed)
        PROVE  UNCHANGED percent
    BY <2>4 DEF Cut!Returns, Cut!ReturnPart, Cut!ReturnLeft, Cut!ReturnRight,
       Cut!ReturnRightTo, Cut!ReturnError
  <2>5. ASSUME \/ Cut!OpenRange \/ Cut!Finish \/ Cut!CountFails \/ Cut!WriteChunkFails
               \/ Cut!WritePicture \/ Cut!SubmitSucceeds \/ Cut!SubmitFails
               \/ Cut!Bisect \/ Cut!Rasterise
        PROVE  UNCHANGED percent
    BY <2>5 DEF Cut!OpenRange, Cut!Finish, Cut!CountFails, Cut!WriteChunkFails,
       Cut!WritePicture, Cut!SubmitSucceeds, Cut!SubmitFails, Cut!Submit, Cut!Bisect,
       Cut!Rasterise, Cut!TooLargePage
  <2>6. CASE CutLocally
    BY <2>4, <2>5, <2>6 DEF CutLocally, Removal
  <2>7. CASE CutFails
    BY <2>2, <2>5, <2>7 DEF CutFails, Removal
  <2>8. CASE CutSubmit \/ CutCall \/ CutRetry
    BY <2>5, <2>8 DEF CutSubmit, CutCall, CutRetry, CutRetryBelow
  <2>9. CASE CutSucceeds \/ CutTooLarge
    BY <2>3, <2>5, <2>9 DEF CutSucceeds, CutTooLarge, Removal, Cut!PictureSucceeds
  <2>10. ASSUME NEW e \in ChunkErrors, CutRefused(e) PROVE UNCHANGED percent
    BY <2>3, <2>5, <2>10 DEF CutRefused, Removal
  <2>11. CASE CutRefusesPicture
    BY <2>3, <2>11 DEF CutRefusesPicture, Removal
  <2> QED BY <2>1, <2>6, <2>7, <2>8, <2>9, <2>10, <2>11 DEF PipelineNext
<1> QED
  BY <1>2, <1>6, <1>7, <1>8, <1>9, <1>10

\* A step of the composition is one of Submission, or leaves it alone.
LEMMA SubmissionMoves ==
  ASSUME CutInv, CallInv, SubmissionInv, CostInv, CutPercent, [PipelineNext]_all
  PROVE  [Next]_vars /\ CutPercent'
<1>1. CASE UNCHANGED all
  BY <1>1 DEF all, cut, vars, progress, CutPercent
<1>2. CASE Whole
  <2>1. UNCHANGED pages
    BY <1>2 DEF Whole, cut
  <2>2. Next
    BY <1>2 DEF Whole, Next
  <2>3. ASSUME pc' = "chunks" PROVE percent' <= 60
    <3>1. /\ (pc = "prepare" /\ stage = "pdf_retry") \/ pc = "call"
          /\ UNCHANGED percent
      BY <1>2, <2>3
      DEF Whole, Prepare, PrepareAsIs, PrepareOptimized, Optimized, Converted,
          LocalFailure, Submit, AzureAnswers, Retry, Succeed, Refused, Answered,
          RateLimitedForGood, NotRecoverable, TooLarge, RecoverByChunks, RecoverPdf,
          RecoverDoc, Recover, Fail, progress
    <3>2. /\ percent \in 0 .. 100 /\ stage \in {"first", "pdf_retry", "office_retry"}
          /\ pc = "prepare"  => percent <= StartPercent[stage]
          /\ pc = "call" => percent <= SubmitPercent[stage]
      BY DEF CostInv, Typed, Reported, SubmissionInv, Types
    <3> QED BY <3>1, <3>2 DEF StartPercent, SubmitPercent
  <2> QED BY <2>1, <2>2, <2>3 DEF CutPercent
<1>3. CASE PipelineNext /\ pc = "chunks" /\ UNCHANGED <<whole, extension>>
  <2>1. /\ UNCHANGED vars \/ \E new \in 65 .. 78 : ChunkProgress(new)
        /\ pages' = 0 => pages = 0 /\ UNCHANGED percent
    BY <1>3, InnerReports DEF Inner, CostInv
  <2>2. pc' = pc
    BY <1>3 DEF whole
  <2> QED BY <1>3, <2>1, <2>2 DEF CutPercent, Next
<1>4. CASE CutEnds
  <2>1. "ok" \in ChunkErrors /\ (phase = "failed" => cause \in ChunkErrors)
    BY DEF CallInv, Heard, ChunkErrors, Answers
  <2>2. \E r \in ChunkErrors : Chunks(r)
    BY <1>4, <2>1 DEF CutEnds
  <2>3. pc' # "chunks"
    BY <2>2 DEF Chunks
  <2> QED BY <2>2, <2>3 DEF Next, CutPercent
<1> QED
  BY <1>1, <1>2, <1>3, <1>4, PipelinePhases DEF CutInv

LEMMA SubmissionInvariant == PipelineSpec => [](SubmissionInv /\ CostInv /\ CutPercent)
<1>1. PipelineInit => Init /\ SubmissionInv /\ CostInv /\ CutPercent
  BY InitInv, CostInit DEF PipelineInit, Init, CutPercent
<1>2. CutInv /\ CallInv /\ SubmissionInv /\ CostInv /\ CutPercent
      /\ [PipelineNext]_all
        => (SubmissionInv /\ CostInv /\ CutPercent)'
  <2> SUFFICES ASSUME CutInv, CallInv, SubmissionInv, CostInv, CutPercent,
                      [PipelineNext]_all
               PROVE  (SubmissionInv /\ CostInv /\ CutPercent)'
    OBVIOUS
  <2>1. [Next]_vars /\ CutPercent'
    BY SubmissionMoves
  <2> QED BY <2>1, NextInv, CostStep
<1> QED BY <1>1, <1>2, CutInvariant, CallInvariant, PTL DEF PipelineSpec

\* The chunking is a last resort as Submission describes it: it begins when
\* nothing else is left, its progress goes on from that of the document, and it
\* ends with an answer a chunk can get (submission.rs:213).
THEOREM RefinesSubmission == PipelineSpec => SubmissionSpec
<1>1. PipelineInit => Init
  BY DEF PipelineInit
<1>2. CutInv /\ CallInv /\ SubmissionInv /\ CostInv /\ CutPercent
      /\ [PipelineNext]_all
        => [Next]_vars
  BY SubmissionMoves
<1> QED
  BY <1>1, <1>2, CutInvariant, CallInvariant, SubmissionInvariant, PTL
  DEF PipelineSpec, SubmissionSpec, Spec

-----------------------------------------------------------------------------
(* The verdict.                                                            *)

\* A document goes on only with no answer or one that says it is too large; when
\* it is done its outcome is a transient error exactly if the last answer is.
Answerable ==
  /\ pc = "chunks" => answer = "too_large"
  /\ pc = "prepare" /\ stage = "pdf_retry" => answer = "too_large"
  /\ pc \in {"prepare", "optimize", "convert", "submit"} => answer \in {"none", "too_large"}
  /\ call # "idle" => answer = "none"
  /\ pc = "done" => (outcome \in Transient <=> LastAnswer \in Transient)

\* Nothing has been heard of a chunk before the document is cut.
LEMMA NotYetCut ==
  ASSUME PagesKnown, CallInv, pc \notin {"chunks", "done"}
  PROVE  cposts = 0
BY DEF PagesKnown, CallInv, Heard

LEMMA WholeAnswers ==
  ASSUME SubmissionInv, Answerable, Whole, cposts = 0
  PROVE  Answerable'
<1>1. UNCHANGED <<cposts, canswer>> /\ stage \in {"first", "pdf_retry", "office_retry"}
  BY DEF Whole, retry, SubmissionInv, Types
<1>2. LastAnswer' = answer' /\ LastAnswer = answer
  BY <1>1 DEF LastAnswer
<1>3. /\ \A e \in {"io", "optimization", "too_large_optimized"} :
           Wrapped(e) \notin Transient /\ e \notin Transient
      /\ "ok" \notin Transient /\ "none" \notin Transient /\ "too_large" \notin Transient
  BY <1>1 DEF Wrapped, Transient
<1>4. CASE Prepare
  BY <1>2, <1>4 DEF Prepare, PrepareAsIs, PrepareOptimized, InLimits, SubmissionInv, azure,
     Answerable
<1>5. ASSUME NEW new \in Sizes, Optimized(new) \/ Converted(new) PROVE Answerable'
  BY <1>2, <1>3, <1>5 DEF Optimized, Converted, Fail, azure, InLimits, SubmissionInv,
     Answerable
<1>6. CASE LocalFailure
  <2>1. UNCHANGED azure /\ pc' = "done" /\ outcome' \notin Transient
    BY <1>3, <1>6 DEF LocalFailure, Fail
  <2>2. answer \notin Transient
    BY <1>3, <1>6 DEF LocalFailure, Answerable
  <2> QED BY <1>2, <2>1, <2>2 DEF Answerable, azure
<1>7. CASE Submit \/ Retry
  BY <1>7 DEF Submit, Retry, Answered, Begin, Answerable
<1>8. CASE AzureAnswers
  <2>1. call' # "idle" => answer' = "none"
    BY <1>8 DEF AzureAnswers, AzureStep, PostFails, Accepted, StillRunning, PollAnswers,
       PollsExhausted, Poll, Return, Answerable
  <2> QED BY <1>8, <2>1 DEF AzureAnswers, Answerable
<1>9. CASE Succeed \/ Refused \/ RateLimitedForGood \/ NotRecoverable
  <2>1. /\ UNCHANGED azure /\ pc' = "done" /\ outcome' = answer
    BY <1>9 DEF Succeed, Refused, RateLimitedForGood, NotRecoverable, TooLarge, Answered,
       Fail
  <2> QED BY <1>2, <2>1 DEF Answerable, azure
<1>10. CASE RecoverByChunks \/ RecoverPdf \/ RecoverDoc
  BY <1>10 DEF RecoverByChunks, RecoverPdf, RecoverDoc, Recover, Answered, azure, Answerable
<1> QED
  BY <1>4, <1>5, <1>6, <1>7, <1>8, <1>9, <1>10 DEF Whole

LEMMA AnswerableStep ==
  ASSUME CutInv, CallInv, SubmissionInv, Answerable, [PipelineNext]_all
  PROVE  Answerable'
<1>1. CASE UNCHANGED all
  BY <1>1 DEF all, vars, azure, retry, Answerable, LastAnswer
<1>2. CASE Whole
  BY <1>2, NotYetCut, WholeOutside, WholeAnswers DEF CutInv
<1>3. CASE pc = "chunks" /\ UNCHANGED <<whole, extension>>
  BY <1>3 DEF whole, azure, Answerable
<1>4. CASE CutEnds
  <2> DEFINE r == IF phase = "succeeded" THEN "ok" ELSE cause
  <2>1. /\ phase \in {"succeeded", "failed"} /\ pc = "chunks" /\ pc' = "done"
        /\ outcome' = r /\ UNCHANGED <<azure, cposts, canswer>>
    BY <1>4 DEF CutEnds, Chunks, retry
  <2>2. answer = "too_large" /\ answer \notin Transient
    BY <2>1 DEF Answerable, Transient
  <2>3. ~InHand
    BY <2>1 DEF InHand, Cut!At
  <2>4. /\ r \in Transient <=> canswer \in Transient
        /\ cposts = 0 => canswer \notin Transient
    BY <2>1, <2>3 DEF CallInv, Heard, Transient
  <2>5. outcome' \in Transient <=> LastAnswer' \in Transient
    BY <2>1, <2>2, <2>4 DEF LastAnswer, azure
  <2> QED BY <2>1, <2>5 DEF Answerable, azure
<1> QED
  BY <1>1, <1>2, <1>3, <1>4, PipelinePhases DEF CutInv

LEMMA AnswerableAlways == PipelineSpec => []Answerable
<1>1. PipelineInit => Answerable
  BY DEF PipelineInit, Init, AzureInit, Answerable
<1>2. CutInv /\ CallInv /\ (SubmissionInv /\ CostInv /\ CutPercent) /\ Answerable
      /\ [PipelineNext]_all
        => Answerable'
  BY AnswerableStep
<1> QED
  BY <1>1, <1>2, CutInvariant, CallInvariant, SubmissionInvariant, PTL DEF PipelineSpec

\* A document is to be tried again, and Azure is blamed, exactly if the last
\* thing heard from Azure was a transient error, whether about the document or
\* about any chunk of it (result.rs:69, 90).
THEOREM VerdictFollows == PipelineSpec => []VerdictFollowsAnswer
<1>1. Answerable => VerdictFollowsAnswer
  <2> SUFFICES ASSUME Answerable, pc = "done"
               PROVE  LET verdict == create_result(outcome)
                          blamed  == LastAnswer \in {"request", "timeout", "rate_limited"}
                      IN  /\ verdict.result = "retryable" <=> blamed
                          /\ verdict.kind = "upstream" <=> blamed
                          /\ verdict.result = "success" <=> outcome = "ok"
    BY DEF VerdictFollowsAnswer
  <2>1. outcome \in Transient <=> LastAnswer \in {"request", "timeout", "rate_limited"}
    BY DEF Answerable, Transient
  <2>2. "ok" \notin Transient
    BY DEF Transient
  <2> QED
    BY <2>1, <2>2 DEF create_result, is_retryable_document_error, classify_document_error
<1> QED BY <1>1, AnswerableAlways, PTL

-----------------------------------------------------------------------------
(* Too large.                                                              *)

\* The kind is that of the extension; only a .doc is converted; what can be done
\* about a document being too large ends with a refused picture, or before there
\* are chunks.
GivenUp ==
  /\ extension \in Extensions /\ select_engine(extension) = "azure"
  /\ kind = kind_of(infer_content_type(extension))
  /\ pc = "convert" => kind = "doc"
  /\ pc = "done" => IF outcome = "too_large" THEN kind = "other" \/ refused # {}
                                             ELSE refused = {}
  /\ outcome = "too_large_optimized" => cposts = 0

LEMMA GivenUpStep ==
  ASSUME CutInv, CallInv, SubmissionInv, GivenUp, [PipelineNext]_all
  PROVE  GivenUp'
<1>1. CASE UNCHANGED all
  BY <1>1 DEF all, vars, file, cut, retry, GivenUp
<1>2. CASE Whole
  <2>1. /\ UNCHANGED <<extension, refused, cposts>>
        /\ stage \in {"first", "pdf_retry", "office_retry"} /\ pc \notin {"chunks", "done"}
        /\ outcome = "none"
    BY <1>2, WholeOutside DEF cut, retry, SubmissionInv, Types, GivenUpInv, Tried
  <2>2. \A e \in {"io", "optimization", "too_large_optimized"} : Wrapped(e) # "too_large"
    BY <2>1 DEF Wrapped
  <2>3. refused = {} /\ cposts = 0
    <3>1. phase = "counting"
      BY <2>1 DEF CutInv, PagesKnown
    <3> QED BY <3>1 DEF CallInv, Heard
  <2>4. ASSUME UNCHANGED kind, pc' = "convert" => kind = "doc",
               outcome' = "too_large" => kind = "other"
        PROVE  GivenUp'
    BY <2>1, <2>3, <2>4 DEF GivenUp
  <2>5. CASE Prepare \/ Submit \/ AzureAnswers \/ Retry
    BY <2>1, <2>4, <2>5 DEF Prepare, PrepareAsIs, PrepareOptimized, Submit, AzureAnswers,
       Retry, Answered, file
  <2>6. ASSUME NEW new \in Sizes, Optimized(new) \/ Converted(new) PROVE GivenUp'
    BY <2>1, <2>2, <2>4, <2>6 DEF Optimized, Converted, Fail
  <2>7. CASE LocalFailure \/ Succeed \/ Refused \/ RateLimitedForGood
    BY <2>2, <2>4, <2>7 DEF LocalFailure, Succeed, Refused, RateLimitedForGood, Fail, file
  <2>8. CASE NotRecoverable
    BY <2>4, <2>8 DEF NotRecoverable, TooLarge, Fail, file
  <2>9. CASE RecoverByChunks \/ RecoverPdf \/ RecoverDoc
    BY <2>1, <2>4, <2>9 DEF RecoverByChunks, RecoverPdf, RecoverDoc, file
  <2> QED BY <1>2, <2>5, <2>6, <2>7, <2>8, <2>9 DEF Whole
<1>3. CASE pc = "chunks" /\ UNCHANGED <<whole, extension>>
  <2>1. outcome = "none"
    BY <1>3 DEF SubmissionInv, GivenUpInv, Tried
  <2> QED BY <1>3, <2>1 DEF whole, file, GivenUp
<1>4. CASE CutEnds
  <2>1. /\ phase \in {"succeeded", "failed"}
        /\ pc' = "done" /\ UNCHANGED <<extension, kind, refused, cposts>>
        /\ outcome' = IF phase = "succeeded" THEN "ok" ELSE cause
    BY <1>4 DEF CutEnds, Chunks, cut, retry, file
  <2>2. /\ outcome' = "too_large" <=> refused # {}
        /\ outcome' # "too_large_optimized"
    BY <2>1 DEF CallInv, Heard, ChunkErrors, Answers, ApiErrors
  <2> QED BY <2>1, <2>2 DEF GivenUp
<1> QED
  BY <1>1, <1>2, <1>3, <1>4, PipelinePhases DEF CutInv

LEMMA GivenUpAlways == PipelineSpec => []GivenUp
<1>1. PipelineInit => GivenUp
  BY DEF PipelineInit, Init, GivenUp
<1>2. CutInv /\ CallInv /\ (SubmissionInv /\ CostInv /\ CutPercent) /\ GivenUp
      /\ [PipelineNext]_all
        => GivenUp'
  BY GivenUpStep
<1> QED
  BY <1>1, <1>2, CutInvariant, CallInvariant, SubmissionInvariant, PTL DEF PipelineSpec

\* A PDF and a .doc are given up as too large for Azure exactly when a page of
\* theirs is refused even as a picture; the worker gives up only a PDF by itself,
\* and before Azure has seen any of it; a .docx is never converted
\* (pdf_prepare.rs:71-84, extraction.rs:38, submission.rs:149).
THEOREM WhenTooLarge == PipelineSpec => []TooLargeByExtension
<1>1. SubmissionInv /\ GivenUp => TooLargeByExtension
  <2> SUFFICES ASSUME SubmissionInv, GivenUp PROVE TooLargeByExtension
    OBVIOUS
  <2>1. extension # "docx"
    BY DEF GivenUp, select_engine, source_extension, MarkItDown
  <2>2. /\ kind = "doc" => extension = "doc"
        /\ kind = "pdf" => extension = "pdf"
    BY <2>1 DEF GivenUp, kind_of, infer_content_type, is_pdf_content_type,
       is_convertible_office_content_type
  <2>3. extension \in {"pdf", "doc"} => kind # "other"
    BY DEF GivenUp, kind_of, infer_content_type, is_pdf_content_type,
       is_convertible_office_content_type
  <2>4. outcome = "too_large_optimized" => kind = "pdf" /\ size > config.max /\ posts = 0
    BY DEF SubmissionInv, GivenUpInv, GivenUpLast
  <2> QED BY <2>1, <2>2, <2>3, <2>4 DEF GivenUp, TooLargeByExtension
<1> QED BY <1>1, GivenUpAlways, SubmissionInvariant, PTL

-----------------------------------------------------------------------------
(* Posts.                                                                  *)

\* The posts of the chunks, whether a call is in hand or not.
LEMMA ChunkPosts ==
  ASSUME CutInv, CallInv
  PROVE  cposts <= (MaxRetries + 1)
                     * (IF pages = 0 THEN 0 ELSE 3 * pages - Cut!chunk_count)
<1>1. CP!RangeInv /\ CP!CostInv /\ CP!chunk_count = Cut!chunk_count
  BY DEF CutInv, CP!chunk_count, Cut!chunk_count
<1> DEFINE M == MaxRetries + 1
           B == IF pages = 0 THEN 0 ELSE 3 * pages - Cut!chunk_count
           c == calls
           k == IF InHand THEN cattempt + 1 ELSE 0
<1>2. c \in Nat /\ M \in Nat /\ k \in 0 .. M /\ cposts \in Nat /\ cposts <= M * c + k
  BY <1>1, CutFacts, SubmissionAssumption DEF CallInv, ChunksPaid, Call!AzureTypeOK
<1>3. pages \in Nat /\ Cut!chunk_count \in Int
  <2>1. CP!TypeOK
    BY <1>1 DEF CP!RangeInv, CP!ChunkInv
  <2>2. pages \in Nat /\ ChunkSize \in Nat \ {0}
    BY <2>1, PipelineAssumption DEF CP!TypeOK
  <2> QED BY <1>1, <2>2, CutConstants, CP!CountIsNat DEF Cut!chunk_count
<1>4. c <= B
  BY <1>1 DEF CP!CostInv, CP!SubmissionsBounded
<1>5. InHand => c + 1 <= B
  <2> SUFFICES ASSUME InHand PROVE c + 1 <= B
    OBVIOUS
  <2>1. stack # << >> /\ result = CP!Pending
    BY DEF InHand, Cut!At, Cut!Pending, CP!Pending
  <2>2. CP!n > 0
    BY <1>1, <2>1, CutConstants, CP!FrameFacts DEF CP!RangeInv, CP!ChunkInv
  <2> QED BY <1>1, <2>1, <2>2, CutConstants, CP!CallAffordable
<1>6. B \in Int
  BY <1>3
<1>7. k > 0 => c + 1 <= B
  BY <1>5
<1> HIDE DEF M, B, c, k
<1>8. cposts <= M * B
  <2>1. ASSUME NEW d \in Nat, d <= B PROVE M * d <= M * B
    <3> DEFINE x == B - d
    <3>1. x \in Nat /\ B = d + x
      BY <1>6, <2>1
    <3> HIDE DEF x
    <3>2. M * B = M * d + M * x /\ M * x \in Nat /\ M * d \in Nat
      BY <1>2, <2>1, <3>1
    <3> QED BY <3>2
  <2>2. CASE k = 0
    BY <1>2, <1>4, <1>6, <2>1, <2>2
  <2>3. CASE k > 0
    <3>1. M * (c + 1) <= M * B
      BY <1>2, <1>7, <2>1, <2>3
    <3>2. M * (c + 1) = M * c + M
      BY <1>2
    <3> QED BY <1>2, <1>6, <3>1, <3>2
  <2> QED BY <1>2, <2>2, <2>3
<1> QED BY <1>8 DEF M, B

\* Retries multiply the submissions of a document and of each of its chunks, but
\* not each other: the POSTs are bounded for every number of pages, retries and
\* polls (submission.rs:112, pdf_chunk.rs:89, 96); with type correctness.
THEOREM AllPosts == PipelineSpec => []AllPostsBounded
<1>1. CutInv /\ CallInv /\ (SubmissionInv /\ CostInv /\ CutPercent) /\ GivenUp
        => AllPostsBounded
  <2> SUFFICES ASSUME CutInv, CallInv, SubmissionInv, CostInv, GivenUp
               PROVE  AllPostsBounded
    OBVIOUS
  <2>1. PostsBounded
    BY CostsKnown
  <2>2. PipelineTypeOK
    <3>1. CP!TypeOK /\ TypeOK
      BY <2>1 DEF PostsBounded, CutInv, CP!RangeInv, CP!ChunkInv
    <3>2. Cut!TypeOK
      BY <3>1 DEF TypeOK, CP!TypeOK, Cut!TypeOK, CP!Frames, Cut!Frames, CP!PageRange,
         Cut!PageRange, CP!Results, Cut!Results
    <3>3. Call!AzureTypeOK /\ cattempt \in 0 .. MaxRetries
          /\ cause \in ChunkErrors \union {"none"}
      BY DEF CallInv, ChunksPaid, Heard
    <3> QED BY <3>1, <3>2, <3>3 DEF PipelineTypeOK, GivenUp
  <2> DEFINE M == MaxRetries + 1
             d == IF stage = "office_retry" THEN 2 ELSE 1
             B == IF pages = 0 THEN 0 ELSE 3 * pages - Cut!chunk_count
  <2>3. posts <= M * d /\ cposts <= M * B
    BY <2>1, ChunkPosts DEF PostsBounded, forms
  <2>4. /\ M \in Nat /\ d \in Nat /\ B \in Int /\ posts \in Nat /\ cposts \in Nat
    <3>1. CP!TypeOK /\ TypeOK
      BY <2>1 DEF PostsBounded, CutInv, CP!RangeInv, CP!ChunkInv
    <3>2. pages \in Nat /\ ChunkSize \in Nat \ {0}
      BY <3>1, PipelineAssumption DEF CP!TypeOK
    <3>3. Cut!chunk_count \in Int
      BY <3>2, CutConstants, CP!CountIsNat DEF Cut!chunk_count
    <3> QED
      BY <3>1, <3>2, <3>3, SubmissionAssumption
      DEF TypeOK, AzureTypeOK, CallInv, ChunksPaid, Call!AzureTypeOK
  <2>5. posts + cposts <= M * (d + B)
    <3> HIDE DEF M, d, B
    <3>1. M * (d + B) = M * d + M * B /\ M * d \in Int /\ M * B \in Int
      BY <2>4
    <3> QED BY <2>3, <2>4, <3>1
  <2> QED BY <2>2, <2>5 DEF AllPostsBounded
<1> QED
  BY <1>1, CutInvariant, CallInvariant, SubmissionInvariant, GivenUpAlways, PTL

-----------------------------------------------------------------------------
(* The steps that are left.                                                *)

\* The attempts that are left for the chunk or the picture in hand, as for a
\* whole document.
ChunkCallLeft ==
  IF InHand
    THEN (MaxRetries - cattempt) * StepsPerCall +
         CASE ccall = "posting" -> MaxPolls + 2
           [] ccall = "polling" -> MaxPolls - cpolls + 1
           [] ccall = "idle"    -> 0
    ELSE 0
\* Each step of the chunking may be a submission; the last step takes its result.
AllStepsLeft ==
  IF pc = "done" THEN 0
  ELSE (IF pc = "chunks" THEN 0 ELSE StepsLeft)
         + StepsPerSubmission * CP!StepsLeft + ChunkCallLeft + 1
AllStepsBounded ==
  /\ AllStepsLeft \in 0 .. StepsPerSubmission * (8 * MaxPages + 4) + 38
  /\ phase # "counting" =>
       AllStepsLeft <= StepsPerSubmission * (8 * pages - 2 * Cut!chunk_count + 2)

\* What the bound is made of.
LeftBounded ==
  /\ StepsBounded /\ CP!StepsBounded
  /\ ChunkCallLeft \in 0 .. StepsPerSubmission - 1

LEMMA ChunkCallBounded ==
  ASSUME CallInv
  PROVE  ChunkCallLeft \in 0 .. StepsPerSubmission - 1
<1> DEFINE j == (MaxRetries - cattempt) * StepsPerCall
           l == CASE ccall = "posting" -> MaxPolls + 2
                  [] ccall = "polling" -> MaxPolls - cpolls + 1
                  [] ccall = "idle"    -> 0
<1>1. /\ StepsPerSubmission \in Nat /\ j \in Nat /\ j + StepsPerCall <= StepsPerSubmission
      /\ StepsPerCall = MaxPolls + 3 /\ StepsPerCall \in Nat
  BY AttemptSteps DEF CallInv, ChunksPaid, StepsPerCall
<1>2. l \in Nat /\ l < StepsPerCall
  BY <1>1, PollAssumption DEF CallInv, ChunksPaid, Call!AzureTypeOK
<1>3. ChunkCallLeft = IF InHand THEN j + l ELSE 0
  BY DEF ChunkCallLeft
<1> HIDE DEF j, l
<1> QED BY <1>1, <1>2, <1>3

\* The call for the chunk in hand comes to an end, and so do its retries.
LEMMA ChunkCallSteps ==
  ASSUME CallInv, CutCall \/ CutRetry
  PROVE  ChunkCallLeft' < ChunkCallLeft
<1> DEFINE j == (MaxRetries - cattempt) * StepsPerCall
           l == CASE ccall = "posting" -> MaxPolls + 2
                  [] ccall = "polling" -> MaxPolls - cpolls + 1
                  [] ccall = "idle"    -> 0
<1>1. /\ j \in Nat /\ StepsPerCall = MaxPolls + 3 /\ StepsPerCall \in Nat
      /\ MaxPolls \in Nat /\ cattempt \in 0 .. MaxRetries
  BY AttemptSteps, PollAssumption DEF CallInv, ChunksPaid, StepsPerCall
<1>2. UNCHANGED cut /\ InHand
  BY DEF CutCall, CutRetry, CutRetryBelow, CDone, InHand, CallInv, Heard,
     Call!AzureStep, Call!PostFails, Call!Accepted, Call!StillRunning, Call!Poll,
     Call!PollAnswers, Call!PollsExhausted
<1>3. InHand'
  BY <1>2 DEF cut, InHand, Cut!At, Cut!top, Cut!n, Cut!Pending
<1>4. ChunkCallLeft = j + l
  BY <1>2 DEF ChunkCallLeft
<1>5. ChunkCallLeft' = (MaxRetries - cattempt') * StepsPerCall + l'
  BY <1>3 DEF ChunkCallLeft
<1>6. CASE CutCall
  <2>1. l \in Nat /\ l' \in Nat /\ l' < l
    <3> USE PollAssumption DEF CallInv, ChunksPaid, Call!AzureTypeOK
    <3>1. CASE Call!PostFails
      BY <3>1 DEF Call!PostFails, Call!Return
    <3>2. CASE Call!Accepted
      BY <3>2 DEF Call!Accepted
    <3>3. CASE Call!StillRunning
      BY <3>3 DEF Call!StillRunning, Call!Poll
    <3>4. CASE Call!PollAnswers
      BY <3>4 DEF Call!PollAnswers, Call!Poll, Call!Return
    <3>5. CASE Call!PollsExhausted
      BY <3>5 DEF Call!PollsExhausted, Call!Return
    <3> QED BY <1>6, <3>1, <3>2, <3>3, <3>4, <3>5 DEF CutCall, Call!AzureStep
  <2>2. ChunkCallLeft' = j + l'
    BY <1>5, <1>6 DEF CutCall
  <2>3. \A i, x, y \in Nat : y < x => i + y < i + x
    OBVIOUS
  <2> HIDE DEF j, l
  <2> QED BY <1>1, <1>4, <2>1, <2>2, <2>3
<1>7. CASE CutRetry
  <2> DEFINE i == (MaxRetries - (cattempt + 1)) * StepsPerCall
  <2>1. /\ ccall = "idle" /\ l = 0 /\ l' = MaxPolls + 2
        /\ cattempt' = cattempt + 1 /\ cattempt < MaxRetries
    BY <1>7 DEF CutRetry, CutRetryBelow, CDone, CBegin, Call!Begin
  <2>2. i \in Nat /\ j = i + StepsPerCall
    <3>1. cattempt + 1 \in 0 .. MaxRetries
      BY <1>1, <2>1, SubmissionAssumption
    <3> QED BY <1>1, <2>1, <3>1, AttemptSteps
  <2>3. ChunkCallLeft' = i + l'
    BY <1>5, <2>1
  <2> HIDE DEF i, j, l
  <2> QED BY <1>1, <1>4, <2>1, <2>2, <2>3
<1> QED BY <1>6, <1>7

\* The chunking moves only as long as it is not over.
LEMMA CutRuns ==
  ASSUME CutMove
  PROVE  phase \in {"counting", "running"}
<1> USE DEF Cut!At, Cut!Returns
<1>1. CASE CutLocally
  BY <1>1 DEF CutLocally, Removal, Cut!Count, Cut!OpenRange, Cut!Finish, Cut!ReturnPart,
     Cut!ReturnLeft, Cut!ReturnRight, Cut!ReturnRightTo, Cut!ReturnError
<1>2. CASE CutFails
  BY <1>2 DEF CutFails, Removal, Cut!CountFails, Cut!WriteChunkFails, Cut!WritePictureFails
<1>3. CASE CutSubmit
  BY <1>3 DEF CutSubmit, Cut!WriteChunk, Cut!WritePicture
<1>4. CASE CutSucceeds
  BY <1>4 DEF CutSucceeds, CDone
<1>5. CASE CutTooLarge \/ CutRefusesPicture
  BY <1>5 DEF CutTooLarge, CutRefusesPicture, CDone
<1>6. ASSUME NEW e \in ChunkErrors, CutRefused(e) PROVE phase = "running"
  BY <1>6 DEF CutRefused, Removal, Cut!SubmitFails, Cut!Submit, Cut!SubmitPicture
<1> QED BY <1>1, <1>2, <1>3, <1>4, <1>5, <1>6 DEF CutMove

\* Of a number of submissions, one less is S steps less.
LEMMA StepsOfSubmissions ==
  ASSUME NEW S \in Nat
  PROVE  /\ \A a \in Nat : S * a \in Nat
         /\ \A a \in Int : S * a \in Int
         /\ \A a, b \in Int : b < a => S * b + S <= S * a
<1>1. ASSUME NEW a \in Int, NEW b \in Int, b < a PROVE S * b + S <= S * a
  <2> DEFINE d == a - (b + 1)
  <2>1. d \in Nat /\ a = d + b + 1
    BY <1>1
  <2> HIDE DEF d
  <2>2. S * a = S * d + S * b + S /\ S * d \in Nat /\ S * b \in Int
    BY <2>1
  <2> QED BY <2>2
<1>2. \A a \in Nat : S * a \in Nat
  OBVIOUS
<1>3. \A a \in Int : S * a \in Int
  OBVIOUS
<1> QED BY <1>1, <1>2, <1>3

\* Where the chunking stands still its steps do.
LEMMA CutStands ==
  ASSUME UNCHANGED cut
  PROVE  CP!StepsLeft' = CP!StepsLeft
<1>1. CP!n' = CP!n /\ CP!top' = CP!top /\ CP!chunk_count' = CP!chunk_count
  BY DEF cut, CP!n, CP!top, CP!chunk_count
<1>2. CP!CallLeft' = CP!CallLeft
  BY <1>1 DEF cut, CP!CallLeft
<1> QED BY <1>1, <1>2 DEF cut, CP!StepsLeft

LEMMA AllStepsStep ==
  ASSUME CutInv, CallInv, SubmissionInv, CostInv, LeftBounded, LeftBounded',
         PipelineNext, all' # all
  PROVE  AllStepsLeft' < AllStepsLeft
<1> DEFINE S == StepsPerSubmission
           k == CP!StepsLeft
           c == ChunkCallLeft
           s == StepsLeft
           k1 == CP!StepsLeft'
           c1 == ChunkCallLeft'
           s1 == StepsLeft'
<1>1. /\ S \in Nat /\ k \in Nat /\ c \in Nat /\ c < S /\ s \in Nat
      /\ k1 \in Nat /\ c1 \in Nat /\ c1 < S /\ s1 \in Nat
  <2>1. S \in Nat
    BY AttemptSteps, SubmissionAssumption
  <2> HIDE DEF S
  <2> QED BY <2>1 DEF LeftBounded, StepsBounded, CP!StepsBounded, S
<1> DEFINE P == S * k
           P1 == S * k1
<1>2. P \in Nat /\ P1 \in Nat /\ (k1 < k => P1 + S <= P) /\ (k1 = k => P1 = P)
  <2> HIDE DEF S, k, k1
  <2> QED BY <1>1, StepsOfSubmissions
<1>3. AllStepsLeft = IF pc = "done" THEN 0
                     ELSE (IF pc = "chunks" THEN 0 ELSE s) + P + c + 1
  BY DEF AllStepsLeft
<1>4. AllStepsLeft' = IF pc' = "done" THEN 0
                      ELSE (IF pc' = "chunks" THEN 0 ELSE s1) + P1 + c1 + 1
  BY DEF AllStepsLeft
<1>5. CASE Whole
  <2>1. pc \notin {"chunks", "done"} /\ UNCHANGED <<extension, cut, retry, cause>>
    BY <1>5, WholeOutside
  <2>2. Next /\ vars' # vars
    BY <1>5, <2>1 DEF Whole, Next, all
  <2>3. s1 < s
    BY <2>2, EveryStepCounts
  <2>4. k1 = k
    BY <2>1, CutStands
  <2>5. c1 = c
    BY <2>1 DEF cut, retry, ChunkCallLeft, InHand, Cut!At, Cut!top, Cut!n, Cut!Pending
  <2> HIDE DEF S, k, c, s, P, k1, c1, s1, P1
  <2> QED BY <1>1, <1>2, <1>3, <1>4, <2>1, <2>3, <2>4, <2>5
<1>6. CASE CutEnds
  <2>1. pc = "chunks" /\ pc' = "done"
    BY <1>6 DEF CutEnds, Chunks
  <2> HIDE DEF S, k, c, s, P, k1, c1, s1, P1
  <2> QED BY <1>1, <1>2, <1>3, <1>4, <2>1
<1>7. CASE pc = "chunks" /\ UNCHANGED <<whole, extension>>
  <2>1. pc' = pc
    BY <1>7 DEF whole
  <2>2. CASE CutMove
    <3>1. CP!Next /\ ~ CP!Done
      BY <2>2, ChunkingMoves, SameChunkingNext, CutRuns DEF CutInv, CP!Done
    <3>2. k1 < k
      BY <3>1, CutConstants, CP!StepsMove DEF CutInv
    <3> HIDE DEF S, k, c, s, P, k1, c1, s1, P1
    <3> QED BY <1>1, <1>2, <1>3, <1>4, <1>7, <2>1, <3>2
  <2>3. CASE CutCall \/ CutRetry
    <3>1. k1 = k
      BY <2>3, CutStands DEF CutCall, CutRetry, CutRetryBelow
    <3>2. c1 < c
      BY <2>3, ChunkCallSteps
    <3> HIDE DEF S, k, c, s, P, k1, c1, s1, P1
    <3> QED BY <1>1, <1>2, <1>3, <1>4, <1>7, <2>1, <3>1, <3>2
  <2>4. ~ Whole /\ ~ CutEnds /\ ~ PipelineDone
    BY <1>7, <2>1, WholeOutside DEF CutEnds, Chunks, PipelineDone
  <2> QED BY <2>2, <2>3, <2>4 DEF PipelineNext, CutMove
<1> QED BY <1>5, <1>6, <1>7, PipelinePhases DEF CutInv

LEMMA AllStepsAreBounded ==
  ASSUME CutInv, LeftBounded
  PROVE  AllStepsBounded
<1> DEFINE S == StepsPerSubmission
           k == CP!StepsLeft
           c == ChunkCallLeft
           N == 8 * MaxPages + 2
           B == 8 * pages - 2 * Cut!chunk_count + 1
<1>1. S \in Nat /\ k \in Nat /\ c \in Nat /\ c < S
  <2>1. S \in Nat
    BY AttemptSteps, SubmissionAssumption
  <2> HIDE DEF S
  <2> QED BY <2>1 DEF LeftBounded, CP!StepsBounded, S
<1>2. StepsLeft \in 0 .. 2 * S + 37
  BY DEF LeftBounded, StepsBounded
<1>3. phase # "counting" => k <= B
  BY DEF LeftBounded, CP!StepsBounded, Cut!chunk_count, CP!chunk_count
<1>0. pages \in 0 .. MaxPages /\ MaxPages \in Nat /\ Cut!chunk_count \in Nat
  <2>1. CP!TypeOK
    BY DEF CutInv, CP!RangeInv, CP!ChunkInv
  <2>2. pages \in 0 .. MaxPages /\ MaxPages \in Nat /\ ChunkSize \in Nat \ {0}
    BY <2>1, PipelineAssumption DEF CP!TypeOK
  <2> QED BY <2>2, CutConstants, CP!CountIsNat DEF Cut!chunk_count
<1>4. /\ N \in Nat /\ B \in Int /\ B <= N
      /\ phase = "counting" => k = N
  BY <1>0 DEF CP!StepsLeft
<1>5. phase # "counting" => pc \in {"chunks", "done"}
  BY DEF CutInv, PagesKnown
<1> DEFINE P == S * k
<1>6. /\ AllStepsLeft \in {0, P + c + 1, StepsLeft + P + 1}
      /\ pc \in {"chunks", "done"} => AllStepsLeft \in {0, P + c + 1}
  <2>1. pc \notin {"chunks", "done"} => c = 0
    BY DEF CutInv, PagesKnown, ChunkCallLeft, InHand, Cut!At
  <2>2. AllStepsLeft = IF pc = "done" THEN 0
                       ELSE (IF pc = "chunks" THEN 0 ELSE StepsLeft) + P + c + 1
    BY DEF AllStepsLeft
  <2>3. P \in Nat
    <3> HIDE DEF S, k
    <3> QED BY <1>1, StepsOfSubmissions
  <2> HIDE DEF P, c
  <2> QED BY <1>1, <1>2, <2>1, <2>2, <2>3
<1> HIDE DEF S, k, c
<1>7. P \in Nat
  BY <1>1, StepsOfSubmissions
<1>8. ASSUME NEW m \in Int, k <= m PROVE P + S <= S * (m + 1) /\ S * (m + 1) \in Int
  BY <1>1, <1>8, StepsOfSubmissions
<1> HIDE DEF P
<1>9. AllStepsLeft \in 0 .. S * (N + 2) + 38
  <2> DEFINE Q == S * (N + 1)
  <2>1. P + S <= Q /\ Q \in Int
    <3>1. k <= N /\ N \in Int
      <4> HIDE DEF N, B
      <4> QED BY <1>1, <1>3, <1>4
    <3> HIDE DEF N
    <3> QED BY <1>8, <3>1
  <2>2. S * (N + 2) = Q + S
    <3> HIDE DEF N
    <3> QED BY <1>1, <1>4
  <2> DEFINE R == S * (N + 2)
  <2> HIDE DEF Q, R
  <2>3. R = Q + S
    BY <2>2 DEF R
  <2>4. AllStepsLeft \in 0 .. R + 38
    BY <1>1, <1>2, <1>6, <1>7, <2>1, <2>3
  <2> QED BY <2>4 DEF R
<1>10. phase # "counting" => AllStepsLeft <= S * (B + 1)
  <2> SUFFICES ASSUME phase # "counting" PROVE AllStepsLeft <= S * (B + 1)
    OBVIOUS
  <2> DEFINE Q == S * (B + 1)
  <2>1. P + S <= Q /\ Q \in Int
    <3>1. k <= B /\ B \in Int
      BY <1>3, <1>4
    <3> HIDE DEF B
    <3> QED BY <1>8, <3>1
  <2>2. 0 <= Q /\ P + c + 1 <= Q
    <3> HIDE DEF Q
    <3> QED BY <1>1, <1>7, <2>1
  <2> HIDE DEF Q
  <2>3. AllStepsLeft <= Q
    BY <1>5, <1>6, <2>2
  <2> QED BY <2>3 DEF Q
<1>11. N + 2 = 8 * MaxPages + 4 /\ B + 1 = 8 * pages - 2 * Cut!chunk_count + 2
  BY <1>0
<1> QED BY <1>9, <1>10, <1>11 DEF AllStepsBounded, S

\* Whatever Azure answers about the document and about every chunk of it, the
\* document is done within the steps counted here: as many for each step of the
\* chunking as a submission takes, retries included (submission.rs:112, 213,
\* pdf_chunk.rs:89, 96).
THEOREM AllEndsInBoundedSteps ==
  PipelineSpec => [] AllStepsBounded /\ [][AllStepsLeft' < AllStepsLeft]_all
<1>1. CP!Spec => []CP!StepsBounded
  BY CutConstants, CP!EndsInBoundedSteps, PTL
<1>2. PipelineSpec => CP!Spec
  BY RefinesChunking, SameChunkingSpec, PTL
<1>3. CallInv => ChunkCallLeft \in 0 .. StepsPerSubmission - 1
  BY ChunkCallBounded
<1>4. SubmissionInv /\ CostInv => StepsBounded
  BY StepsAreBounded
<1>5. PipelineSpec => []LeftBounded
  BY <1>1, <1>2, <1>3, <1>4, CallInvariant, SubmissionInvariant, PTL DEF LeftBounded
<1>6. CutInv /\ LeftBounded => AllStepsBounded
  BY AllStepsAreBounded
<1>7. CutInv /\ CallInv /\ SubmissionInv /\ CostInv /\ LeftBounded /\ LeftBounded'
      /\ [PipelineNext]_all
        => [AllStepsLeft' < AllStepsLeft]_all
  BY AllStepsStep
<1> QED
  BY <1>5, <1>6, <1>7, CutInvariant, CallInvariant, SubmissionInvariant, PTL
  DEF PipelineSpec

-----------------------------------------------------------------------------
(* No step is missing.                                                     *)

\* The call for a chunk or a picture is under way, or has an answer that there is
\* a branch for (CutSucceeds, CutRefused, CutRetry, CutTooLarge,
\* CutRefusesPicture).
ChunkGoesOn ==
  \/ ccall = "posting"
  \/ ccall = "polling" /\ (cpolls < MaxPolls \/ cpolls = MaxPolls)
  \/ /\ ccall = "idle"
     /\ \/ canswer \in Answers \ {"too_large", "rate_limited"}
        \/ canswer = "rate_limited" /\ (cattempt < MaxRetries \/ cattempt = MaxRetries)
        \/ /\ canswer = "too_large"
           /\ \/ Cut!At("picture")
              \/ /\ Cut!At("submit")
                 /\ Cut!page_count(Cut!top.range) > 1 \/ Cut!page_count(Cut!top.range) = 1
\* The document can go on: as a whole, with its chunks, or with what they came to.
AllGoesOn ==
  \/ pc # "chunks" /\ GoesOn
  \/ /\ pc = "chunks"
     /\ \/ phase = "succeeded"
        \/ phase = "failed" /\ cause \in ChunkErrors
        \/ InHand /\ ChunkGoesOn
        \/ phase \in {"counting", "running"} /\ ~ InHand /\ CP!GoesOn
Heeded == InHand /\ ccall = "idle" => canswer # "none"

\* A step that is not one of the call leaves nothing in hand.
LEMMA NothingInHand ==
  ASSUME CutInv, PipelineNext, CutMove, ~ CutSubmit
  PROVE  ~ InHand'
<1> SUFFICES ASSUME InHand' PROVE FALSE
  OBVIOUS
<1> USE DEF Cut!At
<1>1. CP!At("split") \/ CP!At("raster")
  <2>1. CP!Next /\ ~ CP!Done
    BY ChunkingMoves, SameChunkingNext, CutRuns DEF CutInv, CP!Done
  <2>2. CP!At("submit")' \/ CP!At("picture")'
    BY DEF InHand, CP!At, Cut!top, CP!top, Cut!n, CP!n, Cut!Pending, CP!Pending
  <2> QED BY <2>1, <2>2, CutConstants, CP!SubmittedIsWritten DEF CutInv
<1>2. /\ phase = "running" /\ stack # << >> /\ result = Cut!Pending
      /\ Cut!top.at \in {"split", "raster"} /\ ~ InHand
  BY <1>1 DEF InHand, CP!At, Cut!top, CP!top, Cut!n, CP!n, Cut!Pending, CP!Pending
<1>3. result' = Cut!Pending
  BY DEF InHand
<1>4. CASE CutLocally
  BY <1>2, <1>4 DEF CutLocally, Removal, Cut!Count, Cut!OpenRange, Cut!Finish,
     Cut!ReturnPart, Cut!ReturnLeft, Cut!ReturnRight, Cut!ReturnRightTo,
     Cut!ReturnError, Cut!Returns
<1>5. CASE CutFails
  BY <1>2, <1>3, <1>5 DEF CutFails, Removal, Cut!CountFails, Cut!WriteChunkFails,
     Cut!WritePictureFails, Cut!Err, Cut!Pending
<1>6. CASE CutSucceeds \/ CutTooLarge \/ CutRefusesPicture
  BY <1>2, <1>6 DEF CutSucceeds, CutTooLarge, CutRefusesPicture, CDone, InHand
<1>7. ASSUME NEW e \in ChunkErrors, CutRefused(e) PROVE FALSE
  BY <1>2, <1>7 DEF CutRefused, Removal, Cut!SubmitFails, Cut!Submit,
     Cut!SubmitPicture, InHand
<1> QED BY <1>4, <1>5, <1>6, <1>7 DEF CutMove

LEMMA HeededStep ==
  ASSUME CutInv, Heeded, [PipelineNext]_all
  PROVE  Heeded'
<1>1. ASSUME UNCHANGED <<cut, retry>> PROVE Heeded'
  BY <1>1 DEF cut, retry, Heeded, InHand, Cut!At, Cut!top, Cut!n, Cut!Pending
<1>2. CASE Whole
  BY <1>1, <1>2, WholeOutside
<1>3. CASE CutEnds \/ PipelineDone \/ UNCHANGED all
  BY <1>1, <1>3 DEF CutEnds, PipelineDone, all
<1>4. CASE CutSubmit \/ CutRetry
  BY <1>4 DEF CutSubmit, CutRetry, CutRetryBelow, CBegin, Call!Begin, Heeded
<1>5. CASE CutCall
  BY <1>5 DEF CutCall, Heeded, Call!AzureStep, Call!PostFails, Call!Accepted,
     Call!StillRunning, Call!Poll, Call!PollAnswers, Call!PollsExhausted, Call!Return,
     Call!Answers, Call!ApiErrors
<1>6. CASE PipelineNext /\ CutMove /\ ~ CutSubmit
  BY <1>6, NothingInHand DEF Heeded
<1> QED BY <1>2, <1>3, <1>4, <1>5, <1>6 DEF PipelineNext, CutMove

\* However the document was cut and whatever was answered last, to the whole or to
\* a chunk, at any depth of the bisection and after any number of retries, there is
\* a branch that takes it (submission.rs:112-137, 139-222, pdf_chunk.rs:61-157).
THEOREM EveryAnswerOfAllTaken == PipelineSpec => [](pc # "done" => AllGoesOn)
<1>1. PipelineInit => Heeded
  BY DEF PipelineInit, Heeded, InHand, Cut!At
<1>2. PipelineSpec => []Heeded
  BY <1>1, HeededStep, CutInvariant, PTL DEF PipelineSpec
<1>3. PipelineSpec => [](phase \in {"counting", "running"} => CP!GoesOn)
  BY CutConstants, CP!NeverStuck, RefinesChunking, SameChunkingSpec, PTL
<1>4. PipelineSpec => [](pc # "done" => GoesOn)
  BY RefinesSubmission, EveryAnswerTaken, PTL DEF SubmissionSpec
<1>5. ASSUME CutInv, CallInv, Heeded, pc = "chunks", InHand
      PROVE  ChunkGoesOn
  <2>1. /\ ccall \in {"idle", "posting", "polling"} /\ cpolls \in 0 .. MaxPolls
        /\ canswer \in Answers \union {"none"} /\ cattempt \in 0 .. MaxRetries
    BY <1>5 DEF CallInv, ChunksPaid, Call!AzureTypeOK, Answers, ApiErrors,
       Call!Answers, Call!ApiErrors
  <2>2. Cut!page_count(Cut!top.range) \in Nat \ {0}
    <3>1. stack # << >>
      BY <1>5 DEF InHand, Cut!At
    <3>2. CP!n > 0
      BY <1>5, <3>1, CutConstants, CP!FrameFacts DEF CutInv, CP!RangeInv, CP!ChunkInv
    <3> QED
      BY <1>5, <3>2, CutConstants, CP!TopFacts
      DEF CutInv, Cut!page_count, CP!page_count, Cut!top, CP!top, Cut!n, CP!n
  <2>3. ccall = "idle" => canswer # "none"
    BY <1>5 DEF Heeded
  <2> QED
    BY <1>5, <2>1, <2>2, <2>3, PollAssumption, SubmissionAssumption
    DEF ChunkGoesOn, InHand
<1>6. /\ CutInv /\ CallInv /\ Heeded
      /\ (phase \in {"counting", "running"} => CP!GoesOn) /\ (pc # "done" => GoesOn)
      => (pc # "done" => AllGoesOn)
  <2> SUFFICES ASSUME CutInv, CallInv, Heeded, pc = "chunks", ~ InHand,
                      phase \in {"counting", "running"} => CP!GoesOn
               PROVE  AllGoesOn
    BY <1>5 DEF AllGoesOn
  <2>1. phase \in {"counting", "running", "succeeded", "failed"}
    BY DEF CutInv, CP!RangeInv, CP!ChunkInv, CP!TypeOK
  <2>2. phase = "failed" => cause \in ChunkErrors
    BY DEF CallInv, Heard
  <2> QED BY <2>1, <2>2 DEF AllGoesOn
<1> QED BY <1>2, <1>3, <1>4, <1>6, CutInvariant, CallInvariant, PTL
=============================================================================
