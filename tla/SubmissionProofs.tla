-------------------------- MODULE SubmissionProofs --------------------------
(***************************************************************************)
(* The limits and the recoveries of Submission, what it costs, that its    *)
(* progress does not go back, that every answer has a branch that takes it *)
(* and how many steps are left, proved for every number of retries and     *)
(* polls and all sizes.                                                    *)
(***************************************************************************)
EXTENDS Submission, TLAPS

\* The types the proofs need.
Types ==
  /\ config \in [threshold : Sizes, max : Sizes]
  /\ kind \in {"pdf", "doc", "other"} /\ size \in Sizes /\ optimized \in BOOLEAN
  /\ pc \in {"prepare", "optimize", "convert", "submit", "call", "chunks", "done"}
  /\ stage \in {"first", "pdf_retry", "office_retry"}
  /\ attempt \in 0 .. MaxRetries
  /\ chunked \in BOOLEAN
  /\ posts \in Nat

\* A PDF in hand that is or will be submitted is within the limits, and within
\* the threshold unless Ghostscript has made it; so it still is when it has been
\* refused and is prepared again.
InLimits ==
  /\ stage = "first" => pc # "convert"
  /\ pc \in {"submit", "call"} /\ (kind = "pdf" \/ stage # "first") =>
       /\ size <= config.max
       /\ optimized \/ size <= effective_threshold
  /\ stage = "pdf_retry" =>
       /\ pc \notin {"optimize", "convert", "submit", "call"}
       /\ pc = "prepare" => size <= effective_threshold
\* What has been tried: before a document is cut up its forms have been posted,
\* the first one before it is recovered, and each retry is one more POST.
Tried ==
  /\ pc # "done" => outcome = "none" /\ ~chunked
  /\ stage = "office_retry" => kind = "doc"
  /\ stage = "pdf_retry" => kind = "pdf"
  /\ stage = "first" /\ pc = "optimize" => kind = "pdf"
  /\ pc \in {"prepare", "optimize", "convert", "submit"} =>
       /\ attempt = 0
       /\ IF stage = "first" THEN posts = 0 ELSE posts >= 1
  /\ pc = "call" => posts >= attempt + forms
  /\ pc = "chunks" => posts >= forms
GivenUpInv == Tried /\ GivenUpLast
SubmissionInv == Types /\ InLimits /\ GivenUpInv

-----------------------------------------------------------------------------
\* The threshold never exceeds the maximum (config.rs:104-106).
LEMMA ThresholdBounded ==
  ASSUME Types
  PROVE  effective_threshold \in Nat /\ effective_threshold <= config.max
BY SubmissionAssumption DEF Types, effective_threshold, Sizes

\* A new document has not been submitted.
LEMMA InitInv == Init => SubmissionInv
<1> SUFFICES ASSUME Init PROVE SubmissionInv
  OBVIOUS
<1>1. attempt \in 0 .. MaxRetries /\ attempt = 0 /\ posts \in Nat
  BY SubmissionAssumption DEF Init, AzureInit
<1> QED
  BY <1>1 DEF Init, AzureInit, SubmissionInv, Types, InLimits, GivenUpInv, Tried,
     GivenUpLast, forms

\* An answer of Azure, or waiting for it, leaves the document alone.
LEMMA AzureKeeps ==
  ASSUME SubmissionInv, AzureAnswers PROVE SubmissionInv'
<1>1. posts' = posts
  BY DEF AzureAnswers, AzureStep, PostFails, Accepted, StillRunning, PollAnswers,
         PollsExhausted, Return
<1> QED
  BY <1>1 DEF AzureAnswers, SubmissionInv, Types, InLimits, GivenUpInv, Tried,
     GivenUpLast, forms, effective_threshold, file, progress

\* Preparing a document, whether it needs Ghostscript or not.
LEMMA PrepareKeeps ==
  ASSUME SubmissionInv, Prepare PROVE SubmissionInv'
<1> USE DEF SubmissionInv, Types, InLimits, GivenUpInv, Tried, GivenUpLast, forms,
            file, azure, progress
<1>1. effective_threshold \in Nat /\ effective_threshold <= config.max
  BY ThresholdBounded
<1>2. config' = config /\ effective_threshold' = effective_threshold
  BY DEF Prepare, PrepareAsIs, PrepareOptimized, effective_threshold
<1>3. CASE PrepareAsIs(effective_threshold)
  <2>1. size <= effective_threshold => size <= config.max
    BY <1>1, SubmissionAssumption DEF Sizes
  <2> QED
    BY <1>2, <1>3, <2>1 DEF PrepareAsIs, Fits
<1>4. CASE PrepareOptimized(effective_threshold)
  BY <1>2, <1>4 DEF PrepareOptimized, Fits
<1> QED
  BY <1>3, <1>4 DEF Prepare

\* Ghostscript and LibreOffice have written a file.
LEMMA ToolsKeep ==
  ASSUME SubmissionInv, NEW new \in Sizes, Optimized(new) \/ Converted(new)
  PROVE  SubmissionInv'
<1> USE DEF SubmissionInv, Types, InLimits, GivenUpInv, Tried, GivenUpLast, forms
<1>1. config' = config /\ effective_threshold' = effective_threshold
  BY DEF Optimized, Converted, effective_threshold
<1>2. CASE Optimized(new)
  <2>1. ~(new > config.max) => new <= config.max
    BY SubmissionAssumption DEF Sizes
  <2> QED
    BY <1>1, <1>2, <2>1 DEF Optimized, Fail, Wrapped, azure
<1>3. CASE Converted(new)
  BY <1>1, <1>3 DEF Converted, azure
<1> QED
  BY <1>2, <1>3

\* A submission, and its repetition while Azure limits the rate.
LEMMA SubmitKeeps ==
  ASSUME SubmissionInv, Submit \/ Retry PROVE SubmissionInv'
<1> USE SubmissionAssumption
    DEF SubmissionInv, Types, InLimits, GivenUpInv, Tried, GivenUpLast, forms, file,
        progress, Begin, effective_threshold
<1>1. CASE Submit
  BY <1>1 DEF Submit
<1>2. CASE Retry
  <2>1. attempt' \in 0 .. MaxRetries
    BY <1>2 DEF Retry
  <2> QED
    BY <1>2, <2>1 DEF Retry, Answered
<1> QED
  BY <1>1, <1>2

\* The document is done with.
LEMMA EndKeeps ==
  ASSUME SubmissionInv,
         \/ LocalFailure \/ Succeed \/ Refused \/ RateLimitedForGood
         \/ NotRecoverable \/ \E result \in ChunkErrors : Chunks(result)
  PROVE  SubmissionInv'
<1> USE DEF SubmissionInv, Types, InLimits, GivenUpInv, Tried, GivenUpLast, forms,
            file, azure, progress, effective_threshold, Fail
<1>1. CASE LocalFailure
  BY <1>1 DEF LocalFailure, Wrapped
<1>2. CASE Succeed
  BY <1>2 DEF Succeed
<1>3. CASE Refused
  BY <1>3 DEF Refused, Answered, Answers, ApiErrors
<1>4. CASE RateLimitedForGood
  BY SubmissionAssumption, <1>4 DEF RateLimitedForGood, Answered
<1>5. CASE NotRecoverable
  BY <1>5 DEF NotRecoverable, TooLarge, Answered
<1>6. CASE \E result \in ChunkErrors : Chunks(result)
  BY <1>6 DEF Chunks, ChunkErrors, Answers, ApiErrors
<1> QED
  BY <1>1, <1>2, <1>3, <1>4, <1>5, <1>6

\* A recovery: what is prepared again was within the threshold, or it is cut.
LEMMA RecoveryKeeps ==
  ASSUME SubmissionInv, RecoverByChunks \/ RecoverPdf \/ RecoverDoc
  PROVE  SubmissionInv'
<1> USE SubmissionAssumption
    DEF SubmissionInv, Types, InLimits, GivenUpInv, Tried, GivenUpLast, forms, file,
        azure, progress, effective_threshold, Recover, Answered
<1>1. 0 \in 0 .. MaxRetries
  OBVIOUS
<1>2. CASE RecoverByChunks
  BY <1>1, <1>2 DEF RecoverByChunks
<1>3. CASE RecoverPdf
  BY <1>1, <1>3 DEF RecoverPdf
<1>4. CASE RecoverDoc
  BY <1>1, <1>4 DEF RecoverDoc
<1> QED
  BY <1>2, <1>3, <1>4

\* No step breaks the invariant.
LEMMA NextInv == SubmissionInv /\ [Next]_vars => SubmissionInv'
<1> SUFFICES ASSUME SubmissionInv, [Next]_vars PROVE SubmissionInv'
  OBVIOUS
<1>1. CASE \E new \in 65 .. 78 : ChunkProgress(new)
  BY <1>1 DEF ChunkProgress, SubmissionInv, Types, InLimits, GivenUpInv, Tried,
     GivenUpLast, forms, file, azure, effective_threshold
<1>2. CASE Done \/ UNCHANGED vars
  BY <1>2 DEF Done, vars, file, azure, progress, SubmissionInv, Types, InLimits,
     GivenUpInv, Tried, GivenUpLast, forms, effective_threshold
<1> QED
  BY <1>1, <1>2, AzureKeeps, PrepareKeeps, ToolsKeep, SubmitKeeps, EndKeeps,
     RecoveryKeeps DEF Next

\* The invariant in every reachable state.
LEMMA Reachable == Spec => []SubmissionInv
BY InitInv, NextInv, PTL DEF Spec

-----------------------------------------------------------------------------
\* No PDF above the configured maximum is sent whole, for all sizes.
THEOREM LimitRespected == Spec => []SizeLimitRespected
<1>1. SubmissionInv => SizeLimitRespected
  BY DEF SubmissionInv, InLimits, SizeLimitRespected
<1> QED
  BY <1>1, Reachable, PTL

\* A PDF that Azure refused is cut up and never sent whole again.
THEOREM RefusedIsCut == Spec => []RefusedPdfIsCut
<1>1. SubmissionInv => RefusedPdfIsCut
  BY DEF SubmissionInv, InLimits, RefusedPdfIsCut
<1> QED
  BY <1>1, Reachable, PTL

\* What is posted before a document is cut up or given up, for every number of
\* retries, and the only ways to be given up without being cut.
THEOREM NothingGivenUpEarly == Spec => []GivenUpLast
<1>1. SubmissionInv => GivenUpLast
  BY DEF SubmissionInv, GivenUpInv
<1> QED
  BY <1>1, Reachable, PTL

-----------------------------------------------------------------------------
(* Posts, back-offs and progress.                                          *)

\* The POSTs that a document has had when it is where it is: those for its first
\* form, once it is converted, and one for each attempt of the submission under
\* way.  A submission that has not begun has had no attempt.
EarlierPosts == IF stage = "office_retry" THEN MaxRetries + 1 ELSE 0
PostsUnderWay == IF pc = "call" THEN attempt + 1
                 ELSE IF pc \in {"chunks", "done"} \/ stage = "pdf_retry"
                   THEN MaxRetries + 1
                 ELSE 0
Paid ==
  /\ posts <= EarlierPosts + PostsUnderWay
  /\ attempt > 0 => delay \in 1 .. 8

\* At each point the progress reported is at most what is reported next.
Reported ==
  /\ pc = "prepare"  => percent <= StartPercent[stage]
  /\ pc = "optimize" => percent <= DonePercent[stage]
  /\ pc \in {"submit", "call"} => percent <= SubmitPercent[stage]
  /\ pc = "convert"  => percent <= 50
  /\ percent <= 78

Typed == /\ AzureTypeOK /\ delay \in Nat /\ percent \in 0 .. 100
         /\ outcome \in Answers \union LocalErrors \union {"none"}
CostInv == Typed /\ Paid /\ Reported

\* A new document has cost nothing.
LEMMA CostInit == Init => CostInv
<1>1. \A m \in Nat : 0 \in 0 .. m
  OBVIOUS
<1> QED
  BY <1>1, SubmissionAssumption, PollAssumption
  DEF Init, AzureInit, CostInv, Typed, AzureTypeOK, Paid, EarlierPosts,
      PostsUnderWay, Reported, StartPercent

\* The delays are one to eight seconds.
LEMMA DelayCapped ==
  ASSUME NEW k \in Nat
  PROVE  retry_delay(k) \in 1 .. 8
BY DEF retry_delay

\* A call of the client posts only once, when it begins.
LEMMA AzureCosts ==
  ASSUME SubmissionInv, CostInv, AzureAnswers
  PROVE  CostInv' /\ UNCHANGED percent
<1> USE PollAssumption
    DEF CostInv, Typed, AzureTypeOK, Paid, EarlierPosts, PostsUnderWay, Reported,
        file, progress, Answers, ApiErrors
<1>1. /\ UNCHANGED <<file, pc, stage, attempt, delay, progress, outcome>>
      /\ AzureStep
  BY DEF AzureAnswers
<1>2. AzureTypeOK' /\ posts' = posts
  <2>1. CASE PostFails
    BY <2>1 DEF PostFails, Return
  <2>2. CASE Accepted
    BY <2>2 DEF Accepted
  <2>3. CASE StillRunning
    BY <2>3 DEF StillRunning, Poll
  <2>4. CASE PollAnswers
    BY <2>4 DEF PollAnswers, Poll, Return
  <2>5. CASE PollsExhausted
    BY <2>5 DEF PollsExhausted, Return
  <2> QED
    BY <1>1, <2>1, <2>2, <2>3, <2>4, <2>5 DEF AzureStep
<1> QED
  BY <1>1, <1>2

\* A submission begins with a POST, and so does each retry, after a delay.
LEMMA SubmitCosts ==
  ASSUME SubmissionInv, CostInv, Submit \/ Retry
  PROVE  CostInv' /\ percent <= percent'
<1> USE SubmissionAssumption, PollAssumption
    DEF CostInv, Typed, AzureTypeOK, Paid, EarlierPosts, PostsUnderWay, Reported,
        file, progress, SubmissionInv, Types, Begin, SubmitPercent
<1>1. CASE Submit
  <2>1. /\ call' = "posting" /\ polls' = 0 /\ answer' = "none" /\ posts' = posts + 1
        /\ pc = "submit" /\ pc' = "call" /\ percent' = SubmitPercent[stage]
        /\ UNCHANGED <<file, stage, attempt, delay, chunked, outcome>>
    BY <1>1 DEF Submit
  <2>2. /\ stage \in {"first", "office_retry"} /\ attempt = 0
        /\ percent <= percent' /\ percent' \in 0 .. 100
    BY <2>1 DEF InLimits, GivenUpInv, Tried
  <2>3. Typed' /\ Reported'
    BY <2>1, <2>2
  <2>4. Paid'
    BY <2>1, <2>2
  <2> QED BY <2>2, <2>3, <2>4
<1>2. CASE Retry
  <2>1. retry_delay(attempt) \in 1 .. 8
    BY DelayCapped
  <2>2. delay' \in 1 .. 8
    BY <1>2, <2>1 DEF Retry
  <2> HIDE DEF retry_delay
  <2> QED
    BY <1>2, <2>2 DEF Retry, Answered
<1> QED
  BY <1>1, <1>2

\* Preparation costs nothing, but reports its progress.
LEMMA ToolsReport ==
  ASSUME SubmissionInv, CostInv,
         \/ Prepare
         \/ \E new \in Sizes : Optimized(new) \/ Converted(new)
  PROVE  CostInv' /\ percent <= percent'
<1> USE SubmissionAssumption
    DEF CostInv, Typed, AzureTypeOK, Paid, EarlierPosts, PostsUnderWay, Reported,
        file, azure, progress, SubmissionInv, Types, InLimits, StartPercent,
        DonePercent, SubmitPercent, Answers, LocalErrors, Wrapped
<1>1. CASE Prepare
  <2>1. CASE PrepareAsIs(effective_threshold)
    BY <2>1 DEF PrepareAsIs
  <2>2. CASE PrepareOptimized(effective_threshold)
    BY <2>2 DEF PrepareOptimized
  <2> QED BY <1>1, <2>1, <2>2 DEF Prepare
<1>2. ASSUME NEW new \in Sizes, Optimized(new)
      PROVE  CostInv' /\ percent <= percent'
  BY <1>2 DEF Optimized, Fail
<1>3. ASSUME NEW new \in Sizes, Converted(new)
      PROVE  CostInv' /\ percent <= percent'
  BY <1>3 DEF Converted
<1> QED
  BY <1>1, <1>2, <1>3

\* The end of a document, or of a submission that is recovered from.
LEMMA RecoveryCosts ==
  ASSUME SubmissionInv, CostInv,
         \/ LocalFailure \/ Succeed \/ Refused \/ RateLimitedForGood
         \/ NotRecoverable \/ RecoverByChunks \/ RecoverPdf \/ RecoverDoc
         \/ \E result \in ChunkErrors : Chunks(result)
         \/ \E new \in 65 .. 78 : ChunkProgress(new)
  PROVE  CostInv' /\ percent <= percent'
<1> USE SubmissionAssumption
    DEF CostInv, Typed, AzureTypeOK, Paid, EarlierPosts, PostsUnderWay, Reported,
        file, azure, progress, SubmissionInv, Types, StartPercent, SubmitPercent,
        Answers, ApiErrors, LocalErrors, Fail, Answered
<1>1. CASE LocalFailure
  BY <1>1 DEF LocalFailure, Wrapped
<1>2. CASE Succeed \/ Refused \/ RateLimitedForGood \/ NotRecoverable
  BY <1>2 DEF Succeed, Refused, RateLimitedForGood, NotRecoverable, TooLarge
<1>3. CASE RecoverByChunks
  BY <1>3 DEF RecoverByChunks, Recover
<1>4. CASE RecoverPdf
  BY <1>4 DEF RecoverPdf, Recover
<1>5. CASE RecoverDoc
  BY <1>5 DEF RecoverDoc, Recover
<1>6. ASSUME NEW result \in ChunkErrors, Chunks(result)
      PROVE  CostInv' /\ percent <= percent'
  BY <1>6 DEF Chunks, ChunkErrors
<1>7. ASSUME NEW new \in 65 .. 78, ChunkProgress(new)
      PROVE  CostInv' /\ percent <= percent'
  BY <1>7 DEF ChunkProgress
<1> QED
  BY <1>1, <1>2, <1>3, <1>4, <1>5, <1>6, <1>7

\* Every step keeps the accounts and does not take progress back.
LEMMA CostStep ==
  SubmissionInv /\ CostInv /\ [Next]_vars =>
    CostInv' /\ [percent <= percent']_vars
<1> SUFFICES ASSUME SubmissionInv, CostInv, [Next]_vars
             PROVE  CostInv' /\ percent <= percent'
  OBVIOUS
<1>1. CASE UNCHANGED vars
  BY <1>1 DEF vars, azure, file, progress, CostInv, Typed, AzureTypeOK, Paid,
     EarlierPosts, PostsUnderWay, Reported
<1> QED
  BY <1>1, AzureCosts, SubmitCosts, ToolsReport, RecoveryCosts
  DEF Next, Done, CostInv, Typed

LEMMA CostReachable == Spec => [](SubmissionInv /\ CostInv)
BY Reachable, CostInit, CostStep, PTL DEF Spec

LEMMA CostsKnown == SubmissionInv /\ CostInv => PostsBounded
<1> SUFFICES ASSUME SubmissionInv, CostInv PROVE PostsBounded
  OBVIOUS
<1>1. TypeOK
  BY DEF SubmissionInv, Types, CostInv, Typed, TypeOK
<1>2. posts <= (MaxRetries + 1) * forms
  BY SubmissionAssumption
  DEF SubmissionInv, Types, CostInv, Paid, EarlierPosts, PostsUnderWay, forms
<1> QED
  BY <1>1, <1>2 DEF CostInv, Paid, PostsBounded

\* However often Azure limits the rate, the POSTs of a document are bounded, for
\* every number of retries, and each back-off takes one to eight seconds
\* (submission.rs:112, rate_limit.rs:7); with type correctness.  The sleeps between
\* polls are not part of it.
THEOREM CostBounded == Spec => []PostsBounded
BY CostsKnown, CostReachable, PTL

\* No step takes the progress back, whichever recovery is taken
\* (submission.rs:206).
THEOREM ProgressNeverBack == Spec => ProgressMonotone
<1>1. SubmissionInv /\ CostInv /\ [Next]_vars => [percent <= percent']_vars
  BY CostStep
<1> QED
  BY <1>1, CostReachable, PTL DEF Spec, ProgressMonotone

-----------------------------------------------------------------------------
(* The steps that are left.                                                *)

\* An attempt takes at most StepsPerCall steps: the POST, what comes of it, the
\* polls, that they are used up, and what the worker makes of the answer.
StepsPerCall == MaxPolls + 3
StepsPerSubmission == (MaxRetries + 1) * StepsPerCall
CallLeft == CASE call = "posting" -> MaxPolls + 2
              [] call = "polling" -> MaxPolls - polls + 1
              [] call = "idle"    -> 0
\* A first form of the document may be followed by a second one.  The progress
\* of the chunks goes through the percentages from 65 to 78.
StepsLeft ==
  CASE pc = "done"   -> 0
    [] pc = "chunks" -> IF percent < 65 THEN 15 ELSE 79 - percent
    [] OTHER -> (IF stage = "first" THEN StepsPerSubmission + 19 ELSE 0) +
                CASE pc = "call"     -> 16 + (MaxRetries - attempt) * StepsPerCall + CallLeft
                  [] pc = "submit"   -> 16 + StepsPerSubmission
                  [] pc = "optimize" -> 17 + StepsPerSubmission
                  [] pc = "prepare"  -> 18 + StepsPerSubmission
                  [] pc = "convert"  -> 19 + StepsPerSubmission
StepsBounded == StepsLeft \in 0 .. 2 * StepsPerSubmission + 37

\* The attempts that are left take as many steps each.
LEMMA AttemptSteps ==
  ASSUME NEW k \in 0 .. MaxRetries
  PROVE  /\ StepsPerCall \in Nat /\ StepsPerSubmission \in Nat
         /\ (MaxRetries - k) * StepsPerCall \in Nat
         /\ (MaxRetries - k) * StepsPerCall + StepsPerCall <= StepsPerSubmission
         /\ k < MaxRetries =>
              (MaxRetries - k) * StepsPerCall
                = (MaxRetries - (k + 1)) * StepsPerCall + StepsPerCall
<1>1. StepsPerCall \in Nat
  BY PollAssumption DEF StepsPerCall
<1> DEFINE S == StepsPerCall
           j == MaxRetries - k
<1>2. MaxRetries \in Nat /\ k \in Nat /\ j \in Nat /\ j + k = MaxRetries
  BY SubmissionAssumption
<1>3. StepsPerSubmission = j * S + k * S + S
  BY <1>1, <1>2 DEF StepsPerSubmission
<1>4. j * S \in Nat /\ k * S \in Nat
  BY <1>1, <1>2
<1>5. ASSUME k < MaxRetries
      PROVE  (MaxRetries - k) * S = (MaxRetries - (k + 1)) * S + S
  <2>1. MaxRetries - (k + 1) \in Nat /\ j = (MaxRetries - (k + 1)) + 1
    BY <1>2, <1>5
  <2> QED BY <1>1, <2>1
<1> QED BY <1>1, <1>3, <1>4, <1>5

\* The steps that are left are a number.
LEMMA StepsAreBounded ==
  ASSUME SubmissionInv, CostInv
  PROVE  StepsBounded
<1> DEFINE j == (MaxRetries - attempt) * StepsPerCall
<1>1. /\ StepsPerSubmission \in Nat /\ j \in Nat /\ j + StepsPerCall <= StepsPerSubmission
      /\ StepsPerCall = MaxPolls + 3 /\ StepsPerCall \in Nat
  BY AttemptSteps DEF SubmissionInv, Types, StepsPerCall
<1>2. CallLeft \in Nat /\ CallLeft < StepsPerCall
  BY <1>1, PollAssumption DEF CallLeft, CostInv, Typed, AzureTypeOK
<1>3. /\ pc \in {"prepare", "optimize", "convert", "submit", "call", "chunks", "done"}
      /\ percent \in Nat /\ percent <= 78
  BY DEF SubmissionInv, Types, CostInv, Typed, Reported
<1> HIDE DEF j
<1> DEFINE extra == IF stage = "first" THEN StepsPerSubmission + 19 ELSE 0
<1>4. extra \in 0 .. StepsPerSubmission + 19
  BY <1>1
<1>5. CASE pc \in {"done", "chunks"}
  BY <1>1, <1>3, <1>5 DEF StepsBounded, StepsLeft
<1>6. CASE pc = "call"
  <2>1. StepsLeft = extra + (16 + j + CallLeft)
    BY <1>6 DEF StepsLeft, j
  <2> HIDE DEF extra
  <2> QED BY <1>1, <1>2, <1>4, <2>1 DEF StepsBounded
<1>7. CASE pc \in {"prepare", "optimize", "convert", "submit"}
  <2>1. \E k \in 16 .. 19 : /\ StepsLeft = extra + (k + StepsPerSubmission)
                            /\ k = 19 => extra = 0
    BY <1>7 DEF StepsLeft, SubmissionInv, InLimits
  <2> HIDE DEF extra
  <2> QED BY <1>1, <1>4, <2>1 DEF StepsBounded
<1> QED BY <1>3, <1>5, <1>6, <1>7

\* While a call is under way the polls run out.
LEMMA CallSteps ==
  ASSUME SubmissionInv, CostInv, AzureAnswers
  PROVE  StepsLeft' < StepsLeft
<1> DEFINE j == (MaxRetries - attempt) * StepsPerCall
           extra == IF stage = "first" THEN StepsPerSubmission + 19 ELSE 0
<1>1. j \in Nat /\ extra \in Nat
  BY AttemptSteps DEF SubmissionInv, Types
<1>2. UNCHANGED <<pc, stage, attempt>> /\ pc = "call" /\ AzureStep
  BY DEF AzureAnswers
<1>3. StepsLeft = extra + (16 + j + CallLeft) /\ StepsLeft' = extra + (16 + j + CallLeft')
  BY <1>2 DEF StepsLeft
<1>4. CallLeft \in Nat /\ CallLeft' \in Nat /\ CallLeft' < CallLeft
  <2> USE PollAssumption DEF CallLeft, CostInv, Typed, AzureTypeOK
  <2>1. CASE PostFails
    BY <2>1 DEF PostFails, Return
  <2>2. CASE Accepted
    BY <2>2 DEF Accepted
  <2>3. CASE StillRunning
    BY <2>3 DEF StillRunning, Poll
  <2>4. CASE PollAnswers
    BY <2>4 DEF PollAnswers, Poll, Return
  <2>5. CASE PollsExhausted
    BY <2>5 DEF PollsExhausted, Return
  <2> QED BY <1>2, <2>1, <2>2, <2>3, <2>4, <2>5 DEF AzureStep
<1>5. \A a, b, x, y \in Nat : y < x => a + (16 + b + y) < a + (16 + b + x)
  OBVIOUS
<1> HIDE DEF j, extra
<1> QED BY <1>1, <1>3, <1>4, <1>5

\* A submission begins with all its attempts before it, a retry with one less.
LEMMA SubmitSteps ==
  ASSUME SubmissionInv, CostInv, Submit \/ Retry
  PROVE  StepsLeft' < StepsLeft
<1> DEFINE j == (MaxRetries - attempt) * StepsPerCall
           extra == IF stage = "first" THEN StepsPerSubmission + 19 ELSE 0
<1>1. /\ j \in Nat /\ extra \in Nat /\ StepsPerSubmission \in Nat
      /\ j + StepsPerCall <= StepsPerSubmission
      /\ StepsPerCall = MaxPolls + 3 /\ MaxPolls \in Nat
  BY AttemptSteps, PollAssumption DEF SubmissionInv, Types, StepsPerCall
<1>2. CallLeft' = MaxPolls + 2 /\ stage' = stage /\ pc' = "call"
  BY DEF Submit, Retry, Answered, Begin, CallLeft
<1>3. CASE Submit
  <2>1. StepsLeft = extra + (16 + StepsPerSubmission) /\ attempt' = attempt
    BY <1>3 DEF StepsLeft, Submit
  <2>2. StepsLeft' = extra + (16 + j + (MaxPolls + 2))
    BY <1>2, <2>1 DEF StepsLeft
  <2> HIDE DEF j, extra
  <2> QED BY <1>1, <2>1, <2>2
<1>4. CASE Retry
  <2> DEFINE i == (MaxRetries - (attempt + 1)) * StepsPerCall
  <2>1. /\ StepsLeft = extra + (16 + j + 0)
        /\ attempt' = attempt + 1 /\ attempt < MaxRetries
    BY <1>4 DEF StepsLeft, Retry, Answered, CallLeft
  <2>2. StepsLeft' = extra + (16 + i + (MaxPolls + 2))
    BY <1>2, <2>1 DEF StepsLeft
  <2>3. i \in Nat /\ j = i + StepsPerCall
    <3>1. attempt + 1 \in 0 .. MaxRetries
      BY <2>1, SubmissionAssumption DEF SubmissionInv, Types
    <3> QED BY <2>1, <3>1, AttemptSteps DEF SubmissionInv, Types
  <2> HIDE DEF i, j, extra
  <2> QED BY <1>1, <2>1, <2>2, <2>3
<1> QED BY <1>3, <1>4

\* The tools are used once for each form of the document.
LEMMA ToolSteps ==
  ASSUME SubmissionInv, CostInv,
         \/ Prepare
         \/ \E new \in Sizes : Optimized(new) \/ Converted(new)
  PROVE  StepsLeft' < StepsLeft
<1> DEFINE S == StepsPerSubmission
           extra == IF stage = "first" THEN S + 19 ELSE 0
<1>1. S \in Nat /\ extra \in Nat
  BY AttemptSteps DEF SubmissionInv, Types
<1>2. stage' = stage
  BY DEF Prepare, PrepareAsIs, PrepareOptimized, Optimized, Converted
<1>3. CASE Prepare
  <2>1. /\ StepsLeft = extra + (18 + S)
        /\ \/ pc' \in {"submit", "optimize"}
           \/ pc' = "chunks" /\ percent' = percent
    BY <1>3 DEF Prepare, PrepareAsIs, PrepareOptimized, StepsLeft, progress
  <2>2. pc' = "chunks" => StepsLeft' \in 0 .. 15
    BY <2>1 DEF StepsLeft, CostInv, Typed, Reported
  <2>3. pc' \in {"submit", "optimize"} => StepsLeft' \in {extra + (16 + S), extra + (17 + S)}
    BY <1>2 DEF StepsLeft
  <2> HIDE DEF S, extra
  <2> QED BY <1>1, <2>1, <2>2, <2>3
<1>4. ASSUME NEW new \in Sizes, Optimized(new)
      PROVE  StepsLeft' < StepsLeft
  <2>1. StepsLeft = extra + (17 + S) /\ pc' \in {"submit", "done"}
    BY <1>4 DEF Optimized, Fail, StepsLeft
  <2>2. StepsLeft' \in {0, extra + (16 + S)}
    BY <1>2, <2>1 DEF StepsLeft
  <2> HIDE DEF S, extra
  <2> QED BY <1>1, <2>1, <2>2
<1>5. ASSUME NEW new \in Sizes, Converted(new)
      PROVE  StepsLeft' < StepsLeft
  <2>1. StepsLeft = extra + (19 + S) /\ StepsLeft' = extra + (18 + S)
    BY <1>2, <1>5 DEF Converted, StepsLeft
  <2> HIDE DEF S, extra
  <2> QED BY <1>1, <2>1
<1> QED BY <1>3, <1>4, <1>5

\* An answer ends the document or leads to another form of it, and a document is
\* recovered at most once before it is cut up.
LEMMA RecoverySteps ==
  ASSUME SubmissionInv, CostInv,
         \/ LocalFailure \/ Succeed \/ Refused \/ RateLimitedForGood
         \/ NotRecoverable \/ RecoverByChunks \/ RecoverPdf \/ RecoverDoc
  PROVE  StepsLeft' < StepsLeft
<1> DEFINE S == StepsPerSubmission
           j == (MaxRetries - attempt) * StepsPerCall
           extra == IF stage = "first" THEN S + 19 ELSE 0
<1>1. S \in Nat /\ extra \in Nat /\ j \in Nat
  BY AttemptSteps DEF SubmissionInv, Types
<1>2. CallLeft \in Nat
  BY PollAssumption DEF CallLeft, CostInv, Typed, AzureTypeOK
<1>3. \/ pc = "call" /\ StepsLeft = extra + (16 + j + CallLeft)
      \/ \E k \in {17, 18, 19} : StepsLeft = extra + (k + S)
  BY DEF LocalFailure, Fail, Succeed, Refused, RateLimitedForGood, NotRecoverable,
         TooLarge, RecoverByChunks, RecoverPdf, RecoverDoc, Recover, Answered, StepsLeft
<1>4. CASE LocalFailure \/ Succeed \/ Refused \/ RateLimitedForGood \/ NotRecoverable
  <2>1. StepsLeft' = 0
    BY <1>4 DEF LocalFailure, Fail, Succeed, Refused, RateLimitedForGood,
       NotRecoverable, TooLarge, StepsLeft
  <2> HIDE DEF S, j, extra
  <2> QED BY <1>1, <1>2, <1>3, <2>1
<1>5. CASE RecoverByChunks
  <2>1. StepsLeft' \in 0 .. 15 /\ pc = "call"
    BY <1>5 DEF RecoverByChunks, Recover, Answered, progress, StepsLeft, CostInv,
       Typed, Reported
  <2>2. StepsLeft = extra + (16 + j + CallLeft)
    BY <1>3, <2>1 DEF StepsLeft
  <2> HIDE DEF S, j, extra
  <2> QED BY <1>1, <1>2, <2>1, <2>2
<1>6. CASE RecoverPdf \/ RecoverDoc
  <2>1. /\ pc = "call" /\ stage = "first" /\ stage' # "first"
        /\ pc' \in {"prepare", "convert"}
    BY <1>6 DEF RecoverPdf, RecoverDoc, Recover, Answered
  <2>2. StepsLeft = (S + 19) + (16 + j + CallLeft)
    BY <2>1 DEF StepsLeft
  <2>3. StepsLeft' \in {0 + (18 + S), 0 + (19 + S)}
    BY <2>1 DEF StepsLeft
  <2> HIDE DEF S, j
  <2> QED BY <1>1, <1>2, <2>2, <2>3
<1> QED BY <1>4, <1>5, <1>6

\* Cutting up reports progress or ends.
LEMMA ChunkSteps ==
  ASSUME SubmissionInv, CostInv,
         \/ \E result \in ChunkErrors : Chunks(result)
         \/ \E new \in 65 .. 78 : ChunkProgress(new) /\ new # percent
  PROVE  StepsLeft' < StepsLeft
<1> USE DEF CostInv, Typed, Reported, StepsLeft
<1>1. ASSUME NEW result \in ChunkErrors, Chunks(result)
      PROVE  StepsLeft' < StepsLeft
  BY <1>1 DEF Chunks
<1>2. ASSUME NEW new \in 65 .. 78, ChunkProgress(new), new # percent
      PROVE  StepsLeft' < StepsLeft
  BY <1>2 DEF ChunkProgress
<1> QED BY <1>1, <1>2

LEMMA EveryStepCounts ==
  SubmissionInv /\ CostInv /\ [Next]_vars => [StepsLeft' < StepsLeft]_vars
<1> SUFFICES ASSUME SubmissionInv, CostInv, Next, vars' # vars
             PROVE  StepsLeft' < StepsLeft
  OBVIOUS
<1>1. ASSUME NEW new \in 65 .. 78, ChunkProgress(new) PROVE new # percent
  BY <1>1 DEF ChunkProgress, vars, azure, file, progress
<1>2. ~ Done
  BY DEF Done
<1> QED BY <1>1, <1>2, CallSteps, SubmitSteps, ToolSteps, RecoverySteps, ChunkSteps
        DEF Next

\* Whatever Azure answers, a document is done within the steps counted here: no
\* sequence of recoveries and retries goes round in a circle.  That the worker
\* takes these steps is what Terminates adds to it.
THEOREM EndsInBoundedSteps ==
  Spec => [] StepsBounded /\ [][StepsLeft' < StepsLeft]_vars
<1>1. SubmissionInv /\ CostInv => StepsBounded
  BY StepsAreBounded
<1>2. SubmissionInv /\ CostInv /\ [Next]_vars => [StepsLeft' < StepsLeft]_vars
  BY EveryStepCounts
<1> QED BY <1>1, <1>2, CostReachable, PTL DEF Spec

\* What the worker can do with an answer: of each branch of
\* submit_prepared_document_with_retries and retry_after_invalid_content_length
\* the condition (Succeed, Refused; Retry, RateLimitedForGood; NotRecoverable,
\* RecoverByChunks, RecoverPdf, RecoverDoc).
Taken ==
  \/ answer \in Answers \ {"too_large", "rate_limited"}
  \/ answer = "rate_limited" /\ (attempt < MaxRetries \/ attempt = MaxRetries)
  \/ /\ answer = "too_large"
     /\ \/ stage = "first" /\ kind = "other"
        \/ (kind = "pdf" /\ optimized) \/ stage # "first"
        \/ stage = "first" /\ kind = "pdf" /\ ~optimized
        \/ stage = "first" /\ kind = "doc"
\* The document can go on, in the hands of the tools, of Azure or of the worker.
GoesOn ==
  \/ pc \in {"prepare", "optimize", "convert", "submit", "chunks"}
  \/ /\ pc = "call"
     /\ \/ call = "posting"
        \/ call = "polling" /\ (polls < MaxPolls \/ polls = MaxPolls)
        \/ call = "idle" /\ Taken
Returned == pc = "call" /\ call = "idle" => answer # "none"

\* No answer, at any stage and of any kind of document, is without a branch that
\* takes it (submission.rs:112-137, 139-222).
THEOREM EveryAnswerTaken == Spec => [](pc # "done" => GoesOn)
<1>1. Init => Returned
  BY DEF Init, Returned
<1>2. Returned /\ [Next]_vars => Returned'
  <2> SUFFICES ASSUME Returned, [Next]_vars, pc' = "call", call' = "idle"
               PROVE  answer' # "none"
    BY DEF Returned
  <2>1. CASE Submit \/ Retry
    BY <2>1 DEF Submit, Retry, Begin
  <2>2. CASE AzureAnswers
    BY <2>2 DEF AzureAnswers, AzureStep, PostFails, Accepted, StillRunning, Poll,
       PollAnswers, PollsExhausted, Return, Answers, ApiErrors
  <2>3. CASE UNCHANGED <<pc, azure>>
    BY <2>3 DEF Returned, azure
  <2>4. CASE \/ Prepare \/ LocalFailure \/ Succeed \/ Refused \/ RateLimitedForGood
             \/ NotRecoverable \/ RecoverByChunks \/ RecoverPdf \/ RecoverDoc
             \/ (\E new \in Sizes : Optimized(new) \/ Converted(new))
             \/ (\E r \in ChunkErrors : Chunks(r))
    BY <2>4 DEF Prepare, PrepareAsIs, PrepareOptimized, LocalFailure, Fail, Succeed,
       Refused, RateLimitedForGood, NotRecoverable, TooLarge, RecoverByChunks,
       RecoverPdf, RecoverDoc, Optimized, Converted, Chunks
  <2> QED BY <2>1, <2>2, <2>3, <2>4 DEF Next, ChunkProgress, Done, vars
<1>3. SubmissionInv /\ CostInv /\ Returned => (pc # "done" => GoesOn)
  BY PollAssumption, SubmissionAssumption
     DEF SubmissionInv, Types, CostInv, Typed, AzureTypeOK, Returned, GoesOn, Taken
<1> QED BY <1>1, <1>2, <1>3, CostReachable, PTL DEF Spec
=============================================================================
