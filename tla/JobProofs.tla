------------------------------ MODULE JobProofs ------------------------------
(***************************************************************************)
(* What TLAPS proves of Job, for every number of workers and of attempts:  *)
(* its invariant, that an attempt stores the whole text of the source as   *)
(* it downloaded it and nothing else, that a finished attempt leaves no    *)
(* directory, and that the events keep the promises of JobContract.        *)
(***************************************************************************)
EXTENDS Job, TLAPS

USE DEF Contents, Attempts, Nothing, Partial, Points, Errors, Engines,
        shared, disk, events, Goto, Tell

-----------------------------------------------------------------------------
(* The invariant.                                                          *)

LEMMA InvInit == Init => JobInv
BY JobAssumption DEF Init, JobInv, TypeOK, OwnFiles, SuccessIsComplete

LEMMA InvStep ==
  ASSUME JobInv, NEW w \in Workers, Step(w)
  PROVE  JobInv'
<1> USE JobAssumption DEF JobInv, TypeOK, OwnFiles, SuccessIsComplete
<1>1. CASE Accept(w)
  BY <1>1 DEF Accept
<1>2. CASE CreateDir(w)
  BY <1>2 DEF CreateDir
<1>3. CASE CreateDirFails(w)
  BY <1>3 DEF CreateDirFails
<1>4. CASE StartDownload(w)
  BY <1>4 DEF StartDownload
<1>5. CASE Downloaded(w)
  BY <1>5 DEF Downloaded
<1>6. CASE DownloadFails(w)
  BY <1>6 DEF DownloadFails, Abandon
<1>7. CASE Analyzed(w)
  BY <1>7 DEF Analyzed, Extracted
<1>8. CASE Convert(w)
  BY <1>8 DEF Convert
<1>9. CASE ExtractionFails(w)
  <2>1. ASSUME NEW e \in {"upstream", "document"}, Abandon(w, "extract", e),
               UNCHANGED <<store, disk, stored>>
        PROVE  JobInv'
    BY <2>1 DEF Abandon
  <2>2. ASSUME Abandon(w, "converting", "document"),
               NEW d \in {document[w], Partial, input[w]},
               document' = [document EXCEPT ![w] = d],
               UNCHANGED <<store, dir, input, stored>>
        PROVE  JobInv'
    BY <2>2 DEF Abandon
  <2> QED  BY <1>9, <2>1, <2>2 DEF ExtractionFails
<1>10. CASE StartSave(w)
  BY <1>10 DEF StartSave
<1>11. CASE Saved(w)
  BY <1>11 DEF Saved
<1>12. CASE SaveFails(w)
  BY <1>12 DEF SaveFails, Abandon
<1>13. CASE ReadDocument(w)
  BY <1>13 DEF ReadDocument
<1>14. CASE Uploaded(w)
  BY <1>14 DEF Uploaded, Put
<1>15. CASE UploadFails(w)
  <2>1. ASSUME NEW from \in {"upload", "uploading"}, Abandon(w, from, "storage"),
               UNCHANGED <<store, stored, disk>>
        PROVE  JobInv'
    BY <2>1 DEF Abandon
  <2>2. ASSUME Abandon(w, "uploading", "storage"), Put(w), UNCHANGED disk
        PROVE  JobInv'
    BY <2>2 DEF Abandon, Put
  <2> QED  BY <1>15, <2>1, <2>2 DEF UploadFails
<1>16. CASE Measured(w)
  BY <1>16 DEF Measured
<1>17. CASE MeasureFails(w)
  BY <1>17 DEF MeasureFails, Abandon
<1>18. CASE Finalize(w)
  BY <1>18 DEF Finalize, Remove
<1>19. CASE FinalizeFails(w)
  BY <1>19 DEF FinalizeFails
<1>20. CASE ReportSuccess(w)
  BY <1>20 DEF ReportSuccess, Forget
<1>21. CASE ReportFailure(w)
  BY <1>21 DEF ReportFailure, Forget, Classify
<1>22. ASSUME NEW p \in Milestones, AnalyzeProgress(w, p)
       PROVE  JobInv'
  BY <1>22 DEF AnalyzeProgress
<1>23. CASE MarkItDownExits(w)
  BY <1>23 DEF MarkItDownExits, Extracted
<1>24. CASE Crash(w)
  BY <1>24 DEF Crash, Forget
<1> QED
  BY <1>1, <1>2, <1>3, <1>4, <1>5, <1>6, <1>7, <1>8, <1>9, <1>10, <1>11,
     <1>12, <1>13, <1>14, <1>15, <1>16, <1>17, <1>18, <1>19, <1>20, <1>21,
     <1>22, <1>23, <1>24
  DEF Step, Work

\* The invariant of Job: files and texts are the attempt's own, nothing that was
\* written in part is stored, a success has its artifact (job.rs:80-128).
THEOREM JobInvariant == Spec => []JobInv
<1>1. JobInv /\ [Next]_vars => JobInv'
  <2>1. ASSUME JobInv, UNCHANGED vars PROVE JobInv'
    BY <2>1 DEF vars, JobInv, TypeOK, OwnFiles, SuccessIsComplete
  <2> QED  BY <2>1, InvStep DEF Next, Quiet
<1> QED  BY InvInit, <1>1, PTL DEF Spec

\* A stored text is never partial, and a success reports the size of the text of
\* its own attempt.
THEOREM CompleteOnSuccess == Spec => []SuccessIsComplete
<1>1. JobInv => SuccessIsComplete
  BY DEF JobInv
<1> QED BY <1>1, JobInvariant, PTL

-----------------------------------------------------------------------------
(* What is stored.                                                         *)

\* Only the two steps that put the object store anything.
LEMMA StoreStep ==
  ASSUME JobInv, NEW w \in Workers, Step(w), NEW v \in Workers,
         stored[v] # stored'[v], stored'[v]
  PROVE  store' = attempt[v]
<1> USE DEF JobInv
<1>0. ASSUME pc[w] = "uploading", Put(w)
      PROVE  store' = attempt[v]
  <2>1. v = w
    <3>1. stored \in [Workers -> BOOLEAN]
      BY DEF TypeOK
    <3> QED BY <1>0, <3>1, Zenon DEF Put
  <2>2. store' = text[w]
    BY <1>0 DEF Put
  <2> QED  BY <1>0, <2>1, <2>2 DEF OwnFiles
<1>1. CASE Uploaded(w)
  BY <1>0, <1>1 DEF Uploaded
<1>2. CASE UploadFails(w)
  BY <1>0, <1>2 DEF UploadFails, Abandon
<1>3. CASE Accept(w)
  <2>1. stored' = [stored EXCEPT ![w] = FALSE] /\ stored \in [Workers -> BOOLEAN]
    BY <1>3 DEF Accept, TypeOK
  <2> QED BY <2>1, Zenon
<1>4. CASE UNCHANGED stored
  BY <1>4
<1> QED
  BY <1>1, <1>2, <1>3, <1>4
  DEF Step, Work, CreateDir, CreateDirFails, StartDownload, Downloaded,
      DownloadFails, Analyzed, Convert, ExtractionFails, Extracted, StartSave,
      Saved, SaveFails, ReadDocument, Measured, MeasureFails, Finalize,
      FinalizeFails, ReportSuccess, ReportFailure, Forget, AnalyzeProgress,
      MarkItDownExits, Crash

\* What an attempt stores is the whole text of the source as the attempt itself
\* downloaded it (job.rs:95-112).
THEOREM OwnTextStored == Spec => StoresOwnText
<1>1. JobInv /\ [Next]_vars =>
        [\A w \in Workers : stored[w] # stored'[w] /\ stored'[w] =>
           store' = attempt[w]]_vars
  BY StoreStep DEF Next, Quiet, vars
<1> QED BY <1>1, JobInvariant, PTL DEF Spec, StoresOwnText

\* Once an attempt has stored its text there is a complete text in the storage,
\* and no step of any attempt takes it away.
StoredStays == \A w \in Workers :
                 stored[w] \/ verdict[w] = "success" => store \in Attempts

LEMMA StoredStaysStep ==
  ASSUME JobInv, StoredStays, NEW w \in Workers, Step(w)
  PROVE  StoredStays' /\ (store \in Attempts => store' \in Attempts)
<1> USE DEF JobInv, TypeOK, StoredStays
<1>0. ASSUME pc[w] = "uploading", Put(w)
      PROVE  store' \in Attempts
  BY <1>0 DEF Put, OwnFiles
<1>1. CASE Uploaded(w)
  BY <1>0, <1>1 DEF Uploaded
<1>2. CASE UploadFails(w)
  BY <1>0, <1>2 DEF UploadFails, Abandon
<1>3. CASE Accept(w)
  BY <1>3 DEF Accept
<1>4. CASE ReportSuccess(w)
  BY <1>4 DEF ReportSuccess, Forget
<1>5. CASE ReportFailure(w)
  BY <1>5 DEF ReportFailure, Forget, Classify
<1>6. CASE UNCHANGED <<store, stored, verdict>>
  BY <1>6
<1> QED
  BY <1>1, <1>2, <1>3, <1>4, <1>5, <1>6
  DEF Step, Work, CreateDir, CreateDirFails, StartDownload, Downloaded,
      DownloadFails, Abandon, Analyzed, Convert, ExtractionFails, Extracted,
      StartSave, Saved, SaveFails, ReadDocument, Measured, MeasureFails,
      Finalize, FinalizeFails, Forget, AnalyzeProgress, MarkItDownExits, Crash

-----------------------------------------------------------------------------
(* The directory.                                                          *)

Tidy == \A w \in Workers :
          pc[w] = "report" \/ verdict[w] # "none" => (dir[w] => stuck[w])

LEMMA TidyStep ==
  ASSUME JobInv, Tidy, NEW w \in Workers, Step(w)
  PROVE  Tidy'
<1> USE DEF JobInv, TypeOK, Tidy
<1>1. CASE Accept(w)
  BY <1>1 DEF Accept
<1>2. CASE CreateDir(w) \/ CreateDirFails(w)
  BY <1>2 DEF CreateDir, CreateDirFails
<1>3. CASE StartDownload(w) \/ Downloaded(w) \/ DownloadFails(w)
  BY <1>3 DEF StartDownload, Downloaded, DownloadFails, Abandon
<1>4. CASE \/ Analyzed(w) \/ Convert(w) \/ MarkItDownExits(w)
           \/ \E p \in Milestones : AnalyzeProgress(w, p)
  BY <1>4 DEF Analyzed, Convert, MarkItDownExits, Extracted, AnalyzeProgress
<1>5. CASE ExtractionFails(w)
  BY <1>5 DEF ExtractionFails, Abandon
<1>6. CASE StartSave(w) \/ Saved(w) \/ SaveFails(w)
  BY <1>6 DEF StartSave, Saved, SaveFails, Abandon
<1>7. CASE ReadDocument(w) \/ Uploaded(w) \/ UploadFails(w)
  BY <1>7 DEF ReadDocument, Uploaded, UploadFails, Abandon, Put
<1>8. CASE Measured(w) \/ MeasureFails(w)
  BY <1>8 DEF Measured, MeasureFails, Abandon
<1>9. CASE Finalize(w) \/ FinalizeFails(w)
  BY <1>9 DEF Finalize, FinalizeFails, Remove
<1>10. CASE ReportSuccess(w) \/ ReportFailure(w)
  BY <1>10 DEF ReportSuccess, ReportFailure, Forget
<1>11. CASE Crash(w)
  BY <1>11 DEF Crash, Forget
<1> QED
  BY <1>1, <1>2, <1>3, <1>4, <1>5, <1>6, <1>7, <1>8, <1>9, <1>10, <1>11
  DEF Step, Work

\* An attempt that reaches its verdict leaves no directory, unless the directory
\* could not be created or removed (job.rs:74-77, 116-128).
THEOREM DirectoryRemoved == Spec => []NothingLeftBehind
<1>1. Init => Tidy
  BY DEF Init, Tidy
<1>2. JobInv /\ Tidy /\ [Next]_vars => Tidy'
  BY TidyStep DEF Next, Quiet, vars, Tidy
<1>3. Tidy => NothingLeftBehind
  BY DEF Tidy, NothingLeftBehind
<1> QED BY <1>1, <1>2, <1>3, JobInvariant, PTL DEF Spec

-----------------------------------------------------------------------------
(* Job implements JobContract.                                             *)

\* What the attempt has reported when it has got to a certain point.
Announced ==
  \A w \in Workers :
    /\ pc[w] = "accepted" => percent[w] = 0 /\ ~stored[w]
    /\ pc[w] \in {"download", "downloading"} => percent[w] = 10
    /\ pc[w] = "extract" =>
         percent[w] \in IF request.engine = "azure" THEN 10 .. 78 ELSE {10}
    /\ pc[w] = "converting" => percent[w] = 30
    /\ pc[w] \in {"save", "saving"} => percent[w] = 80
    /\ pc[w] \in {"upload", "uploading", "measure"} => percent[w] = 90
    /\ pc[w] \in {"download", "downloading", "extract", "converting", "save",
                   "saving", "upload", "uploading"} => ~stored[w]
    /\ outcome[w] = "upstream" => ~stored[w]

LEMMA AnnouncedStep ==
  ASSUME JobInv, Announced, NEW w \in Workers, Step(w)
  PROVE  Announced'
<1> USE JobAssumption DEF JobInv, TypeOK, Announced
<1>1. CASE Accept(w)
  BY <1>1 DEF Accept
<1>2. CASE CreateDir(w) \/ CreateDirFails(w)
  BY <1>2 DEF CreateDir, CreateDirFails
<1>3. CASE StartDownload(w) \/ Downloaded(w) \/ DownloadFails(w)
  BY <1>3 DEF StartDownload, Downloaded, DownloadFails, Abandon
<1>4. CASE Analyzed(w) \/ Convert(w) \/ MarkItDownExits(w)
  BY <1>4 DEF Analyzed, Convert, MarkItDownExits, Extracted
<1>5. ASSUME NEW p \in Milestones, AnalyzeProgress(w, p)
      PROVE  Announced'
  BY <1>5 DEF AnalyzeProgress
<1>6. CASE ExtractionFails(w)
  BY <1>6 DEF ExtractionFails, Abandon
<1>7. CASE StartSave(w) \/ Saved(w) \/ SaveFails(w)
  BY <1>7 DEF StartSave, Saved, SaveFails, Abandon
<1>8. CASE ReadDocument(w) \/ Uploaded(w) \/ UploadFails(w)
  BY <1>8 DEF ReadDocument, Uploaded, UploadFails, Abandon, Put
<1>9. CASE Measured(w) \/ MeasureFails(w)
  BY <1>9 DEF Measured, MeasureFails, Abandon
<1>10. CASE Finalize(w) \/ FinalizeFails(w)
  BY <1>10 DEF Finalize, FinalizeFails
<1>11. CASE ReportSuccess(w) \/ ReportFailure(w)
  BY <1>11 DEF ReportSuccess, ReportFailure, Forget
<1>12. CASE Crash(w)
  BY <1>12 DEF Crash, Forget
<1> QED
  BY <1>1, <1>2, <1>3, <1>4, <1>5, <1>6, <1>7, <1>8, <1>9, <1>10, <1>11, <1>12
  DEF Step, Work

\* The steps of an attempt, as the contract sees them: it goes on and says
\* nothing, or reports, or stores its artifact.
Moves(w, to) == pc[w] # "idle" /\ pc' = [pc EXCEPT ![w] = to]
Silent(w, to) == Moves(w, to) /\ UNCHANGED <<percent, verdict, stored>>
Reports(w, p, to) == /\ Moves(w, to)
                     /\ percent[w] <= p /\ p <= 90 /\ Tell(w, p)
                     /\ UNCHANGED stored
Stores(w, to) == /\ Moves(w, to)
                 /\ percent[w] = 90 /\ UNCHANGED <<percent, verdict>>
                 /\ stored' = [stored EXCEPT ![w] = TRUE]

LEMMA PhaseMoves ==
  ASSUME TypeOK, NEW w \in Workers, NEW to \in Points, Moves(w, to)
  PROVE  /\ Phase[w] = "running"
         /\ to # "idle" => UNCHANGED Phase
         /\ to = "idle" => Phase' = [Phase EXCEPT ![w] = "idle"]
BY DEF TypeOK, Moves, Phase

LEMMA SilentStep ==
  ASSUME TypeOK, NEW w \in Workers, NEW to \in Points \ {"idle"}, Silent(w, to)
  PROVE  UNCHANGED <<Phase, percent, stored, verdict>>
BY PhaseMoves DEF Silent

LEMMA ReportStep ==
  ASSUME TypeOK, NEW w \in Workers, NEW to \in Points \ {"idle"}, NEW p \in Nat,
         Reports(w, p, to)
  PROVE  Contract!Report(w)
<1>1. Phase[w] = "running" /\ UNCHANGED Phase
  BY PhaseMoves DEF Reports
<1>2. p \in percent[w] .. 90
  BY DEF TypeOK, Reports
<1> QED
  BY <1>1, <1>2 DEF Reports, Contract!Report

LEMMA PutStep ==
  ASSUME TypeOK, NEW w \in Workers, NEW to \in Points \ {"idle"}, Stores(w, to)
  PROVE  Contract!Store(w)
BY PhaseMoves DEF Stores, Contract!Store

\* Every step of an attempt is one step of the contract, or says nothing.
LEMMA ContractStep ==
  ASSUME JobInv, Announced, NEW w \in Workers, Step(w)
  PROVE  \/ Contract!Next
         \/ UNCHANGED <<Phase, percent, stored, verdict>>
<1> DEFINE silent == UNCHANGED <<Phase, percent, stored, verdict>>
<1>0. TypeOK
  BY DEF JobInv
<1> SUFFICES \/ Contract!Accept(w) \/ Contract!Report(w) \/ Contract!Store(w)
             \/ Contract!Succeed(w) \/ Contract!GiveUp(w)
             \/ Contract!AskForRetry(w) \/ Contract!Die(w)
             \/ silent
  BY DEF Contract!Next
<1>1. CASE Accept(w)
  <2>1. Phase[w] = "idle" /\ Phase' = [Phase EXCEPT ![w] = "running"]
    BY <1>0, <1>1 DEF Accept, Phase, TypeOK
  <2> QED
    BY <1>1, <2>1 DEF Accept, Contract!Accept
<1>2. CASE CreateDir(w)
  <2>1. Reports(w, 10, "download")
    BY <1>2 DEF CreateDir, Reports, Moves, Announced
  <2> QED
    BY <1>0, <2>1, ReportStep
<1>3. CASE CreateDirFails(w)
  <2>1. Silent(w, "report")
    BY <1>3 DEF CreateDirFails, Silent, Moves
  <2> QED
    BY <1>0, <2>1, SilentStep
<1>4. CASE StartDownload(w) \/ Downloaded(w) \/ DownloadFails(w)
  <2>1. \E to \in {"downloading", "extract", "finalize"} : Silent(w, to)
    BY <1>4 DEF StartDownload, Downloaded, DownloadFails, Abandon, Silent, Moves
  <2> QED
    BY <1>0, <2>1, SilentStep
<1>5. CASE Convert(w)
  <2>1. Reports(w, 30, "converting")
    BY <1>5 DEF Convert, Reports, Moves, Announced
  <2> QED
    BY <1>0, <2>1, ReportStep
<1>6. CASE Analyzed(w) \/ MarkItDownExits(w)
  <2>1. Reports(w, 80, "save")
    BY <1>6 DEF Analyzed, MarkItDownExits, Extracted, Reports, Moves, Announced
  <2> QED
    BY <1>0, <2>1, ReportStep
<1>7. ASSUME NEW p \in Milestones, AnalyzeProgress(w, p)
      PROVE  Contract!Report(w)
  <2>1. p \in Nat /\ Reports(w, p, "extract")
    BY <1>7, JobAssumption DEF AnalyzeProgress, Reports, Moves
  <2> QED
    BY <1>0, <2>1, ReportStep
<1>8. CASE ExtractionFails(w)
  <2>1. Silent(w, "finalize")
    BY <1>8 DEF ExtractionFails, Abandon, Silent, Moves
  <2> QED
    BY <1>0, <2>1, SilentStep
<1>9. CASE StartSave(w) \/ SaveFails(w)
  <2>1. \E to \in {"saving", "finalize"} : Silent(w, to)
    BY <1>9 DEF StartSave, SaveFails, Abandon, Silent, Moves
  <2> QED
    BY <1>0, <2>1, SilentStep
<1>10. CASE Saved(w)
  <2>1. Reports(w, 90, "upload")
    BY <1>10 DEF Saved, Reports, Moves, Announced
  <2> QED
    BY <1>0, <2>1, ReportStep
<1>11. CASE ReadDocument(w) \/ Uploaded(w) \/ UploadFails(w)
  <2>1. \E to \in {"uploading", "measure", "finalize"} :
          Silent(w, to) \/ Stores(w, to)
    BY <1>11 DEF ReadDocument, Uploaded, UploadFails, Put, Abandon, Silent, Stores,
                 Moves, Announced
  <2> QED
    BY <1>0, <2>1, SilentStep, PutStep
<1>12. CASE Measured(w) \/ MeasureFails(w)
  <2>1. Silent(w, "finalize")
    BY <1>12 DEF Measured, MeasureFails, Abandon, Silent, Moves
  <2> QED
    BY <1>0, <2>1, SilentStep
<1>13. CASE Finalize(w) \/ FinalizeFails(w)
  <2>1. Silent(w, "report")
    BY <1>13 DEF Finalize, FinalizeFails, Silent, Moves
  <2> QED
    BY <1>0, <2>1, SilentStep
<1>14. CASE ReportSuccess(w)
  <2>1. stored[w]
    BY <1>14 DEF ReportSuccess, JobInv
  <2>2. Moves(w, "idle")
    BY <1>14 DEF ReportSuccess, Moves
  <2>3. Phase[w] = "running" /\ Phase' = [Phase EXCEPT ![w] = "idle"]
    BY <1>0, <2>2, PhaseMoves
  <2> QED
    BY <1>14, <2>1, <2>3
    DEF ReportSuccess, Forget, Contract!Succeed, Contract!End
<1>15. CASE ReportFailure(w)
  <2>1. Moves(w, "idle")
    BY <1>15 DEF ReportFailure, Moves
  <2>2. Phase[w] = "running" /\ Phase' = [Phase EXCEPT ![w] = "idle"]
    BY <1>0, <2>1, PhaseMoves
  <2>3. \/ ~stored[w] /\ verdict' = [verdict EXCEPT ![w] = "retryable"]
        \/ verdict' = [verdict EXCEPT ![w] = "failure"]
    BY <1>15 DEF ReportFailure, Classify, Announced
  <2> QED
    BY <1>15, <2>2, <2>3 DEF ReportFailure, Forget, Contract!GiveUp,
                             Contract!AskForRetry, Contract!End
<1>16. CASE Crash(w)
  <2>1. Moves(w, "idle")
    BY <1>16 DEF Crash, Moves
  <2>2. Phase[w] = "running" /\ Phase' = [Phase EXCEPT ![w] = "idle"]
    BY <1>0, <2>1, PhaseMoves
  <2>3. verdict' = [verdict EXCEPT ![w] = "none"]
    BY <1>0, <1>16 DEF Crash, JobInv, TypeOK
  <2> QED
    BY <1>16, <2>2, <2>3 DEF Crash, Forget, Contract!Die, Contract!End
<1> QED
  BY <1>1, <1>2, <1>3, <1>4, <1>5, <1>6, <1>7, <1>8, <1>9, <1>10, <1>11, <1>12,
     <1>13, <1>14, <1>15, <1>16
  DEF Step, Work

\* The events and the artifact of every attempt keep the promises of
\* JobContract: one verdict, percentages that never go back, success only with
\* an artifact, a retry asked for only without one.
THEOREM ImplementsContract == Spec => ContractSpec
<1>1. Init => Contract!Init
  BY DEF Init, Phase, Contract!Init
<1>2. Init => Announced
  <2> SUFFICES ASSUME Init PROVE Announced
    OBVIOUS
  <2>1. \A w \in Workers : pc[w] = "idle" /\ outcome[w] # "upstream"
    BY DEF Init
  <2> QED BY <2>1 DEF Announced
<1>3. JobInv /\ Announced /\ [Next]_vars => Announced'
  BY AnnouncedStep DEF Next, Quiet, vars, Announced
<1>4. JobInv /\ Announced /\ [Next]_vars =>
        [Contract!Next]_<<Phase, percent, stored, verdict>>
  BY ContractStep DEF Next, Quiet, vars, Phase
<1> QED
  BY <1>1, <1>2, <1>3, <1>4, JobInvariant, PTL
  DEF Spec, ContractSpec, Contract!Spec, Contract!vars, Phase
=============================================================================
