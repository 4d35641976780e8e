---------------------------- MODULE ServiceProofs ----------------------------
(***************************************************************************)
(* What TLAPS proves of Service, for every number of workers and every     *)
(* bound: that a success is told only when the artifact is stored, and     *)
(* that there are no more deliveries than faults account for.              *)
(*                                                                         *)
(* What the two components promise is not proved again: JP is JobProofs    *)
(* with the variables of Service, WorkerProofs is extended.                *)
(***************************************************************************)
EXTENDS Service, WorkerProofs, FiniteSetTheorems

JP == INSTANCE JobProofs WITH pc <- at

-----------------------------------------------------------------------------
(* J and JP are the same module.                                           *)

LEMMA JobConstants == JP!JobAssumption
  BY OneRequest DEF JP!JobAssumption

LEMMA SameInit == J!Init <=> JP!Init
  BY DEF J!Init, JP!Init, J!Engines, JP!Engines, J!Nothing, JP!Nothing

LEMMA SameTypes == J!TypeOK <=> JP!TypeOK
  BY DEF J!TypeOK, JP!TypeOK, J!Engines, JP!Engines, J!Points, JP!Points,
         J!Contents, JP!Contents, J!Errors, JP!Errors, J!Attempts, JP!Attempts,
         J!Nothing, JP!Nothing, J!Partial, JP!Partial

LEMMA SameStep ==
  ASSUME NEW w \in Workers
  PROVE  J!Step(w) <=> JP!Step(w)
<1> USE DEF J!Goto, JP!Goto, J!Tell, JP!Tell, J!shared, JP!shared, J!disk,
            JP!disk, J!events, JP!events, J!Nothing, JP!Nothing, J!Partial,
            JP!Partial, J!Abandon, JP!Abandon, J!Extracted, JP!Extracted,
            J!Put, JP!Put, J!Forget, JP!Forget, J!Remove, JP!Remove
<1>1. J!Accept(w) <=> JP!Accept(w)
  BY DEF J!Accept, JP!Accept
<1>2. J!CreateDir(w) <=> JP!CreateDir(w)
  BY DEF J!CreateDir, JP!CreateDir
<1>3. J!CreateDirFails(w) <=> JP!CreateDirFails(w)
  BY DEF J!CreateDirFails, JP!CreateDirFails
<1>4. J!StartDownload(w) <=> JP!StartDownload(w)
  BY DEF J!StartDownload, JP!StartDownload
<1>5. J!Downloaded(w) <=> JP!Downloaded(w)
  BY DEF J!Downloaded, JP!Downloaded
<1>6. J!DownloadFails(w) <=> JP!DownloadFails(w)
  BY DEF J!DownloadFails, JP!DownloadFails
<1>7. J!Analyzed(w) <=> JP!Analyzed(w)
  BY DEF J!Analyzed, JP!Analyzed
<1>8. J!Convert(w) <=> JP!Convert(w)
  BY DEF J!Convert, JP!Convert
<1>9. J!ExtractionFails(w) <=> JP!ExtractionFails(w)
  BY DEF J!ExtractionFails, JP!ExtractionFails
<1>10. J!StartSave(w) <=> JP!StartSave(w)
  BY DEF J!StartSave, JP!StartSave
<1>11. J!Saved(w) <=> JP!Saved(w)
  BY DEF J!Saved, JP!Saved
<1>12. J!SaveFails(w) <=> JP!SaveFails(w)
  BY DEF J!SaveFails, JP!SaveFails
<1>13. J!ReadDocument(w) <=> JP!ReadDocument(w)
  BY DEF J!ReadDocument, JP!ReadDocument
<1>14. J!Uploaded(w) <=> JP!Uploaded(w)
  BY DEF J!Uploaded, JP!Uploaded
<1>15. J!UploadFails(w) <=> JP!UploadFails(w)
  BY DEF J!UploadFails, JP!UploadFails
<1>16. J!Measured(w) <=> JP!Measured(w)
  BY DEF J!Measured, JP!Measured
<1>17. J!MeasureFails(w) <=> JP!MeasureFails(w)
  BY DEF J!MeasureFails, JP!MeasureFails
<1>18. J!Finalize(w) <=> JP!Finalize(w)
  BY DEF J!Finalize, JP!Finalize
<1>19. J!FinalizeFails(w) <=> JP!FinalizeFails(w)
  BY DEF J!FinalizeFails, JP!FinalizeFails
<1>20. J!ReportSuccess(w) <=> JP!ReportSuccess(w)
  BY DEF J!ReportSuccess, JP!ReportSuccess
<1>21. J!ReportFailure(w) <=> JP!ReportFailure(w)
  BY DEF J!ReportFailure, JP!ReportFailure, J!Classify, JP!Classify
<1>22. ASSUME NEW p \in Milestones
       PROVE  J!AnalyzeProgress(w, p) <=> JP!AnalyzeProgress(w, p)
  BY DEF J!AnalyzeProgress, JP!AnalyzeProgress
<1>23. J!MarkItDownExits(w) <=> JP!MarkItDownExits(w)
  BY DEF J!MarkItDownExits, JP!MarkItDownExits
<1>24. J!Crash(w) <=> JP!Crash(w)
  BY DEF J!Crash, JP!Crash
<1> QED
  BY <1>1, <1>2, <1>3, <1>4, <1>5, <1>6, <1>7, <1>8, <1>9, <1>10, <1>11, <1>12,
     <1>13, <1>14, <1>15, <1>16, <1>17, <1>18, <1>19, <1>20, <1>21, <1>22,
     <1>23, <1>24
  DEF J!Step, JP!Step, J!Work, JP!Work

LEMMA SameNext == [J!Next]_(J!vars) <=> [JP!Next]_(JP!vars)
  BY SameStep DEF J!Next, JP!Next, J!Quiet, JP!Quiet, J!vars, JP!vars

-----------------------------------------------------------------------------
(* The two components within the composition.                              *)

\* What a step of the composition is for the Kafka side.
LEMMA WorkerMoves ==
  ASSUME ServiceNext
  PROVE  [Next]_vars
<1>1. ASSUME Rest PROVE [Next]_vars
  BY <1>1 DEF Rest, Next
<1>2. ASSUME NEW w \in Workers, Kafka(w) PROVE Next
  BY <1>2 DEF Kafka, Next, Step
<1>3. ASSUME NEW w \in Workers, Take(w) PROVE Next
  BY <1>3 DEF Take, Next, Step
<1>4. ASSUME NEW w \in Workers, Progress(w) PROVE Next
  BY <1>4 DEF Next, Step
<1>5. ASSUME NEW w \in Workers, End(w) PROVE Next
  BY <1>5 DEF End, Next, Step
<1>6. ASSUME NEW w \in Workers, NEW delivered \in BOOLEAN, Send(w, delivered)
      PROVE  Next
  BY <1>6 DEF Send, Next, Step
<1>7. ASSUME NEW w \in Workers, Die(w) PROVE Next
  BY <1>7 DEF Die, Next, Step
<1>8. ASSUME NEW w \in Workers, Work(w) \/ ToolFails(w) PROVE UNCHANGED vars
  BY <1>8 DEF Work, ToolFails
<1> QED
  BY <1>1, <1>2, <1>3, <1>4, <1>5, <1>6, <1>7, <1>8
  DEF ServiceNext, Report, ToolReports, AzureReports

\* ... and for the job.
LEMMA JobMoves ==
  ASSUME ServiceNext
  PROVE  (\E w \in Workers : J!Step(w)) \/ UNCHANGED jobvars
<1>1. ASSUME NEW w \in Workers,
             Take(w) \/ Report(w) \/ ToolReports(w) \/ Work(w) \/ ToolFails(w)
               \/ End(w) \/ \E p \in Milestones : AzureReports(w, p)
      PROVE  J!Step(w)
  BY <1>1 DEF Take, Report, ToolReports, Work, ToolFails, End, AzureReports,
              J!Step, J!Work
<1>2. ASSUME NEW w \in Workers, Die(w)
      PROVE  J!Step(w) \/ UNCHANGED jobvars
  BY <1>2 DEF Die, J!Step
<1>3. ASSUME NEW w \in Workers,
             Kafka(w) \/ \E delivered \in BOOLEAN : Send(w, delivered)
      PROVE  UNCHANGED jobvars
  BY <1>3 DEF Kafka, Send
<1>4. ASSUME Rest PROVE UNCHANGED jobvars
  BY <1>4 DEF Rest, all
<1> QED BY <1>1, <1>2, <1>3, <1>4 DEF ServiceNext

\* By construction the composition does with requests, offsets and events what
\* Worker may do.
LEMMA WorkerWithin == ServiceSpec => Spec
<1>1. ServiceInit => Init
  BY DEF ServiceInit
<1>2. [ServiceNext]_all => [Next]_vars
  BY WorkerMoves DEF all, vars
<1> QED BY <1>1, <1>2, PTL DEF ServiceSpec, Spec

\* ... and its attempts what Job may do.
LEMMA JobWithin == ServiceSpec => J!Spec
<1>1. ServiceInit => J!Init
  BY DEF ServiceInit
<1>2. [ServiceNext]_all => [J!Next]_(J!vars)
  BY JobMoves DEF all, jobvars, J!Next, J!vars
<1> QED BY <1>1, <1>2, PTL DEF ServiceSpec, J!Spec

-----------------------------------------------------------------------------
(* How the two meet.                                                       *)

\* The invariants of the two components hold in the composition.
Parts == IntakeInv /\ JP!JobInv

LEMMA PartsInvariant == ServiceSpec => []Parts
<1>1. ServiceSpec => []IntakeInv
  BY WorkerWithin, IntakeInvariant, PTL
<1>2. J!Spec => JP!Spec
  <2>1. J!Init => JP!Init
    BY SameInit
  <2>2. [J!Next]_(J!vars) => [JP!Next]_(JP!vars)
    BY SameNext
  <2> QED BY <2>1, <2>2, PTL DEF J!Spec, JP!Spec
<1>3. ServiceSpec => []JP!JobInv
  BY JobWithin, <1>2, JobConstants, JP!JobInvariant, PTL
<1> QED BY <1>1, <1>3, PTL DEF Parts

\* The steps of the composition, reduced to what the two parts exchange.
Running(w) ==
  /\ at[w] # "idle" /\ \E point : point # "idle" /\ at' = [at EXCEPT ![w] = point]
  /\ UNCHANGED <<verdict, attempts, told>>
Ending(w, last) ==
  /\ FinishJob(w, last)
  /\ at[w] # "idle" /\ at' = [at EXCEPT ![w] = "idle"]
  /\ \E v : v # "none" /\ verdict' = [verdict EXCEPT ![w] = v]
  /\ UNCHANGED <<attempts, told>>
SuccessEvents(w) == <<[n |-> emitted[w] + 1, kind |-> "progress"],
                      [n |-> emitted[w] + 2, kind |-> "result"]>>
FailureEvents(w) == <<[n |-> emitted[w] + 1, kind |-> "result"]>>
Move(w) ==
  \/ Kafka(w) \/ Take(w)
  \/ Progress(w) /\ Running(w)
  \/ Running(w) /\ UNCHANGED vars
  \/ Ending(w, SuccessEvents(w)) \/ Ending(w, FailureEvents(w))
  \/ \E delivered \in BOOLEAN : Send(w, delivered)
  \/ Die(w)

LEMMA Moves ==
  ASSUME ServiceNext
  PROVE  (\E w \in Workers : Move(w)) \/ UNCHANGED all
<1> USE DEF J!Goto, J!Tell, J!events, J!shared
<1>1. ASSUME NEW w \in Workers, Report(w) PROVE Progress(w) /\ Running(w)
  BY <1>1 DEF Report, Running, J!CreateDir, J!Convert, J!Analyzed, J!Extracted,
              J!Saved
<1>2. ASSUME NEW w \in Workers, ToolReports(w) PROVE Progress(w) /\ Running(w)
  BY <1>2 DEF ToolReports, Running, J!MarkItDownExits, J!Extracted
<1>3. ASSUME NEW w \in Workers, NEW p \in Milestones, AzureReports(w, p)
      PROVE  Progress(w) /\ Running(w)
  BY <1>3 DEF AzureReports, Running, J!AnalyzeProgress
<1>4. ASSUME NEW w \in Workers, Work(w) PROVE Running(w) /\ UNCHANGED vars
  BY <1>4 DEF Work, Running, J!CreateDirFails, J!StartDownload, J!Downloaded,
              J!DownloadFails, J!Abandon, J!ExtractionFails, J!StartSave,
              J!SaveFails, J!ReadDocument, J!Uploaded, J!UploadFails, J!Put,
              J!Measured, J!MeasureFails, J!Finalize, J!FinalizeFails
<1>5. ASSUME NEW w \in Workers, ToolFails(w) PROVE Running(w) /\ UNCHANGED vars
  BY <1>5 DEF ToolFails, Running, J!ExtractionFails, J!Abandon
<1>6. ASSUME NEW w \in Workers, End(w)
      PROVE  Ending(w, SuccessEvents(w)) \/ Ending(w, FailureEvents(w))
  BY <1>6 DEF End, Ending, SuccessEvents, FailureEvents, Success, Failure,
              J!ReportSuccess, J!ReportFailure, J!Forget, J!Classify
<1> QED
  BY <1>1, <1>2, <1>3, <1>4, <1>5, <1>6 DEF ServiceNext, Move, Rest

\* A worker is in a job exactly while the main loop awaits it, a job that has
\* ended has its verdict, and the result is the last event of the channel.
InJob == \A w \in Workers :
  /\ at[w] # "idle" <=> pc[w] = "processing"
  /\ pc[w] = "draining" => verdict[w] # "none"
ResultIsLast == \A w \in Workers : \A i \in 1 .. Len(channel[w]) :
  channel[w][i].kind = "result" => pc[w] = "draining" /\ i = Len(channel[w])

LEMMA InJobStep ==
  ASSUME Parts, InJob, NEW w \in Workers, Move(w)
  PROVE  InJob'
<1> /\ at \in [Workers -> JP!Points]
    /\ verdict \in [Workers -> {"none", "success", "retryable", "failure"}]
    /\ pc \in [Workers -> Points]
  BY DEF Parts, IntakeInv, TypeOK, JP!JobInv, JP!TypeOK
<1>1. CASE Kafka(w)
  <2>1. UNCHANGED <<at, verdict>>
    BY <1>1 DEF Kafka, jobvars
  <2>2. \A v \in Workers : /\ pc'[v] = "processing" <=> pc[v] = "processing"
                           /\ pc'[v] = "draining" => pc[v] = "draining"
    BY <1>1 DEF Kafka, Start, Assign, AssignFrom, CommitArrives, CommitFails,
                Acknowledge, Shutdown, Close, broker, local
  <2> QED BY <2>1, <2>2 DEF InJob
<1>2. CASE Take(w)
  BY <1>2 DEF InJob, Take, StartJob, Receive, J!Accept, J!Goto
<1>3. CASE Progress(w) /\ Running(w)
  BY <1>3 DEF InJob, Progress, Running
<1>9. CASE Running(w) /\ UNCHANGED vars
  BY <1>9 DEF InJob, Running, vars
<1>4. ASSUME NEW last, Ending(w, last) PROVE InJob'
  BY <1>4 DEF InJob, Ending, FinishJob
<1>5. ASSUME NEW delivered \in BOOLEAN, Send(w, delivered) PROVE InJob'
  BY <1>5 DEF InJob, Send, Publish, PublishEvent, jobvars
<1>6. CASE Die(w)
  BY <1>6 DEF InJob, Die, Crash, J!Crash, J!Forget, J!events, jobvars
<1>7. CASE Ending(w, SuccessEvents(w))
  BY <1>4, <1>7
<1>8. CASE Ending(w, FailureEvents(w))
  BY <1>4, <1>8
<1> QED BY <1>1, <1>2, <1>3, <1>9, <1>5, <1>6, <1>7, <1>8 DEF Move

\* What a worker may append to its channel, and when.
LEMMA PushKeepsLast ==
  ASSUME TypeOK, ResultIsLast, NEW w \in Workers, NEW last \in Seq(Event),
         pc[w] = "processing", channel' = [channel EXCEPT ![w] = @ \o last],
         \A v \in Workers \ {w} : pc'[v] = pc[v],
         \A i \in 1 .. Len(last) :
           last[i].kind = "result" => pc'[w] = "draining" /\ i = Len(last)
  PROVE  ResultIsLast'
<1> DEFINE c == channel[w]
<1>1. c \in Seq(Event) /\ channel'[w] = c \o last
      /\ \A v \in Workers \ {w} : channel'[v] = channel[v]
  BY DEF TypeOK
<1>2. /\ Len(c \o last) = Len(c) + Len(last)
      /\ \A i \in 1 .. Len(c) + Len(last) :
           (c \o last)[i] = IF i <= Len(c) THEN c[i] ELSE last[i - Len(c)]
  BY <1>1, ConcatProperties
<1>3. \A i \in 1 .. Len(c) : c[i].kind # "result"
  BY DEF ResultIsLast
<1>4. Len(c) \in Nat /\ Len(last) \in Nat
  BY <1>1, LenProperties
<1> HIDE DEF c
<1>5. ASSUME NEW i \in 1 .. Len(c) + Len(last), (c \o last)[i].kind = "result"
      PROVE  pc'[w] = "draining" /\ i = Len(c) + Len(last)
  <2>1. i > Len(c)
    BY <1>2, <1>3, <1>4, <1>5
  <2>2. (c \o last)[i] = last[i - Len(c)] /\ i - Len(c) \in 1 .. Len(last)
    BY <1>2, <1>4, <2>1
  <2> QED BY <1>4, <1>5, <2>2
<1> QED BY <1>1, <1>2, <1>5 DEF ResultIsLast

LEMMA ResultIsLastStep ==
  ASSUME Parts, ResultIsLast, NEW w \in Workers, Move(w)
  PROVE  ResultIsLast'
<1> TypeOK /\ channel \in [Workers -> Seq(Event)] /\ pc \in [Workers -> Points]
    /\ emitted[w] \in Nat
  BY DEF Parts, IntakeInv, TypeOK
<1>1. CASE Kafka(w)
  <2>1. UNCHANGED channel
    BY <1>1 DEF Kafka, Start, Assign, AssignFrom, CommitArrives, CommitFails,
                Acknowledge, Shutdown, Close, local
  <2>2. \A v \in Workers :
          pc[v] = "draining" => pc'[v] = "draining" \/ channel[v] = << >>
    BY <1>1 DEF Kafka, Start, Assign, AssignFrom, CommitArrives, CommitFails,
                Acknowledge, Shutdown, Close, local
  <2>3. ASSUME NEW v \in Workers, NEW i \in 1 .. Len(channel[v]),
               channel[v][i].kind = "result"
        PROVE  pc'[v] = "draining" /\ i = Len(channel[v])
    <3>1. channel[v] # << >>
      BY EmptySeq
    <3> QED BY <2>2, <2>3, <3>1 DEF ResultIsLast
  <2> QED BY <2>1, <2>3 DEF ResultIsLast
<1>2. CASE Take(w)
  <2>1. /\ channel'[w] = <<[n |-> 1, kind |-> "progress"]>>
        /\ \A v \in Workers \ {w} : channel'[v] = channel[v] /\ pc'[v] = pc[v]
    BY <1>2 DEF Take, StartJob
  <2>2. \A i \in 1 .. Len(channel'[w]) : channel'[w][i].kind # "result"
    BY <2>1
  <2> QED BY <2>1, <2>2 DEF ResultIsLast
<1>3. CASE Progress(w) /\ Running(w)
  <2> DEFINE last == <<[n |-> emitted[w] + 1, kind |-> "progress"]>>
  <2>1. last \in Seq(Event) /\ \A i \in 1 .. Len(last) : last[i].kind # "result"
    BY DEF Event
  <2>2. [n |-> emitted[w] + 1, kind |-> "progress"] \in Event /\ channel[w] \in Seq(Event)
    BY DEF Event
  <2>3. Append(channel[w], [n |-> emitted[w] + 1, kind |-> "progress"])
          = channel[w] \o last
    BY <2>2, AppendIsConcat
  <2>4. channel' = [channel EXCEPT ![w] = channel[w] \o last]
        /\ pc[w] = "processing" /\ pc' = pc
    BY <1>3, <2>3 DEF Progress
  <2> HIDE DEF last
  <2> QED BY <2>1, <2>4, PushKeepsLast
<1>4. CASE Running(w) /\ UNCHANGED vars
  BY <1>4 DEF vars, ResultIsLast
<1>5. CASE Ending(w, SuccessEvents(w))
  <2> DEFINE last == SuccessEvents(w)
  <2>1. /\ last \in Seq(Event) /\ Len(last) = 2
        /\ last[1].kind = "progress"
    BY DEF Event, SuccessEvents
  <2> HIDE DEF last
  <2>2. /\ channel' = [channel EXCEPT ![w] = @ \o last] /\ pc[w] = "processing"
        /\ pc'[w] = "draining" /\ \A v \in Workers \ {w} : pc'[v] = pc[v]
    BY <1>5 DEF Ending, FinishJob, last
  <2>3. \A i \in 1 .. Len(last) : last[i].kind = "result" => i = Len(last)
    BY <2>1
  <2> QED BY <2>1, <2>2, <2>3, PushKeepsLast
<1>6. CASE Ending(w, FailureEvents(w))
  <2> DEFINE last == FailureEvents(w)
  <2>1. last \in Seq(Event) /\ Len(last) = 1
    BY DEF Event, FailureEvents
  <2> HIDE DEF last
  <2>2. /\ channel' = [channel EXCEPT ![w] = @ \o last] /\ pc[w] = "processing"
        /\ pc'[w] = "draining" /\ \A v \in Workers \ {w} : pc'[v] = pc[v]
    BY <1>6 DEF Ending, FinishJob, last
  <2>3. \A i \in 1 .. Len(last) : last[i].kind = "result" => i = Len(last)
    BY <2>1
  <2> QED BY <2>1, <2>2, <2>3, PushKeepsLast
<1>7. ASSUME NEW delivered \in BOOLEAN, Send(w, delivered) PROVE ResultIsLast'
  <2> DEFINE c == channel[w]
  <2>1. /\ c # << >> /\ c \in Seq(Event) /\ channel'[w] = Tail(c) /\ pc' = pc
        /\ \A v \in Workers \ {w} : channel'[v] = channel[v]
    BY <1>7 DEF Send, Publish, PublishEvent
  <2>2. /\ Len(c) \in Nat \ {0} /\ Len(Tail(c)) = Len(c) - 1
        /\ \A i \in 1 .. Len(c) - 1 : Tail(c)[i] = c[i + 1]
    BY <2>1
  <2>3. \A i \in 1 .. Len(c) :
          c[i].kind = "result" => pc[w] = "draining" /\ i = Len(c)
    BY DEF ResultIsLast
  <2> HIDE DEF c
  <2>4. ASSUME NEW i \in 1 .. Len(c) - 1, Tail(c)[i].kind = "result"
        PROVE  pc[w] = "draining" /\ i = Len(c) - 1
    <3>1. i + 1 \in 1 .. Len(c) /\ c[i + 1].kind = "result"
      BY <2>2, <2>4
    <3>2. pc[w] = "draining" /\ i + 1 = Len(c)
      BY <2>3, <3>1
    <3>3. i \in Int /\ Len(c) \in Nat
      BY <2>2
    <3>4. i = Len(c) - 1
      <4> HIDE <2>4
      <4> QED BY <3>2, <3>3
    <3> QED BY <3>2, <3>4
  <2> QED BY <2>1, <2>2, <2>4 DEF ResultIsLast
<1>8. CASE Die(w)
  <2>1. /\ channel'[w] = << >>
        /\ \A v \in Workers \ {w} : channel'[v] = channel[v] /\ pc'[v] = pc[v]
    BY <1>8 DEF Die, Crash
  <2>2. 1 .. Len(channel'[w]) = {}
    BY <2>1, EmptySeq
  <2> QED BY <2>1, <2>2 DEF ResultIsLast
<1> QED BY <1>1, <1>2, <1>3, <1>4, <1>5, <1>6, <1>7, <1>8 DEF Move

-----------------------------------------------------------------------------
(* Verdicts told.                                                          *)

\* Only verdicts are told, each for an attempt of its own; the attempts that
\* have one to tell yet are those of ToTell.
ToTell == {w \in Workers : \/ pc[w] = "processing"
                           \/ pc[w] = "draining" /\ channel[w] # << >>}
ToldOnce ==
  /\ told \subseteq {"success", "retryable", "failure"}
  /\ IsFiniteSet(ToTell) /\ Cardinality(told) + Cardinality(ToTell) <= attempts

LEMMA Verdicts ==
  ASSUME NEW T \in SUBSET {"success", "retryable", "failure"}, NEW v
  PROVE  /\ IsFiniteSet(T) /\ Cardinality(T) \in Nat
         /\ Cardinality(T \union {v}) <= Cardinality(T) + 1
<1>1. IsFiniteSet({"success", "retryable", "failure"})
  <2>1. IsFiniteSet({"success"} \union {"retryable"})
    BY FS_Singleton, FS_AddElement
  <2>2. IsFiniteSet(({"success"} \union {"retryable"}) \union {"failure"})
    BY <2>1, FS_AddElement
  <2>3. {"success", "retryable", "failure"}
          = ({"success"} \union {"retryable"}) \union {"failure"}
    OBVIOUS
  <2> QED BY <2>2, <2>3
<1>2. IsFiniteSet(T) /\ Cardinality(T) \in Nat
  BY <1>1, FS_Subset, FS_CardinalityType
<1> QED BY <1>2, FS_AddElement

LEMMA ToldOnceStep ==
  ASSUME Parts, InJob, ResultIsLast, ToldOnce, NEW w \in Workers, Move(w)
  PROVE  ToldOnce'
<1> DEFINE S == ToTell
           n == Cardinality(told)
<1>1. /\ channel \in [Workers -> Seq(Event)] /\ pc \in [Workers -> Points]
      /\ verdict \in [Workers -> {"none", "success", "retryable", "failure"}]
      /\ attempts \in Nat
  BY JobConstants DEF Parts, IntakeInv, TypeOK, JP!JobInv, JP!TypeOK,
                      JP!JobAssumption
<1>2. /\ IsFiniteSet(S) /\ Cardinality(S) \in Nat /\ n \in Nat
      /\ n + Cardinality(S) <= attempts
  BY Verdicts, FS_CardinalityType DEF ToldOnce
<1>3. ASSUME S' = S, UNCHANGED told, UNCHANGED attempts PROVE ToldOnce'
  BY <1>3 DEF ToldOnce
<1>4. CASE Kafka(w)
  <2>1. UNCHANGED <<channel, told, attempts>>
    BY <1>4 DEF Kafka, Start, Assign, AssignFrom, CommitArrives, CommitFails,
                Acknowledge, Shutdown, Close, local, jobvars
  <2>2. \A v \in Workers :
          /\ pc'[v] = "processing" <=> pc[v] = "processing"
          /\ pc'[v] = "draining" => pc[v] = "draining"
          /\ pc[v] = "draining" => pc'[v] = "draining" \/ channel[v] = << >>
    BY <1>1, <1>4 DEF Kafka, Start, Assign, AssignFrom, CommitArrives,
                CommitFails, Acknowledge, Shutdown, Close, broker, local
  <2> QED BY <1>3, <2>1, <2>2 DEF ToTell
<1>5. CASE Take(w)
  <2>1. /\ pc'[w] = "processing" /\ pc[w] = "waiting"
        /\ \A v \in Workers \ {w} : channel'[v] = channel[v] /\ pc'[v] = pc[v]
        /\ UNCHANGED told /\ attempts' = attempts + 1
    BY <1>1, <1>5 DEF Take, StartJob, Receive, J!Accept
  <2>2. S' = S \union {w} /\ w \notin S
    BY <2>1 DEF ToTell
  <2>3. IsFiniteSet(S') /\ Cardinality(S') = Cardinality(S) + 1
    BY <1>2, <2>2, FS_AddElement
  <2> HIDE DEF S
  <2>4. n + Cardinality(S') <= attempts'
    BY <1>1, <1>2, <2>1, <2>3
  <2> QED BY <2>1, <2>3, <2>4 DEF ToldOnce, S
<1>6. CASE Progress(w) /\ Running(w)
  <2>1. /\ UNCHANGED <<pc, told, attempts>> /\ pc[w] = "processing"
        /\ \A v \in Workers \ {w} : channel'[v] = channel[v]
    BY <1>1, <1>6 DEF Progress, Running
  <2>2. S' = S
    BY <2>1 DEF ToTell
  <2> QED BY <1>3, <2>1, <2>2
<1>7. CASE Running(w) /\ UNCHANGED vars
  BY <1>3, <1>7 DEF vars, Running, ToTell
<1>8. ASSUME NEW last \in Seq(Event), last # << >>, Ending(w, last)
      PROVE  ToldOnce'
  <2>1. /\ UNCHANGED <<told, attempts>>
        /\ pc[w] = "processing" /\ pc'[w] = "draining"
        /\ channel'[w] = channel[w] \o last
        /\ \A v \in Workers \ {w} : channel'[v] = channel[v] /\ pc'[v] = pc[v]
    BY <1>1, <1>8 DEF Ending, FinishJob
  <2>2. channel'[w] # << >>
    <3>1. /\ Len(channel[w] \o last) = Len(channel[w]) + Len(last)
          /\ Len(channel[w]) \in Nat /\ Len(last) \in Nat \ {0}
      BY <1>1, <1>8
    <3>2. Len(channel[w] \o last) # 0
      BY <3>1
    <3> QED BY <2>1, <3>2, EmptySeq
  <2>3. S' = S
    BY <2>1, <2>2 DEF ToTell
  <2> QED BY <1>3, <2>1, <2>3
<1>9. CASE Ending(w, SuccessEvents(w))
  <2>1. SuccessEvents(w) \in Seq(Event) /\ SuccessEvents(w) # << >>
    BY DEF SuccessEvents, Event, Parts, IntakeInv, TypeOK
  <2> QED BY <1>8, <1>9, <2>1
<1>10. CASE Ending(w, FailureEvents(w))
  <2>1. FailureEvents(w) \in Seq(Event) /\ FailureEvents(w) # << >>
    BY DEF FailureEvents, Event, Parts, IntakeInv, TypeOK
  <2> QED BY <1>8, <1>10, <2>1
<1>11. ASSUME S' \in {S, S \ {w}}, UNCHANGED <<told, attempts>>
       PROVE  ToldOnce'
  <2>1. IsFiniteSet(S') /\ Cardinality(S') \in Nat
        /\ Cardinality(S') <= Cardinality(S)
    <3> HIDE DEF S
    <3>1. IsFiniteSet(S \ {w})
          /\ Cardinality(S \ {w}) = IF w \in S THEN Cardinality(S) - 1
                                                ELSE Cardinality(S)
      BY <1>2, FS_RemoveElement
    <3>2. Cardinality(S \ {w}) \in Nat
      BY <3>1, FS_CardinalityType
    <3>3. Cardinality(S \ {w}) <= Cardinality(S)
      BY <1>2, <3>1
    <3> QED BY <1>2, <1>11, <3>1, <3>2, <3>3
  <2> HIDE DEF S
  <2>2. n + Cardinality(S') <= attempts
    BY <1>1, <1>2, <2>1
  <2> QED BY <1>11, <2>1, <2>2 DEF ToldOnce, S
<1>12. ASSUME NEW delivered \in BOOLEAN, Send(w, delivered) PROVE ToldOnce'
  <2>1. /\ channel[w] # << >> /\ Busy(w) /\ channel'[w] = Tail(channel[w])
        /\ \A v \in Workers \ {w} : channel'[v] = channel[v]
        /\ UNCHANGED <<pc, attempts, verdict>>
    BY <1>1, <1>12 DEF Send, Publish, PublishEvent, jobvars
  <2>2. S' \in {S, S \ {w}}
    BY <2>1 DEF ToTell
  <2>3. CASE UNCHANGED told
    BY <1>11, <2>1, <2>2, <2>3
  <2>4. CASE told' # told
    <3>1. told' = told \union {verdict[w]} /\ Head(channel[w]).kind = "result"
      BY <1>12, <2>4 DEF Send, Tell
    <3>2. Len(channel[w]) \in Nat \ {0} /\ Head(channel[w]) = channel[w][1]
      BY <1>1, <2>1
    <3>3. pc[w] = "draining" /\ Len(channel[w]) = 1
      <4>1. 1 \in 1 .. Len(channel[w]) /\ channel[w][1].kind = "result"
        BY <3>1, <3>2
      <4> QED BY <4>1 DEF ResultIsLast
    <3>4. channel'[w] = << >>
      <4>1. Tail(channel[w]) \in Seq(Event) /\ Len(Tail(channel[w])) = 0
        BY <1>1, <2>1, <3>3
      <4> QED BY <2>1, <4>1, EmptySeq
    <3>5. w \in S /\ S' = S \ {w}
      BY <2>1, <3>3, <3>4 DEF ToTell
    <3>6. IsFiniteSet(S') /\ Cardinality(S') = Cardinality(S) - 1
      BY <1>2, <3>5, FS_RemoveElement
    <3>7. verdict[w] \in {"success", "retryable", "failure"}
      BY <1>1, <3>3 DEF InJob
    <3>8. told' \subseteq {"success", "retryable", "failure"}
          /\ Cardinality(told') \in Nat /\ Cardinality(told') <= n + 1
      BY <3>1, <3>7, Verdicts DEF ToldOnce
    <3> HIDE DEF S
    <3>9. Cardinality(told') + Cardinality(S') <= attempts
      BY <1>1, <1>2, <3>6, <3>8
    <3> QED BY <2>1, <3>6, <3>8, <3>9 DEF ToldOnce, S
  <2> QED BY <2>3, <2>4
<1>13. CASE Die(w)
  <2>1. /\ pc'[w] = "down" /\ UNCHANGED <<told, attempts>>
        /\ \A v \in Workers \ {w} : channel'[v] = channel[v] /\ pc'[v] = pc[v]
    BY <1>1, <1>13 DEF Die, Crash, J!Crash, J!Forget, J!shared, jobvars
  <2>2. S' = S \ {w}
    BY <2>1 DEF ToTell
  <2> QED BY <1>11, <2>1, <2>2
<1> QED BY <1>4, <1>5, <1>6, <1>7, <1>9, <1>10, <1>12, <1>13 DEF Move

-----------------------------------------------------------------------------
(* Deliveries.                                                             *)

\* Where the request is: there is one partition, with one message.  The request
\* is used up while its offset is committed or a worker has fetched it and still
\* works on it or has its commit under way.
Spent == \A p \in Partitions :
  \/ owner[p] = None /\ committed[p] = 1
  \/ /\ owner[p] # None /\ position[p] = 1
     /\ committed[p] = 1 \/ Busy(owner[p]) \/ commits[owner[p]] # << >>
OncePerFault ==
  /\ attempts <= 1 + faults /\ (attempts = 1 + faults => Spent)
  /\ \A w \in Workers : \A i \in 1 .. Len(commits[w]) : commits[w][i].next = 1

LEMMA OnePartition == /\ LogLen = 1 /\ Offsets = {0}
                      /\ \A p, q \in Partitions : p = q
<1>1. LogLen = 1 /\ \A p, q \in Partitions : p = q
  BY OneRequest
<1>2. 0 .. 1 - 1 = {0}
  OBVIOUS
<1> QED BY <1>1, <1>2 DEF Offsets

LEMMA OncePerFaultStep ==
  ASSUME Parts, InJob, OncePerFault, NEW w \in Workers, Move(w)
  PROVE  OncePerFault'
<1>1. /\ committed \in [Partitions -> 0 .. 1] /\ position \in [Partitions -> 0 .. 1]
      /\ owner \in [Partitions -> Workers \union {None}]
      /\ pc \in [Workers -> Points] /\ commits \in [Workers -> Seq(Commit)]
      /\ job \in [Workers -> Messages \union {None}]
      /\ attempts \in Nat /\ faults \in Nat /\ None \notin Workers
  BY JobConstants, OnePartition, ConstantsAssumption
  DEF Parts, IntakeInv, TypeOK, JP!JobInv, JP!TypeOK, JP!JobAssumption
<1> DEFINE Ones(c) == \A v \in Workers : \A i \in 1 .. Len(c[v]) : c[v][i].next = 1
<1>2. Ones(commits) /\ attempts <= 1 + faults
  BY DEF OncePerFault
<1>3. ASSUME UNCHANGED <<commits, attempts>>, faults' = faults + 1
      PROVE  OncePerFault'
  BY <1>1, <1>2, <1>3 DEF OncePerFault
<1>4. ASSUME UNCHANGED <<broker, commits, attempts, faults>>,
             \A v \in Workers : Busy(v)' <=> Busy(v)
      PROVE  OncePerFault'
  <2>1. Spent => Spent'
    BY <1>1, <1>4 DEF Spent, broker
  <2> QED BY <1>2, <1>4, <2>1 DEF OncePerFault
<1>5. CASE Kafka(w)
  <2>1. UNCHANGED attempts
    BY <1>5 DEF Kafka, jobvars
  <2>2. CASE Start(w) \/ Shutdown(w)
    BY <1>1, <1>4, <2>1, <2>2 DEF Start, Shutdown, Busy, broker
  <2>3. ASSUME NEW p \in Partitions, Assign(p, w) PROVE OncePerFault'
    <3>1. CASE owner[p] # None
      BY <1>3, <2>1, <2>3, <3>1 DEF Assign, AssignFrom, local
    <3>2. CASE owner[p] = None
      <4>1. /\ owner'[p] = w /\ position'[p] = committed[p]
            /\ UNCHANGED <<committed, commits, faults, pc>>
        BY <1>1, <2>3, <3>2 DEF Assign, AssignFrom, local
      <4>2. Spent => Spent'
        BY <1>1, <3>2, <4>1, OnePartition DEF Spent
      <4> QED BY <1>2, <2>1, <4>1, <4>2 DEF OncePerFault
    <3> QED BY <3>1, <3>2
  <2>4. CASE CommitArrives(w)
    <3> DEFINE c == commits[w]
    <3>1. c # << >> /\ c \in Seq(Commit) /\ UNCHANGED <<faults, owner, position, pc>>
      BY <1>1, <2>4 DEF CommitArrives
    <3>2. Len(c) \in Nat \ {0} /\ Head(c) = c[1] /\ Head(c) \in Commit
      BY <3>1
    <3>3. Head(c).next = 1 /\ Head(c).partition \in Partitions
      BY <1>2, <3>2 DEF Commit
    <3>4. \A p \in Partitions : committed'[p] = 1
      BY <1>1, <2>4, <3>3, OnePartition DEF CommitArrives
    <3>5. Spent => Spent'
      BY <3>1, <3>4 DEF Spent
    <3>6. Ones(commits')
      <4>1. /\ Len(Tail(c)) = Len(c) - 1
            /\ \A i \in 1 .. Len(c) - 1 : Tail(c)[i] = c[i + 1]
        BY <3>1
      <4>2. commits'[w] = Tail(c) /\ \A v \in Workers \ {w} : commits'[v] = commits[v]
        BY <1>1, <2>4 DEF CommitArrives
      <4>3. \A i \in 1 .. Len(c) : c[i].next = 1
        BY <1>2
      <4> HIDE DEF c
      <4>4. ASSUME NEW i \in 1 .. Len(Tail(c)) PROVE Tail(c)[i].next = 1
        <5>1. i + 1 \in 1 .. Len(c) /\ Tail(c)[i] = c[i + 1]
          BY <3>2, <4>1
        <5> QED BY <4>3, <5>1
      <4> QED BY <1>2, <4>2, <4>4
    <3> QED BY <1>2, <2>1, <3>1, <3>5, <3>6 DEF OncePerFault
  <2>5. CASE CommitFails(w)
    <3> DEFINE c == commits[w]
    <3>1. c # << >> /\ c \in Seq(Commit) /\ faults' = faults + 1
      BY <1>1, <2>5 DEF CommitFails
    <3>2. Ones(commits')
      <4>1. /\ Len(Tail(c)) = Len(c) - 1 /\ Len(c) \in Nat
            /\ \A i \in 1 .. Len(c) - 1 : Tail(c)[i] = c[i + 1]
        BY <3>1
      <4>2. commits'[w] = Tail(c) /\ \A v \in Workers \ {w} : commits'[v] = commits[v]
        BY <1>1, <2>5 DEF CommitFails
      <4>3. \A i \in 1 .. Len(c) : c[i].next = 1
        BY <1>2
      <4> HIDE DEF c
      <4>4. ASSUME NEW i \in 1 .. Len(Tail(c)) PROVE Tail(c)[i].next = 1
        <5>1. i + 1 \in 1 .. Len(c) /\ Tail(c)[i] = c[i + 1]
          BY <4>1
        <5> QED BY <4>3, <5>1
      <4> QED BY <1>2, <4>2, <4>4
    <3> QED BY <1>1, <1>2, <2>1, <3>1, <3>2 DEF OncePerFault
  <2>6. CASE Acknowledge(w)
    <3> DEFINE c == commits[w]
               d == [partition |-> job[w][1], next |-> job[w][2] + 1]
    <3>1. job[w] \in Messages
      BY <2>6 DEF Acknowledge, Busy, Parts, IntakeInv, JobInHandIsNext
    <3>2. d.next = 1 /\ d \in Commit
      <4>1. job[w] \in Partitions \X {0} /\ LogLen = 1
        BY <3>1, OnePartition DEF Messages
      <4>2. job[w][1] \in Partitions /\ job[w][2] = 0
        BY <4>1
      <4> QED BY <4>1, <4>2 DEF Commit
    <3>3. /\ commits'[w] = Append(c, d) /\ c \in Seq(Commit)
          /\ UNCHANGED <<broker, faults>>
          /\ \A v \in Workers \ {w} : commits'[v] = commits[v] /\ pc'[v] = pc[v]
      BY <1>1, <2>6 DEF Acknowledge, CommitAfter
    <3> HIDE DEF c, d
    <3>4. /\ Len(Append(c, d)) = Len(c) + 1 /\ Len(c) \in Nat
          /\ \A i \in 1 .. Len(c) + 1 :
               Append(c, d)[i] = IF i <= Len(c) THEN c[i] ELSE d
      BY <3>2, <3>3, AppendProperties
    <3>5. commits'[w] # << >>
      <4>1. Len(Append(c, d)) # 0
        BY <3>4
      <4> QED BY <3>3, <4>1, EmptySeq
    <3>6. Spent => Spent'
      <4> SUFFICES ASSUME Spent, NEW p \in Partitions, owner[p] # None
                   PROVE  \/ committed[p] = 1 \/ Busy(owner[p])'
                          \/ commits'[owner[p]] # << >>
        BY <3>3 DEF Spent, broker
      <4>1. owner[p] \in Workers
        BY <1>1
      <4>2. CASE owner[p] = w
        BY <3>5, <4>2
      <4>3. CASE owner[p] # w
        BY <3>3, <4>1, <4>3 DEF Spent, Busy, broker
      <4> QED BY <4>2, <4>3
    <3>7. \A i \in 1 .. Len(c) : c[i].next = 1
      BY <1>2 DEF c
    <3>8. ASSUME NEW i \in 1 .. Len(c) + 1 PROVE Append(c, d)[i].next = 1
      BY <3>2, <3>4, <3>7
    <3>9. Ones(commits')
      BY <1>2, <3>3, <3>4, <3>8
    <3> QED BY <1>2, <2>1, <3>3, <3>6, <3>9 DEF OncePerFault
  <2>7. CASE Close(w)
    <3>1. /\ pc[w] = "closing" /\ commits[w] = << >>
          /\ UNCHANGED <<committed, position, commits, faults>>
          /\ \A p \in Partitions : owner'[p] = IF owner[p] = w THEN None ELSE owner[p]
          /\ \A v \in Workers \ {w} : pc'[v] = pc[v]
      BY <1>1, <2>7 DEF Close, Leave
    <3>2. Spent => Spent'
      <4> SUFFICES ASSUME Spent, NEW p \in Partitions
                   PROVE  \/ owner'[p] = None /\ committed'[p] = 1
                          \/ /\ owner'[p] # None /\ position'[p] = 1
                             /\ \/ committed'[p] = 1 \/ Busy(owner[p])'
                                \/ commits'[owner'[p]] # << >>
        BY DEF Spent, Busy
      <4>1. CASE owner[p] = None
        BY <1>1, <3>1, <4>1 DEF Spent
      <4>2. CASE owner[p] = w
        BY <1>1, <3>1, <4>2 DEF Spent, Busy
      <4>3. CASE owner[p] \in Workers \ {w}
        BY <1>1, <3>1, <4>3 DEF Spent, Busy
      <4> QED BY <1>1, <4>1, <4>2, <4>3
    <3> QED BY <1>2, <2>1, <3>1, <3>2 DEF OncePerFault
  <2> QED BY <1>5, <2>2, <2>3, <2>4, <2>5, <2>6, <2>7 DEF Kafka
<1>6. CASE Take(w)
  <2>1. PICK p \in Partitions : StartJob(w, p)
    BY <1>6 DEF Take
  <2>2. /\ attempts' = attempts + 1 /\ UNCHANGED <<faults, commits, owner, committed>>
        /\ pc'[w] = "processing" /\ pc[w] = "waiting" /\ owner[p] = w
        /\ position[p] = 0 /\ position'[p] = 1
    BY <1>1, <1>6, <2>1, OnePartition DEF Take, StartJob, Receive, J!Accept
  <2>3. ~Spent
    <3>1. owner[p] # None /\ position[p] # 1
      BY <1>1, <2>2
    <3> QED BY <3>1 DEF Spent
  <2>4. attempts <= faults
    BY <1>1, <1>2, <2>3 DEF OncePerFault
  <2>5. Spent'
    BY <1>1, <2>2, OnePartition DEF Spent, Busy
  <2> QED BY <1>1, <1>2, <2>2, <2>4, <2>5 DEF OncePerFault
<1>7. CASE Progress(w) /\ Running(w)
  BY <1>4, <1>7 DEF Progress, Running, Busy
<1>8. CASE Running(w) /\ UNCHANGED vars
  BY <1>4, <1>8 DEF vars, Running, broker, Busy
<1>9. ASSUME NEW last, Ending(w, last) PROVE OncePerFault'
  BY <1>1, <1>4, <1>9 DEF Ending, FinishJob, Busy
<1>10. CASE Ending(w, SuccessEvents(w))
  BY <1>9, <1>10
<1>11. CASE Ending(w, FailureEvents(w))
  BY <1>9, <1>11
<1>12. ASSUME NEW delivered \in BOOLEAN, Send(w, delivered) PROVE OncePerFault'
  BY <1>4, <1>12 DEF Send, Publish, PublishEvent, Busy, jobvars
<1>13. CASE Die(w)
  <2>1. /\ UNCHANGED attempts /\ faults' = faults + 1 /\ commits'[w] = << >>
        /\ \A v \in Workers \ {w} : commits'[v] = commits[v]
    BY <1>1, <1>13 DEF Die, Crash, J!Crash, J!Forget, J!shared, jobvars
  <2>2. Ones(commits')
    <3>1. 1 .. Len(commits'[w]) = {}
      BY <2>1, EmptySeq
    <3> QED BY <1>2, <2>1, <3>1
  <2> QED BY <1>1, <1>2, <2>1, <2>2 DEF OncePerFault
<1> QED BY <1>5, <1>6, <1>7, <1>8, <1>10, <1>11, <1>12, <1>13 DEF Move

-----------------------------------------------------------------------------
(* The invariant of the composition and what follows from it.              *)

\* Beside that, whoever was told a success has its artifact.
ToldStored == "success" \in told => store \in 1 .. MaxAttempts
ServiceInv == /\ InJob /\ ResultIsLast /\ ToldOnce /\ OncePerFault
              /\ JP!StoredStays /\ ToldStored

LEMMA StoredStep ==
  ASSUME Parts, JP!StoredStays, ToldStored, ServiceNext
  PROVE  JP!StoredStays' /\ ToldStored'
<1> USE DEF JP!Attempts
<1>1. CASE UNCHANGED jobvars
  <2>1. JP!StoredStays'
    BY <1>1 DEF JP!StoredStays, jobvars
  <2>2. \A v \in told' : v \in told \/ \E w \in Workers : v = verdict[w]
    BY <1>1, Moves DEF Move, Kafka, Take, Running, Ending, Send, Tell, Die, all
  <2> QED BY <1>1, <2>1, <2>2 DEF JP!StoredStays, ToldStored, jobvars
<1>2. ASSUME NEW w \in Workers, J!Step(w) PROVE JP!StoredStays' /\ ToldStored'
  <2>1. JP!StoredStays' /\ (store \in 1 .. MaxAttempts => store' \in 1 .. MaxAttempts)
    BY <1>2, SameStep, JobConstants, JP!StoredStaysStep DEF Parts
  <2>2. \A v \in told' : v \in told \/ \E u \in Workers : v = verdict[u]
    BY Moves DEF Move, Kafka, Take, Running, Ending, Send, Tell, Die, all
  <2> QED BY <2>1, <2>2 DEF JP!StoredStays, ToldStored
<1> QED BY <1>1, <1>2, JobMoves

LEMMA ServiceInitInv == ServiceInit => ServiceInv
<1> SUFFICES ASSUME ServiceInit PROVE ServiceInv
  OBVIOUS
<1> USE DEF ServiceInit, Init, J!Init
<1>1. InJob
  BY DEF InJob
<1>2. ResultIsLast /\ \A w \in Workers : 1 .. Len(commits[w]) = {}
  BY EmptySeq DEF ResultIsLast
<1>3. ToldOnce
  <2>1. ToTell = {} /\ told = {} /\ attempts = 0
    BY DEF ToTell
  <2> QED BY <2>1, FS_EmptySet DEF ToldOnce
<1>4. OncePerFault
  BY <1>2 DEF OncePerFault
<1>5. JP!StoredStays /\ ToldStored
  BY DEF JP!StoredStays, ToldStored
<1> QED BY <1>1, <1>2, <1>3, <1>4, <1>5 DEF ServiceInv

LEMMA ServiceStep == Parts /\ ServiceInv /\ [ServiceNext]_all => ServiceInv'
<1>1. ASSUME Parts, ServiceInv, UNCHANGED all PROVE ServiceInv'
  <2>1. UNCHANGED <<told, pc, channel, at, verdict, attempts, faults, commits,
                    owner, committed, position, stored, store>>
    BY <1>1 DEF all, vars, jobvars
  <2>2. InJob' /\ ResultIsLast' /\ JP!StoredStays' /\ ToldStored'
    BY <1>1, <2>1 DEF ServiceInv, InJob, ResultIsLast, JP!StoredStays, ToldStored,
                      JP!Attempts
  <2>3. ToldOnce'
    BY <1>1, <2>1 DEF ServiceInv, ToldOnce, ToTell
  <2>4. OncePerFault'
    BY <1>1, <2>1 DEF ServiceInv, OncePerFault, Spent, Busy
  <2> QED BY <2>2, <2>3, <2>4 DEF ServiceInv
<1>2. ASSUME Parts, ServiceInv, ServiceNext PROVE ServiceInv'
  <2>1. JP!StoredStays' /\ ToldStored'
    BY <1>2, StoredStep DEF ServiceInv
  <2>2. CASE UNCHANGED all
    BY <1>1, <1>2, <2>2
  <2>3. ASSUME NEW w \in Workers, Move(w) PROVE ServiceInv'
    BY <1>2, <2>1, <2>3, InJobStep, ResultIsLastStep, ToldOnceStep,
       OncePerFaultStep DEF ServiceInv
  <2> QED BY <1>2, <2>2, <2>3, Moves
<1> QED BY <1>1, <1>2

\* The composition keeps what the parts promise, and what relates them.
THEOREM ServiceInvariant == ServiceSpec => [](Parts /\ ServiceInv)
  BY ServiceInitInv, ServiceStep, PartsInvariant, PTL DEF ServiceSpec

\* Whoever is told "success" finds a complete document in the storage, and so it
\* stays, whatever later or overlapping attempts do (job.rs:108, 146).
THEOREM ToldIsStored == ServiceSpec => []SuccessToldMeansStored
<1>1. ServiceInv => SuccessToldMeansStored
  BY DEF ServiceInv, ToldStored, SuccessToldMeansStored
<1> QED BY <1>1, ServiceInvariant, PTL

\* A request is delivered once, and once more for a fault at most, and the client
\* is told no more verdicts than there were deliveries (main.rs:122).
THEOREM OneDeliveryPerFault == ServiceSpec => []DeliveriesBounded
<1>1. Parts /\ ServiceInv => DeliveriesBounded
  <2> SUFFICES ASSUME Parts, ServiceInv PROVE DeliveriesBounded
    OBVIOUS
  <2>1. TypeOK /\ J!TypeOK
    BY SameTypes DEF Parts, IntakeInv, JP!JobInv
  <2>2. attempts \in Nat
    BY JobConstants DEF Parts, JP!JobInv, JP!TypeOK, JP!JobAssumption
  <2>3. /\ told \subseteq {"success", "retryable", "failure"}
        /\ Cardinality(told) + Cardinality(ToTell) <= attempts
        /\ Cardinality(told) \in Nat /\ Cardinality(ToTell) \in Nat
    BY Verdicts, FS_CardinalityType DEF ServiceInv, ToldOnce
  <2>4. Cardinality(told) <= attempts
    BY <2>2, <2>3
  <2>5. attempts <= 1 + faults
    BY DEF ServiceInv, OncePerFault
  <2> QED BY <2>1, <2>3, <2>4, <2>5 DEF DeliveriesBounded, ServiceTypeOK
<1> QED BY <1>1, ServiceInvariant, PTL
=============================================================================
