------------------------- MODULE PreparationProofs -------------------------
(***************************************************************************)
(* What is submitted was made of the input of the attempt: proved for      *)
(* every number of attempts on a disk.                                     *)
(***************************************************************************)
EXTENDS Preparation, TLAPS

Ways == {<<"input", "converted">>, <<"input", "optimized">>,
         <<"converted", "optimized">>}

\* Why SubmittedIsOwn holds.  It does while a tool runs on the document in
\* hand, too; and what lies in the way of LibreOffice has been removed, unless
\* an orphan has put something there.
OwnInHand ==
  pc \in {"submit", "running"} => file[hand] = attempt \/ (tainted /\ hand # "input")
WayCleared ==
  pc = "running" =>
    /\ <<hand, target>> \in Ways
    /\ target = "converted" => file["converted"] = Nothing \/ tainted
DirThere == pc # "idle" => exists /\ attempt # 0
PreparationInv == TypeOK /\ OwnInHand /\ WayCleared /\ DirThere

-----------------------------------------------------------------------------
\* Before the first attempt there is nothing on the disk.
LEMMA InitEstablishes == Init => PreparationInv
<1> SUFFICES ASSUME Init PROVE PreparationInv
  OBVIOUS
<1>1. file \in [Files -> Contents] /\ \A f \in Files : file[f] = Nothing
  BY DEF Init, Contents
<1>2. attempt \in 0 .. MaxAttempts
  BY PreparationAssumption DEF Init
<1>3. TypeOK
  BY <1>1, <1>2 DEF Init, TypeOK, Files
<1> QED
  BY <1>3 DEF Init, PreparationInv, OwnInHand, WayCleared, DirThere

\* No step of the worker, of a tool or of an orphan breaks it.
LEMMA NextPreserves == PreparationInv /\ [Next]_vars => PreparationInv'
<1> SUFFICES ASSUME PreparationInv, [Next]_vars PROVE PreparationInv'
  OBVIOUS
<1> USE PreparationAssumption
    DEF PreparationInv, TypeOK, OwnInHand, WayCleared, DirThere, Files,
        Contents, Attempts, Nothing, Partial, Ways
<1>1. CASE Begin
  <2>1. attempt + 1 \in 1 .. MaxAttempts /\ attempt' = attempt + 1
    BY <1>1 DEF Begin
  <2>2. file' \in [Files -> Contents] /\ file'["input"] = attempt'
    BY <1>1, <2>1 DEF Begin
  <2>3. attempt' # 0 /\ attempt' \in 0 .. MaxAttempts
    BY <2>1
  <2> QED
    BY <1>1, <2>2, <2>3 DEF Begin
<1>2. ASSUME NEW to \in Files, Run(to) PROVE PreparationInv'
  BY <1>2 DEF Run, Clear, Tool
\* The output of a tool that ends well is made of the document in hand, or
\* else of nothing but what an orphan wrote.
<1>3. ASSUME NEW content \in Contents, Exit(content),
             content = Nothing \/ content = file[hand] \/ tainted
      PROVE PreparationInv'
  <2>1. file'[target] = content /\ \A f \in Files : f # target => file'[f] = file[f]
    BY <1>3 DEF Exit
  <2>2. CASE content = Nothing
    BY <1>3, <2>1, <2>2 DEF Exit
  <2>3. CASE content # Nothing
    <3>1. pc' = "submit" /\ hand' = target /\ hand' # "input" /\ exists' /\ attempt' # 0
      BY <1>3, <2>3 DEF Exit
    <3>2. content = attempt \/ tainted
      BY <1>3, <2>3 DEF Exit
    <3>3. OwnInHand'
      BY <1>3, <2>1, <3>1, <3>2 DEF Exit
    <3>4. TypeOK'
      BY <1>3, <3>1 DEF Exit
    <3> QED
      BY <3>1, <3>3, <3>4
  <2> QED
    BY <2>2, <2>3
<1>4. CASE Written
  <2>1. file[hand] \in Contents
    OBVIOUS
  <2> QED
    BY <1>3, <1>4, <2>1 DEF Written
<1>5. CASE Silent
  <2>1. pc = "running" /\ target = "converted"
    BY <1>5 DEF Silent, Exit, Tool
  <2>2. file[target] \in Contents /\ (file[target] = Nothing \/ tainted)
    BY <2>1
  <2> QED
    BY <1>3, <1>5, <2>2 DEF Silent
<1>6. CASE Fails
  BY <1>6 DEF Fails
<1>7. CASE TimesOut
  <2>1. file[hand] = attempt
    BY <1>7 DEF TimesOut, Tool
  <2> QED
    BY <1>7, <2>1 DEF TimesOut
<1>8. CASE Ends
  BY <1>8 DEF Ends
<1>9. CASE Finalize
  BY <1>9 DEF Finalize
<1>10. CASE Crash
  BY <1>10 DEF Crash
<1>11. ASSUME NEW content \in Attempts, OrphanWrites(content) PROVE PreparationInv'
  BY <1>11 DEF OrphanWrites
<1>12. ASSUME NEW content \in Attempts, OrphanEnds(content) PROVE PreparationInv'
  BY <1>12 DEF OrphanEnds
<1>13. CASE Quiet \/ UNCHANGED vars
  BY <1>13 DEF Quiet, vars
<1> QED
  BY <1>1, <1>2, <1>4, <1>5, <1>6, <1>7, <1>8, <1>9, <1>10, <1>11, <1>12, <1>13
  DEF Next

-----------------------------------------------------------------------------
\* For every number of attempts: what is submitted was made completely, and of
\* the input this attempt has downloaded, unless an orphan writes meanwhile.
THEOREM OwnSubmitted == Spec => []SubmittedIsOwn
<1>1. PreparationInv => SubmittedIsOwn
  BY DEF PreparationInv, SubmittedIsOwn, OwnInHand
<1> QED
  BY <1>1, InitEstablishes, NextPreserves, PTL DEF Spec
=============================================================================
