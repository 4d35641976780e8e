---------------------------- MODULE Preparation ----------------------------
(***************************************************************************)
(* The documents an attempt has local tools make (office.rs, pdf.rs,       *)
(* office_prepare.rs, pdf_prepare.rs in src/src/worker/processor).  They   *)
(* have the same names in every attempt, and the job's directory may hold  *)
(* what an earlier attempt left when its worker died or when the removal   *)
(* of the directory failed.  LibreOffice is started by a launcher; when it *)
(* times out the launcher alone is killed (process.rs), and the program    *)
(* may live on as an orphan and write its output later.                    *)
(*                                                                         *)
(* The module follows one worker's disk.  Which tools run in which order   *)
(* is the subject of Submission; here any order the code allows will do.   *)
(* The content of a file is the attempt from whose input it was made.      *)
(***************************************************************************)
EXTENDS Integers

CONSTANT MaxAttempts  \* bound: attempts on this disk

ASSUME PreparationAssumption == MaxAttempts \in Nat

Attempts == 1 .. MaxAttempts
Nothing  == -1                  \* no such file
Partial  == 0                   \* a file written in part
Contents == {Nothing, Partial} \union Attempts
Files    == {"input", "converted", "optimized"}

VARIABLES
  pc,      \* "idle", "submit", "running" or "finalize"
  attempt, \* number of the attempt
  exists,  \* whether the directory exists
  file,    \* contents of its files
  hand,    \* the document in hand: submitted, or worked on
  target,  \* what the tool that runs makes of it
  orphans, \* contents that orphans may still write to the converted file
  tainted  \* history: an orphan wrote since the attempt began or converted

vars == <<pc, attempt, exists, file, hand, target, orphans, tainted>>

TypeOK ==
  /\ pc \in {"idle", "submit", "running", "finalize"}
  /\ attempt \in 0 .. MaxAttempts
  /\ file \in [Files -> Contents] /\ exists \in BOOLEAN
  /\ ~exists => \A f \in Files : file[f] = Nothing
  /\ hand \in Files /\ target \in Files
  /\ orphans \subseteq Attempts /\ tainted \in BOOLEAN

Init ==
  /\ pc = "idle" /\ attempt = 0
  /\ exists = FALSE /\ file = [f \in Files |-> Nothing]
  /\ hand = "input" /\ target = "input"
  /\ orphans = {} /\ tainted = FALSE

-----------------------------------------------------------------------------
(* The attempt and its tools.                                              *)

\* The input is downloaded over the one that is there.
Begin ==
  /\ pc = "idle" /\ attempt < MaxAttempts
  /\ pc' = "submit" /\ attempt' = attempt + 1
  /\ exists' = TRUE /\ file' = [file EXCEPT !["input"] = attempt + 1]
  /\ hand' = "input" /\ target' = "input" /\ tainted' = FALSE
  /\ UNCHANGED orphans

Tool(to) == IF to = "converted" THEN "soffice" ELSE "gs"

\* What a tool finds where its output goes: remove_existing_file clears the
\* way for LibreOffice, Ghostscript truncates the file itself.
\* Seeded bug: the PDF of an earlier conversion is left where it is.
Keep(to)  == IF Tool(to) = "soffice" THEN file[to] ELSE Partial
Clear(to) == IF Tool(to) = "soffice" THEN Nothing ELSE Partial

\* The input is converted, or a PDF, converted or not, optimised.
Run(to) ==
  /\ pc = "submit"
  /\ <<hand, to>> \in {<<"input", "converted">>, <<"input", "optimized">>,
                       <<"converted", "optimized">>}
  /\ file' = [file EXCEPT ![to] = Clear(to)]
  /\ pc' = "running" /\ target' = to
  /\ tainted' = (tainted /\ to # "converted")
  /\ UNCHANGED <<attempt, exists, hand, orphans>>

\* The tool exits with status 0.  LibreOffice may do so without an output;
\* whether there is one then decides (ensure_output_exists, file_size).
Exit(content) ==
  /\ pc = "running"
  /\ file' = [file EXCEPT ![target] = content]
  /\ IF content = Nothing THEN pc' = "finalize" /\ UNCHANGED hand
                          ELSE pc' = "submit" /\ hand' = target
  /\ UNCHANGED <<attempt, exists, target, orphans, tainted>>
Written == Exit(file[hand])
Silent  == Tool(target) = "soffice" /\ Exit(file[target])

\* It cannot be started, or exits with an error; what it has written stays.
Fails ==
  /\ pc = "running"
  /\ \E content \in {file[target], Partial, file[hand]} :
       file' = [file EXCEPT ![target] = content]
  /\ pc' = "finalize"
  /\ UNCHANGED <<attempt, exists, hand, target, orphans, tainted>>

\* The timeout kills it, but not the program LibreOffice's launcher started.
TimesOut ==
  /\ pc = "running" /\ Tool(target) = "soffice"
  /\ pc' = "finalize"
  /\ orphans' = orphans \union {file[hand]}
  /\ UNCHANGED <<attempt, exists, file, hand, target, tainted>>

\* The document in hand has been submitted for the last time, or an error.
Ends ==
  /\ pc = "submit"
  /\ pc' = "finalize"
  /\ UNCHANGED <<attempt, exists, file, hand, target, orphans, tainted>>

\* finalize_job_dir removes the directory, or fails with some files gone.
Finalize ==
  /\ pc = "finalize" /\ pc' = "idle"
  /\ \/ exists' = FALSE /\ file' = [f \in Files |-> Nothing]
     \/ /\ UNCHANGED exists
        /\ \E gone \in SUBSET Files :
             file' = [f \in Files |-> IF f \in gone THEN Nothing ELSE file[f]]
  /\ UNCHANGED <<attempt, hand, target, orphans, tainted>>

\* The worker dies, and in its container every program with it.
Crash ==
  /\ pc # "idle" /\ pc' = "idle"
  /\ orphans' = {}
  /\ \E content \in {file[target]} \union
                    (IF pc = "running" THEN {Partial, file[hand]} ELSE {}) :
       file' = [file EXCEPT ![target] = content]
  /\ UNCHANGED <<attempt, exists, hand, target, tainted>>

-----------------------------------------------------------------------------
(* Orphans (external).                                                     *)

\* An orphan writes to the path it was given, or finds no directory there.
OrphanWrites(content) ==
  /\ content \in orphans /\ exists
  /\ \E c \in {Partial, content} : file' = [file EXCEPT !["converted"] = c]
  /\ tainted' = TRUE
  /\ UNCHANGED <<pc, attempt, exists, hand, target, orphans>>

OrphanEnds(content) ==
  /\ content \in orphans
  /\ orphans' = orphans \ {content}
  /\ UNCHANGED <<pc, attempt, exists, file, hand, target, tainted>>

Quiet == pc = "idle" /\ attempt = MaxAttempts /\ UNCHANGED vars

-----------------------------------------------------------------------------
Next ==
  \/ Begin
  \/ \E to \in Files : Run(to)
  \/ Written \/ Silent \/ Fails \/ TimesOut
  \/ Ends \/ Finalize \/ Crash
  \/ \E content \in Attempts : OrphanWrites(content) \/ OrphanEnds(content)
  \/ Quiet

Spec == Init /\ [][Next]_vars

-----------------------------------------------------------------------------
(* Properties.                                                             *)

\* What is submitted was made completely and of the input of this attempt,
\* whatever earlier attempts have left under the same names and though the
\* only sign of a conversion is that its output exists (office.rs:39, 80).  An
\* orphan that writes meanwhile, to the converted file or to what is made of
\* it, is the one thing the code has no answer to (process.rs:61).  Every
\* variable has its type.
SubmittedIsOwn ==
  /\ TypeOK
  /\ pc = "submit" => file[hand] = attempt \/ (tainted /\ hand # "input")
=============================================================================
