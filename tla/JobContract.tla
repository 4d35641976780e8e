---------------------------- MODULE JobContract ----------------------------
(***************************************************************************)
(* What the attempts at a job promise to whoever reads their events.  An   *)
(* accepted attempt reports progress that never goes back and ends in one  *)
(* verdict, or dies.  It succeeds only with its artifact stored, and it    *)
(* calls itself retryable only if it has stored nothing.                   *)
(***************************************************************************)
EXTENDS Naturals

CONSTANT Workers

VARIABLES phase, percent, stored, verdict

vars == <<phase, percent, stored, verdict>>

Init ==
  /\ phase   = [w \in Workers |-> "idle"]
  /\ percent = [w \in Workers |-> 0]
  /\ stored  = [w \in Workers |-> FALSE]
  /\ verdict = [w \in Workers |-> "none"]

Accept(w) ==
  /\ phase[w] = "idle"
  /\ phase'   = [phase EXCEPT ![w] = "running"]
  /\ percent' = [percent EXCEPT ![w] = 0]
  /\ stored'  = [stored EXCEPT ![w] = FALSE]
  /\ verdict' = [verdict EXCEPT ![w] = "none"]

Report(w) ==
  /\ phase[w] = "running"
  /\ \E p \in percent[w] .. 90 : percent' = [percent EXCEPT ![w] = p]
  /\ UNCHANGED <<phase, stored, verdict>>

\* The upload is the last thing announced.
Store(w) ==
  /\ phase[w] = "running" /\ percent[w] = 90
  /\ stored' = [stored EXCEPT ![w] = TRUE]
  /\ UNCHANGED <<phase, percent, verdict>>

End(w, v) ==
  /\ phase[w] = "running"
  /\ phase' = [phase EXCEPT ![w] = "idle"]
  /\ verdict' = [verdict EXCEPT ![w] = v]
  /\ UNCHANGED stored

Succeed(w) == stored[w] /\ End(w, "success")
                        /\ percent' = [percent EXCEPT ![w] = 100]
GiveUp(w)  == End(w, "failure") /\ UNCHANGED percent
AskForRetry(w) == ~stored[w] /\ End(w, "retryable") /\ UNCHANGED percent
Die(w)     == End(w, "none") /\ UNCHANGED percent

Next == \E w \in Workers :
          \/ Accept(w) \/ Report(w) \/ Store(w)
          \/ Succeed(w) \/ GiveUp(w) \/ AskForRetry(w) \/ Die(w)

Spec == Init /\ [][Next]_vars
=============================================================================
