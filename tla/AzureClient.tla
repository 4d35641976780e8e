---------------------------- MODULE AzureClient ----------------------------
(***************************************************************************)
(* One call of the Azure Document Intelligence client                      *)
(* (src/src/azure/client.rs, analyze_document_body and poll_for_result):   *)
(* post the document, then poll the operation Azure has started.  The      *)
(* module has no specification of its own, the caller drives it.           *)
(***************************************************************************)
EXTENDS Naturals

CONSTANT MaxPolls  \* POLL_MAX_ATTEMPTS

ASSUME PollAssumption == MaxPolls \in Nat \ {0}

VARIABLES
  call,       \* "idle", "posting" or "polling"
  polls,      \* polls of this call
  answer,     \* what the call returned, "none" before
  posts       \* history: POSTs of the document so far, each may start an
              \* operation at Azure

azure == <<call, polls, answer, posts>>

\* "rate_limited" is status 429, "too_large" an API error that names
\* InvalidContentLength, "api" any other one, "request" a transport error,
\* "protocol" a response the client cannot use.  That these are disjoint takes
\* that no body of a status 429 names InvalidContentLength: if one did, its last
\* retry would be followed by a recovery (submission.rs:111-132, 157).
ApiErrors == {"rate_limited", "too_large", "api"}
Answers   == ApiErrors \union {"ok", "request", "timeout", "protocol"}

AzureTypeOK ==
  /\ call \in {"idle", "posting", "polling"}
  /\ polls \in 0 .. MaxPolls
  /\ answer \in Answers \union {"none"}
  /\ posts \in Nat

AzureInit == call = "idle" /\ polls = 0 /\ answer = "none" /\ posts = 0

Begin ==
  /\ call' = "posting" /\ polls' = 0 /\ answer' = "none"
  /\ posts' = posts + 1

Return(a) == call' = "idle" /\ answer' = a /\ UNCHANGED posts

\* The POST is refused, or lost (before or after Azure has started to work), or
\* accepted without a usable Operation-Location, or accepted.
PostFails ==
  /\ call = "posting"
  /\ \E a \in ApiErrors \union {"request", "protocol"} : Return(a)
  /\ UNCHANGED polls

Accepted == call = "posting" /\ call' = "polling" /\ UNCHANGED <<polls, answer, posts>>

\* Seeded bug: there is no limit to the polls, their counter starts over.
PollForever == call = "polling" /\ polls' = (polls + 1) % MaxPolls
Poll == call = "polling" /\ polls < MaxPolls /\ polls' = polls + 1

\* The operation is notStarted or running.
StillRunning == Poll /\ UNCHANGED <<call, answer, posts>>

\* It has succeeded or failed, or the poll itself goes wrong; also a status
\* 429 of a poll ends the call, and with it the interest in the operation.
PollAnswers == Poll /\ \E a \in Answers \ {"timeout"} : Return(a)

PollsExhausted ==
  /\ call = "polling" /\ polls = MaxPolls
  /\ Return("timeout")
  /\ UNCHANGED polls

AzureStep == PostFails \/ Accepted \/ StillRunning \/ PollAnswers \/ PollsExhausted
=============================================================================
