-------------------------- MODULE GitHubContinuation --------------------------
(***************************************************************************)
(* Continuations that wait for a transition of one pull request,           *)
(* dispatcher/github-continuation.ts: the table github_continuations and   *)
(* the evaluation of a transition.  The decision of a continuation is      *)
(* claimed before its message or escalation is created, and its outcome    *)
(* recorded after that.                                                    *)
(***************************************************************************)
CONSTANTS
  Continuations,  \* by registration key
  WaitsFor,       \* the event of each continuation
  Recipient       \* the worker it wakes

ASSUME ContinuationAssumption ==
  WaitsFor \in [Continuations -> {"pull_request_merged", "checks_completed"}]

VARIABLE continuation

ContinuationRow ==
  [outcome : {"absent", "pending", "queued", "failed"},
   decision : {"none", "queue", "fail"}]

NoContinuation == [outcome |-> "absent", decision |-> "none"]

ContinuationTypeOK == continuation \in [Continuations -> ContinuationRow]

ContinuationInit == continuation = [k \in Continuations |-> NoContinuation]

\* register; a second registration under the same key changes nothing.
Register(k) ==
  /\ continuation[k].outcome = "absent"
  /\ continuation' = [continuation EXCEPT ![k].outcome = "pending"]

PendingContinuations == {k \in Continuations : continuation[k].outcome = "pending"}

\* A slip: the last decision wins.
RedecidedRow(row, decision) ==
  IF row.outcome = "pending" THEN [row EXCEPT !.decision = decision] ELSE row

\* claimDecision: WHERE outcome = 'pending' AND terminal_decision IS NULL
DecidedRow(row, decision) ==
  IF row.outcome = "pending" /\ row.decision = "none"
  THEN [row EXCEPT !.decision = decision] ELSE row

ClaimDecision(k, decision) ==
  continuation' = [continuation EXCEPT ![k] = DecidedRow(@, decision)]

\* A slip: the decision is recorded as the outcome.
FinishAsDecided(k, result) ==
  continuation' = [continuation EXCEPT ![k] =
    [@ EXCEPT !.outcome = continuation[k].decision]]

\* finishDecision: WHERE outcome = 'pending' AND terminal_decision = ?
FinishDecision(k, result) ==
  LET decision == IF result = "queued" THEN "queue" ELSE "fail"
  IN  continuation' = [continuation EXCEPT ![k] =
        IF @.outcome = "pending" /\ @.decision = decision
        THEN [@ EXCEPT !.outcome = result] ELSE @]

-----------------------------------------------------------------------------
\* A pull request as gh reports it: is its head the expected one, its state, and
\* whether it has checks that are all completed.
Pull ==
  [expected : BOOLEAN, state : {"open", "merged", "closed"}, checked : BOOLEAN]

\* evaluateTransition
Transition(k, pull) ==
  IF WaitsFor[k] = "pull_request_merged"
  THEN CASE pull.state = "merged" -> "queue"
         [] pull.state = "closed" -> "fail"
         [] pull.state = "open" -> "none"
  ELSE CASE pull.checked -> "queue"
         [] ~pull.checked /\ pull.state = "closed" -> "fail"
         [] ~pull.checked /\ pull.state # "closed" -> "none"

\* What a poll decides that has read the pull request.
Verdict(k, pull) == IF pull.expected THEN Transition(k, pull) ELSE "fail"
=============================================================================
