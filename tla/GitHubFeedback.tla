---------------------------- MODULE GitHubFeedback ----------------------------
(***************************************************************************)
(* The feedback on one pull request, dispatcher/github-feedback.ts: the    *)
(* tables github_feedback_events and github_feedback_checkpoints, and what *)
(* the poller decides about a recorded event.                              *)
(*                                                                         *)
(* A source is one kind of feedback.  Its cursor is the last event, in     *)
(* order of creation, that was ever recorded.                              *)
(***************************************************************************)
EXTENDS Integers, FiniteSets, Sequences, SequencesExt

CONSTANTS
  Kinds,       \* GITHUB_FEEDBACK_KINDS, in the order they are read
  Feedback,    \* the events, by source_id
  Workers,     \* the names an event may be signed with
  Unsigned,    \* no signature
  Content      \* what each event is: a ContentRow

\* An event may mention workers by name or ask for action in words; createdAt
\* orders the events.
ContentRow ==
  [kind : ToSet(Kinds), state : {"CHANGES_REQUESTED", "APPROVED", "DISMISSED", "COMMENTED"},
   actor : Workers \cup {Unsigned}, mentions : SUBSET Workers, asks : BOOLEAN,
   createdAt : Nat \ {0}]

ASSUME FeedbackAssumption ==
  /\ Kinds \in Seq({"review", "review_comment", "issue_comment"})
  /\ Unsigned \notin Workers
  /\ Content \in [Feedback -> ContentRow]

VARIABLES
  outcome,     \* the outcome of each recorded event ("absent": no row)
  cursor       \* of each source, the creation time; 0 is null

feedbackTables == <<outcome, cursor>>

Outcomes == {"pending", "queued", "ignored", "escalated"}

FeedbackTypeOK ==
  /\ outcome \in [Feedback -> Outcomes \cup {"absent"}]
  /\ cursor \in [ToSet(Kinds) -> Nat]

FeedbackInit ==
  /\ outcome = [e \in Feedback |-> "absent"]
  /\ cursor = [kind \in ToSet(Kinds) |-> 0]

EventsOf(kind) == {e \in Feedback : Content[e].kind = kind}

-----------------------------------------------------------------------------
\* A slip: events behind the cursor are taken for known.
AfterCursor(listed, since) == {e \in listed : Content[e].createdAt > since}

\* What a poll keeps of the events it has listed, with the cursor it read first.
Unknown(listed, since) ==
  {e \in listed : Content[e].createdAt > since \/ outcome[e] = "absent"}

\* recordBatch: an event is inserted once, and the cursor only advances.
RecordBatch(kind, batch) ==
  /\ outcome' = [e \in Feedback |->
       IF e \in batch /\ outcome[e] = "absent" THEN "pending" ELSE outcome[e]]
  /\ cursor' = [cursor EXCEPT ![kind] = Max({@} \cup {Content[e].createdAt : e \in batch})]

Pending == {e \in Feedback : outcome[e] = "pending"}

\* listPending: ORDER BY created_at
FirstOf(events) ==
  CHOOSE e \in events : \A f \in events : Content[e].createdAt <= Content[f].createdAt

\* markOutcome: WHERE outcome = 'pending'
MarkOutcome(e, result) ==
  /\ outcome' = [outcome EXCEPT ![e] = IF @ = "pending" THEN result ELSE @]
  /\ UNCHANGED cursor

RequestsChanges(e) ==
  Content[e].kind = "review" /\ Content[e].state = "CHANGES_REQUESTED"

\* countQueuedReviewCycles
QueuedReviewCycles == Cardinality({e \in Feedback : RequestsChanges(e) /\ outcome[e] = "queued"})

-----------------------------------------------------------------------------
(***************************************************************************)
(* #routeEvent: what becomes of an event, given the board items that link  *)
(* its pull request.  An item is a task or not, and has an agent or none.  *)
(***************************************************************************)
Item == [task : BOOLEAN, agent : Workers \cup {Unsigned}]

\* Only events with a signature come here, so the body is never empty.
IsActionable(e, implementer) ==
  LET c == Content[e]
  IN  \/ RequestsChanges(e)
      \/ c.kind = "review_comment"
      \/ /\ c.kind # "review_comment"
         /\ ~(c.kind = "review" /\ c.state \in {"APPROVED", "DISMISSED"})
         /\ implementer \in c.mentions \/ c.asks

Owned(items) == \E item \in items : items = {item} /\ item.task /\ item.agent # Unsigned

Implementer(items) == (CHOOSE item \in items : TRUE).agent

Fate(e, items) ==
  LET actor == Content[e].actor
  IN  CASE ~Owned(items) -> "escalated"
        [] Owned(items) /\ actor = Unsigned ->
             IF RequestsChanges(e) THEN "escalated" ELSE "ignored"
        [] Owned(items) /\ actor # Unsigned ->
             IF actor # Implementer(items) /\ IsActionable(e, Implementer(items))
             THEN "queued" ELSE "ignored"
=============================================================================
