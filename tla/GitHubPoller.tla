----------------------------- MODULE GitHubPoller -----------------------------
(***************************************************************************)
(* Passes of `party-github-poller` (dispatcher/github-cli.ts): each reads  *)
(* the feedback on a pull request that the project's items link, routes    *)
(* what is pending, and then polls the registered continuations.  A pass   *)
(* is a process; passes overlap, fail and die, and another one is started  *)
(* on a schedule.                                                          *)
(*                                                                         *)
(* What passes share is the database: the tables of the two stores, and    *)
(* the queue's messages and escalations, known here by their dedupe keys   *)
(* (MessageQueue says what becomes of a message).  An enqueue or an        *)
(* escalation under a key that is taken changes nothing, so both are sets  *)
(* that grow.                                                              *)
(*                                                                         *)
(* GitHub is external: feedback appears, the pull request and the board    *)
(* change, a request fails after its retries.                              *)
(***************************************************************************)
EXTENDS GitHubFeedback, GitHubContinuation

CONSTANTS
  Passes,      \* processes that run passes, one after another
  Unavailable, \* the workers that are unavailable
  Threshold,   \* reviewCycleThreshold
  Workloads,   \* bound: what comes up in one behaviour, the sets of items that
               \* the board may link, and how often the pull request may change
  MaxFaults    \* bound: requests that fail and passes that die

ASSUME PollerAssumption ==
  /\ Unavailable \subseteq Workers
  /\ Workloads \subseteq [news : SUBSET (Feedback \cup Continuations),
                         boards : SUBSET SUBSET Item, moves : Nat]
  /\ Threshold \in Nat \ {0} /\ MaxFaults \in Nat

VARIABLES
  messages,     \* dedupe keys of the messages in the queue
  escalations,  \* dedupe keys of the escalations
  pass,         \* where each pass is
  workload,     \* what comes up in this behaviour
  visible,      \* the events GitHub lists
  pull,         \* the pull request
  moves,        \* bound: see Workloads
  listed,       \* history: events a pass has read and recorded
  serial,       \* history: no pass has died, and no two have overlapped
  faults        \* bound: see MaxFaults

tablesVars == <<outcome, cursor, continuation, messages, escalations>>
worldVars == <<workload, visible, pull, moves>>
vars == <<tablesVars, pass, worldVars, listed, serial, faults>>

\* The dedupe keys.
FeedbackKey(e) == <<"github-feedback", e>>
ContinuationKey(k) == <<"github-continuation", k>>
RoutingKey(e) == <<"github-routing", e>>
UnavailableKey(e) == <<"github-worker-unavailable", e>>
ContinuationWorkerKey(k) == <<"github-continuation-worker", k>>
FailedKey(k) == <<"github-continuation-failed", k>>
UnreadKey(k) == <<"github-continuation-source", k>>
SourceKey(kind) == <<"github-source-failure", kind, cursor[kind]>>
CyclesKey == <<"github-review-cycles">>

Stages ==
  {"idle", "source", "listing", "routing", "enqueued", "ambiguous", "routed", "counted",
   "continuations", "inspecting", "deciding", "delivered", "alerted", "reported"}

NoPull == [state |-> "unread"]
FailedPull == [state |-> "error"]

(***************************************************************************)
(* A pass: the items it has found, the source it reads, with the cursor    *)
(* and the events that were there when it began to read, the rows it has   *)
(* listed and still has to handle, those listed with a decision, the one   *)
(* it handles, and the pull request it has read for its continuations.     *)
(***************************************************************************)
IdlePass ==
  [at |-> "idle", items |-> {}, source |-> 1, since |-> 0, there |-> {},
   todo |-> {}, decided |-> {}, current |-> {}, decision |-> "none", snapshot |-> NoPull]

PollerTypeOK ==
  /\ FeedbackTypeOK /\ ContinuationTypeOK
  /\ \A p \in Passes :
       /\ pass[p].at \in Stages
       /\ pass[p].items \subseteq Item
       /\ pass[p].source \in 1..(Len(Kinds) + 1)
       /\ pass[p].there \subseteq Feedback
       /\ pass[p].todo \subseteq Feedback \cup Continuations
       /\ pass[p].decision \in {"none", "queue", "fail"}
       /\ pass[p].snapshot \in Pull \cup {NoPull, FailedPull}
  /\ visible \subseteq Feedback
  /\ pull \in Pull
  /\ moves \in 0..workload.moves
  /\ listed \subseteq Feedback
  /\ serial \in BOOLEAN
  /\ faults \in 0..MaxFaults

Init ==
  /\ FeedbackInit /\ ContinuationInit
  /\ messages = {} /\ escalations = {}
  /\ pass = [p \in Passes |-> IdlePass]
  /\ workload \in Workloads
  /\ visible = {}
  /\ pull = [expected |-> TRUE, state |-> "open", checked |-> FALSE]
  /\ moves = 0
  /\ listed = {}
  /\ serial = TRUE
  /\ faults = 0

At(p, stage) == pass[p].at = stage

Becomes(p, next) == pass' = [pass EXCEPT ![p] = next]

Goes(p, stage) == Becomes(p, [pass[p] EXCEPT !.at = stage])

Ends(p) == Becomes(p, IdlePass)

Fails ==
  /\ faults < MaxFaults
  /\ faults' = faults + 1

Escalate(key) == escalations' = escalations \cup {key}

EscalateIfUnavailable(worker, key) ==
  IF worker \in Unavailable THEN Escalate(key) ELSE UNCHANGED escalations

-----------------------------------------------------------------------------
(***************************************************************************)
(* The feedback of a pass.                                                 *)
(***************************************************************************)

\* discoverPullRequestRoutes.  A pull request that no item links is not read.
Discover(p) ==
  \E items \in workload.boards :
    /\ At(p, "idle")
    /\ Becomes(p, [IdlePass EXCEPT !.at = "source", !.items = items,
                     !.source = IF items = {} THEN Len(Kinds) + 1 ELSE 1])
    /\ serial' = (serial /\ \A q \in Passes : At(q, "idle"))
    /\ UNCHANGED <<tablesVars, worldVars, listed, faults>>

\* The project cannot be read: the pass ends, before any continuation.
DiscoverFails(p) ==
  /\ At(p, "idle")
  /\ Fails
  /\ UNCHANGED <<tablesVars, pass, worldVars, listed, serial>>

BeginSource(p) ==
  LET kind == Kinds[pass[p].source]
  IN  /\ At(p, "source")
      /\ pass[p].source <= Len(Kinds)
      /\ Becomes(p, [pass[p] EXCEPT !.at = "listing", !.since = cursor[kind],
                       !.there = visible \cap EventsOf(kind)])
      /\ UNCHANGED <<tablesVars, worldVars, listed, serial, faults>>

NextSource(p) ==
  Becomes(p, [pass[p] EXCEPT !.at = "source", !.source = @ + 1, !.since = 0, !.there = {}])

\* #readAllPages and recordBatch.  An event that appears while the pages are
\* read may be on one that has been read already.
RecordSource(p) ==
  LET kind == Kinds[pass[p].source]
  IN  /\ At(p, "listing")
      /\ \E pages \in SUBSET (visible \cap EventsOf(kind)) :
           /\ pass[p].there \subseteq pages
           /\ RecordBatch(kind, Unknown(pages, pass[p].since))
           /\ listed' = listed \cup pages
      /\ NextSource(p)
      /\ UNCHANGED <<continuation, messages, escalations, worldVars, serial, faults>>

SourceFails(p) ==
  /\ At(p, "listing")
  /\ Fails
  /\ Escalate(SourceKey(Kinds[pass[p].source]))
  /\ NextSource(p)
  /\ UNCHANGED <<outcome, cursor, continuation, messages, worldVars, listed, serial>>

\* A slip: a pull request that is no longer linked is skipped.
ToRouteIfLinked(p) == IF pass[p].items = {} THEN {} ELSE Pending

ToRoute(p) == Pending

ListPending(p) ==
  /\ At(p, "source")
  /\ pass[p].source > Len(Kinds)
  /\ Becomes(p, [pass[p] EXCEPT !.at = "routing", !.todo = ToRoute(p)])
  /\ UNCHANGED <<tablesVars, worldVars, listed, serial, faults>>

Event(p) == FirstOf(pass[p].todo)

Routes(p, fate) ==
  /\ At(p, "routing")
  /\ pass[p].todo # {}
  /\ Fate(Event(p), pass[p].items) = fate

RoutedEvent(p) == Becomes(p, [pass[p] EXCEPT !.at = "routing", !.todo = @ \ {Event(p)}])

Ignore(p) ==
  /\ Routes(p, "ignored")
  /\ MarkOutcome(Event(p), "ignored")
  /\ RoutedEvent(p)
  /\ UNCHANGED <<continuation, messages, escalations, worldVars, listed, serial, faults>>

EscalateAmbiguous(p) ==
  /\ Routes(p, "escalated")
  /\ Escalate(RoutingKey(Event(p)))
  /\ Goes(p, "ambiguous")
  /\ UNCHANGED <<outcome, cursor, continuation, messages, worldVars, listed, serial, faults>>

MarkEscalated(p) ==
  /\ At(p, "ambiguous")
  /\ MarkOutcome(Event(p), "escalated")
  /\ RoutedEvent(p)
  /\ UNCHANGED <<continuation, messages, escalations, worldVars, listed, serial, faults>>

\* A slip: the outcome is recorded before there is a message.
MarkBeforeEnqueue(p) ==
  /\ Routes(p, "queued")
  /\ MarkOutcome(Event(p), "queued")
  /\ Goes(p, "enqueued")
  /\ UNCHANGED <<continuation, messages, escalations, worldVars, listed, serial, faults>>

EnqueueFeedback(p) ==
  /\ Routes(p, "queued")
  /\ messages' = messages \cup {FeedbackKey(Event(p))}
  /\ Goes(p, "enqueued")
  /\ UNCHANGED <<outcome, cursor, continuation, escalations, worldVars, listed, serial, faults>>

\* A slip: an event stays pending as long as its worker is unavailable.
MarkIfAvailable(p) ==
  /\ At(p, "enqueued")
  /\ MarkOutcome(Event(p),
       IF Implementer(pass[p].items) \in Unavailable THEN "pending" ELSE "queued")
  /\ Goes(p, "routed")
  /\ UNCHANGED <<continuation, messages, escalations, worldVars, listed, serial, faults>>

MarkQueued(p) ==
  /\ At(p, "enqueued")
  /\ MarkOutcome(Event(p), "queued")
  /\ Goes(p, "routed")
  /\ UNCHANGED <<continuation, messages, escalations, worldVars, listed, serial, faults>>

AlertUnavailable(p) ==
  /\ At(p, "routed")
  /\ EscalateIfUnavailable(Implementer(pass[p].items), UnavailableKey(Event(p)))
  /\ IF RequestsChanges(Event(p)) THEN Goes(p, "counted") ELSE RoutedEvent(p)
  /\ UNCHANGED <<outcome, cursor, continuation, messages, worldVars, listed, serial, faults>>

\* A slip: the cycle that reaches the threshold is not counted.
PastThreshold == QueuedReviewCycles = Threshold + 1

ReachesThreshold == QueuedReviewCycles = Threshold

CountCycles(p) ==
  /\ At(p, "counted")
  /\ IF ReachesThreshold THEN Escalate(CyclesKey) ELSE UNCHANGED escalations
  /\ RoutedEvent(p)
  /\ UNCHANGED <<outcome, cursor, continuation, messages, worldVars, listed, serial, faults>>

-----------------------------------------------------------------------------
(***************************************************************************)
(* The continuations of a pass.  What it has listed includes decisions; a  *)
(* continuation without one is evaluated on the pull request, read once.   *)
(***************************************************************************)
ListContinuations(p) ==
  /\ At(p, "routing")
  /\ pass[p].todo = {}
  /\ Becomes(p, [pass[p] EXCEPT !.at = "continuations", !.todo = PendingContinuations,
       !.decided = {k \in PendingContinuations : continuation[k].decision # "none"}])
  /\ UNCHANGED <<tablesVars, worldVars, listed, serial, faults>>

\* A slip: a decision that another pass has claimed is left to that pass.
LeaveDecided(p) ==
  \E k \in pass[p].todo :
    /\ At(p, "continuations")
    /\ Becomes(p, [pass[p] EXCEPT !.todo = @ \ {k},
         !.at = IF k \in pass[p].decided THEN @ ELSE "inspecting",
         !.current = IF k \in pass[p].decided THEN @ ELSE {k}])
    /\ UNCHANGED <<tablesVars, worldVars, listed, serial, faults>>

\* The next continuation; one that was listed with a decision is completed.
Take(p) ==
  \E k \in pass[p].todo :
    /\ At(p, "continuations")
    /\ Becomes(p, [pass[p] EXCEPT !.todo = @ \ {k}, !.current = {k},
         !.at = IF k \in pass[p].decided THEN "deciding" ELSE "inspecting",
         !.decision = continuation[k].decision])
    /\ UNCHANGED <<tablesVars, worldVars, listed, serial, faults>>

Current(p) == CHOOSE k \in pass[p].current : TRUE

Completed(p) ==
  Becomes(p, [pass[p] EXCEPT !.at = "continuations", !.current = {}, !.decision = "none"])

\* #completeDecision begins, or there is nothing to complete.
Completes(p, row) ==
  IF row.outcome = "pending" /\ row.decision # "none"
  THEN Becomes(p, [pass[p] EXCEPT !.at = "deciding", !.decision = row.decision])
  ELSE Completed(p)

ReadPull(p) ==
  /\ At(p, "inspecting")
  /\ pass[p].snapshot = NoPull
  /\ Becomes(p, [pass[p] EXCEPT !.snapshot = pull])
  /\ UNCHANGED <<tablesVars, worldVars, listed, serial, faults>>

ReadFails(p) ==
  /\ At(p, "inspecting")
  /\ pass[p].snapshot = NoPull
  /\ Fails
  /\ Becomes(p, [pass[p] EXCEPT !.snapshot = FailedPull])
  /\ UNCHANGED <<tablesVars, worldVars, listed, serial>>

\* Every continuation of the pass meets the failure, unless it is decided now.
Unread(p) ==
  LET row == continuation[Current(p)]
  IN  /\ At(p, "inspecting")
      /\ pass[p].snapshot = FailedPull
      /\ IF row.decision = "none"
         THEN Escalate(UnreadKey(Current(p))) /\ Completed(p)
         ELSE Completes(p, row) /\ UNCHANGED escalations
      /\ UNCHANGED <<outcome, cursor, continuation, messages, worldVars, listed, serial, faults>>

Decide(p) ==
  LET k == Current(p)
      verdict == Verdict(k, pass[p].snapshot)
  IN  /\ At(p, "inspecting")
      /\ pass[p].snapshot \in Pull
      /\ IF verdict = "none"
         THEN Completes(p, continuation[k]) /\ UNCHANGED continuation
         ELSE ClaimDecision(k, verdict) /\ Completes(p, continuation'[k])
      /\ UNCHANGED <<outcome, cursor, messages, escalations, worldVars, listed, serial, faults>>

EnqueueContinuation(p) ==
  /\ At(p, "deciding") /\ pass[p].decision = "queue"
  /\ messages' = messages \cup {ContinuationKey(Current(p))}
  /\ Goes(p, "delivered")
  /\ UNCHANGED <<outcome, cursor, continuation, escalations, worldVars, listed, serial, faults>>

AlertContinuation(p) ==
  /\ At(p, "delivered")
  /\ EscalateIfUnavailable(Recipient[Current(p)], ContinuationWorkerKey(Current(p)))
  /\ Goes(p, "alerted")
  /\ UNCHANGED <<outcome, cursor, continuation, messages, worldVars, listed, serial, faults>>

FinishQueued(p) ==
  /\ At(p, "alerted")
  /\ FinishDecision(Current(p), "queued")
  /\ Completed(p)
  /\ UNCHANGED <<outcome, cursor, messages, escalations, worldVars, listed, serial, faults>>

EscalateFailed(p) ==
  /\ At(p, "deciding") /\ pass[p].decision = "fail"
  /\ Escalate(FailedKey(Current(p)))
  /\ Goes(p, "reported")
  /\ UNCHANGED <<outcome, cursor, continuation, messages, worldVars, listed, serial, faults>>

FinishFailed(p) ==
  /\ At(p, "reported")
  /\ FinishDecision(Current(p), "failed")
  /\ Completed(p)
  /\ UNCHANGED <<outcome, cursor, messages, escalations, worldVars, listed, serial, faults>>

EndPass(p) ==
  /\ At(p, "continuations")
  /\ pass[p].todo = {}
  /\ Ends(p)
  /\ UNCHANGED <<tablesVars, worldVars, listed, serial, faults>>

\* The process is killed, or a database call throws out of the pass.
Dies(p) ==
  /\ ~At(p, "idle")
  /\ Fails
  /\ Ends(p)
  /\ serial' = FALSE
  /\ UNCHANGED <<tablesVars, worldVars, listed>>

-----------------------------------------------------------------------------
(***************************************************************************)
(* GitHub and the agents.                                                  *)
(***************************************************************************)
Appear(e) ==
  /\ e \in workload.news \ visible
  /\ visible' = visible \cup {e}
  /\ UNCHANGED <<tablesVars, pass, workload, pull, moves, listed, serial, faults>>

RegisterContinuation(k) ==
  /\ k \in workload.news
  /\ Register(k)
  /\ UNCHANGED <<outcome, cursor, messages, escalations, pass, worldVars, listed, serial, faults>>

PullMoves ==
  /\ workload.news \cap Continuations # {}
  /\ moves < workload.moves
  /\ moves' = moves + 1
  /\ \/ pull.state = "open" /\ \E s \in {"merged", "closed"} : pull' = [pull EXCEPT !.state = s]
     \/ pull.state = "open" /\ pull' = [pull EXCEPT !.expected = FALSE, !.checked = FALSE]
     \/ ~pull.checked /\ pull' = [pull EXCEPT !.checked = TRUE]
  /\ UNCHANGED <<tablesVars, pass, workload, visible, listed, serial, faults>>

-----------------------------------------------------------------------------
FeedbackStep(p) ==
  \/ Discover(p) \/ BeginSource(p) \/ RecordSource(p) \/ ListPending(p)
  \/ Ignore(p) \/ EscalateAmbiguous(p) \/ MarkEscalated(p)
  \/ EnqueueFeedback(p) \/ MarkQueued(p) \/ AlertUnavailable(p) \/ CountCycles(p)

ContinuationStep(p) ==
  \/ ListContinuations(p) \/ Take(p) \/ ReadPull(p) \/ Unread(p) \/ Decide(p)
  \/ EnqueueContinuation(p) \/ AlertContinuation(p) \/ FinishQueued(p)
  \/ EscalateFailed(p) \/ FinishFailed(p) \/ EndPass(p)

PassStep(p) == FeedbackStep(p) \/ ContinuationStep(p)

Next ==
  \/ \E p \in Passes : PassStep(p) \/ DiscoverFails(p) \/ SourceFails(p) \/ ReadFails(p) \/ Dies(p)
  \/ \E e \in Feedback : Appear(e)
  \/ \E k \in Continuations : RegisterContinuation(k)
  \/ PullMoves

Spec == Init /\ [][Next]_vars

\* "Invoke it again on a schedule": passes are started and run on.
FairSpec == Spec /\ \A p \in Passes : WF_vars(PassStep(p))

-----------------------------------------------------------------------------
(***************************************************************************)
(* Properties.                                                             *)
(***************************************************************************)

\* An event that a poll has listed is recorded, also one that was created
\* before the cursor and became visible after it had moved on.
NothingSkipped == \A e \in listed : outcome[e] # "absent"

\* The outcome of an event tells what was done: there is a message for a queued
\* one and an escalation for an escalated one, whenever a pass may have died.
OutcomeIsBacked ==
  \A e \in Feedback :
    /\ outcome[e] = "queued" => FeedbackKey(e) \in messages
    /\ outcome[e] = "escalated" => RoutingKey(e) \in escalations

\* As long as passes run one after another and none dies, an event that was sent
\* to an agent is not also reported as ambiguous, whatever the board says later.
SentOrEscalated ==
  serial => \A e \in Feedback :
    ~(FeedbackKey(e) \in messages /\ RoutingKey(e) \in escalations)

\* A continuation is delivered or reported as failed, never both, and only the
\* way its claimed decision says, although passes that overlap read different
\* states of the pull request and may die at any step.
AnsweredAsDecided ==
  \A k \in Continuations :
    /\ ContinuationKey(k) \in messages => continuation[k].decision = "queue"
    /\ FailedKey(k) \in escalations => continuation[k].decision = "fail"
    /\ continuation[k].outcome = "queued" => ContinuationKey(k) \in messages
    /\ continuation[k].outcome = "failed" => FailedKey(k) \in escalations

AllIdle == \A p \in Passes : At(p, "idle")

\* "Escalate after this many change cycles" (github-cli.ts), as far as passes
\* run one after another and none dies.
CyclesEscalatedInSeries ==
  serial /\ AllIdle /\ QueuedReviewCycles >= Threshold => CyclesKey \in escalations

\* The same whatever passes do: "durable SQLite state and source IDs make restart
\* and overlapping passes safe" (github-cli.ts).  It does not hold: a pass may die
\* between recording an outcome and counting.
CyclesEscalated ==
  AllIdle /\ QueuedReviewCycles >= Threshold => CyclesKey \in escalations

\* Every recorded event is routed in the end, also after the pass that recorded
\* it died and when no item links the pull request any more.
FeedbackIsRouted ==
  \A e \in Feedback :
    outcome[e] = "pending" ~> outcome[e] \in {"queued", "ignored", "escalated"}

\* A continuation whose transition has come is answered in the end, also when
\* the pass that claimed its decision died.
ContinuationsAnswered ==
  \A k \in Continuations :
    continuation[k].outcome = "pending" /\ Verdict(k, pull) # "none"
      ~> continuation[k].outcome \in {"queued", "failed"}
=============================================================================
