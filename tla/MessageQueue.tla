---------------------------- MODULE MessageQueue ----------------------------
(***************************************************************************)
(* The local message queue, dispatcher/queue.ts: the messages, delivery    *)
(* attempts, receipts, turn interruptions, escalations and workers tables, *)
(* and every operation of DispatcherQueue that changes one of them.        *)
(*                                                                         *)
(* An operation is one BEGIN IMMEDIATE transaction, and so is its action.  *)
(* Most operations read the clock BEFORE they wait for the write lock      *)
(* (busy_timeout), so the time `at` an operation works with may lie in     *)
(* the past when it commits; requeueExpiredLeases alone reads it inside.   *)
(* A call that throws or finds the work already done changes nothing and   *)
(* has no action.                                                          *)
(***************************************************************************)
EXTENDS Naturals, FiniteSets

CONSTANTS
  Messages,        \* messages, by dedupe key
  Agents,          \* the worker names of registry.ts
  Consumers,       \* consumer names, `party-runner:<pid>` by default
  NoConsumer,      \* SQL NULL in lease_owner
  Reports,         \* dedupe keys of turn interruption reports
  Topics,          \* dedupe keys of other escalations
  Recipient,       \* the recipient of each message
  Observable,      \* bound: the availabilities observed in a behaviour
  LeaseMs,         \* the duration of a lease
  Delays,          \* the delays after which a message may be made available
  Staleness,       \* bound: how long an operation waits for the write lock
  MaxAttempts,     \* bound: attempts of one message
  MaxTime          \* bound: operations with a clock run up to this time

WorkerAvailabilities == {"unknown", "idle", "busy", "asleep", "unavailable"}

ASSUME QueueAssumption ==
  /\ NoConsumer \notin Consumers
  /\ Recipient \in [Messages -> Agents]
  /\ Reports \cap Topics = {}
  /\ Observable \subseteq WorkerAvailabilities
  /\ LeaseMs \in Nat \ {0} /\ Delays \subseteq Nat /\ Staleness \in Nat
  /\ MaxAttempts \in Nat /\ MaxTime \in Nat

VARIABLES
  message,       \* messages, one row per message ("absent": no row)
  attempt,       \* delivery_attempts, by message and attempt_number
  receipts,      \* the messages with a row in delivery_receipts
  interruption,  \* turn_interruptions, by dedupe key
  escalation,    \* the status of escalations, by dedupe key
  worker,        \* workers
  alive,         \* the consumers that have not crashed
  now            \* Date.now(), the same for every process of the host

tables == <<message, attempt, receipts, interruption, escalation, worker>>
vars == <<message, attempt, receipts, interruption, escalation, worker, alive, now>>

-----------------------------------------------------------------------------
States == {"queued", "leased", "delivering", "receipted",
           "acknowledged", "completed", "failed", "cancelled"}

InFlight == {"leased", "delivering"}
Accepted == {"receipted", "acknowledged", "completed"}

Owners == Consumers \cup {NoConsumer}

MessageRow ==
  [state : States \cup {"absent"}, availableAt : Nat, createdAt : Nat,
   attemptCount : 0..MaxAttempts, owner : Owners, expiry : Nat]

NoMessage ==
  [state |-> "absent", availableAt |-> 0, createdAt |-> 0,
   attemptCount |-> 0, owner |-> NoConsumer, expiry |-> 0]

Numbers == 1..MaxAttempts

\* outcome "open" is NULL together with finished_at; "none" is no row.
AttemptRow ==
  [consumer : Owners, outcome : {"none", "open", "receipted", "failed", "lease_expired"}]

NoAttempt == [consumer |-> NoConsumer, outcome |-> "none"]

InterruptionRow ==
  [message : Messages, number : 0..MaxAttempts, disposition : {"retry_safe", "escalated"}]

NoInterruption == [disposition |-> "none"]

Times == 0..(MaxTime + LeaseMs)

TypeOK ==
  /\ message \in [Messages -> MessageRow]
  /\ attempt \in [Messages -> [Numbers -> AttemptRow]]
  /\ receipts \subseteq Messages
  /\ interruption \in [Reports -> InterruptionRow \cup {NoInterruption}]
  /\ escalation \in [Reports \cup Topics -> {"absent", "open", "resolved"}]
  /\ worker \in [Agents -> [availability : WorkerAvailabilities, observedAt : Nat]]
  /\ alive \subseteq Consumers
  /\ now \in Times

Init ==
  /\ message = [m \in Messages |-> NoMessage]
  /\ attempt = [m \in Messages |-> [n \in Numbers |-> NoAttempt]]
  /\ receipts = {}
  /\ interruption = [k \in Reports |-> NoInterruption]
  /\ escalation = [k \in Reports \cup Topics |-> "absent"]
  /\ worker = [a \in Agents |-> [availability |-> "unknown", observedAt |-> 0]]
  /\ alive = Consumers
  /\ now = 0

\* The times an operation that commits now may have read.
ReadTimes == {t \in 0..MaxTime : t <= now /\ now <= t + Staleness}

State(m) == message[m].state

\* #finishOpenAttempt, on the attempts of one message.
Finished(rows, outcome) ==
  [n \in Numbers |->
     IF rows[n].outcome = "open" THEN [rows[n] EXCEPT !.outcome = outcome] ELSE rows[n]]

\* The row after an UPDATE that sets state and clears the lease.
Released(row, state) ==
  [row EXCEPT !.state = state, !.owner = NoConsumer, !.expiry = 0]

Requeued(row, at) == [Released(row, "queued") EXCEPT !.availableAt = at]

\* #requireOwnedInFlight
OwnedInFlight(m, c, at, states) ==
  /\ State(m) \in states
  /\ message[m].owner = c
  /\ at < message[m].expiry

-----------------------------------------------------------------------------
(***************************************************************************)
(* Enqueueing, claiming and the lease.                                     *)
(***************************************************************************)

\* enqueue; a second message under the same dedupe key is the first one.
Enqueue(m, at, delay) ==
  /\ State(m) = "absent"
  /\ message' = [message EXCEPT ![m] =
       [NoMessage EXCEPT !.state = "queued", !.createdAt = at, !.availableAt = at + delay]]
  /\ UNCHANGED <<attempt, receipts, interruption, escalation, worker, alive, now>>

\* A slip: only leases that were never used for a delivery run out.
ExpiredBeforeDelivery(at) ==
  {m \in Messages : State(m) = "leased" /\ message[m].expiry <= at}

\* A slip: a receipted message, whose lease columns are cleared, runs out too.
ExpiredAfterReceipt(at) ==
  {m \in Messages :
     State(m) \in InFlight \cup {"receipted"} /\ message[m].expiry <= at}

Expired(at) == {m \in Messages : State(m) \in InFlight /\ message[m].expiry <= at}

\* A slip: the attempts of expired leases stay open.
AttemptsLeftOpen(at) == attempt

\* A slip: the outcome is the message's new state.
AttemptsQueued(at) ==
  [m \in Messages |->
     IF m \in Expired(at) THEN Finished(attempt[m], "queued") ELSE attempt[m]]

\* The two UPDATEs of #requeueExpiredLeases(at).
AttemptsAfterExpiry(at) ==
  [m \in Messages |->
     IF m \in Expired(at) THEN Finished(attempt[m], "lease_expired") ELSE attempt[m]]

MessagesAfterExpiry(at) ==
  [m \in Messages |->
     IF m \in Expired(at) THEN Requeued(message[m], at) ELSE message[m]]

RequeueExpired(at) ==
  /\ Expired(at) # {}
  /\ message' = MessagesAfterExpiry(at)
  /\ attempt' = AttemptsAfterExpiry(at)
  /\ UNCHANGED <<receipts, interruption, escalation, worker, alive, now>>

RequeueExpiredLeases == RequeueExpired(now)

\* The workerAvailabilities option: deliverOnce asks for idle and sleeping
\* workers, the command line for all that are not unavailable.
ClaimOptions == {{"idle", "asleep"}, WorkerAvailabilities \ {"unavailable"}}

\* ORDER BY available_at, created_at; between equal times the order of the
\* ids, random for most messages, may be any.
NotAfter(row, other) ==
  \/ row.availableAt < other.availableAt
  \/ row.availableAt = other.availableAt /\ row.createdAt <= other.createdAt

\* The messages claimNext selects from, after it requeued what had expired.
Claimable(at, allowed) ==
  LET rows == MessagesAfterExpiry(at)
  IN  {x \in Messages : /\ rows[x].state = "queued" /\ rows[x].availableAt <= at
                        /\ worker[Recipient[x]].availability \in allowed}

AttemptNumber(row) == row.attemptCount + 1

\* claimNext, when it finds message m.  Its recipient option may narrow the
\* selection to one worker, so only messages to one worker are in order.
ClaimNext(m, c, at, allowed) ==
  LET rows == MessagesAfterExpiry(at)
      number == AttemptNumber(rows[m])
  IN  /\ c \in alive
      /\ m \in Claimable(at, allowed)
      /\ \A x \in Claimable(at, allowed) :
           Recipient[x] = Recipient[m] => NotAfter(rows[m], rows[x])
      /\ rows[m].attemptCount < MaxAttempts
      /\ message' = [rows EXCEPT ![m] =
           [rows[m] EXCEPT !.state = "leased", !.attemptCount = number,
                           !.owner = c, !.expiry = at + LeaseMs]]
      /\ attempt' = [AttemptsAfterExpiry(at) EXCEPT ![m] =
           [AttemptsAfterExpiry(at)[m] EXCEPT ![number] =
              [consumer |-> c, outcome |-> "open"]]]
      /\ UNCHANGED <<receipts, interruption, escalation, worker, alive, now>>

\* claimNext, when it finds no message (for the workers asked for).
ClaimNothing(at) ==
  /\ \E allowed \in ClaimOptions, a \in Agents :
       \A x \in Claimable(at, allowed) : Recipient[x] # a
  /\ RequeueExpired(at)

RenewLease(m, c, at) ==
  /\ c \in alive
  /\ OwnedInFlight(m, c, at, InFlight)
  /\ message' = [message EXCEPT ![m] = [@ EXCEPT !.expiry = at + LeaseMs]]
  /\ UNCHANGED <<attempt, receipts, interruption, escalation, worker, alive, now>>

BeginDelivery(m, c, at) ==
  /\ c \in alive
  /\ OwnedInFlight(m, c, at, {"leased"})
  /\ message' = [message EXCEPT ![m] = [@ EXCEPT !.state = "delivering"]]
  /\ UNCHANGED <<attempt, receipts, interruption, escalation, worker, alive, now>>

Fail(m, c, at) ==
  /\ c \in alive
  /\ OwnedInFlight(m, c, at, InFlight)
  /\ message' = [message EXCEPT ![m] = Released(@, "failed")]
  /\ attempt' = [attempt EXCEPT ![m] = Finished(@, "failed")]
  /\ UNCHANGED <<receipts, interruption, escalation, worker, alive, now>>

-----------------------------------------------------------------------------
(***************************************************************************)
(* The recipient's side: receipt, acknowledgement, completion and reports  *)
(* of interrupted turns.  The caller is known by the message alone;        *)
(* neither the lease nor the attempt is checked.                           *)
(***************************************************************************)
RecordReceipt(m) ==
  /\ State(m) = "delivering"
  /\ receipts' = receipts \cup {m}
  /\ message' = [message EXCEPT ![m] = Released(@, "receipted")]
  /\ attempt' = [attempt EXCEPT ![m] = Finished(@, "receipted")]
  /\ UNCHANGED <<interruption, escalation, worker, alive, now>>

\* A slip: a message in delivery can be acknowledged.
AcknowledgeEarly(m) ==
  /\ State(m) \in {"delivering", "receipted"}
  /\ message' = [message EXCEPT ![m] = [@ EXCEPT !.state = "acknowledged"]]
  /\ UNCHANGED <<attempt, receipts, interruption, escalation, worker, alive, now>>

Acknowledge(m) ==
  /\ State(m) = "receipted"
  /\ message' = [message EXCEPT ![m] = [@ EXCEPT !.state = "acknowledged"]]
  /\ UNCHANGED <<attempt, receipts, interruption, escalation, worker, alive, now>>

Complete(m) ==
  /\ State(m) = "acknowledged"
  /\ message' = [message EXCEPT ![m] = [@ EXCEPT !.state = "completed"]]
  /\ UNCHANGED <<attempt, receipts, interruption, escalation, worker, alive, now>>

Interruption(m, disposition) ==
  [message |-> m, number |-> message[m].attemptCount, disposition |-> disposition]

\* A slip: a turn that already failed may be reported again.
EscalateAgain(k, m) ==
  /\ interruption[k] = NoInterruption
  /\ State(m) \in {"receipted", "acknowledged", "failed"}
  /\ message' = [message EXCEPT ![m] = Released(@, "failed")]
  /\ interruption' = [interruption EXCEPT ![k] = Interruption(m, "escalated")]
  /\ escalation' = [escalation EXCEPT ![k] = "open"]
  /\ UNCHANGED <<attempt, receipts, worker, alive, now>>

\* reportTurnInterruption, retrySafe: work did not start, the message is
\* queued again.  A report under a known dedupe key changes nothing.
ReportRetrySafe(k, m, at, delay) ==
  /\ interruption[k] = NoInterruption
  /\ State(m) \in {"receipted", "acknowledged"}
  /\ message' = [message EXCEPT ![m] = Requeued(@, at + delay)]
  /\ interruption' = [interruption EXCEPT ![k] = Interruption(m, "retry_safe")]
  /\ UNCHANGED <<attempt, receipts, escalation, worker, alive, now>>

\* Otherwise it is failed and escalated under `turn-interruption:<key>`.
ReportEscalated(k, m) ==
  /\ interruption[k] = NoInterruption
  /\ State(m) \in {"receipted", "acknowledged"}
  /\ message' = [message EXCEPT ![m] = Released(@, "failed")]
  /\ interruption' = [interruption EXCEPT ![k] = Interruption(m, "escalated")]
  /\ escalation' = [escalation EXCEPT ![k] = "open"]
  /\ UNCHANGED <<attempt, receipts, worker, alive, now>>

-----------------------------------------------------------------------------
(***************************************************************************)
(* The operator's side.                                                    *)
(***************************************************************************)

\* A slip: an accepted message can be retried without a report.
RetryAccepted(m, at, delay) ==
  /\ State(m) \in {"failed", "receipted"}
  /\ message' = [message EXCEPT ![m] = Requeued(@, at + delay)]
  /\ UNCHANGED <<attempt, receipts, interruption, escalation, worker, alive, now>>

Retry(m, at, delay) ==
  /\ State(m) = "failed"
  /\ message' = [message EXCEPT ![m] = Requeued(@, at + delay)]
  /\ UNCHANGED <<attempt, receipts, interruption, escalation, worker, alive, now>>

\* A slip: a message can be cancelled under its holder's hands.
CancelHeld(m) ==
  /\ State(m) \in {"queued", "failed", "leased"}
  /\ message' = [message EXCEPT ![m] = [@ EXCEPT !.state = "cancelled"]]
  /\ UNCHANGED <<attempt, receipts, interruption, escalation, worker, alive, now>>

Cancel(m) ==
  /\ State(m) \in {"queued", "failed"}
  /\ message' = [message EXCEPT ![m] = [@ EXCEPT !.state = "cancelled"]]
  /\ UNCHANGED <<attempt, receipts, interruption, escalation, worker, alive, now>>

CreateEscalation(k) ==
  /\ escalation[k] = "absent"
  /\ escalation' = [escalation EXCEPT ![k] = "open"]
  /\ UNCHANGED <<message, attempt, receipts, interruption, worker, alive, now>>

ResolveEscalation(k) ==
  /\ escalation[k] = "open"
  /\ escalation' = [escalation EXCEPT ![k] = "resolved"]
  /\ UNCHANGED <<message, attempt, receipts, interruption, worker, alive, now>>

\* An observation older than the one on record is ignored.
SetWorkerAvailability(a, availability, observedAt) ==
  /\ worker[a].observedAt <= observedAt
  /\ worker' = [worker EXCEPT ![a] =
       [availability |-> availability, observedAt |-> observedAt]]
  /\ UNCHANGED <<message, attempt, receipts, interruption, escalation, alive, now>>

-----------------------------------------------------------------------------
Crash(c) ==
  /\ c \in alive
  /\ alive' = alive \ {c}
  /\ UNCHANGED <<tables, now>>

Tick ==
  /\ now < MaxTime + LeaseMs
  /\ now' = now + 1
  /\ UNCHANGED <<tables, alive>>

\* Every operation on message m, read from the clock at `at` where it reads it.
ConsumerStep(m, c, at) ==
  \/ \E allowed \in ClaimOptions : ClaimNext(m, c, at, allowed)
  \/ RenewLease(m, c, at) \/ BeginDelivery(m, c, at) \/ Fail(m, c, at)

RecipientStep(m, at) ==
  \/ RecordReceipt(m) \/ Acknowledge(m) \/ Complete(m)
  \/ \E k \in Reports : ReportEscalated(k, m)
  \/ \E k \in Reports, delay \in Delays : ReportRetrySafe(k, m, at, delay)

OperatorStep(m, at) ==
  \/ \E delay \in Delays : Enqueue(m, at, delay) \/ Retry(m, at, delay)
  \/ Cancel(m)

Next ==
  \/ \E m \in Messages, at \in ReadTimes :
       \/ \E c \in Consumers : ConsumerStep(m, c, at)
       \/ RecipientStep(m, at) \/ OperatorStep(m, at)
  \/ RequeueExpiredLeases
  \/ \E at \in ReadTimes : ClaimNothing(at)
  \/ \E k \in Topics : CreateEscalation(k)
  \/ \E k \in Reports \cup Topics : ResolveEscalation(k)
  \/ \E a \in Agents, v \in Observable, at \in 0..MaxTime :
       at <= now /\ SetWorkerAvailability(a, v, at)
  \/ \E c \in Consumers : Crash(c)
  \/ Tick

Spec == Init /\ [][Next]_vars

(***************************************************************************)
(* Time passes, and each iteration of the runner's loop calls              *)
(* requeueExpiredLeases (syncAvailability in worker-runner.ts).            *)
(***************************************************************************)
FairSpec == Spec /\ WF_vars(Tick) /\ WF_vars(RequeueExpiredLeases)

-----------------------------------------------------------------------------
(***************************************************************************)
(* Properties.                                                             *)
(***************************************************************************)

\* The attempts and the message row tell one story after any sequence of
\* claims, expiries, failures and late receipts: attempts are numbered
\* without a gap up to attemptCount, at most the last one is open, and it is
\* open exactly while its consumer holds the lease.
LedgerOf(row, rows) ==
  /\ \A n \in Numbers :
       /\ rows[n].outcome = "none" <=> row.attemptCount < n
       /\ rows[n].outcome = "open" <=> n = row.attemptCount /\ row.state \in InFlight
       /\ rows[n].outcome = "open" => rows[n].consumer = row.owner
  /\ row.state \in InFlight => row.owner \in Consumers /\ 0 < row.attemptCount
  /\ row.state \notin InFlight => row.owner = NoConsumer /\ row.expiry = 0
  /\ row.state = "absent" => row.attemptCount = 0

AttemptLedger == \A m \in Messages : LedgerOf(message[m], attempt[m])

\* A message counts as accepted only on a recipient's receipt, recorded for
\* the attempt the message is in (recordReceipt, acknowledge, complete).
LastReceipted(row, rows) ==
  row.attemptCount \in Numbers /\ rows[row.attemptCount].outcome = "receipted"

AcceptedOnReceipt ==
  \A m \in Messages : State(m) \in Accepted =>
    m \in receipts /\ LastReceipted(message[m], attempt[m])

\* Report k is on record, about attempt n of message m.
Reported(k, m, n) ==
  /\ interruption[k] # NoInterruption
  /\ interruption[k].message = m /\ interruption[k].number = n

\* The recipient accepted attempt n, and its turn is over without completion.
Settled(row, rows, n) ==
  /\ rows[n].outcome = "receipted"
  /\ ~(n = row.attemptCount /\ row.state \in Accepted)

\* An accepted attempt ends only by completion or with an interruption
\* report: no message is given to a recipient a second time, dropped or
\* failed, without a record of what happened to the turn that accepted it
\* (docs/development.md: "An ambiguous post-work failure is surfaced for safe
\* recovery, not replayed blindly").
NotReplayedBlindly ==
  \A m \in Messages, n \in Numbers :
    Settled(message[m], attempt[m], n) => \E k \in Reports : Reported(k, m, n)

\* Reports are about turns that ran: each names an attempt its recipient
\* accepted and that is over, no two of them (a retried report, another
\* reporter's dedupe key) name the same one, and an escalated one has its
\* escalation (reportTurnInterruption).
OneReportPerTurn ==
  /\ \A k \in Reports, m \in Messages, n \in 0..MaxAttempts : Reported(k, m, n) =>
       /\ n \in Numbers /\ Settled(message[m], attempt[m], n)
       /\ \A j \in Reports : Reported(j, m, n) => j = k
  /\ \A k \in Reports :
       interruption[k].disposition = "escalated" => escalation[k] # "absent"

\* A message whose consumer has died is taken from it, at the latest by the
\* first pass of the runner's loop after the lease has run out.
DeadConsumersLoseLeases ==
  \A m \in Messages, c \in Consumers :
    message[m].owner = c /\ c \notin alive ~> message[m].owner # c

Phase(m) ==
  CASE State(m) = "absent" -> "absent"
    [] State(m) = "queued" -> "waiting"
    [] State(m) \in InFlight -> "held"
    [] State(m) \in {"receipted", "acknowledged"} -> "accepted"
    [] State(m) = "completed" -> "done"
    [] State(m) = "failed" -> "stopped"
    [] State(m) = "cancelled" -> "dropped"

Contract == INSTANCE DeliveryContract WITH
  Nobody <- NoConsumer,
  phase <- [m \in Messages |-> Phase(m)],
  holder <- [m \in Messages |-> message[m].owner],
  deadline <- [m \in Messages |-> message[m].expiry],
  clock <- now

\* Whatever the interleaving and however late an operation gets the write
\* lock, the queue keeps the delivery contract.
KeepsContract == Contract!ContractSpec
=============================================================================
