---------------------- MODULE DeliveryCoordinatorProofs ----------------------
(***************************************************************************)
(* Theorems about DeliveryCoordinator, for any messages, workers, runners, *)
(* dedupe keys, lease duration and bounds.                                 *)
(***************************************************************************)
EXTENDS DeliveryCoordinator, MessageQueueProofs

-----------------------------------------------------------------------------
(***************************************************************************)
(* Steps, in terms of the tables of the queue.                             *)
(***************************************************************************)

\* A deliverOnce call that has claimed a message works on one of its attempts.
Busy(c) == runner[c].stage \notin {"idle", "ready"}

WorksOnAttempt ==
  \A c \in Consumers :
    IF Busy(c) THEN Work(c) \in Messages /\ Number(c) \in Numbers ELSE Number(c) = 0

Typed == CoordinatorTypeOK /\ WorksOnAttempt

\* What every step finds: the types of what it reads.
LEMMA Found ==
  ASSUME Typed
  PROVE  /\ TypeOK /\ now \in Nat
         /\ runner \in [Consumers -> Runner]
         /\ child \in [Messages -> [Numbers -> Child]]
         /\ reason \in [Agents -> Reasons]
         /\ session \in [Agents -> Sessions!SessionRow]
         /\ flock \in [Agents -> Consumers \cup {User, NoConsumer}]
         /\ terminal \in [Agents -> Client!TerminalRow]
         /\ \A m \in Messages : Recipient[m] \in Agents
         /\ \A c \in Consumers :
              Busy(c) => Work(c) \in Messages /\ Number(c) \in Numbers /\ Worker(c) \in Agents
  <1>1. \A m \in Messages : Recipient[m] \in Agents
    BY QueueAssumption
  <1>2. flock \in [Agents -> Consumers \cup {User, NoConsumer}]
        /\ terminal \in [Agents -> Client!TerminalRow]
    BY DEF Typed, CoordinatorTypeOK, Client!ClientsTypeOK
  <1>3. QED
    BY <1>1, <1>2
    DEF Typed, CoordinatorTypeOK, Sessions!SessionsTypeOK, WorksOnAttempt, Worker, TypeOK, Times

\* setWorkerAvailability records one worker, or nothing.
LEMMA AvailabilitySet ==
  ASSUME TypeOK, reason \in [Agents -> Reasons], NEW a \in Agents, NEW at \in Nat,
         NEW availability \in WorkerAvailabilities, NEW why \in Reasons,
         SetAvailability(a, availability, why, at)
  PROVE  /\ WorkersRecorded \/ UNCHANGED vars
         /\ reason' \in [Agents -> Reasons]
         /\ \A x \in Agents \ {a} : reason'[x] = reason[x]
         /\ reason'[a] \in {reason[a], why}
         /\ worker[a].observedAt <= at => reason'[a] = why
         /\ \A x \in Agents : worker'[x].observedAt \in {worker[x].observedAt, at}
  <1>1. CASE worker[a].observedAt <= at
    <2>1. /\ worker' = [worker EXCEPT ![a] =
               [availability |-> availability, observedAt |-> at]]
          /\ UNCHANGED <<message, attempt, receipts, interruption, escalation, alive, now>>
          /\ reason' = [reason EXCEPT ![a] = why]
      BY <1>1 DEF SetAvailability, SetWorkerAvailability
    <2>2. worker \in WorkerTable
      BY DEF TypeOK, WorkerTable
    <2>3. worker' \in WorkerTable
      BY <2>1, <2>2 DEF WorkerTable
    <2>4. QED
      BY <2>1, <2>2, <2>3 DEF WorkersRecorded, WorkerTable
  <1>2. CASE ~(worker[a].observedAt <= at)
    BY <1>2 DEF SetAvailability, vars
  <1>3. QED
    BY <1>1, <1>2

\* syncAvailability records all workers at once, and marks none as automated.
LEMMA Synchronised ==
  ASSUME TypeOK, reason \in [Agents -> Reasons], NEW c, SyncAvailability(c)
  PROVE  /\ WorkersRecorded
         /\ reason' \in [Agents -> Reasons]
         /\ \A a \in Agents : reason'[a] = "automated" => reason[a] = "automated"
         /\ \A a \in Agents : worker'[a].observedAt \in {worker[a].observedAt, now}
  <1>1. PICK present \in [Agents -> BOOLEAN] :
          /\ worker' = [a \in Agents |->
               [availability |-> Synced(a, present[a]).availability,
                observedAt |-> Synced(a, present[a]).observedAt]]
          /\ reason' = [a \in Agents |-> Synced(a, present[a]).reason]
          /\ UNCHANGED <<message, attempt, receipts, interruption, escalation, alive, now>>
    BY DEF SyncAvailability
  <1>2. ASSUME NEW a \in Agents, NEW here
        PROVE  /\ Synced(a, here).availability \in WorkerAvailabilities
               /\ Synced(a, here).observedAt \in {worker[a].observedAt, now}
               /\ Synced(a, here).reason \in Reasons
               /\ Synced(a, here).reason = "automated" => reason[a] = "automated"
    <2>1. /\ worker[a].availability \in WorkerAvailabilities
          /\ reason[a] \in Reasons
      BY DEF TypeOK
    <2>2. /\ Seen(a).availability = worker[a].availability
          /\ Seen(a).observedAt = worker[a].observedAt
          /\ Seen(a).reason = reason[a]
      BY DEF Seen
    <2>3. \A availability, why :
            /\ Written(availability, why).availability = availability
            /\ Written(availability, why).observedAt = now
            /\ Written(availability, why).reason = why
      BY DEF Written
    <2>4. Recovered(a) \in {Seen(a), Written("idle", "none")}
      BY DEF Recovered
    <2>5. Synced(a, here) \in {Written("unavailable", "none"), Written("busy", "attached"),
                               Written("idle", "none"), Recovered(a)}
      BY DEF Synced
    <2>6. QED
      BY <2>1, <2>2, <2>3, <2>4, <2>5 DEF WorkerAvailabilities, Reasons
  <1>3. now \in Nat /\ \A a \in Agents : worker[a].observedAt \in Nat
    BY DEF TypeOK, Times
  <1>4. worker' \in WorkerTable
    BY <1>1, <1>2, <1>3 DEF WorkerTable
  <1>5. QED
    BY <1>1, <1>2, <1>4 DEF WorkersRecorded

\* The dedupe keys of the code are keys of the tables.
LEMMA KeysKnown ==
  ASSUME NEW m \in Messages, NEW n \in Numbers
  PROVE  /\ StreamKey(m, n) \in Reports /\ UnclassifiedKey(m, n) \in Reports
         /\ FailureKey(m, n) \in Topics
  BY CoordinatorAssumption

\* Operations of the queue that neither claim, begin nor fail an attempt.
QuietStep ==
  \/ \E m \in Messages, at \in Nat :
       /\ at <= now
       /\ \/ \E c \in Consumers : RenewLease(m, c, at)
          \/ RecipientStep(m, at) \/ OperatorStep(m, at)
  \/ \E at \in Nat : at <= now /\ RequeueExpired(at)
  \/ \E k \in Topics : CreateEscalation(k)
  \/ WorkersRecorded
  \/ \E c \in Consumers : Crash(c)
  \/ Tick

\* The steps of a runner that do.
Takes(c) == Claim(c) \/ Begin(c) \/ DeferFails(c) \/ FailOwn(c)

\* Every step of a runner's process.
RunnerActs(c) == RunnerStep(c) \/ KeepLease(c) \/ RenewsTooLate(c) \/ CrashRunner(c)

\* Each step of a runner is at most one operation of the queue ...
LEMMA RunnerOnQueue ==
  ASSUME Typed, NEW c \in Consumers,
         RunnerActs(c)
  PROVE  Takes(c) \/ QuietStep \/ UNCHANGED vars
  <1> USE Found
  <1>1. CASE NothingToDeliver(c) \/ AcquireLock(c) \/ LockIsHeld(c) \/ LockFails(c)
             \/ StopDetached(c) \/ BeginThrows(c) \/ Spawn(c) \/ SpawnThrows(c)
             \/ ChildCloses(c) \/ NoTerminalEvent(c) \/ DeferNothing(c) \/ DeferThrows(c)
             \/ FailForeign(c)
    BY <1>1
    DEF NothingToDeliver, AcquireLock, LockIsHeld, LockFails, StopDetached, BeginThrows,
        Spawn, SpawnThrows, ChildCloses, NoTerminalEvent, DeferNothing, DeferThrows,
        FailForeign
  <1>2. CASE SyncRequeues(c)
    BY <1>2 DEF SyncRequeues, RequeueExpiredLeases, QuietStep
  <1>3. CASE SyncAvailability(c)
    BY <1>3, Synchronised DEF QuietStep
  <1>4. ASSUME Busy(c), NEW availability \in WorkerAvailabilities, NEW why \in Reasons,
               SetAvailability(Worker(c), availability, why, now)
        PROVE  QuietStep \/ UNCHANGED vars
    BY <1>4, AvailabilitySet DEF QuietStep
  <1>5. CASE DeferToAttached(c) \/ MarkAutomated(c) \/ Unwind(c)
    <2>1. Busy(c) /\ {"busy", "idle"} \subseteq WorkerAvailabilities
          /\ {"attached", "automated", "none"} \subseteq Reasons
      BY <1>5 DEF DeferToAttached, MarkAutomated, Unwind, At, Busy, WorkerAvailabilities, Reasons
    <2>2. QED
      BY <1>4, <1>5, <2>1 DEF DeferToAttached, MarkAutomated, Unwind
  <1>6. CASE Takes(c)
    BY <1>6
  <1>7. CASE KeepLease(c)
    <2>1. Busy(c)
      BY <1>7 DEF KeepLease, Keep, At, Busy
    <2>2. QED
      BY <1>7, <2>1 DEF KeepLease, QuietStep
  <1>8. CASE EventCompleted(c) \/ CompletesMessage(c) \/ EventFailed(c) \/ FailAccepted(c)
    <2>1. Busy(c)
      BY <1>8 DEF EventCompleted, CompletesMessage, EventFailed, FailAccepted, At, Busy
    <2>2. RecipientStep(Work(c), now) \/ UNCHANGED vars
      BY <1>8, <2>1, KeysKnown
      DEF EventCompleted, CompletesMessage, EventFailed, FailAccepted, RecipientStep
    <2>3. QED
      BY <2>1, <2>2 DEF QuietStep
  <1>9. CASE DeferRetries(c)
    <2>1. Busy(c) /\ OperatorStep(Work(c), now)
      BY <1>9 DEF DeferRetries, At, Busy, OperatorStep
    <2>2. QED
      BY <2>1 DEF QuietStep
  <1>10. CASE Escalate(c)
    <2>1. Busy(c)
      BY <1>10 DEF Escalate, At, Busy
    <2>2. CreateEscalation(FailureKey(Work(c), Number(c))) \/ UNCHANGED vars
      BY <1>10 DEF Escalate
    <2>3. QED
      BY <2>1, <2>2, KeysKnown DEF QuietStep
  <1>11. CASE Dies(c)
    BY <1>11 DEF Dies, QuietStep
  <1>12. QED
    BY <1>1, <1>2, <1>3, <1>5, <1>6, <1>7, <1>8, <1>9, <1>10, <1>11
    DEF RunnerActs, RunnerStep, FailThrows, RenewsTooLate, CrashRunner, Takes

\* ... and so is each step of a child, of the operator, and of time.
LEMMA StepIsQuiet ==
  ASSUME Typed, [CoordinatorNext]_coordinatorVars
  PROVE  (\E c \in Consumers : Takes(c)) \/ [QuietStep]_vars
  <1> USE Found
  <1>1. {"busy", "idle", "asleep"} \subseteq WorkerAvailabilities
        /\ {"attached", "automated", "none"} \subseteq Reasons
    BY DEF WorkerAvailabilities, Reasons
  <1>2. ASSUME NEW m \in Messages, NEW n \in Numbers, ChildStep(m, n)
        PROVE  QuietStep \/ UNCHANGED vars
    <2>1. child[m][n].observedAt \in Nat
      BY DEF Child
    <2>2. CASE ChildSessionStart(m, n) \/ TurnRecorded(m, n) \/ TurnStops(m, n)
      BY <1>1, <2>1, <2>2, AvailabilitySet
      DEF ChildSessionStart, TurnRecorded, TurnStops, QuietStep
    <2>3. CASE ReceiptRecorded(m, n)
      BY <2>3 DEF ReceiptRecorded, RecipientStep, QuietStep
    <2>4. CASE PromptChecked(m, n) \/ PromptBlocked(m, n) \/ ReceiptRefused(m, n)
               \/ ModelWorks(m, n) \/ TurnFails(m, n) \/ BlockedTurnCompletes(m, n)
               \/ ChildDies(m, n)
      BY <2>4
      DEF PromptChecked, PromptBlocked, ReceiptRefused, ModelWorks, TurnFails,
          BlockedTurnCompletes, ChildDies
    <2>5. QED
      BY <1>2, <2>2, <2>3, <2>4 DEF ChildStep
  <1>3. ASSUME NEW a \in Agents, UserStep(a)
        PROVE  QuietStep \/ UNCHANGED vars
    <2>1. CASE UserSessionStart(a) \/ UserPrompts(a) \/ UserTurnStops(a) \/ Configure(a)
      BY <1>1, <2>1, AvailabilitySet
      DEF UserSessionStart, UserPrompts, UserTurnStops, Configure, QuietStep
    <2>2. CASE UserAttaches(a) \/ UserAttachesByHand(a) \/ UserLeaves(a)
      BY <2>2 DEF UserAttaches, UserAttachesByHand, UserLeaves
    <2>3. QED
      BY <1>3, <2>1, <2>2 DEF UserStep
  <1>4. ASSUME NEW m \in Messages, OperatorQueues(m) PROVE QuietStep
    BY <1>4 DEF OperatorQueues, OperatorStep, QuietStep
  <1>5. TimePasses => QuietStep
    BY DEF TimePasses, QuietStep
  <1>6. QED
    BY <1>2, <1>3, <1>4, <1>5, RunnerOnQueue DEF CoordinatorNext, RunnerActs, coordinatorVars

\* All of them are steps of the queue, which keep what it is proved to keep.
LEMMA StepOnQueue ==
  ASSUME Typed, [CoordinatorNext]_coordinatorVars
  PROVE  [QueueStep]_vars
  <1> USE Found
  <1>1. ASSUME NEW c \in Consumers, Claim(c)
        PROVE  QueueStep
    <2>1. PICK m \in Messages : ClaimNext(m, c, now, Deliverable)
      BY <1>1 DEF Claim
    <2>2. Deliverable \in ClaimOptions
      BY DEF Deliverable, ClaimOptions
    <2>3. QED
      BY <2>1, <2>2 DEF QueueStep, ConsumerStep
  <1>2. ASSUME NEW c \in Consumers, Begin(c) \/ DeferFails(c) \/ FailOwn(c)
        PROVE  QueueStep
    <2>1. Busy(c)
      BY <1>2 DEF Begin, DeferFails, FailOwn, At, Busy
    <2>2. ConsumerStep(Work(c), c, now)
      BY <1>2 DEF Begin, DeferFails, FailOwn, ConsumerStep
    <2>3. QED
      BY <2>1, <2>2 DEF QueueStep
  <1>3. QuietStep => QueueStep
    BY DEF QuietStep, QueueStep, ConsumerStep
  <1>4. QED
    BY <1>1, <1>2, <1>3, StepIsQuiet DEF Takes

-----------------------------------------------------------------------------
(***************************************************************************)
(* The course of a deliverOnce call, and the types of what it writes.      *)
(***************************************************************************)
OthersRun(c) == \A x \in Consumers \ {c} : runner'[x] = runner[x]

\* The stages that follow a stage, within one attempt.
Follows(from, to) ==
  \/ from = "claimed" /\ to \in {"locked", "deferring", "failing"}
  \/ from = "locked" /\ to \in {"deferring", "stopping", "marked"}
  \/ from = "stopping" /\ to = "marked"
  \/ from = "marked" /\ to \in {"begun", "unwinding"}
  \/ from = "begun" /\ to \in {"waiting", "unwinding"}
  \/ from = "waiting" /\ to \in {"acknowledged", "closing", "unwinding"}
  \/ from = "acknowledged" /\ to = "closing"
  \/ from = "closing" /\ to = "unwinding"
  \/ from = "unwinding" /\ to = "failing"
  \/ from = "deferring" /\ to \in {"retrying", "unwinding", "failing"}
  \/ from = "retrying" /\ to \in {"unwinding", "failing"}
  \/ from = "failing" /\ to = "escalating"

\* What a step of a runner makes of its call.
Stays(c) == runner' = runner

Ends(c) == runner'[c] = IdleRunner

Readies(c) ==
  /\ runner[c].stage = "idle"
  /\ runner'[c].stage = "ready" /\ runner'[c].number = runner[c].number

Claims(c) ==
  /\ runner[c].stage = "ready" /\ Claim(c)
  /\ runner'[c].stage = "claimed" /\ runner'[c].threw = FALSE
  /\ Work(c)' \in Messages /\ Number(c)' \in Numbers
  /\ ClaimNext(Work(c)', c, now, Deliverable)
  /\ Number(c)' = message[Work(c)'].attemptCount + 1
  /\ Number(c)' = message'[Work(c)'].attemptCount

Proceeds(c) ==
  /\ Follows(runner[c].stage, runner'[c].stage)
  /\ Work(c)' = Work(c) /\ Number(c)' = Number(c)
  /\ runner'[c].threw \in {TRUE, runner[c].threw}

\* GoTo, Throw and Return, row by row.
LEMMA RunnerWritten ==
  ASSUME runner \in [Consumers -> Runner], NEW c \in Consumers, NEW stage \in RunnerStages
  PROVE  /\ GoTo(c, stage) =>
              /\ runner' \in [Consumers -> Runner] /\ OthersRun(c)
              /\ runner'[c].stage = stage /\ runner'[c].threw = runner[c].threw
              /\ Work(c)' = Work(c) /\ Number(c)' = Number(c)
         /\ Throw(c, stage) =>
              /\ runner' \in [Consumers -> Runner] /\ OthersRun(c)
              /\ runner'[c].stage = stage /\ runner'[c].threw = TRUE
              /\ Work(c)' = Work(c) /\ Number(c)' = Number(c)
         /\ Return(c) =>
              /\ runner' \in [Consumers -> Runner] /\ OthersRun(c)
              /\ runner'[c] = IdleRunner
  <1>1. ASSUME NEW row \in Runner, runner' = [runner EXCEPT ![c] = row]
        PROVE  runner' \in [Consumers -> Runner] /\ OthersRun(c) /\ runner'[c] = row
    BY <1>1 DEF OthersRun
  <1>2. ASSUME GoTo(c, stage)
        PROVE  /\ runner' \in [Consumers -> Runner] /\ OthersRun(c)
               /\ runner'[c].stage = stage /\ runner'[c].threw = runner[c].threw
               /\ Work(c)' = Work(c) /\ Number(c)' = Number(c)
    <2>1. runner' = [runner EXCEPT ![c] = [runner[c] EXCEPT !.stage = stage]]
      BY <1>2 DEF GoTo
    <2>2. [runner[c] EXCEPT !.stage = stage] \in Runner
      BY DEF Runner
    <2>3. QED
      BY <1>1, <2>1, <2>2 DEF Runner, Work, Number
  <1>3. ASSUME Throw(c, stage)
        PROVE  /\ runner' \in [Consumers -> Runner] /\ OthersRun(c)
               /\ runner'[c].stage = stage /\ runner'[c].threw = TRUE
               /\ Work(c)' = Work(c) /\ Number(c)' = Number(c)
    <2>1. runner' = [runner EXCEPT ![c] =
                       [runner[c] EXCEPT !.stage = stage, !.threw = TRUE]]
      BY <1>3 DEF Throw
    <2>2. [runner[c] EXCEPT !.stage = stage, !.threw = TRUE] \in Runner
      BY DEF Runner
    <2>3. QED
      BY <1>1, <2>1, <2>2 DEF Runner, Work, Number
  <1>4. IdleRunner \in Runner
    BY QueueAssumption DEF IdleRunner, Runner, RunnerStages
  <1>5. QED
    BY <1>1, <1>2, <1>3, <1>4 DEF Return

\* A claim is about a new attempt, the last of its message.
LEMMA ClaimMoves ==
  ASSUME Typed, NEW c \in Consumers, Claim(c)
  PROVE  runner' \in [Consumers -> Runner] /\ OthersRun(c) /\ Claims(c)
  <1> USE Found
  <1>1. PICK m \in Messages :
          /\ ClaimNext(m, c, now, Deliverable)
          /\ runner' = [runner EXCEPT ![c] =
               [IdleRunner EXCEPT !.stage = "claimed", !.message = m,
                                  !.number = AttemptNumber(message[m])]]
    BY DEF Claim
  <1>2. message[m] \in MessageRow /\ MessagesAfterExpiry(now) \in [Messages -> MessageRow]
    BY ExpiryType DEF TypeOK
  <1>3. MessagesAfterExpiry(now)[m].attemptCount = message[m].attemptCount
    BY <1>2, RowFields DEF MessagesAfterExpiry, States
  <1>4. /\ message[m].attemptCount < MaxAttempts
        /\ AttemptNumber(MessagesAfterExpiry(now)[m]) = message[m].attemptCount + 1
        /\ message'[m].attemptCount = message[m].attemptCount + 1
    BY <1>1, <1>2, <1>3 DEF ClaimNext, AttemptNumber, MessageRow
  <1>5. message[m].attemptCount + 1 \in Numbers
        /\ AttemptNumber(message[m]) = message[m].attemptCount + 1
    BY <1>2, <1>4, ClaimNumber
  <1> DEFINE row == [IdleRunner EXCEPT !.stage = "claimed", !.message = m,
                                       !.number = message[m].attemptCount + 1]
  <1>6. /\ row \in Runner
        /\ row.stage = "claimed" /\ row.threw = FALSE /\ row.message = m
        /\ row.number = message[m].attemptCount + 1
    <2>1. message[m].attemptCount + 1 \in 0..MaxAttempts
      BY <1>5, QueueAssumption DEF Numbers
    <2>2. IdleRunner \in Runner /\ IdleRunner.threw = FALSE
      BY QueueAssumption DEF IdleRunner, Runner, RunnerStages
    <2>3. "claimed" \in RunnerStages
      BY DEF RunnerStages
    <2>4. QED
      BY <2>1, <2>2, <2>3 DEF Runner
  <1>7. runner' = [runner EXCEPT ![c] = row]
    BY <1>1, <1>5
  <1> HIDE DEF row
  <1>8. runner' \in [Consumers -> Runner] /\ OthersRun(c) /\ runner'[c] = row
    BY <1>6, <1>7 DEF OthersRun
  <1>9. runner[c].stage = "ready"
    BY DEF Claim, At
  <1>10. QED
    BY <1>1, <1>4, <1>5, <1>6, <1>8, <1>9 DEF Claims, Work, Number

\* Every step of a runner does one of these.
LEMMA RunnerMoves ==
  ASSUME Typed, NEW c \in Consumers,
         RunnerActs(c)
  PROVE  /\ c \in alive /\ runner' \in [Consumers -> Runner] /\ OthersRun(c)
         /\ Stays(c) \/ Ends(c) \/ Readies(c) \/ Claims(c) \/ Proceeds(c)
  <1> USE Found
  <1>1. \A stage \in {"locked", "stopping", "marked", "begun", "waiting", "acknowledged",
                      "closing", "unwinding", "deferring", "retrying", "failing",
                      "escalating", "ready"} : stage \in RunnerStages
    BY DEF RunnerStages
  <1>2. CASE SyncRequeues(c) \/ KeepLease(c) \/ Dies(c)
    BY <1>2 DEF SyncRequeues, KeepLease, Keep, Dies, Crash, At, OthersRun, Stays
  <1>3. CASE Claim(c)
    BY <1>3, ClaimMoves DEF Claim, At
  <1>4. CASE SyncAvailability(c)
    <2>1. c \in alive /\ runner[c].stage = "idle" /\ GoTo(c, "ready")
      BY <1>4 DEF SyncAvailability, At
    <2>2. QED
      BY <1>1, <2>1, RunnerWritten DEF Readies, Number
  <1>5. CASE NothingToDeliver(c) \/ FailAccepted(c) \/ Escalate(c)
    <2>1. c \in alive /\ Return(c)
      BY <1>5 DEF NothingToDeliver, FailAccepted, Escalate, At
    <2>2. QED
      BY <1>1, <2>1, RunnerWritten DEF Ends
  <1>6. ASSUME NEW stage \in RunnerStages, c \in alive, Follows(runner[c].stage, stage),
               GoTo(c, stage) \/ Throw(c, stage)
        PROVE  /\ c \in alive /\ runner' \in [Consumers -> Runner] /\ OthersRun(c)
               /\ Proceeds(c)
    BY <1>6, RunnerWritten DEF Proceeds
  <1>7. CASE AcquireLock(c) \/ LockIsHeld(c) \/ LockFails(c)
    BY <1>1, <1>6, <1>7 DEF AcquireLock, LockIsHeld, LockFails, At, Follows
  <1>8. CASE DeferToAttached(c) \/ MarkAutomated(c) \/ StopDetached(c) \/ Begin(c)
             \/ BeginThrows(c)
    BY <1>1, <1>6, <1>8
    DEF DeferToAttached, MarkAutomated, StopDetached, Begin, BeginThrows, At, Follows
  <1>9. CASE Spawn(c) \/ SpawnThrows(c) \/ EventCompleted(c) \/ CompletesMessage(c)
             \/ EventFailed(c) \/ ChildCloses(c) \/ NoTerminalEvent(c)
    BY <1>1, <1>6, <1>9
    DEF Spawn, SpawnThrows, EventCompleted, CompletesMessage, EventFailed, ChildCloses,
        NoTerminalEvent, At, Follows
  <1>10. CASE Unwind(c) \/ DeferNothing(c) \/ DeferRetries(c)
    <2>1. c \in alive
      BY <1>10 DEF Unwind, DeferNothing, DeferRetries, At
    <2>2. \/ Return(c)
          \/ \E stage \in {"failing", "unwinding"} :
               Follows(runner[c].stage, stage) /\ GoTo(c, stage)
      BY <1>10 DEF Unwind, DeferNothing, DeferRetries, Leave, At, Follows
    <2>3. QED
      BY <1>1, <1>6, <2>1, <2>2, RunnerWritten DEF Ends
  <1>11. CASE DeferFails(c) \/ DeferThrows(c) \/ FailOwn(c) \/ FailForeign(c)
    BY <1>1, <1>6, <1>11
    DEF DeferFails, DeferThrows, LeaveThrowing, FailOwn, FailForeign, At, Follows
  <1>12. QED
    BY <1>2, <1>3, <1>4, <1>5, <1>7, <1>8, <1>9, <1>10, <1>11
    DEF RunnerActs, RunnerStep, FailThrows, RenewsTooLate, CrashRunner

-----------------------------------------------------------------------------
(***************************************************************************)
(* What every step of the queue keeps of the attempts, the receipts, the   *)
(* reports and the escalations.                                            *)
(***************************************************************************)
AttemptKept(m, n) ==
  /\ attempt[m][n].outcome # "none" =>
       attempt'[m][n].outcome # "none" /\ attempt'[m][n].consumer = attempt[m][n].consumer
  /\ attempt'[m][n].outcome = "receipted" =>
       \/ attempt[m][n].outcome = "receipted"
       \/ m \in receipts' /\ n = message[m].attemptCount

TablesKept ==
  /\ \A m \in Messages, n \in Numbers : AttemptKept(m, n)
  /\ receipts \subseteq receipts'
  /\ \A k \in Reports : interruption[k] # NoInterruption => interruption'[k] = interruption[k]
  /\ \A k \in Reports \cup Topics : escalation[k] # "absent" => escalation'[k] # "absent"

\* The open attempt of a message is the only one an operation finishes.
LEMMA FinishedRows ==
  ASSUME TypeOK, NEW m \in Messages, NEW n \in Numbers,
         NEW outcome \in {"receipted", "failed", "lease_expired"}
  PROVE  /\ Finished(attempt[m], outcome)[n].consumer = attempt[m][n].consumer
         /\ attempt[m][n].outcome = "open" => Finished(attempt[m], outcome)[n].outcome = outcome
         /\ attempt[m][n].outcome # "open" => Finished(attempt[m], outcome)[n] = attempt[m][n]
  <1>1. attempt[m][n] \in AttemptRow
    BY DEF TypeOK
  <1>2. QED
    BY <1>1 DEF Finished, AttemptRow

\* Attempts that stay as they are, or are finished, are kept.
LEMMA KeptIfFinished ==
  ASSUME TypeOK, NEW m \in Messages, NEW n \in Numbers,
         \/ attempt'[m] = attempt[m]
         \/ attempt'[m] = Finished(attempt[m], "failed")
         \/ attempt'[m] = Finished(attempt[m], "lease_expired")
  PROVE  AttemptKept(m, n)
  BY FinishedRows DEF AttemptKept

\* Expiry keeps the attempts.
LEMMA ExpiryKeeps ==
  ASSUME TypeOK, NEW at \in Nat, NEW m \in Messages
  PROVE  AttemptsAfterExpiry(at)[m] \in {attempt[m], Finished(attempt[m], "lease_expired")}
  BY DEF AttemptsAfterExpiry

\* So does a claim: it opens an attempt that did not exist.
LEMMA ClaimKeeps ==
  ASSUME TypeOK, AttemptLedger, NEW m \in Messages, NEW c \in Consumers, NEW at \in Nat,
         NEW allowed, ClaimNext(m, c, at, allowed)
  PROVE  /\ \A x \in Messages, n \in Numbers : AttemptKept(x, n)
         /\ message[m].attemptCount + 1 \in Numbers
         /\ attempt[m][message[m].attemptCount + 1].outcome = "none"
         /\ attempt'[m][message[m].attemptCount + 1] = [consumer |-> c, outcome |-> "open"]
  <1> DEFINE number == message[m].attemptCount + 1
  <1>1. /\ message[m] \in MessageRow /\ MessagesAfterExpiry(at)[m] \in MessageRow
        /\ AttemptsAfterExpiry(at) \in [Messages -> [Numbers -> AttemptRow]]
    BY ExpiryType DEF TypeOK
  <1>2. MessagesAfterExpiry(at)[m].attemptCount = message[m].attemptCount
    BY <1>1, RowFields DEF MessagesAfterExpiry, States
  <1>3. AttemptNumber(MessagesAfterExpiry(at)[m]) = number /\ number \in Numbers
    BY <1>1, <1>2, ClaimNumber DEF ClaimNext, AttemptNumber
  <1>4. attempt' = [AttemptsAfterExpiry(at) EXCEPT ![m] =
          [AttemptsAfterExpiry(at)[m] EXCEPT ![number] = [consumer |-> c, outcome |-> "open"]]]
    BY <1>3 DEF ClaimNext
  <1>5. attempt[m][number].outcome = "none"
    BY <1>1, <1>3 DEF AttemptLedger, LedgerOf, MessageRow
  <1> HIDE DEF number
  <1>6. ASSUME NEW x \in Messages, NEW n \in Numbers
        PROVE  AttemptKept(x, n)
    <2>1. CASE x = m /\ n = number
      BY <1>1, <1>3, <1>4, <1>5, <2>1 DEF AttemptKept
    <2>2. CASE ~(x = m /\ n = number)
      <3>1. attempt'[x][n] = AttemptsAfterExpiry(at)[x][n]
        BY <1>1, <1>3, <1>4, <2>2
      <3>2. QED
        BY <3>1, ExpiryKeeps, FinishedRows DEF AttemptKept
    <2>3. QED
      BY <2>1, <2>2
  <1>7. attempt'[m][number] = [consumer |-> c, outcome |-> "open"]
    BY <1>1, <1>3, <1>4
  <1>8. QED
    BY <1>3, <1>5, <1>6, <1>7 DEF number

\* Every step of the queue keeps them.
LEMMA QueueKeeps ==
  ASSUME TypeOK, AttemptLedger, [QueueStep]_vars
  PROVE  TablesKept
  <1>1. ASSUME attempt' = attempt
        PROVE  \A m \in Messages, n \in Numbers : AttemptKept(m, n)
    BY <1>1 DEF AttemptKept
  <1>2. CASE UNCHANGED <<attempt, receipts, interruption, escalation>>
    BY <1>1, <1>2 DEF TablesKept
  <1>3. ASSUME NEW m \in Messages, NEW c \in Consumers, NEW at \in Nat, ConsumerStep(m, c, at)
        PROVE  TablesKept
    <2>1. CASE \E allowed \in ClaimOptions : ClaimNext(m, c, at, allowed)
      <3>1. PICK allowed \in ClaimOptions : ClaimNext(m, c, at, allowed)
        BY <2>1
      <3>2. \A x \in Messages, n \in Numbers : AttemptKept(x, n)
        BY <3>1, ClaimKeeps
      <3>3. UNCHANGED <<receipts, interruption, escalation>>
        BY <3>1 DEF ClaimNext
      <3>4. QED
        BY <3>2, <3>3 DEF TablesKept
    <2>2. CASE RenewLease(m, c, at) \/ BeginDelivery(m, c, at)
      BY <1>2, <2>2 DEF RenewLease, BeginDelivery
    <2>3. CASE Fail(m, c, at)
      <3>1. \A x \in Messages : attempt'[x] \in {attempt[x], Finished(attempt[x], "failed")}
        BY <2>3 DEF Fail, TypeOK
      <3>2. \A x \in Messages, n \in Numbers : AttemptKept(x, n)
        BY <3>1, KeptIfFinished
      <3>3. QED
        BY <2>3, <3>2 DEF TablesKept, Fail
    <2>4. QED
      BY <1>3, <2>1, <2>2, <2>3 DEF ConsumerStep
  <1>4. ASSUME NEW m \in Messages, RecordReceipt(m)
        PROVE  TablesKept
    <2>1. \A x \in Messages \ {m} : attempt'[x] = attempt[x]
      BY <1>4 DEF RecordReceipt, TypeOK
    <2>2. attempt'[m] = Finished(attempt[m], "receipted") /\ m \in receipts'
      BY <1>4 DEF RecordReceipt, TypeOK
    <2>3. \A n \in Numbers : attempt[m][n].outcome = "open" => n = message[m].attemptCount
      BY DEF AttemptLedger, LedgerOf
    <2>4. \A x \in Messages, n \in Numbers : AttemptKept(x, n)
      BY <2>1, <2>2, <2>3, KeptIfFinished, FinishedRows DEF AttemptKept
    <2>5. QED
      BY <1>4, <2>4 DEF TablesKept, RecordReceipt
  <1>5. ASSUME NEW m \in Messages, NEW at \in Nat, RecipientStep(m, at)
        PROVE  TablesKept
    <2>1. CASE Acknowledge(m) \/ Complete(m)
      BY <1>2, <2>1 DEF Acknowledge, Complete
    <2>2. ASSUME NEW k \in Reports,
                 ReportEscalated(k, m) \/ \E delay \in Delays : ReportRetrySafe(k, m, at, delay)
          PROVE  TablesKept
      <3>1. attempt' = attempt /\ receipts' = receipts /\ interruption[k] = NoInterruption
        BY <2>2 DEF ReportEscalated, ReportRetrySafe
      <3>2. \A j \in Reports \ {k} : interruption'[j] = interruption[j]
        BY <2>2 DEF ReportEscalated, ReportRetrySafe, TypeOK
      <3>3. \A j \in Reports \cup Topics : escalation'[j] \in {escalation[j], "open"}
        BY <2>2 DEF ReportEscalated, ReportRetrySafe, TypeOK
      <3>4. QED
        BY <1>1, <3>1, <3>2, <3>3 DEF TablesKept
    <2>3. QED
      BY <1>4, <1>5, <2>1, <2>2 DEF RecipientStep
  <1>6. ASSUME NEW m \in Messages, NEW at \in Nat, OperatorStep(m, at)
        PROVE  TablesKept
    BY <1>2, <1>6 DEF OperatorStep, Enqueue, Retry, Cancel
  <1>7. ASSUME NEW at \in Nat, RequeueExpired(at)
        PROVE  TablesKept
    <2>1. \A x \in Messages, n \in Numbers : AttemptKept(x, n)
      BY <1>7, ExpiryKeeps, KeptIfFinished DEF RequeueExpired
    <2>2. QED
      BY <1>7, <2>1 DEF TablesKept, RequeueExpired
  <1>8. ASSUME NEW k \in Reports \cup Topics, CreateEscalation(k) \/ ResolveEscalation(k)
        PROVE  TablesKept
    <2>1. UNCHANGED <<attempt, receipts, interruption>>
      BY <1>8 DEF CreateEscalation, ResolveEscalation
    <2>2. \A j \in Reports \cup Topics :
            escalation'[j] \in {escalation[j], "open", "resolved"}
      BY <1>8 DEF CreateEscalation, ResolveEscalation, TypeOK
    <2>3. QED
      BY <1>1, <2>1, <2>2 DEF TablesKept
  <1>9. CASE WorkersRecorded \/ Tick \/ \E c \in Consumers : Crash(c)
    BY <1>2, <1>9 DEF WorkersRecorded, Tick, Crash, tables
  <1>10. QED
    BY <1>2, <1>3, <1>5, <1>6, <1>7, <1>8, <1>9 DEF QueueStep, vars

-----------------------------------------------------------------------------
(***************************************************************************)
(* What a step makes of the messages.                                      *)
(***************************************************************************)
Told(k, m, n, disposition) ==
  Reported(k, m, n) /\ interruption[k].disposition = disposition

\* A message moves without being claimed, begun or failed: requeued, received,
\* acknowledged, completed, or reported on.
RestMoves(m) ==
  /\ message'[m].attemptCount = message[m].attemptCount
  /\ message'[m].owner \in {message[m].owner, NoConsumer}
  /\ State(m)' = "delivering" => State(m) = "delivering"
  /\ State(m)' \in Accepted => State(m) \in Accepted \cup {"delivering"}
  /\ State(m)' = "completed" => State(m) \in {"acknowledged", "completed"}
  /\ State(m) \in Accepted /\ State(m)' \notin Accepted =>
       \E k \in Reports : Reported(k, m, message[m].attemptCount)'
  /\ State(m)' = "failed" =>
       \/ State(m) = "failed"
       \/ /\ State(m) \in Accepted
          /\ \E k \in Reports : Told(k, m, message[m].attemptCount, "escalated")'

\* A message whose row changes at most in its lease and its times.
LEMMA RestStays ==
  ASSUME TypeOK, NEW m \in Messages,
         message'[m].attemptCount = message[m].attemptCount,
         message'[m].owner \in {message[m].owner, NoConsumer},
         State(m)' \in {State(m), "queued", "cancelled"},
         State(m)' # State(m) => State(m) \notin Accepted
  PROVE  RestMoves(m)
  BY DEF RestMoves, Accepted

\* Expired leases are given up.
LEMMA ExpiryMoves ==
  ASSUME TypeOK, NEW at \in Nat, NEW m \in Messages
  PROVE  LET new == MessagesAfterExpiry(at)[m]
         IN  /\ new.attemptCount = message[m].attemptCount
             /\ new.owner \in {message[m].owner, NoConsumer}
             /\ new.state \in {State(m), "queued"}
             /\ new.state # State(m) => State(m) \in InFlight
  <1>1. message[m] \in MessageRow
    BY DEF TypeOK
  <1>2. Requeued(message[m], at).attemptCount = message[m].attemptCount
        /\ Requeued(message[m], at).owner = NoConsumer
        /\ Requeued(message[m], at).state = "queued"
    BY <1>1, RowFields DEF States
  <1>3. QED
    BY <1>2 DEF MessagesAfterExpiry, Expired, State

\* A report that ends the acceptance of a message names its last attempt.
LEMMA ReportMoves ==
  ASSUME TypeOK, NEW m \in Messages, NEW k \in Reports,
         NEW disposition \in {"retry_safe", "escalated"}, NEW row,
         State(m) \in Accepted, message' = [message EXCEPT ![m] = row],
         row.attemptCount = message[m].attemptCount, row.owner = NoConsumer,
         row.state = IF disposition = "escalated" THEN "failed" ELSE "queued",
         interruption' = [interruption EXCEPT ![k] = Interruption(m, disposition)]
  PROVE  /\ \A x \in Messages : RestMoves(x)
         /\ Told(k, m, message[m].attemptCount, disposition)'
  <1>2. message'[m] = row /\ \A x \in Messages \ {m} : message'[x] = message[x]
    BY DEF TypeOK
  <1>3. interruption'[k] = Interruption(m, disposition)
    BY DEF TypeOK
  <1>4. Interruption(m, disposition) # NoInterruption
        /\ Interruption(m, disposition).message = m
        /\ Interruption(m, disposition).number = message[m].attemptCount
        /\ Interruption(m, disposition).disposition = disposition
    BY DEF Interruption, NoInterruption
  <1>5. Told(k, m, message[m].attemptCount, disposition)'
    BY <1>2, <1>3, <1>4 DEF Told, Reported
  <1>6. Reported(k, m, message[m].attemptCount)'
    BY <1>5 DEF Told
  <1>7. RestMoves(m)
    BY <1>2, <1>5, <1>6 DEF RestMoves, State, Accepted
  <1>8. \A x \in Messages \ {m} : RestMoves(x)
    BY <1>2, RestStays DEF State
  <1>9. QED
    BY <1>5, <1>7, <1>8

\* So does every quiet step, and it makes reports about accepted messages only.
LEMMA QuietMoves ==
  ASSUME TypeOK, AttemptLedger, [QuietStep]_vars
  PROVE  \A m \in Messages : RestMoves(m)
  <1>1. message \in [Messages -> MessageRow]
    BY DEF TypeOK
  <1>2. CASE UNCHANGED message
    BY <1>2, RestStays DEF State
  <1>3. ASSUME NEW m \in Messages, NEW row, message' = [message EXCEPT ![m] = row],
               row.attemptCount = message[m].attemptCount,
               row.owner \in {message[m].owner, NoConsumer},
               \/ row.state = State(m)
               \/ row.state \in {"queued", "cancelled"} /\ State(m) \notin Accepted
        PROVE  \A x \in Messages : RestMoves(x)
    <2>1. message'[m] = row /\ \A x \in Messages \ {m} : message'[x] = message[x]
      BY <1>1, <1>3
    <2>2. QED
      BY <1>3, <2>1, RestStays DEF State
  <1>4. ASSUME NEW m \in Messages, NEW c, NEW at, RenewLease(m, c, at)
        PROVE  \A x \in Messages : RestMoves(x)
    <2>1. message' = [message EXCEPT ![m] = [message[m] EXCEPT !.expiry = at + LeaseMs]]
      BY <1>4 DEF RenewLease
    <2>2. QED
      BY <1>1, <1>3, <2>1 DEF MessageRow, State
  <1>5. ASSUME NEW m \in Messages, RecordReceipt(m) \/ Acknowledge(m) \/ Complete(m)
        PROVE  \A x \in Messages : RestMoves(x)
    <2>1. \A x \in Messages \ {m} : message'[x] = message[x]
      BY <1>1, <1>5 DEF RecordReceipt, Acknowledge, Complete
    <2>2. \A x \in Messages \ {m} : RestMoves(x)
      BY <2>1, RestStays DEF State
    <2>3. CASE RecordReceipt(m)
      <3>1. /\ Released(message[m], "receipted").attemptCount = message[m].attemptCount
            /\ Released(message[m], "receipted").owner = NoConsumer
            /\ Released(message[m], "receipted").state = "receipted"
        BY <1>1, RowFields DEF States
      <3>2. message'[m] = Released(message[m], "receipted") /\ State(m) = "delivering"
        BY <1>1, <2>3 DEF RecordReceipt
      <3>3. QED
        BY <3>1, <3>2, <2>2 DEF RestMoves, State, Accepted
    <2>4. CASE Acknowledge(m) \/ Complete(m)
      <3>1. /\ message'[m].attemptCount = message[m].attemptCount
            /\ message'[m].owner = message[m].owner
            /\ \/ State(m) = "receipted" /\ State(m)' = "acknowledged"
               \/ State(m) = "acknowledged" /\ State(m)' = "completed"
        BY <1>1, <2>4 DEF Acknowledge, Complete, MessageRow, State
      <3>2. QED
        BY <3>1, <2>2 DEF RestMoves, Accepted
    <2>5. QED
      BY <1>5, <2>3, <2>4
  <1>6. ASSUME NEW m \in Messages, NEW k \in Reports, ReportEscalated(k, m)
        PROVE  \A x \in Messages : RestMoves(x)
    <2>1. /\ message' = [message EXCEPT ![m] = Released(message[m], "failed")]
          /\ interruption' = [interruption EXCEPT ![k] = Interruption(m, "escalated")]
          /\ State(m) \in Accepted
      BY <1>6 DEF ReportEscalated, Accepted
    <2>2. /\ Released(message[m], "failed").attemptCount = message[m].attemptCount
          /\ Released(message[m], "failed").owner = NoConsumer
          /\ Released(message[m], "failed").state = "failed"
      BY <1>1, RowFields DEF States
    <2>3. QED
      BY <2>1, <2>2, ReportMoves
  <1>7. ASSUME NEW m \in Messages, NEW k \in Reports, NEW at \in Nat, NEW delay \in Delays,
               ReportRetrySafe(k, m, at, delay)
        PROVE  \A x \in Messages : RestMoves(x)
    <2>1. /\ message' = [message EXCEPT ![m] = Requeued(message[m], at + delay)]
          /\ interruption' = [interruption EXCEPT ![k] = Interruption(m, "retry_safe")]
          /\ State(m) \in Accepted
      BY <1>7 DEF ReportRetrySafe, Accepted
    <2>2. at + delay \in Nat /\ message[m] \in MessageRow
      BY <1>1, QueueAssumption
    <2>3. /\ Requeued(message[m], at + delay).attemptCount = message[m].attemptCount
          /\ Requeued(message[m], at + delay).owner = NoConsumer
          /\ Requeued(message[m], at + delay).state = "queued"
      BY <2>2, RowFields DEF States
    <2>4. QED
      BY <2>1, <2>3, ReportMoves
  <1>8. ASSUME NEW m \in Messages, NEW at \in Nat, OperatorStep(m, at)
        PROVE  \A x \in Messages : RestMoves(x)
    <2>1. ASSUME NEW delay \in Delays, Enqueue(m, at, delay)
          PROVE  \A x \in Messages : RestMoves(x)
      <3>1. State(m) = "absent" /\ message[m].attemptCount = 0
        BY <2>1 DEF Enqueue, State, AttemptLedger, LedgerOf
      <3>2. NoMessage \in MessageRow /\ NoMessage.attemptCount = 0
            /\ NoMessage.owner = NoConsumer
        BY QueueAssumption DEF NoMessage, MessageRow, Owners, States
      <3>3. message' = [message EXCEPT ![m] =
              [NoMessage EXCEPT !.state = "queued", !.createdAt = at,
                                !.availableAt = at + delay]]
        BY <2>1 DEF Enqueue
      <3>4. QED
        BY <1>3, <3>1, <3>2, <3>3 DEF MessageRow, Accepted
    <2>2. ASSUME NEW delay \in Delays, Retry(m, at, delay)
          PROVE  \A x \in Messages : RestMoves(x)
      <3>1. message' = [message EXCEPT ![m] = Requeued(message[m], at + delay)]
            /\ State(m) = "failed" /\ at + delay \in Nat
        BY <2>2, QueueAssumption DEF Retry
      <3>2. QED
        BY ZenonT(40), <1>1, <1>3, <3>1, RowFields DEF States, Accepted
    <2>3. CASE Cancel(m)
      <3>1. message' = [message EXCEPT ![m] = [message[m] EXCEPT !.state = "cancelled"]]
            /\ State(m) \in {"queued", "failed"}
        BY <2>3 DEF Cancel
      <3>2. QED
        BY <1>1, <1>3, <3>1 DEF MessageRow, Accepted
    <2>4. QED
      BY <1>8, <2>1, <2>2, <2>3 DEF OperatorStep
  <1>9. ASSUME NEW at \in Nat, RequeueExpired(at)
        PROVE  \A x \in Messages : RestMoves(x)
    BY <1>9, ExpiryMoves, RestStays DEF RequeueExpired, State, Accepted, InFlight
  <1>10. QED
    BY <1>2, <1>4, <1>5, <1>6, <1>7, <1>8, <1>9
    DEF QuietStep, RecipientStep, CreateEscalation, WorkersRecorded, Crash, Tick, tables, vars

\* Runner c claims message m for a new attempt,
ClaimedBy(c, m) ==
  /\ Claim(c) /\ Claims(c) /\ Work(c)' = m
  /\ State(m) \notin Accepted
  /\ State(m)' = "leased" /\ message'[m].owner = c
  /\ message'[m].attemptCount = message[m].attemptCount + 1
  /\ attempt[m][Number(c)'].outcome = "none"
  /\ attempt'[m][Number(c)'] = [consumer |-> c, outcome |-> "open"]

\* begins to deliver the attempt it holds,
BegunBy(c, m) ==
  /\ Begin(c) /\ Work(c) = m
  /\ State(m) = "leased" /\ message[m].owner = c
  /\ State(m)' = "delivering" /\ message'[m].owner = c
  /\ message'[m].attemptCount = message[m].attemptCount

\* or fails it.
FailedBy(c, m) ==
  /\ DeferFails(c) \/ FailOwn(c)
  /\ Work(c) = m
  /\ State(m) \in InFlight /\ message[m].owner = c
  /\ State(m)' = "failed" /\ message'[m].owner = NoConsumer
  /\ message'[m].attemptCount = message[m].attemptCount

\* Claim, Begin and the two failures do just that to the message they are about.
LEMMA ClaimClaims ==
  ASSUME Typed, AttemptLedger, NEW c \in Consumers, Claim(c), NEW m, m = Work(c)'
  PROVE  ClaimedBy(c, m)
  <1> USE Found
  <1>1. Claims(c)
    BY ClaimMoves
  <1>2. /\ m \in Messages /\ ClaimNext(m, c, now, Deliverable)
        /\ message'[m].attemptCount = message[m].attemptCount + 1
        /\ Number(c)' = message[m].attemptCount + 1
    BY <1>1 DEF Claims
  <1>3. /\ attempt[m][Number(c)'].outcome = "none"
        /\ attempt'[m][Number(c)'] = [consumer |-> c, outcome |-> "open"]
    BY <1>2, ClaimKeeps
  <1>4. MessagesAfterExpiry(now) \in [Messages -> MessageRow]
    BY ExpiryType
  <1>5. MessagesAfterExpiry(now)[m].state = "queued"
    BY <1>2 DEF ClaimNext, Claimable
  <1>6. State(m) \notin Accepted
    BY <1>2, <1>5, ExpiryMoves DEF Accepted, InFlight
  <1>7. State(m)' = "leased" /\ message'[m].owner = c
    BY <1>2, <1>4 DEF ClaimNext, MessageRow, State
  <1>8. QED
    BY <1>1, <1>2, <1>3, <1>6, <1>7 DEF ClaimedBy

\* BeginDelivery moves the lease it was given to delivering.
LEMMA BeginBegins ==
  ASSUME Typed, NEW c \in Consumers, Begin(c), NEW m, m = Work(c)
  PROVE  BegunBy(c, m)
  <1> USE Found
  <1>1. m \in Messages /\ message[m] \in MessageRow
    BY DEF Begin, At, Busy, TypeOK
  <1>2. /\ message' = [message EXCEPT ![m] =
             [message[m] EXCEPT !.state = "delivering"]]
        /\ State(m) = "leased" /\ message[m].owner = c
    BY DEF Begin, BeginDelivery, OwnedInFlight
  <1>3. QED
    BY <1>1, <1>2 DEF BegunBy, MessageRow, State, TypeOK

\* Fail takes the lease away.
LEMMA FailFails ==
  ASSUME Typed, NEW c \in Consumers, DeferFails(c) \/ FailOwn(c),
         NEW m, m = Work(c)
  PROVE  FailedBy(c, m)
  <1> USE Found
  <1>1. m \in Messages /\ message[m] \in MessageRow
    BY DEF DeferFails, FailOwn, At, Busy, TypeOK
  <1>2. /\ message' = [message EXCEPT ![m] = Released(message[m], "failed")]
        /\ State(m) \in InFlight /\ message[m].owner = c
    BY DEF DeferFails, FailOwn, Fail, OwnedInFlight
  <1>3. /\ Released(message[m], "failed").attemptCount = message[m].attemptCount
        /\ Released(message[m], "failed").owner = NoConsumer
        /\ Released(message[m], "failed").state = "failed"
    BY <1>1, RowFields DEF States
  <1>4. message'[m] = Released(message[m], "failed")
    BY <1>1, <1>2 DEF TypeOK
  <1>5. QED
    BY <1>2, <1>3, <1>4 DEF FailedBy, State

\* In each step each message does one of these, or moves otherwise.
LEMMA MessageMoves ==
  ASSUME Typed, AttemptLedger, [CoordinatorNext]_coordinatorVars, NEW m \in Messages
  PROVE  \/ RestMoves(m)
         \/ \E c \in Consumers : ClaimedBy(c, m) \/ BegunBy(c, m) \/ FailedBy(c, m)
  <1> USE Found
  <1>1. message \in [Messages -> MessageRow]
    BY DEF TypeOK
  <1>2. CASE [QuietStep]_vars
    BY <1>2, QuietMoves
  <1>4. ASSUME NEW c \in Consumers, Claim(c)
        PROVE  RestMoves(m) \/ ClaimedBy(c, m)
    <2>1. PICK x : x = Work(c)'
      OBVIOUS
    <2>2. Claims(c) /\ ClaimedBy(c, x)
      BY <1>4, <2>1, ClaimMoves, ClaimClaims
    <2>3. x \in Messages /\ ClaimNext(x, c, now, Deliverable)
      BY <2>1, <2>2 DEF Claims
    <2>4. ASSUME x # m
          PROVE  RestMoves(m)
      <3>1. message'[m] = MessagesAfterExpiry(now)[m]
        BY <2>3, <2>4, ExpiryType DEF ClaimNext
      <3>2. QED
        BY <3>1, ExpiryMoves, RestStays DEF State, Accepted, InFlight
    <2>5. QED
      BY <2>2, <2>4
  <1>5. ASSUME NEW c \in Consumers, NEW row, Busy(c),
               message' = [message EXCEPT ![Work(c)] = row], Work(c) # m
        PROVE  RestMoves(m)
    <2>1. message'[m] = message[m]
      BY <1>1, <1>5
    <2>2. QED
      BY <2>1, RestStays DEF State
  <1>6. ASSUME NEW c \in Consumers, Begin(c) \/ DeferFails(c) \/ FailOwn(c)
        PROVE  RestMoves(m) \/ BegunBy(c, m) \/ FailedBy(c, m)
    <2>1. Busy(c)
      BY <1>6 DEF Begin, DeferFails, FailOwn, At, Busy
    <2>2. \E row : message' = [message EXCEPT ![Work(c)] = row]
      BY <1>6 DEF Begin, BeginDelivery, DeferFails, FailOwn, Fail
    <2>3. QED
      BY <1>5, <1>6, <2>1, <2>2, BeginBegins, FailFails
  <1>7. QED
    BY <1>2, <1>4, <1>6, StepIsQuiet DEF Takes

-----------------------------------------------------------------------------
(***************************************************************************)
(* What a step makes of the children.                                      *)
(***************************************************************************)
OtherChildren(m, n) ==
  \A x \in Messages, y \in Numbers : (x = m /\ y = n) \/ child'[x][y] = child[x][y]

\* Becomes, and the writes of whole rows, row by row.
LEMMA ChildWritten ==
  ASSUME child \in [Messages -> [Numbers -> Child]], NEW m \in Messages, NEW n \in Numbers,
         NEW row \in Child, child' = [child EXCEPT ![m][n] = row]
  PROVE  /\ child' \in [Messages -> [Numbers -> Child]]
         /\ OtherChildren(m, n) /\ child'[m][n] = row
  BY DEF OtherChildren

\* A child's row whose stage alone changes.
LEMMA BecomesWritten ==
  ASSUME child \in [Messages -> [Numbers -> Child]], NEW m \in Messages, NEW n \in Numbers,
         NEW stage \in ChildStages, Becomes(m, n, stage)
  PROVE  /\ child' \in [Messages -> [Numbers -> Child]]
         /\ OtherChildren(m, n)
         /\ Stage(m, n)' = stage
         /\ child'[m][n].worked = child[m][n].worked
         /\ child'[m][n].observedAt = child[m][n].observedAt
  <1>1. child[m][n] \in Child
    OBVIOUS
  <1>2. child' = [child EXCEPT ![m][n] = [child[m][n] EXCEPT !.stage = stage]]
    BY DEF Becomes
  <1>3. [child[m][n] EXCEPT !.stage = stage] \in Child
    BY <1>1 DEF Child
  <1>4. /\ child' \in [Messages -> [Numbers -> Child]] /\ OtherChildren(m, n)
        /\ child'[m][n] = [child[m][n] EXCEPT !.stage = stage]
    BY <1>2, <1>3, ChildWritten
  <1>5. QED
    BY <1>1, <1>4 DEF Child, Stage

\* The stages of a child, until its runner has seen it close.
ChildFollows(from, to) ==
  \/ from = "spawned" /\ to \in {"started", "transient", "broken", "gone"}
  \/ from = "started" /\ to \in {"checked", "blocked", "transient", "broken", "gone"}
  \/ from = "checked" /\ to \in {"admitted", "gone"}
  \/ from = "admitted" /\ to \in {"working", "blocked", "gone"}
  \/ from = "working" /\ to \in {"working", "stopped", "transient", "broken", "gone"}
  \/ from = "blocked" /\ to \in {"hollow", "gone"}

\* A child moves on: its prompt is checked when the hook accepts it, it works
\* once its receipt is on record, and the model works while it is at work.
Grows(m, n) ==
  /\ runner' = runner /\ OtherChildren(m, n)
  /\ ChildFollows(Stage(m, n), Stage(m, n)')
  /\ child'[m][n].observedAt \in {child[m][n].observedAt, now}
  /\ child'[m][n].worked # child[m][n].worked =>
       Stage(m, n) = "working" /\ Stage(m, n)' = "working"
  /\ Stage(m, n)' = "checked" => HookAccepts(m, n) /\ UNCHANGED vars
  /\ Stage(m, n)' = "working" => Stage(m, n) = "working" \/ State(m)' \in Accepted
  /\ Stage(m, n)' = "working" =>
       \/ Stage(m, n) = "working" /\ UNCHANGED vars
       \/ Stage(m, n) = "admitted" /\ State(m) \in Accepted \cup {"delivering"}

\* Every step of a child makes it grow.
LEMMA ChildGrows ==
  ASSUME Typed, NEW m \in Messages, NEW n \in Numbers, ChildStep(m, n)
  PROVE  child' \in [Messages -> [Numbers -> Child]] /\ Grows(m, n)
  <1> USE Found
  <1>1. child[m][n] \in Child /\ message \in [Messages -> MessageRow]
    BY DEF TypeOK
  <1>2. ChildStages = {"none", "spawned", "started", "checked", "admitted", "working",
                       "stopped", "transient", "broken", "blocked", "hollow", "done", "gone"}
    BY DEF ChildStages
  <1>3. ASSUME NEW stage \in ChildStages \ {"checked", "working"}, Becomes(m, n, stage),
               ChildFollows(Stage(m, n), stage), runner' = runner
        PROVE  child' \in [Messages -> [Numbers -> Child]] /\ Grows(m, n)
    BY <1>3, BecomesWritten DEF Grows
  <1>4. CASE ChildSessionStart(m, n) \/ PromptBlocked(m, n) \/ TurnRecorded(m, n)
             \/ ReceiptRefused(m, n) \/ TurnStops(m, n) \/ BlockedTurnCompletes(m, n)
    BY <1>2, <1>3, <1>4
    DEF ChildSessionStart, PromptBlocked, TurnRecorded, ReceiptRefused, TurnStops,
        BlockedTurnCompletes, ChildFollows
  <1>5. CASE TurnFails(m, n) \/ ChildDies(m, n)
    BY <1>2, <1>3, <1>5 DEF TurnFails, ChildDies, Undecided, ChildFollows
  <1>6. CASE PromptChecked(m, n)
    <2> DEFINE row == [child[m][n] EXCEPT !.stage = "checked", !.observedAt = now]
    <2>1. child' = [child EXCEPT ![m][n] = row]
      BY <1>6 DEF PromptChecked
    <2>2. /\ row \in Child
          /\ row.stage = "checked" /\ row.observedAt = now /\ row.worked = child[m][n].worked
      BY <1>1, <1>2 DEF Child
    <2> HIDE DEF row
    <2>3. child' \in [Messages -> [Numbers -> Child]] /\ OtherChildren(m, n)
          /\ child'[m][n] = row
      BY <2>1, <2>2, ChildWritten
    <2>4. QED
      BY <1>6, <2>2, <2>3 DEF PromptChecked, Grows, ChildFollows, Stage
  <1>7. CASE ModelWorks(m, n)
    <2> DEFINE row == [child[m][n] EXCEPT !.worked = TRUE]
    <2>1. child' = [child EXCEPT ![m][n] = row]
      BY <1>7 DEF ModelWorks
    <2>2. /\ row \in Child
          /\ row.stage = child[m][n].stage /\ row.observedAt = child[m][n].observedAt
      BY <1>1 DEF Child
    <2> HIDE DEF row
    <2>3. child' \in [Messages -> [Numbers -> Child]] /\ OtherChildren(m, n)
          /\ child'[m][n] = row
      BY <2>1, <2>2, ChildWritten
    <2>4. QED
      BY <1>7, <2>2, <2>3 DEF ModelWorks, Grows, ChildFollows, Stage
  <1>8. CASE ReceiptRecorded(m, n)
    <2>1. State(m)' \in Accepted /\ State(m) \in Accepted \cup {"delivering"}
      <3>1. CASE RecordReceipt(m)
        <4>1. Released(message[m], "receipted").state = "receipted"
          BY <1>1, RowFields DEF States
        <4>2. message'[m] = Released(message[m], "receipted") /\ State(m) = "delivering"
          BY <1>1, <3>1 DEF RecordReceipt
        <4>3. QED
          BY <4>1, <4>2 DEF State, Accepted
      <3>2. CASE State(m) \in Accepted /\ UNCHANGED vars
        BY <3>2 DEF State, vars
      <3>3. QED
        BY <1>8, <3>1, <3>2 DEF ReceiptRecorded
    <2>2. Becomes(m, n, "working") /\ runner' = runner /\ Stage(m, n) = "admitted"
      BY <1>8 DEF ReceiptRecorded
    <2>3. QED
      BY <1>2, <2>1, <2>2, BecomesWritten DEF Grows, ChildFollows
  <1>9. QED
    BY <1>4, <1>5, <1>6, <1>7, <1>8 DEF ChildStep

\* A runner starts the child of its attempt, or sees it close.
Spawns(c) ==
  /\ Spawn(c) /\ OtherChildren(Work(c), Number(c))
  /\ ChildOf(c)' = [NoChild EXCEPT !.stage = "spawned"]
  /\ ChildOf(c)'.stage = "spawned" /\ ~ChildOf(c)'.worked /\ ChildOf(c)'.observedAt = 0

Buries(c) ==
  /\ ChildCloses(c) /\ OtherChildren(Work(c), Number(c))
  /\ ChildOf(c)'.stage = IF ChildOf(c).stage = "stopped" THEN "done" ELSE "gone"
  /\ ChildOf(c)'.worked = ChildOf(c).worked
  /\ ChildOf(c)'.observedAt = ChildOf(c).observedAt

\* Starting a child is a write of its whole row.
LEMMA RunnerSpawns ==
  ASSUME Typed, NEW c \in Consumers, Spawn(c)
  PROVE  child' \in [Messages -> [Numbers -> Child]] /\ Spawns(c)
  <1> USE Found
  <1>1. Busy(c) /\ Work(c)' = Work(c) /\ Number(c)' = Number(c)
    BY RunnerWritten DEF Spawn, At, Busy, RunnerStages
  <1> DEFINE row == [NoChild EXCEPT !.stage = "spawned"]
  <1>2. child' = [child EXCEPT ![Work(c)][Number(c)] = row]
    BY DEF Spawn
  <1>3. NoChild \in Child /\ ~NoChild.worked /\ NoChild.observedAt = 0
        /\ "spawned" \in ChildStages
    BY DEF NoChild, Child, ChildStages
  <1>4. row \in Child /\ row.stage = "spawned" /\ ~row.worked /\ row.observedAt = 0
    BY <1>3 DEF Child
  <1> HIDE DEF row
  <1>5. /\ child' \in [Messages -> [Numbers -> Child]]
        /\ OtherChildren(Work(c), Number(c)) /\ child'[Work(c)][Number(c)] = row
    BY <1>1, <1>2, <1>4, ChildWritten
  <1>6. QED
    BY <1>1, <1>4, <1>5 DEF Spawns, ChildOf, row

\* Seeing it close is a write of its stage.
LEMMA RunnerBuries ==
  ASSUME Typed, NEW c \in Consumers, ChildCloses(c)
  PROVE  child' \in [Messages -> [Numbers -> Child]] /\ Buries(c)
  <1> USE Found
  <1>1. Busy(c) /\ Work(c)' = Work(c) /\ Number(c)' = Number(c)
    BY RunnerWritten DEF ChildCloses, At, Busy, RunnerStages
  <1>2. QED
    BY <1>1, BecomesWritten DEF ChildCloses, Buries, ChildOf, Stage, ChildStages

\* The other steps of the runners, the operator and time leave the children alone.
LEMMA ChildrenMove ==
  ASSUME Typed, [CoordinatorNext]_coordinatorVars
  PROVE  /\ child' \in [Messages -> [Numbers -> Child]]
         /\ \/ child' = child
            \/ \E c \in Consumers : Spawns(c) \/ Buries(c)
            \/ \E m \in Messages, n \in Numbers : ChildStep(m, n) /\ Grows(m, n)
  <1> USE Found
  <1>1. ASSUME NEW c \in Consumers,
               RunnerActs(c)
        PROVE  child' = child \/ Spawn(c) \/ ChildCloses(c)
    BY <1>1
    DEF RunnerActs, RunnerStep, KeepLease, RenewsTooLate, CrashRunner, Dies, SyncRequeues,
        SyncAvailability, Claim, NothingToDeliver, AcquireLock, LockIsHeld, LockFails,
        DeferToAttached, MarkAutomated, StopDetached, Begin, BeginThrows, SpawnThrows,
        EventCompleted, CompletesMessage, EventFailed, NoTerminalEvent, Unwind, DeferFails,
        DeferRetries, DeferNothing, DeferThrows, FailAccepted, FailOwn, FailThrows,
        FailForeign, Escalate
  <1>2. ASSUME NEW a \in Agents, UserStep(a)
        PROVE  child' = child
    BY <1>2
    DEF UserStep, UserAttaches, UserAttachesByHand, UserLeaves, UserSessionStart,
        UserPrompts, UserTurnStops, Configure
  <1>3. (\E m \in Messages : OperatorQueues(m)) \/ TimePasses => child' = child
    BY DEF OperatorQueues, TimePasses
  <1>4. QED
    BY <1>1, <1>2, <1>3, RunnerSpawns, RunnerBuries, ChildGrows
    DEF CoordinatorNext, RunnerActs, coordinatorVars

-----------------------------------------------------------------------------
(***************************************************************************)
(* Types.                                                                  *)
(***************************************************************************)

\* The steps of children, of the operator and of time leave the calls alone.
LEMMA RunnersMove ==
  ASSUME Typed, [CoordinatorNext]_coordinatorVars
  PROVE  /\ runner' \in [Consumers -> Runner]
         /\ \/ runner' = runner
            \/ \E c \in alive : /\ c \in Consumers /\ OthersRun(c)
                                /\ RunnerActs(c)
                                /\ Ends(c) \/ Readies(c) \/ Claims(c) \/ Proceeds(c)
  <1> USE Found
  <1>1. ASSUME NEW a \in Agents, UserStep(a)
        PROVE  runner' = runner
    BY <1>1
    DEF UserStep, UserAttaches, UserAttachesByHand, UserLeaves, UserSessionStart,
        UserPrompts, UserTurnStops, Configure
  <1>2. (\E m \in Messages : OperatorQueues(m)) \/ TimePasses => runner' = runner
    BY DEF OperatorQueues, TimePasses
  <1>3. \A m \in Messages, n \in Numbers : ChildStep(m, n) => runner' = runner
    BY ChildGrows DEF Grows
  <1>4. QED
    BY <1>1, <1>2, <1>3, RunnerMoves DEF CoordinatorNext, RunnerActs, coordinatorVars, Stays

\* The writes of worker_sessions keep its type.
LEMMA SessionTyped ==
  ASSUME session \in [Agents -> Sessions!SessionRow], NEW a \in Agents,
         NEW turn \in ChildTurns \cup {User}, NEW at \in Nat, NEW reset \in BOOLEAN,
         \/ Sessions!RegisterSession(a, reset, at)
         \/ Sessions!StartTurn(a, turn, at) \/ Sessions!FinishTurn(a, turn, at)
         \/ Sessions!ConfigureWorker(a)
  PROVE  session' \in [Agents -> Sessions!SessionRow]
  <1>1. \A t \in ChildTurns \cup {User} \cup {NoTurn} :
          [turn |-> t, lastEventAt |-> at] \in Sessions!SessionRow
    BY DEF Sessions!SessionRow
  <1>2. session[a].turn \in ChildTurns \cup {User} \cup {NoTurn}
    BY DEF Sessions!SessionRow
  <1>3. ASSUME NEW t \in ChildTurns \cup {User} \cup {NoTurn}, Sessions!Recorded(a, t, at)
        PROVE  session' \in [Agents -> Sessions!SessionRow]
    BY <1>1, <1>3 DEF Sessions!Recorded
  <1>4. CASE Sessions!ConfigureWorker(a)
    <2>1. session' = [session EXCEPT ![a] = [session[a] EXCEPT !.turn = NoTurn]]
      BY <1>4 DEF Sessions!ConfigureWorker
    <2>2. [session[a] EXCEPT !.turn = NoTurn] \in Sessions!SessionRow
      BY DEF Sessions!SessionRow
    <2>3. QED
      BY <2>1, <2>2
  <1>5. CASE Sessions!RegisterSession(a, reset, at)
    BY <1>2, <1>3, <1>5 DEF Sessions!RegisterSession, Sessions!ActiveTurn
  <1>6. CASE Sessions!StartTurn(a, turn, at)
    BY <1>3, <1>6 DEF Sessions!StartTurn
  <1>7. CASE Sessions!FinishTurn(a, turn, at)
    BY <1>2, <1>3, <1>7 DEF Sessions!FinishTurn, Sessions!ActiveTurn
  <1>8. QED
    BY <1>4, <1>5, <1>6, <1>7

\* So do the writes of the tmux sessions.
LEMMA TerminalTyped ==
  ASSUME terminal \in [Agents -> Client!TerminalRow], NEW a \in Agents,
         \/ Client!StartAndAttach(a) \/ Client!Stop(a)
         \/ terminal' = [terminal EXCEPT ![a].attached = FALSE]
         \/ \E codex \in {"quiet", "turn"} : terminal' = [terminal EXCEPT ![a].codex = codex]
  PROVE  terminal' \in [Agents -> Client!TerminalRow]
  <1>1. terminal[a] \in Client!TerminalRow
    OBVIOUS
  <1>2. ASSUME NEW row \in Client!TerminalRow, terminal' = [terminal EXCEPT ![a] = row]
        PROVE  terminal' \in [Agents -> Client!TerminalRow]
    BY <1>2
  <1>3. CASE Client!StartAndAttach(a)
    <2>1. terminal' = [terminal EXCEPT ![a] =
            [codex |-> IF Client!HasSession(a) THEN terminal[a].codex ELSE "starting",
             attached |-> TRUE]]
      BY <1>3 DEF Client!StartAndAttach
    <2>2. QED
      BY <1>1, <1>2, <2>1 DEF Client!TerminalRow
  <1>4. CASE Client!Stop(a)
    BY <1>2, <1>4 DEF Client!Stop, Client!NoTerminal, Client!TerminalRow
  <1>5. CASE terminal' = [terminal EXCEPT ![a].attached = FALSE]
    <2>1. [terminal[a] EXCEPT !.attached = FALSE] \in Client!TerminalRow
      BY <1>1 DEF Client!TerminalRow
    <2>2. QED
      BY <1>2, <1>5, <2>1
  <1>6. ASSUME NEW codex \in {"quiet", "turn"},
               terminal' = [terminal EXCEPT ![a].codex = codex]
        PROVE  terminal' \in [Agents -> Client!TerminalRow]
    <2>1. [terminal[a] EXCEPT !.codex = codex] \in Client!TerminalRow
      BY <1>1 DEF Client!TerminalRow
    <2>2. QED
      BY <1>2, <1>6, <2>1
  <1>7. QED
    BY <1>3, <1>4, <1>5, <1>6

\* What a step of a runner makes of the lock of a worker.
LocksMove(c) ==
  \/ flock' = flock
  \/ /\ AcquireLock(c) /\ flock[Worker(c)] = NoConsumer
     /\ flock' = [flock EXCEPT ![Worker(c)] = c]
  \/ Unwind(c) /\ flock' = [flock EXCEPT ![Worker(c)] = NoConsumer]
  \/ /\ Dies(c) /\ alive' = alive \ {c}
     /\ flock' = [a \in Agents |-> IF flock[a] = c THEN NoConsumer ELSE flock[a]]

\* The lock is taken when it is free, and released by the finally clause or
\* the death of the runner; everything else leaves it alone.
LEMMA RunnerLocks ==
  ASSUME NEW c \in Consumers,
         RunnerActs(c)
  PROVE  LocksMove(c) /\ UNCHANGED session
  <1>1. CASE SyncRequeues(c) \/ SyncAvailability(c) \/ Claim(c) \/ NothingToDeliver(c)
             \/ LockIsHeld(c) \/ LockFails(c)
    BY <1>1
    DEF SyncRequeues, SyncAvailability, Claim, NothingToDeliver, LockIsHeld, LockFails,
        LocksMove, clientVars
  <1>2. CASE DeferToAttached(c) \/ MarkAutomated(c) \/ StopDetached(c) \/ Begin(c)
             \/ BeginThrows(c) \/ Spawn(c) \/ SpawnThrows(c)
    BY <1>2
    DEF DeferToAttached, MarkAutomated, StopDetached, Begin, BeginThrows, Spawn,
        SpawnThrows, LocksMove, clientVars
  <1>3. CASE EventCompleted(c) \/ CompletesMessage(c) \/ EventFailed(c) \/ ChildCloses(c)
             \/ NoTerminalEvent(c) \/ KeepLease(c)
    BY <1>3
    DEF EventCompleted, CompletesMessage, EventFailed, ChildCloses, NoTerminalEvent,
        KeepLease, LocksMove, clientVars
  <1>4. CASE DeferFails(c) \/ DeferRetries(c) \/ DeferNothing(c) \/ DeferThrows(c)
             \/ FailAccepted(c) \/ FailOwn(c) \/ FailForeign(c) \/ Escalate(c)
    BY <1>4
    DEF DeferFails, DeferRetries, DeferNothing, DeferThrows, FailAccepted, FailOwn,
        FailForeign, Escalate, LocksMove, clientVars
  <1>5. CASE AcquireLock(c)
    BY <1>5 DEF AcquireLock, Client!TryAcquire, Client!Free, LocksMove
  <1>6. CASE Unwind(c)
    BY <1>6 DEF Unwind, Client!Release, LocksMove
  <1>7. CASE Dies(c)
    BY <1>7 DEF Dies, Crash, Client!LocksAfterDeath, LocksMove
  <1>8. QED
    BY <1>1, <1>2, <1>3, <1>4, <1>5, <1>6, <1>7
    DEF RunnerActs, RunnerStep, FailThrows, RenewsTooLate, CrashRunner

\* The operator's client takes the lock when it is free, and gives up its own.
UserLocks(a) ==
  \/ flock' = flock
  \/ flock[a] = NoConsumer /\ flock' = [flock EXCEPT ![a] = User]
  \/ flock[a] = User /\ flock' = [flock EXCEPT ![a] = NoConsumer]

\* What a step makes of the locks.
LEMMA LocksMoved ==
  ASSUME Typed, [CoordinatorNext]_coordinatorVars
  PROVE  \/ flock' = flock
         \/ \E c \in Consumers : LocksMove(c)
         \/ \E a \in Agents : UserLocks(a)
  <1> USE Found
  <1>1. ASSUME NEW a \in Agents, UserStep(a)
        PROVE  UserLocks(a)
    <2>1. CASE UserLeaves(a)
      <3>1. flock' = [flock EXCEPT ![a] = IF flock[a] = User THEN NoConsumer ELSE flock[a]]
        BY <2>1 DEF UserLeaves
      <3>2. QED
        BY <3>1 DEF UserLocks
    <2>2. CASE UserAttaches(a)
      BY <2>2 DEF UserAttaches, Client!TryAcquire, Client!Free, UserLocks
    <2>3. CASE UserAttachesByHand(a) \/ UserSessionStart(a) \/ UserPrompts(a)
               \/ UserTurnStops(a) \/ Configure(a)
      BY <2>3
      DEF UserAttachesByHand, UserSessionStart, UserPrompts, UserTurnStops, Configure, UserLocks
    <2>4. QED
      BY <1>1, <2>1, <2>2, <2>3 DEF UserStep
  <1>2. \A m \in Messages, n \in Numbers : ChildStep(m, n) => flock' = flock
    BY ZenonT(40) DEF ChildStep, ChildSessionStart, PromptChecked, PromptBlocked, TurnRecorded,
           ReceiptRecorded, ReceiptRefused, ModelWorks, TurnStops, TurnFails,
           BlockedTurnCompletes, ChildDies, clientVars
  <1>3. (\E m \in Messages : OperatorQueues(m)) \/ TimePasses => flock' = flock
    BY DEF OperatorQueues, TimePasses, clientVars
  <1>4. QED
    BY <1>1, <1>2, <1>3, RunnerLocks DEF CoordinatorNext, RunnerActs, coordinatorVars, clientVars

\* A call works on an attempt from its claim to its end.
LEMMA AttemptsWorkedOn ==
  ASSUME Typed, [CoordinatorNext]_coordinatorVars
  PROVE  WorksOnAttempt'
  <1> USE Found
  <1>1. CASE runner' = runner
    BY <1>1 DEF Typed, WorksOnAttempt, Busy, Work, Number
  <1>2. ASSUME NEW c \in Consumers, OthersRun(c),
               Ends(c) \/ Readies(c) \/ Claims(c) \/ Proceeds(c)
        PROVE  WorksOnAttempt'
    <2>1. ASSUME NEW x \in Consumers \ {c}
          PROVE  IF Busy(x)' THEN Work(x)' \in Messages /\ Number(x)' \in Numbers
                 ELSE Number(x)' = 0
      BY <1>2 DEF Typed, WorksOnAttempt, OthersRun, Busy, Work, Number
    <2>2. IF Busy(c)' THEN Work(c)' \in Messages /\ Number(c)' \in Numbers
          ELSE Number(c)' = 0
      <3>1. CASE Ends(c)
        BY <3>1 DEF Ends, IdleRunner, Busy, Number
      <3>2. CASE Readies(c)
        BY <3>2 DEF Readies, Typed, WorksOnAttempt, Busy, Number
      <3>3. CASE Claims(c)
        BY <3>3 DEF Claims, Busy
      <3>4. CASE Proceeds(c)
        <4>1. Busy(c) /\ Busy(c)'
          BY <3>4 DEF Proceeds, Follows, Busy
        <4>2. QED
          BY <3>4, <4>1 DEF Proceeds
      <3>5. QED
        BY <1>2, <3>1, <3>2, <3>3, <3>4
    <2>3. QED
      BY <2>1, <2>2 DEF WorksOnAttempt
  <1>3. QED
    BY <1>1, <1>2, RunnersMove

\* No step but those of runners, hooks and the operator writes a reason, a
\* session or a terminal, and they write what belongs there.
LEMMA ClientsTyped ==
  ASSUME Typed, [CoordinatorNext]_coordinatorVars
  PROVE  /\ reason' \in [Agents -> Reasons]
         /\ session' \in [Agents -> Sessions!SessionRow]
         /\ flock' \in [Agents -> Consumers \cup {User, NoConsumer}]
         /\ terminal' \in [Agents -> Client!TerminalRow]
  <1> USE Found
  <1>1. {"busy", "idle", "asleep"} \subseteq WorkerAvailabilities
        /\ {"attached", "automated", "none"} \subseteq Reasons
    BY DEF WorkerAvailabilities, Reasons
  <1>2. flock' \in [Agents -> Consumers \cup {User, NoConsumer}]
    <2>1. ASSUME NEW c \in Consumers, LocksMove(c)
          PROVE  flock' \in [Agents -> Consumers \cup {User, NoConsumer}]
      BY <2>1 DEF LocksMove
    <2>2. ASSUME NEW a \in Agents, UserLocks(a)
          PROVE  flock' \in [Agents -> Consumers \cup {User, NoConsumer}]
      BY <2>2 DEF UserLocks
    <2>3. QED
      BY <2>1, <2>2, LocksMoved
  <1>3. ASSUME NEW c \in Consumers,
               RunnerActs(c)
        PROVE  /\ reason' \in [Agents -> Reasons] /\ session' = session
               /\ terminal' \in [Agents -> Client!TerminalRow]
    <2>1. CASE DeferToAttached(c) \/ MarkAutomated(c) \/ Unwind(c)
      <3>1. Busy(c)
        BY <2>1 DEF DeferToAttached, MarkAutomated, Unwind, At, Busy
      <3>2. QED
        BY <1>1, <2>1, <3>1, AvailabilitySet, RunnerLocks
        DEF DeferToAttached, MarkAutomated, Unwind, RunnerActs, RunnerStep
    <2>2. CASE StopDetached(c)
      <3>1. Busy(c)
        BY <2>2 DEF StopDetached, At, Busy
      <3>2. QED
        BY <2>2, <3>1, TerminalTyped DEF StopDetached
    <2>3. CASE SyncAvailability(c)
      BY <2>3, Synchronised DEF SyncAvailability
    <2>4. CASE ~(DeferToAttached(c) \/ MarkAutomated(c) \/ Unwind(c) \/ StopDetached(c)
                 \/ SyncAvailability(c))
      <3>1. UNCHANGED <<reason, session, terminal>>
        BY <1>3, <2>4
        DEF RunnerActs, RunnerStep, KeepLease, RenewsTooLate, CrashRunner, Dies, SyncRequeues,
            Claim, NothingToDeliver, AcquireLock, LockIsHeld, LockFails, Begin, BeginThrows, Spawn,
            SpawnThrows, EventCompleted, CompletesMessage, EventFailed, ChildCloses,
            NoTerminalEvent, DeferFails, DeferRetries, DeferNothing, DeferThrows,
            FailAccepted, FailOwn, FailThrows, FailForeign, Escalate, clientVars
      <3>2. QED
        BY <3>1
    <2>5. QED
      BY <2>1, <2>2, <2>3, <2>4
  <1>4. ASSUME NEW m \in Messages, NEW n \in Numbers, ChildStep(m, n)
        PROVE  /\ reason' \in [Agents -> Reasons] /\ terminal' = terminal
               /\ session' \in [Agents -> Sessions!SessionRow]
    <2>1. child[m][n].observedAt \in Nat /\ <<m, n>> \in ChildTurns \cup {User}
      BY DEF Child, ChildTurns
    <2>2. CASE ChildSessionStart(m, n) \/ TurnRecorded(m, n) \/ TurnStops(m, n)
      BY <1>1, <2>1, <2>2, AvailabilitySet, SessionTyped
      DEF ChildSessionStart, TurnRecorded, TurnStops
    <2>3. CASE ~(ChildSessionStart(m, n) \/ TurnRecorded(m, n) \/ TurnStops(m, n))
      BY <1>4, <2>3
      DEF ChildStep, PromptChecked, PromptBlocked, ReceiptRecorded, ReceiptRefused,
          ModelWorks, TurnFails, BlockedTurnCompletes, ChildDies, clientVars
    <2>4. QED
      BY <2>2, <2>3
  <1>5. ASSUME NEW a \in Agents, UserStep(a)
        PROVE  /\ reason' \in [Agents -> Reasons]
               /\ session' \in [Agents -> Sessions!SessionRow]
               /\ terminal' \in [Agents -> Client!TerminalRow]
    <2>1. CASE UserSessionStart(a) \/ UserPrompts(a) \/ UserTurnStops(a)
      <3>1. \E codex \in {"quiet", "turn"} : terminal' = [terminal EXCEPT ![a].codex = codex]
        BY <2>1 DEF UserSessionStart, UserPrompts, UserTurnStops
      <3>2. QED
        BY <1>1, <2>1, <3>1, AvailabilitySet, SessionTyped, TerminalTyped
        DEF UserSessionStart, UserPrompts, UserTurnStops
    <2>2. CASE Configure(a)
      BY <1>1, <2>2, AvailabilitySet, SessionTyped DEF Configure
    <2>3. CASE UserAttaches(a) \/ UserAttachesByHand(a) \/ UserLeaves(a)
      BY <2>3, TerminalTyped DEF UserAttaches, UserAttachesByHand, UserLeaves
    <2>4. QED
      BY <1>5, <2>1, <2>2, <2>3 DEF UserStep
  <1>6. (\E m \in Messages : OperatorQueues(m)) \/ TimePasses => UNCHANGED clientVars
    BY DEF OperatorQueues, TimePasses
  <1>7. QED
    BY <1>2, <1>3, <1>4, <1>5, <1>6 DEF CoordinatorNext, RunnerActs, coordinatorVars, clientVars

\* Every step keeps the types.
LEMMA TypedInductive == Typed /\ [CoordinatorNext]_coordinatorVars => Typed'
  <1> SUFFICES ASSUME Typed, [CoordinatorNext]_coordinatorVars PROVE Typed'
    OBVIOUS
  <1>1. TypeOK'
    BY StepOnQueue, TypesInductive, Found
  <1>2. QED
    BY <1>1, RunnersMove, ChildrenMove, ClientsTyped, AttemptsWorkedOn
    DEF Typed, CoordinatorTypeOK, Sessions!SessionsTypeOK, Client!ClientsTypeOK

\* At the start nobody works on anything.
LEMMA InitTyped == CoordinatorInit => Typed
  <1> SUFFICES ASSUME CoordinatorInit PROVE Typed
    OBVIOUS
  <1>1. IdleRunner \in Runner /\ NoChild \in Child
    BY QueueAssumption
    DEF IdleRunner, Runner, RunnerStages, NoChild, Child, ChildStages
  <1>2. runner \in [Consumers -> Runner] /\ child \in [Messages -> [Numbers -> Child]]
    BY <1>1 DEF CoordinatorInit
  <1>3. WorksOnAttempt
    BY DEF CoordinatorInit, WorksOnAttempt, Busy, Number, IdleRunner
  <1>4. Sessions!SessionsTypeOK /\ Client!ClientsTypeOK
    BY DEF CoordinatorInit, Sessions!SessionsInit, Sessions!SessionsTypeOK,
           Sessions!SessionRow, Client!ClientsInit, Client!ClientsTypeOK,
           Client!NoTerminal, Client!TerminalRow
  <1>5. reason \in [Agents -> Reasons]
    BY DEF CoordinatorInit, Reasons
  <1>6. TypeOK
    BY QueueStarts DEF CoordinatorInit
  <1>7. QED
    BY <1>2, <1>3, <1>4, <1>5, <1>6 DEF Typed, CoordinatorTypeOK

\* Runners, children, hooks and the operator write only what belongs into the
\* tables, the locks and the tmux sessions they share.
THEOREM CoordinatorTypes == CoordinatorSpec => []CoordinatorTypeOK
  <1>1. Typed => CoordinatorTypeOK
    BY DEF Typed
  <1>2. QED
    BY <1>1, InitTyped, TypedInductive, PTL DEF CoordinatorSpec

-----------------------------------------------------------------------------
(***************************************************************************)
(* Steps, case by case.                                                    *)
(***************************************************************************)

\* What a runner can do at each stage of its call; at any stage it may renew
\* its lease or die.
ActsAtStage(c) ==
  \/ At(c, "idle") /\ SyncAvailability(c)
  \/ At(c, "ready") /\ (Claim(c) \/ NothingToDeliver(c))
  \/ At(c, "claimed") /\ (AcquireLock(c) \/ LockIsHeld(c) \/ LockFails(c))
  \/ At(c, "locked") /\ (DeferToAttached(c) \/ MarkAutomated(c))
  \/ At(c, "stopping") /\ StopDetached(c)
  \/ At(c, "marked") /\ (Begin(c) \/ BeginThrows(c))
  \/ At(c, "begun") /\ (Spawn(c) \/ SpawnThrows(c))
  \/ At(c, "waiting") /\ (EventCompleted(c) \/ EventFailed(c) \/ NoTerminalEvent(c))
  \/ At(c, "acknowledged") /\ CompletesMessage(c)
  \/ At(c, "closing") /\ ChildCloses(c)
  \/ At(c, "unwinding") /\ Unwind(c)
  \/ At(c, "deferring") /\ (DeferFails(c) \/ DeferNothing(c) \/ DeferThrows(c))
  \/ At(c, "retrying") /\ (DeferRetries(c) \/ DeferThrows(c))
  \/ At(c, "failing") /\ (FailAccepted(c) \/ FailOwn(c) \/ FailForeign(c))
  \/ At(c, "escalating") /\ Escalate(c)
  \/ SyncRequeues(c) \/ KeepLease(c) \/ Dies(c)

\* These are all the steps of a runner.
LEMMA StageDecides ==
  ASSUME NEW c, RunnerActs(c)
  PROVE  ActsAtStage(c)
  <1>1. /\ SyncAvailability(c) => At(c, "idle")
        /\ Claim(c) \/ NothingToDeliver(c) => At(c, "ready")
        /\ AcquireLock(c) \/ LockIsHeld(c) \/ LockFails(c) => At(c, "claimed")
        /\ DeferToAttached(c) \/ MarkAutomated(c) => At(c, "locked")
        /\ StopDetached(c) => At(c, "stopping")
        /\ Begin(c) \/ BeginThrows(c) => At(c, "marked")
        /\ Spawn(c) \/ SpawnThrows(c) => At(c, "begun")
    BY DEF SyncAvailability, Claim, NothingToDeliver, AcquireLock, LockIsHeld, LockFails,
           DeferToAttached, MarkAutomated, StopDetached, Begin, BeginThrows, Spawn, SpawnThrows
  <1>2. /\ EventCompleted(c) \/ EventFailed(c) \/ NoTerminalEvent(c) => At(c, "waiting")
        /\ CompletesMessage(c) => At(c, "acknowledged")
        /\ ChildCloses(c) => At(c, "closing")
        /\ Unwind(c) => At(c, "unwinding")
    BY DEF EventCompleted, EventFailed, NoTerminalEvent, CompletesMessage, ChildCloses, Unwind
  <1>3. /\ DeferFails(c) \/ DeferNothing(c) => At(c, "deferring")
        /\ DeferThrows(c) => At(c, "deferring") \/ At(c, "retrying")
        /\ DeferRetries(c) => At(c, "retrying")
        /\ FailAccepted(c) \/ FailOwn(c) \/ FailForeign(c) => At(c, "failing")
        /\ Escalate(c) => At(c, "escalating")
    BY DEF DeferFails, DeferNothing, DeferThrows, DeferRetries, FailAccepted, FailOwn,
           FailForeign, Escalate
  <1>4. FailThrows(c) \/ RenewsTooLate(c) \/ CrashRunner(c) => Dies(c)
    BY DEF FailThrows, RenewsTooLate, CrashRunner
  <1>5. RunnerActs(c) =>
          \/ SyncRequeues(c) \/ SyncAvailability(c) \/ Claim(c) \/ NothingToDeliver(c)
          \/ AcquireLock(c) \/ LockIsHeld(c) \/ LockFails(c) \/ DeferToAttached(c)
          \/ MarkAutomated(c) \/ StopDetached(c) \/ Begin(c) \/ BeginThrows(c) \/ Spawn(c)
          \/ SpawnThrows(c) \/ EventCompleted(c) \/ CompletesMessage(c) \/ EventFailed(c)
          \/ ChildCloses(c) \/ NoTerminalEvent(c) \/ Unwind(c) \/ DeferFails(c)
          \/ DeferRetries(c) \/ DeferNothing(c) \/ DeferThrows(c) \/ FailAccepted(c)
          \/ FailOwn(c) \/ FailForeign(c) \/ Escalate(c) \/ KeepLease(c) \/ Dies(c)
    BY <1>4 DEF RunnerActs, RunnerStep
  <1>6. QED
    BY <1>1, <1>2, <1>3, <1>5 DEF ActsAtStage

\* The way from one stage to the next, where it matters which step was taken.
Ways(c) ==
  /\ runner'[c].stage = "locked" => AcquireLock(c)
  /\ runner'[c].stage = "begun" => Begin(c)
  /\ runner'[c].stage = "waiting" => Spawn(c)
  /\ runner'[c].stage = "acknowledged" => EventCompleted(c)
  /\ runner[c].stage = "closing" => ChildCloses(c)
  /\ runner[c].stage = "waiting" /\ runner'[c].stage = "unwinding" => NoTerminalEvent(c)
  /\ runner[c].stage \in {"deferring", "retrying"} /\ runner'[c].stage = "unwinding" =>
       flock[Worker(c)] = c

\* They are the only ones.
LEMMA WaysTaken ==
  ASSUME Typed, NEW c \in Consumers, RunnerActs(c), Proceeds(c)
  PROVE  Ways(c)
  <1> USE Found
  <1>1. ActsAtStage(c) /\ runner[c].stage # runner'[c].stage
    BY StageDecides DEF Proceeds, Follows
  <1>2. SyncRequeues(c) \/ KeepLease(c) \/ Dies(c) => runner' = runner
    BY DEF SyncRequeues, KeepLease, Dies
  <1>3. \A stage \in RunnerStages :
          /\ GoTo(c, stage) => runner'[c].stage = stage
          /\ Throw(c, stage) => runner'[c].stage = stage
    BY RunnerWritten
  <1>4. Return(c) => runner'[c].stage = "idle"
    <2>1. Return(c) => runner'[c] = IdleRunner
      BY DEF Return
    <2>2. QED
      BY <2>1 DEF IdleRunner
  <1>5. \A stage \in {"locked", "stopping", "marked", "begun", "waiting", "acknowledged",
                      "closing", "unwinding", "deferring", "retrying", "failing",
                      "escalating", "ready"} : stage \in RunnerStages
    BY DEF RunnerStages
  <1>6. runner[c].stage # "claimed" => runner'[c].stage # "locked"
    BY DEF Proceeds, Follows
  <1>7. runner'[c].stage = "locked" => AcquireLock(c)
    BY <1>1, <1>2, <1>3, <1>5, <1>6 DEF ActsAtStage, At, LockIsHeld, LockFails
  <1>8. runner'[c].stage = "begun" => Begin(c)
    <2>1. runner'[c].stage = "begun" => runner[c].stage = "marked"
      BY DEF Proceeds, Follows
    <2>2. QED
      BY <1>1, <1>2, <1>3, <1>5, <2>1 DEF ActsAtStage, At, BeginThrows
  <1>9. runner'[c].stage = "waiting" => Spawn(c)
    <2>1. runner'[c].stage = "waiting" => runner[c].stage = "begun"
      BY DEF Proceeds, Follows
    <2>2. QED
      BY <1>1, <1>2, <1>3, <1>5, <2>1 DEF ActsAtStage, At, SpawnThrows
  <1>10. runner'[c].stage = "acknowledged" => EventCompleted(c)
    <2>1. runner'[c].stage = "acknowledged" => runner[c].stage = "waiting"
      BY DEF Proceeds, Follows
    <2>2. QED
      BY <1>1, <1>2, <1>3, <1>5, <2>1 DEF ActsAtStage, At, EventFailed, NoTerminalEvent
  <1>11. runner[c].stage = "closing" => ChildCloses(c)
    BY <1>1, <1>2 DEF ActsAtStage, At
  <1>12. runner[c].stage = "waiting" /\ runner'[c].stage = "unwinding" => NoTerminalEvent(c)
    BY <1>1, <1>2, <1>3, <1>5 DEF ActsAtStage, At, EventCompleted, EventFailed
  <1>13. runner[c].stage \in {"deferring", "retrying"} /\ runner'[c].stage = "unwinding" =>
           flock[Worker(c)] = c
    BY <1>1, <1>2, <1>3, <1>4, <1>5
    DEF ActsAtStage, At, DeferFails, DeferNothing, DeferThrows, DeferRetries, Leave,
        LeaveThrowing
  <1>14. QED
    BY <1>7, <1>8, <1>9, <1>10, <1>11, <1>12, <1>13 DEF Ways

\* Whose step it is, and what it does to the calls and to the locks.
LEMMA Steps ==
  ASSUME Typed, [CoordinatorNext]_coordinatorVars
  PROVE  \/ \E c \in Consumers :
              /\ c \in alive /\ RunnerActs(c) /\ OthersRun(c) /\ LocksMove(c)
              /\ Stays(c) \/ Ends(c) \/ Readies(c) \/ Claims(c) \/ (Proceeds(c) /\ Ways(c))
         \/ \E m \in Messages, n \in Numbers :
              ChildStep(m, n) /\ Grows(m, n) /\ UNCHANGED <<flock, terminal, runner>>
         \/ \E a \in Agents : UserStep(a) /\ UserLocks(a) /\ UNCHANGED <<runner, child>>
         \/ UNCHANGED <<clientVars, runner, child>>
  <1> USE Found
  <1>1. ASSUME NEW a \in Agents, UserStep(a)
        PROVE  UserLocks(a) /\ UNCHANGED <<runner, child>>
    <2>1. CASE UserLeaves(a)
      <3>1. flock' = [flock EXCEPT ![a] = IF flock[a] = User THEN NoConsumer ELSE flock[a]]
        BY <2>1 DEF UserLeaves
      <3>2. QED
        BY <2>1, <3>1 DEF UserLocks, UserLeaves
    <2>2. CASE UserAttaches(a)
      BY <2>2 DEF UserAttaches, Client!TryAcquire, Client!Free, UserLocks
    <2>3. CASE UserAttachesByHand(a) \/ UserSessionStart(a) \/ UserPrompts(a)
               \/ UserTurnStops(a) \/ Configure(a)
      BY <2>3
      DEF UserAttachesByHand, UserSessionStart, UserPrompts, UserTurnStops, Configure, UserLocks
    <2>4. QED
      BY <1>1, <2>1, <2>2, <2>3 DEF UserStep
  <1>2. ASSUME NEW m \in Messages, NEW n \in Numbers, ChildStep(m, n)
        PROVE  Grows(m, n) /\ UNCHANGED <<flock, terminal, runner>>
    <2>1. UNCHANGED <<flock, terminal>>
      BY <1>2
      DEF ChildStep, ChildSessionStart, PromptChecked, PromptBlocked, TurnRecorded,
          ReceiptRecorded, ReceiptRefused, ModelWorks, TurnStops, TurnFails,
          BlockedTurnCompletes, ChildDies, clientVars
    <2>2. QED
      BY <1>2, <2>1, ChildGrows DEF Grows
  <1>3. (\E m \in Messages : OperatorQueues(m)) \/ TimePasses =>
          UNCHANGED <<clientVars, runner, child>>
    BY DEF OperatorQueues, TimePasses
  <1>4. QED
    BY <1>1, <1>2, <1>3, RunnerMoves, RunnerLocks, WaysTaken
    DEF CoordinatorNext, RunnerActs, coordinatorVars

\* Nobody comes back to life.
LEMMA AliveShrinks ==
  ASSUME [QueueStep]_vars
  PROVE  alive' \subseteq alive
  <1>1. \A m, c, at : ConsumerStep(m, c, at) => alive' = alive
    BY DEF ConsumerStep, ClaimNext, RenewLease, BeginDelivery, Fail
  <1>2. \A m, at : RecipientStep(m, at) => alive' = alive
    BY DEF RecipientStep, RecordReceipt, Acknowledge, Complete, ReportEscalated, ReportRetrySafe
  <1>3. \A m, at : OperatorStep(m, at) => alive' = alive
    BY DEF OperatorStep, Enqueue, Retry, Cancel
  <1>4. \A at : RequeueExpired(at) => alive' = alive
    BY DEF RequeueExpired
  <1>5. \A k : CreateEscalation(k) \/ ResolveEscalation(k) => alive' = alive
    BY DEF CreateEscalation, ResolveEscalation
  <1>6. \A c : Crash(c) => alive' \subseteq alive
    BY DEF Crash
  <1>7. WorkersRecorded \/ Tick \/ UNCHANGED vars => alive' = alive
    BY DEF WorkersRecorded, Tick, vars
  <1>8. QED
    BY <1>1, <1>2, <1>3, <1>4, <1>5, <1>6, <1>7 DEF QueueStep

-----------------------------------------------------------------------------
(***************************************************************************)
(* The lock of a worker.                                                   *)
(***************************************************************************)

\* The stages of a call between tryAcquire and the end of the finally clause.
Locked == {"locked", "stopping", "marked", "begun", "waiting", "acknowledged", "closing",
           "unwinding"}

\* A runner at one of them that lives holds the lock of its worker.
HoldsLock == \A c \in alive : runner[c].stage \in Locked => flock[Worker(c)] = c

\* Every step keeps this: whoever takes the lock finds it free, and whoever
\* releases it holds it.
LEMMA LockInductive ==
  Typed /\ HoldsLock /\ [CoordinatorNext]_coordinatorVars => HoldsLock'
  <1> SUFFICES ASSUME Typed, HoldsLock, [CoordinatorNext]_coordinatorVars PROVE HoldsLock'
    OBVIOUS
  <1> USE Found
  <1>1. alive' \subseteq alive /\ alive \subseteq Consumers
    BY StepOnQueue, AliveShrinks DEF TypeOK
  <1>2. User \notin Consumers /\ NoConsumer \notin Consumers /\ User # NoConsumer
    BY QueueAssumption, CoordinatorAssumption
  <1>3. \A x \in Consumers : runner[x].stage \in Locked => Worker(x) \in Agents
    BY DEF Locked, Busy
  <1>4. ASSUME NEW c \in Consumers, c \in alive, RunnerActs(c), OthersRun(c), LocksMove(c),
               Stays(c) \/ Ends(c) \/ Readies(c) \/ Claims(c) \/ (Proceeds(c) /\ Ways(c))
        PROVE  HoldsLock'
    <2>1. ASSUME NEW x \in alive', x # c, runner'[x].stage \in Locked
          PROVE  flock'[Worker(x)'] = x
      <3>1. runner'[x] = runner[x] /\ Worker(x)' = Worker(x)
        BY <1>1, <1>4, <2>1 DEF OthersRun, Worker, Work
      <3>2. flock[Worker(x)] = x /\ Worker(x) \in Agents
        BY <1>1, <1>3, <2>1, <3>1 DEF HoldsLock
      <3>3. Unwind(c) => flock[Worker(c)] = c
        BY <1>4 DEF Unwind, At, HoldsLock, Locked
      <3>4. flock'[Worker(x)] = x
        BY <1>1, <1>2, <1>4, <2>1, <3>2, <3>3 DEF LocksMove
      <3>5. QED
        BY <3>1, <3>4
    <2>2. ASSUME c \in alive', runner'[c].stage \in Locked
          PROVE  flock'[Worker(c)'] = c
      <3>1. CASE Stays(c)
        <4>1. runner[c].stage \in Locked /\ Worker(c)' = Worker(c)
          BY <2>2, <3>1 DEF Stays, Worker, Work
        <4>2. flock[Worker(c)] = c
          BY <1>4, <4>1 DEF HoldsLock
        <4>3. ~AcquireLock(c) /\ ~Unwind(c)
          <5>1. \A stage \in RunnerStages : GoTo(c, stage) => runner'[c].stage = stage
            BY RunnerWritten
          <5>2. Return(c) => runner'[c].stage = "idle"
            BY DEF Return, IdleRunner
          <5>3. QED
            BY <3>1, <5>1, <5>2 DEF Stays, AcquireLock, Unwind, At, RunnerStages
        <4>4. flock' = flock
          BY <2>2, <4>3, <1>4 DEF LocksMove
        <4>5. QED
          BY <4>1, <4>2, <4>4
      <3>2. CASE Proceeds(c) /\ Ways(c)
        <4>1. Worker(c)' = Worker(c)
          BY <3>2 DEF Proceeds, Worker, Work
        <4>2. CASE AcquireLock(c)
          <5>1. Worker(c) \in Agents /\ ~Unwind(c) /\ flock'[Worker(c)] = c
            BY <4>2 DEF AcquireLock, At, Busy, Unwind, Client!TryAcquire
          <5>2. QED
            BY <4>1, <5>1
        <4>3. CASE ~AcquireLock(c)
          <5>1. runner[c].stage \in Locked \/ flock[Worker(c)] = c
            BY <2>2, <3>2, <4>3 DEF Proceeds, Follows, Ways, Locked
          <5>2. flock[Worker(c)] = c
            BY <1>4, <5>1 DEF HoldsLock
          <5>3. ~Unwind(c)
            <6>1. runner[c].stage # "unwinding"
              BY <2>2, <3>2 DEF Proceeds, Follows, Locked
            <6>2. QED
              BY <6>1 DEF Unwind, At
          <5>4. flock' = flock
            BY <1>4, <2>2, <4>3, <5>3 DEF LocksMove
          <5>5. QED
            BY <4>1, <5>2, <5>4
        <4>4. QED
          BY <4>2, <4>3
      <3>3. CASE Ends(c) \/ Readies(c) \/ Claims(c)
        BY <2>2, <3>3 DEF Ends, IdleRunner, Readies, Claims, Locked
      <3>4. QED
        BY <1>4, <3>1, <3>2, <3>3
    <2>3. QED
      BY <2>1, <2>2 DEF HoldsLock
  <1>5. ASSUME runner' = runner,
               \A x \in alive, a \in Agents : flock[a] = x => flock'[a] = x
        PROVE  HoldsLock'
    BY <1>1, <1>3, <1>5 DEF HoldsLock, Worker, Work
  <1>6. ASSUME NEW a \in Agents, UserLocks(a)
        PROVE  \A x \in alive, b \in Agents : flock[b] = x => flock'[b] = x
    BY <1>1, <1>2, <1>6 DEF UserLocks
  <1>7. QED
    BY <1>4, <1>5, <1>6, Steps DEF clientVars

-----------------------------------------------------------------------------
(***************************************************************************)
(* Whose child it is.                                                      *)
(***************************************************************************)

\* A call works on an attempt that its own consumer claimed, so no two calls
\* work on one attempt.
OwnAttempt ==
  \A c \in Consumers : Busy(c) =>
    /\ attempt[Work(c)][Number(c)].consumer = c
    /\ attempt[Work(c)][Number(c)].outcome # "none"

\* A child belongs to an attempt on record, and there is none before Spawn.
Recorded ==
  \A m \in Messages, n \in Numbers : child[m][n] # NoChild => attempt[m][n].outcome # "none"

BeforeSpawn == {"claimed", "locked", "stopping", "marked", "begun"}

Unspawned ==
  \A c \in Consumers : runner[c].stage \in BeforeSpawn => ChildOf(c) = NoChild

\* A child that lives is watched by the call that started it, unless the
\* process of that call has died.
Watching == {"waiting", "acknowledged", "closing"}

Watches(c, m, n) ==
  runner[c].stage \in Watching /\ runner[c].message = m /\ runner[c].number = n

Watched ==
  \A m \in Messages, n \in Numbers : Live(m, n) => \E c \in Consumers : Watches(c, m, n)

Parentage == OwnAttempt /\ Recorded /\ Unspawned /\ Watched

\* Two calls at work on one attempt are one.
LEMMA OneCall ==
  ASSUME OwnAttempt, NEW c \in Consumers, NEW x \in Consumers, Busy(c), Busy(x),
         Work(c) = Work(x), Number(c) = Number(x)
  PROVE  c = x
  BY DEF OwnAttempt

\* A claim takes a new attempt for its consumer.
LEMMA ClaimOpens ==
  ASSUME Typed, AttemptLedger, NEW c \in Consumers, Claims(c)
  PROVE  /\ attempt[Work(c)'][Number(c)'].outcome = "none"
         /\ attempt'[Work(c)'][Number(c)'] = [consumer |-> c, outcome |-> "open"]
         /\ child' = child
  <1> USE Found
  <1>1. ClaimNext(Work(c)', c, now, Deliverable) /\ Work(c)' \in Messages
        /\ Number(c)' = message[Work(c)'].attemptCount + 1
    BY DEF Claims
  <1>2. child' = child
    BY DEF Claims, Claim
  <1>3. QED
    BY <1>1, <1>2, ClaimKeeps

\* The four are kept together.
LEMMA OwnAttemptKept ==
  ASSUME Typed, AttemptLedger, OwnAttempt, [CoordinatorNext]_coordinatorVars
  PROVE  OwnAttempt'
  <1> USE Found
  <1>1. TablesKept
    BY StepOnQueue, QueueKeeps
  <1>2. ASSUME NEW x \in Consumers, Busy(x)', Busy(x), Work(x)' = Work(x), Number(x)' = Number(x)
        PROVE  /\ attempt'[Work(x)'][Number(x)'].consumer = x
               /\ attempt'[Work(x)'][Number(x)'].outcome # "none"
    <2>1. Work(x) \in Messages /\ Number(x) \in Numbers
      BY <1>2
    <2>2. attempt[Work(x)][Number(x)].consumer = x
          /\ attempt[Work(x)][Number(x)].outcome # "none"
      BY <1>2 DEF OwnAttempt
    <2>3. AttemptKept(Work(x), Number(x))
      BY <1>1, <2>1 DEF TablesKept
    <2>4. QED
      BY <1>2, <2>2, <2>3 DEF AttemptKept
  <1>3. ASSUME NEW x \in Consumers, runner'[x] = runner[x], Busy(x)'
        PROVE  Busy(x) /\ Work(x)' = Work(x) /\ Number(x)' = Number(x)
    BY <1>3 DEF Busy, Work, Number
  <1>4. ASSUME NEW c \in Consumers, OthersRun(c), Busy(c)',
               Stays(c) \/ Ends(c) \/ Readies(c) \/ Claims(c) \/ (Proceeds(c) /\ Ways(c))
        PROVE  /\ attempt'[Work(c)'][Number(c)'].consumer = c
               /\ attempt'[Work(c)'][Number(c)'].outcome # "none"
    <2>1. CASE Claims(c)
      <3>1. attempt'[Work(c)'][Number(c)'] = [consumer |-> c, outcome |-> "open"]
        BY <2>1, ClaimOpens
      <3>2. QED
        BY <3>1
    <2>2. CASE Proceeds(c)
      BY <1>2, <1>4, <2>2 DEF Proceeds, Follows, Busy
    <2>3. CASE Stays(c)
      BY <1>2, <1>3, <1>4, <2>3 DEF Stays
    <2>4. CASE Ends(c) \/ Readies(c)
      BY <1>4, <2>4 DEF Ends, Readies, IdleRunner, Busy
    <2>5. QED
      BY <1>4, <2>1, <2>2, <2>3, <2>4
  <1>5. CASE runner' = runner
    BY <1>2, <1>3, <1>5 DEF OwnAttempt
  <1>6. ASSUME NEW c \in Consumers, OthersRun(c),
               Stays(c) \/ Ends(c) \/ Readies(c) \/ Claims(c) \/ (Proceeds(c) /\ Ways(c))
        PROVE  OwnAttempt'
    <2>1. ASSUME NEW x \in Consumers, x # c, Busy(x)'
          PROVE  /\ attempt'[Work(x)'][Number(x)'].consumer = x
                 /\ attempt'[Work(x)'][Number(x)'].outcome # "none"
      BY <1>2, <1>3, <1>6, <2>1 DEF OthersRun
    <2>2. QED
      BY <1>4, <1>6, <2>1 DEF OwnAttempt
  <1>7. QED
    BY <1>5, <1>6, Steps DEF clientVars

\* Children are started for attempts on record.
LEMMA RecordedKept ==
  ASSUME Typed, AttemptLedger, OwnAttempt, Recorded, [CoordinatorNext]_coordinatorVars
  PROVE  Recorded'
  <1> USE Found
  <1>1. TablesKept
    BY StepOnQueue, QueueKeeps
  <1>2. ASSUME NEW m \in Messages, NEW n \in Numbers,
               child[m][n] # NoChild \/ attempt[m][n].outcome # "none"
        PROVE  attempt'[m][n].outcome # "none"
    BY <1>1, <1>2 DEF Recorded, TablesKept, AttemptKept
  <1>3. ASSUME NEW c \in Consumers, Spawns(c) \/ Buries(c)
        PROVE  Recorded'
    <2>1. Busy(c)
      BY <1>3 DEF Spawns, Buries, Spawn, ChildCloses, At, Busy
    <2>2. attempt[Work(c)][Number(c)].outcome # "none"
      BY <2>1 DEF OwnAttempt
    <2>3. OtherChildren(Work(c), Number(c))
      BY <1>3 DEF Spawns, Buries
    <2>4. QED
      BY <1>2, <2>1, <2>2, <2>3 DEF Recorded, OtherChildren
  <1>4. ASSUME NEW m \in Messages, NEW n \in Numbers, Grows(m, n)
        PROVE  Recorded'
    <2>1. child[m][n] # NoChild
      BY <1>4 DEF Grows, ChildFollows, Stage, NoChild
    <2>2. QED
      BY <1>2, <1>4, <2>1 DEF Recorded, Grows, OtherChildren
  <1>5. CASE child' = child
    BY <1>2, <1>5 DEF Recorded
  <1>6. QED
    BY <1>3, <1>4, <1>5, ChildrenMove

\* A call starts the child of its attempt, and nobody else does.
LEMMA UnspawnedKept ==
  ASSUME Typed, AttemptLedger, OwnAttempt, Recorded, Unspawned,
         [CoordinatorNext]_coordinatorVars
  PROVE  Unspawned'
  <1> USE Found
  <1>1. \A x \in Consumers : runner[x].stage \in BeforeSpawn => Busy(x)
    BY DEF BeforeSpawn, Busy
  <1>2. ASSUME NEW x \in Consumers, runner'[x].stage \in BeforeSpawn,
               runner[x].stage \in BeforeSpawn, Work(x)' = Work(x), Number(x)' = Number(x)
        PROVE  ChildOf(x)' = NoChild
    <2>1. ChildOf(x) = NoChild /\ Work(x) \in Messages /\ Number(x) \in Numbers /\ Busy(x)
      BY <1>1, <1>2 DEF Unspawned
    <2>2. ASSUME NEW c \in Consumers, Spawns(c) \/ Buries(c)
          PROVE  ChildOf(x)' = NoChild
      <3>1. Busy(c) /\ runner'[c].stage \notin BeforeSpawn
            /\ OtherChildren(Work(c), Number(c))
        <4>1. {"waiting", "unwinding"} \subseteq RunnerStages
          BY DEF RunnerStages
        <4>2. GoTo(c, "waiting") \/ GoTo(c, "unwinding")
          BY <2>2 DEF Spawns, Buries, Spawn, ChildCloses
        <4>3. runner'[c].stage \in {"waiting", "unwinding"}
          BY <4>1, <4>2, RunnerWritten
        <4>4. QED
          BY <2>2, <4>3
          DEF Spawns, Buries, Spawn, ChildCloses, At, Busy, BeforeSpawn
      <3>2. ~(Work(x) = Work(c) /\ Number(x) = Number(c))
        BY <1>2, <2>1, <3>1, OneCall
      <3>3. QED
        BY <1>2, <2>1, <3>1, <3>2 DEF OtherChildren, ChildOf
    <2>3. ASSUME NEW m \in Messages, NEW n \in Numbers, Grows(m, n)
          PROVE  ChildOf(x)' = NoChild
      <3>1. child[m][n] # NoChild
        BY <2>3 DEF Grows, ChildFollows, Stage, NoChild
      <3>2. QED
        BY <1>2, <2>1, <2>3, <3>1 DEF Grows, OtherChildren, ChildOf
    <2>4. child' = child => ChildOf(x)' = NoChild
      BY <1>2, <2>1 DEF ChildOf
    <2>5. QED
      BY <2>2, <2>3, <2>4, ChildrenMove
  <1>3. ASSUME NEW x \in Consumers, runner'[x] = runner[x], runner'[x].stage \in BeforeSpawn
        PROVE  ChildOf(x)' = NoChild
    BY <1>2, <1>3 DEF Work, Number
  <1>4. ASSUME NEW c \in Consumers, OthersRun(c),
               Stays(c) \/ Ends(c) \/ Readies(c) \/ Claims(c) \/ (Proceeds(c) /\ Ways(c))
        PROVE  Unspawned'
    <2>1. ASSUME NEW x \in Consumers, x # c, runner'[x].stage \in BeforeSpawn
          PROVE  ChildOf(x)' = NoChild
      BY <1>3, <1>4, <2>1 DEF OthersRun
    <2>2. ASSUME runner'[c].stage \in BeforeSpawn
          PROVE  ChildOf(c)' = NoChild
      <3>1. CASE Claims(c)
        <4>1. attempt[Work(c)'][Number(c)'].outcome = "none" /\ child' = child
          BY <3>1, ClaimOpens
        <4>2. Work(c)' \in Messages /\ Number(c)' \in Numbers
          BY <3>1 DEF Claims
        <4>3. QED
          BY <4>1, <4>2 DEF Recorded, ChildOf
      <3>2. CASE Proceeds(c)
        BY <1>2, <2>2, <3>2 DEF Proceeds, Follows, BeforeSpawn
      <3>3. CASE Stays(c)
        BY <1>3, <2>2, <3>3 DEF Stays
      <3>4. CASE Ends(c) \/ Readies(c)
        BY <2>2, <3>4 DEF Ends, Readies, IdleRunner, BeforeSpawn
      <3>5. QED
        BY <1>4, <3>1, <3>2, <3>3, <3>4
    <2>3. QED
      BY <2>1, <2>2 DEF Unspawned
  <1>5. runner' = runner => Unspawned'
    BY <1>3 DEF Unspawned
  <1>6. QED
    BY <1>4, <1>5, Steps DEF clientVars

\* A call leaves its child when the child is gone or has closed.
LEMMA WatchedKept ==
  ASSUME Typed, AttemptLedger, OwnAttempt, Watched, [CoordinatorNext]_coordinatorVars
  PROVE  Watched'
  <1> USE Found
  <1>1. ASSUME NEW m \in Messages, NEW n \in Numbers, Live(m, n), Live(m, n)'
        PROVE  \E c \in Consumers : Watches(c, m, n)'
    <2>1. PICK x \in Consumers : Watches(x, m, n)
      BY <1>1 DEF Watched
    <2>2. runner'[x] = runner[x] => Watches(x, m, n)'
      BY <2>1 DEF Watches
    <2>3. ASSUME OthersRun(x), RunnerActs(x),
                 Stays(x) \/ Ends(x) \/ Readies(x) \/ Claims(x) \/ (Proceeds(x) /\ Ways(x))
          PROVE  Watches(x, m, n)'
      <3>1. runner[x].stage \in Watching /\ Work(x) = m /\ Number(x) = n
        BY <2>1 DEF Watches, Work, Number
      <3>2. ActsAtStage(x)
        BY <2>3, StageDecides
      <3>3. ~Ends(x)
        <4>1. ASSUME NEW stage \in RunnerStages, GoTo(x, stage) \/ Throw(x, stage)
              PROVE  runner'[x].stage = stage
          BY <4>1, RunnerWritten
        <4>2. {"acknowledged", "closing", "unwinding"} \subseteq RunnerStages
          BY DEF RunnerStages
        <4>3. SyncRequeues(x) \/ KeepLease(x) \/ Dies(x) => runner'[x].stage = runner[x].stage
          BY DEF SyncRequeues, KeepLease, Dies
        <4>4. EventCompleted(x) \/ EventFailed(x) \/ NoTerminalEvent(x) \/ CompletesMessage(x)
              \/ ChildCloses(x) =>
                runner'[x].stage \in {"acknowledged", "closing", "unwinding"}
          BY <4>1, <4>2
          DEF EventCompleted, EventFailed, NoTerminalEvent, CompletesMessage, ChildCloses
        <4>5. runner'[x].stage # "idle"
          BY <3>1, <3>2, <4>3, <4>4 DEF ActsAtStage, At, Watching
        <4>6. QED
          BY <4>5 DEF Ends, IdleRunner
      <3>4. ~Readies(x) /\ ~Claims(x)
        BY <3>1 DEF Readies, Claims, Watching
      <3>5. CASE Proceeds(x) /\ Ways(x)
        <4>1. NoTerminalEvent(x) => Stage(m, n) = "gone"
          BY <3>1 DEF NoTerminalEvent, ChildOf, Stage
        <4>2. ChildCloses(x) => Stage(m, n)' \in {"done", "gone"}
          BY <3>1, RunnerBuries, <3>5 DEF Buries, ChildOf, Stage, Proceeds
        <4>3. runner'[x].stage \in Watching
          BY <1>1, <3>1, <3>5, <4>1, <4>2 DEF Proceeds, Follows, Ways, Watching, Live
        <4>4. QED
          BY <3>1, <3>5, <4>3 DEF Watches, Proceeds, Work, Number
      <3>6. QED
        BY <2>2, <2>3, <3>3, <3>4, <3>5 DEF Stays
    <2>4. \A c \in Consumers : OthersRun(c) => c = x \/ runner'[x] = runner[x]
      BY DEF OthersRun
    <2>5. QED
      BY <2>2, <2>3, <2>4, Steps DEF clientVars
  <1>2. ASSUME NEW c \in Consumers, Spawns(c)
        PROVE  Watches(c, Work(c), Number(c))'
    <2>1. "waiting" \in RunnerStages
      BY DEF RunnerStages
    <2>2. GoTo(c, "waiting")
      BY <1>2 DEF Spawns, Spawn
    <2>3. runner'[c].stage = "waiting" /\ Work(c)' = Work(c) /\ Number(c)' = Number(c)
      BY <2>1, <2>2, RunnerWritten
    <2>4. QED
      BY <2>3 DEF Watches, Watching, Work, Number
  <1>3. ASSUME NEW m \in Messages, NEW n \in Numbers, Live(m, n)', ~Live(m, n)
        PROVE  \E c \in Consumers : Watches(c, m, n)'
    <2>1. ASSUME NEW c \in Consumers, Spawns(c) \/ Buries(c)
          PROVE  \E x \in Consumers : Watches(x, m, n)'
      <3>1. OtherChildren(Work(c), Number(c))
        BY <2>1 DEF Spawns, Buries
      <3>2. m = Work(c) /\ n = Number(c)
        BY <1>3, <3>1 DEF OtherChildren, Live, Stage
      <3>3. ~Buries(c)
        <4>1. ASSUME Buries(c)
              PROVE  FALSE
          <5>1. "unwinding" \in RunnerStages /\ GoTo(c, "unwinding")
            BY <4>1 DEF Buries, ChildCloses, RunnerStages
          <5>2. Work(c)' = Work(c) /\ Number(c)' = Number(c)
            BY <5>1, RunnerWritten
          <5>3. ChildOf(c)'.stage \in {"done", "gone"}
            BY <4>1 DEF Buries
          <5>4. QED
            BY <1>3, <3>2, <5>2, <5>3 DEF ChildOf, Live, Stage
        <4>2. QED
          BY <4>1
      <3>4. Watches(c, Work(c), Number(c))'
        BY <1>2, <2>1, <3>3
      <3>5. Work(c)' = Work(c) /\ Number(c)' = Number(c)
        BY <2>1, <3>3, RunnerWritten DEF Spawns, Spawn, RunnerStages
      <3>6. QED
        BY <3>2, <3>4, <3>5
    <2>2. ASSUME NEW x \in Messages, NEW y \in Numbers, Grows(x, y)
          PROVE  FALSE
      <3>1. x = m /\ y = n
        BY <1>3, <2>2 DEF Grows, OtherChildren, Live, Stage
      <3>2. QED
        BY <1>3, <2>2, <3>1 DEF Grows, ChildFollows, Live
    <2>3. child' # child
      BY <1>3 DEF Live, Stage
    <2>4. QED
      BY <2>1, <2>2, <2>3, ChildrenMove
  <1>4. QED
    BY <1>1, <1>3 DEF Watched

\* The queue's ledger, the locks and the parentage of the children.
Grounded == Typed /\ AttemptLedger /\ HoldsLock /\ Parentage

\* Every step keeps them.
LEMMA GroundedInductive == Grounded /\ [CoordinatorNext]_coordinatorVars => Grounded'
  <1> SUFFICES ASSUME Grounded, [CoordinatorNext]_coordinatorVars PROVE Grounded'
    OBVIOUS
  <1>1. Typed' /\ HoldsLock'
    BY TypedInductive, LockInductive DEF Grounded
  <1>2. AttemptLedger'
    BY StepOnQueue, LedgerInductive, Found DEF Grounded
  <1>3. Parentage'
    BY OwnAttemptKept, RecordedKept, UnspawnedKept, WatchedKept DEF Grounded, Parentage
  <1>4. QED
    BY <1>1, <1>2, <1>3 DEF Grounded

\* At the start there are neither calls nor children.
LEMMA InitGrounded == CoordinatorInit => Grounded
  <1> SUFFICES ASSUME CoordinatorInit PROVE Grounded
    OBVIOUS
  <1>1. Typed /\ AttemptLedger
    BY InitTyped, QueueStarts DEF CoordinatorInit
  <1>2. \A c \in Consumers : runner[c].stage = "idle"
    BY DEF CoordinatorInit, IdleRunner
  <1>3. \A m \in Messages, n \in Numbers : child[m][n] = NoChild /\ ~Live(m, n)
    BY DEF CoordinatorInit, NoChild, Live, Stage
  <1>4. alive \subseteq Consumers
    BY DEF CoordinatorInit, Init
  <1>5. HoldsLock
    BY <1>2, <1>4 DEF HoldsLock, Locked
  <1>6. Parentage
    BY <1>2, <1>3
    DEF Parentage, OwnAttempt, Busy, Recorded, Unspawned, BeforeSpawn, Watched
  <1>7. QED
    BY <1>1, <1>5, <1>6 DEF Grounded

\* The runner of a child that lives, if it lives, is the one that watches it.
LEMMA TheRunnerWatches ==
  ASSUME Grounded, NEW m \in Messages, NEW n \in Numbers, NEW c \in Consumers,
         Live(m, n), runner[c].message = m, runner[c].number = n
  PROVE  Watches(c, m, n)
  <1>1. PICK x \in Consumers : Watches(x, m, n)
    BY DEF Grounded, Parentage, Watched
  <1>2. Busy(x) /\ Work(x) = m /\ Number(x) = n
    BY <1>1 DEF Watches, Watching, Busy, Work, Number
  <1>3. n # 0
    BY DEF Numbers
  <1>4. Busy(c) /\ Work(c) = m /\ Number(c) = n
    BY <1>3 DEF Grounded, Typed, WorksOnAttempt, Work, Number
  <1>5. x = c
    BY <1>2, <1>4, OneCall DEF Grounded, Parentage
  <1>6. QED
    BY <1>1, <1>5

\* While a Codex child lives and its runner with it, the worker's lock is that
\* runner's (deliverOnce's finally clause waits for the child to close), for
\* any number of runners, workers and messages.
THEOREM LockCovers == CoordinatorSpec => []LockCoversChild
  <1>1. Grounded => LockCoversChild
    <2> SUFFICES ASSUME Grounded, NEW m \in Messages, NEW n \in Numbers, NEW c \in Consumers,
                        Live(m, n), Runs(c, m, n)
                 PROVE  flock[Recipient[m]] = c
      BY DEF LockCoversChild
    <2>1. Watches(c, m, n)
      BY TheRunnerWatches DEF Runs
    <2>2. c \in alive /\ runner[c].stage \in Locked /\ Worker(c) = Recipient[m]
      BY <2>1 DEF Runs, Watches, Watching, Locked, Worker, Work
    <2>3. QED
      BY <2>2 DEF Grounded, HoldsLock
  <1>2. QED
    BY <1>1, InitGrounded, GroundedInductive, PTL DEF CoordinatorSpec

-----------------------------------------------------------------------------
(***************************************************************************)
(* The mark of an automated turn.                                          *)
(***************************************************************************)

\* Observations of workers and of prompts are not of the future.
Clocks ==
  /\ \A a \in Agents : worker[a].observedAt <= now
  /\ \A m \in Messages, n \in Numbers : child[m][n].observedAt <= now

\* Time does not run backwards.
LEMMA TimeRuns ==
  ASSUME TypeOK, [QueueStep]_vars
  PROVE  now' \in Nat /\ now <= now'
  <1>0. now \in Nat
    BY DEF TypeOK, Times
  <1>1. \A m, c, at : ConsumerStep(m, c, at) => now' = now
    BY DEF ConsumerStep, ClaimNext, RenewLease, BeginDelivery, Fail
  <1>2. \A m, at : RecipientStep(m, at) => now' = now
    BY DEF RecipientStep, RecordReceipt, Acknowledge, Complete, ReportEscalated, ReportRetrySafe
  <1>3. \A m, at : OperatorStep(m, at) => now' = now
    BY DEF OperatorStep, Enqueue, Retry, Cancel
  <1>4. \A at : RequeueExpired(at) => now' = now
    BY DEF RequeueExpired
  <1>5. \A k : CreateEscalation(k) \/ ResolveEscalation(k) => now' = now
    BY DEF CreateEscalation, ResolveEscalation
  <1>6. \A c : Crash(c) => now' = now
    BY DEF Crash
  <1>7. WorkersRecorded \/ UNCHANGED vars => now' = now
    BY DEF WorkersRecorded, vars
  <1>8. Tick => now' = now + 1
    BY DEF Tick
  <1>9. QED
    BY <1>0, <1>1, <1>2, <1>3, <1>4, <1>5, <1>6, <1>7, <1>8 DEF QueueStep

\* What a step may do to the mark of a worker and to the time it was observed.
Observed(a) ==
  /\ worker'[a].observedAt <= now
  /\ reason'[a] = "automated" =>
       \/ reason[a] = "automated"
       \/ \E c \in Consumers : c \in alive /\ MarkAutomated(c) /\ Worker(c) = a

\* Recording a worker at a time that has passed.
LEMMA ObservedInTime ==
  ASSUME Typed, Clocks, NEW b \in Agents, NEW at \in Nat, at <= now,
         NEW availability \in WorkerAvailabilities, NEW why \in Reasons,
         SetAvailability(b, availability, why, at), NEW a \in Agents,
         why # "automated" \/ \E c \in Consumers : c \in alive /\ MarkAutomated(c) /\ Worker(c) = b
  PROVE  Observed(a)
  <1> USE Found
  <1>1. /\ \A x \in Agents \ {b} : reason'[x] = reason[x]
        /\ reason'[b] \in {reason[b], why}
        /\ \A x \in Agents : worker'[x].observedAt \in {worker[x].observedAt, at}
    BY AvailabilitySet
  <1>2. worker'[a].observedAt <= now
    BY <1>1 DEF Clocks
  <1>3. QED
    BY <1>1, <1>2 DEF Observed

\* The mark is set by MarkAutomated alone, and rows are observed in time.
LEMMA MarksMove ==
  ASSUME Typed, Clocks, [CoordinatorNext]_coordinatorVars, NEW a \in Agents
  PROVE  Observed(a)
  <1> USE Found
  <1>1. {"busy", "idle", "asleep"} \subseteq WorkerAvailabilities
        /\ {"attached", "automated", "none"} \subseteq Reasons /\ now <= now
    BY DEF WorkerAvailabilities, Reasons
  <1>2. ASSUME UNCHANGED <<worker, reason>>
        PROVE  Observed(a)
    BY <1>2 DEF Observed, Clocks
  <1>3. ASSUME NEW c \in Consumers, RunnerActs(c), c \in alive
        PROVE  Observed(a)
    <2>1. CASE DeferToAttached(c) \/ MarkAutomated(c) \/ Unwind(c)
      <3>1. Worker(c) \in Agents
        BY <2>1 DEF DeferToAttached, MarkAutomated, Unwind, At, Busy
      <3>2. CASE DeferToAttached(c)
        BY <1>1, <3>1, <3>2, ObservedInTime DEF DeferToAttached
      <3>3. CASE MarkAutomated(c)
        BY <1>1, <1>3, <3>1, <3>3, ObservedInTime DEF MarkAutomated
      <3>4. CASE Unwind(c)
        BY <1>1, <1>2, <3>1, <3>4, ObservedInTime DEF Unwind, vars
      <3>5. QED
        BY <2>1, <3>2, <3>3, <3>4
    <2>2. CASE SyncAvailability(c)
      <3>1. /\ reason'[a] = "automated" => reason[a] = "automated"
            /\ worker'[a].observedAt \in {worker[a].observedAt, now}
        BY <2>2, Synchronised
      <3>2. worker[a].observedAt <= now
        BY DEF Clocks
      <3>3. QED
        BY <1>1, <3>1, <3>2 DEF Observed
    <2>3. CASE ~(DeferToAttached(c) \/ MarkAutomated(c) \/ Unwind(c) \/ SyncAvailability(c))
      <3>1. UNCHANGED <<worker, reason>>
        BY <1>3, <2>3
        DEF RunnerActs, RunnerStep, KeepLease, RenewsTooLate, CrashRunner, Dies, SyncRequeues,
            Claim, NothingToDeliver, AcquireLock, LockIsHeld, LockFails, StopDetached, Begin,
            BeginThrows, Spawn, SpawnThrows, EventCompleted, CompletesMessage, EventFailed,
            ChildCloses, NoTerminalEvent, DeferFails, DeferRetries, DeferNothing, DeferThrows,
            FailAccepted, FailOwn, FailThrows, FailForeign, Escalate, clientVars, vars, tables,
            RequeueExpiredLeases, RequeueExpired, ClaimNext, BeginDelivery, Acknowledge,
            Complete, ReportEscalated, ReportRetrySafe, Fail, Retry, CreateEscalation,
            RenewLease, Crash
      <3>2. QED
        BY <1>2, <3>1
    <2>4. QED
      BY <2>1, <2>2, <2>3
  <1>4. ASSUME NEW m \in Messages, NEW n \in Numbers, ChildStep(m, n)
        PROVE  Observed(a)
    <2>1. child[m][n].observedAt \in Nat /\ child[m][n].observedAt <= now
          /\ Recipient[m] \in Agents
      BY DEF Child, Clocks
    <2>2. CASE ChildSessionStart(m, n) \/ TurnRecorded(m, n) \/ TurnStops(m, n)
      BY <1>1, <1>2, <2>1, <2>2, ObservedInTime
      DEF ChildSessionStart, TurnRecorded, TurnStops, vars
    <2>3. CASE ~(ChildSessionStart(m, n) \/ TurnRecorded(m, n) \/ TurnStops(m, n))
      <3>1. UNCHANGED <<worker, reason>>
        BY <1>4, <2>3
        DEF ChildStep, PromptChecked, PromptBlocked, ReceiptRecorded, ReceiptRefused,
            ModelWorks, TurnFails, BlockedTurnCompletes, ChildDies, clientVars, vars,
            RecordReceipt
      <3>2. QED
        BY <1>2, <3>1
    <2>4. QED
      BY <2>2, <2>3
  <1>5. ASSUME NEW b \in Agents, UserStep(b)
        PROVE  Observed(a)
    <2>1. CASE UserSessionStart(b) \/ UserPrompts(b) \/ UserTurnStops(b) \/ Configure(b)
      <3>1. \/ \E availability \in {"busy", "idle", "asleep"} :
                 SetAvailability(b, availability, "none", now)
            \/ UNCHANGED <<worker, reason>>
        BY <2>1 DEF UserSessionStart, UserPrompts, UserTurnStops, Configure, vars
      <3>2. QED
        BY <1>1, <1>2, <3>1, ObservedInTime
    <2>2. CASE UserAttaches(b) \/ UserAttachesByHand(b) \/ UserLeaves(b)
      BY <1>2, <2>2 DEF UserAttaches, UserAttachesByHand, UserLeaves, vars
    <2>3. QED
      BY <1>5, <2>1, <2>2 DEF UserStep
  <1>6. (\E m \in Messages : OperatorQueues(m)) \/ TimePasses => UNCHANGED <<worker, reason>>
    BY DEF OperatorQueues, TimePasses, clientVars, Enqueue, Retry, Tick, tables
  <1>7. UNCHANGED coordinatorVars => UNCHANGED <<worker, reason>>
    BY DEF coordinatorVars, vars, clientVars
  <1>8. \A c \in Consumers : RunnerActs(c) => c \in alive
    BY RunnerMoves
  <1>9. QED
    BY <1>2, <1>3, <1>4, <1>5, <1>6, <1>7, <1>8 DEF CoordinatorNext, RunnerActs

\* The finally clause clears the mark: nothing was observed after it began.
LEMMA UnwindClears ==
  ASSUME Typed, Clocks, NEW c \in Consumers, Unwind(c)
  PROVE  reason'[Worker(c)] # "automated"
  <1> USE Found
  <1>1. Worker(c) \in Agents /\ worker[Worker(c)].observedAt <= now
    BY DEF Unwind, At, Busy, Clocks
  <1>2. "idle" \in WorkerAvailabilities /\ "none" \in Reasons
    BY DEF WorkerAvailabilities, Reasons
  <1>3. SetAvailability(Worker(c), "idle", "none", now) => reason'[Worker(c)] = "none"
    BY <1>1, <1>2, AvailabilitySet
  <1>4. QED
    BY <1>3 DEF Unwind

\* Every step keeps the clocks in order.
LEMMA ClocksInductive == Typed /\ Clocks /\ [CoordinatorNext]_coordinatorVars => Clocks'
  <1> SUFFICES ASSUME Typed, Clocks, [CoordinatorNext]_coordinatorVars PROVE Clocks'
    OBVIOUS
  <1> USE Found
  <1>1. now' \in Nat /\ now <= now'
    BY StepOnQueue, TimeRuns
  <1>2. \A a \in Agents : worker'[a].observedAt \in Nat /\ worker'[a].observedAt <= now
    <2>1. worker' \in WorkerTable
      BY TypedInductive DEF Typed, CoordinatorTypeOK, TypeOK, WorkerTable
    <2>2. QED
      BY <2>1, MarksMove DEF Observed, WorkerTable
  <1>3. ASSUME NEW m \in Messages, NEW n \in Numbers
        PROVE  child'[m][n].observedAt \in Nat /\ child'[m][n].observedAt <= now
    <2>1. child[m][n].observedAt \in Nat /\ child[m][n].observedAt <= now
      BY DEF Clocks, Child
    <2>2. ASSUME NEW c \in Consumers, Spawns(c) \/ Buries(c)
          PROVE  child'[m][n].observedAt \in {0, child[m][n].observedAt}
      <3>1. Work(c)' = Work(c) /\ Number(c)' = Number(c)
        BY <2>2, RunnerWritten DEF Spawns, Buries, Spawn, ChildCloses, RunnerStages
      <3>2. QED
        BY <2>2, <3>1 DEF Spawns, Buries, OtherChildren, ChildOf
    <2>3. ASSUME NEW x \in Messages, NEW y \in Numbers, Grows(x, y)
          PROVE  child'[m][n].observedAt \in {now, child[m][n].observedAt}
      BY <2>3 DEF Grows, OtherChildren
    <2>4. QED
      BY <2>1, <2>2, <2>3, ChildrenMove
  <1>4. QED
    BY <1>1, <1>2, <1>3 DEF Clocks

\* The mark follows the lock.
LEMMA MarkInductive ==
  Grounded /\ Clocks /\ MarkFollowsLock /\ [CoordinatorNext]_coordinatorVars => MarkFollowsLock'
  <1> SUFFICES ASSUME Grounded, Clocks, MarkFollowsLock, [CoordinatorNext]_coordinatorVars,
                      NEW a \in Agents, reason'[a] = "automated", alive' = Consumers
               PROVE  flock'[a] \in Consumers
    BY DEF MarkFollowsLock
  <1>0. Typed /\ HoldsLock
    BY DEF Grounded
  <1> USE <1>0, Found
  <1>1. alive = Consumers
    BY StepOnQueue, AliveShrinks DEF TypeOK
  <1>2. User \notin Consumers /\ NoConsumer \notin Consumers
    BY QueueAssumption, CoordinatorAssumption
  <1>3. CASE reason[a] = "automated"
    <2>1. flock[a] \in Consumers
      BY <1>1, <1>3 DEF MarkFollowsLock
    <2>2. ASSUME NEW c \in Consumers, LocksMove(c)
          PROVE  flock'[a] \in Consumers
      <3>1. ~(Unwind(c) /\ a = Worker(c))
        BY UnwindClears
      <3>2. ~(alive' = alive \ {c})
        BY <1>1
      <3>3. QED
        BY <2>1, <2>2, <3>1, <3>2 DEF LocksMove
    <2>3. ASSUME NEW b \in Agents, UserLocks(b)
          PROVE  flock'[a] \in Consumers
      BY <1>2, <2>1, <2>3 DEF UserLocks
    <2>4. QED
      BY <2>1, <2>2, <2>3, LocksMoved
  <1>4. CASE reason[a] # "automated"
    <2>1. PICK c \in Consumers : c \in alive /\ MarkAutomated(c) /\ Worker(c) = a
      BY <1>4, MarksMove DEF Observed
    <2>2. flock[a] = c /\ flock' = flock
      BY <2>1 DEF MarkAutomated, At, HoldsLock, Locked
    <2>3. QED
      BY <2>2
  <1>5. QED
    BY <1>3, <1>4

\* As long as no runner dies, no worker stays marked as owned by an automated
\* turn once the lock is let go, on whichever way out of deliverOnce.
THEOREM MarkFollows == CoordinatorSpec => []MarkFollowsLock
  <1>1. CoordinatorInit => Clocks /\ MarkFollowsLock
    BY DEF CoordinatorInit, Init, Clocks, MarkFollowsLock, NoChild
  <1>2. Grounded => Typed
    BY DEF Grounded
  <1>3. QED
    BY <1>1, <1>2, InitGrounded, GroundedInductive, ClocksInductive, MarkInductive, PTL
    DEF CoordinatorSpec

-----------------------------------------------------------------------------
(***************************************************************************)
(* Whose message it is.                                                    *)
(***************************************************************************)

\* The consumer that leases a message is at work on the last attempt of it.
OwnerWorks ==
  \A m \in Messages, c \in Consumers : message[m].owner = c =>
    Busy(c) /\ Work(c) = m /\ Number(c) = message[m].attemptCount

\* A call past the end of its delivery leases nothing.
Over(c) ==
  \/ runner[c].stage \in {"acknowledged", "closing", "unwinding"} /\ ~runner[c].threw
  \/ runner[c].stage \in {"retrying", "escalating"}

LetGo == \A c \in Consumers : Over(c) => message[Work(c)].owner # c

\* A message that is being delivered, or was accepted, while a runner delivers
\* it or watches its child, is in the attempt of that runner.
Delivering == {"begun"} \cup Watching

Delivered == {"delivering"} \cup Accepted

BegunByLast ==
  \A c \in alive :
    runner[c].stage \in Delivering /\ State(Work(c)) \in Delivered =>
      message[Work(c)].attemptCount = Number(c)

Ownership == OwnerWorks /\ LetGo /\ BegunByLast

\* A call that ends leases nothing.
LEMMA EndsFree ==
  ASSUME Typed, AttemptLedger, LetGo, NEW c \in Consumers, RunnerActs(c), Ends(c), Busy(c)
  PROVE  message[Work(c)].owner # c
  <1> USE Found
  <1>1. ActsAtStage(c) /\ runner'[c].stage = "idle"
    BY StageDecides DEF Ends, IdleRunner
  <1>2. NoConsumer # c /\ Work(c) \in Messages
    BY QueueAssumption
  <1>3. State(Work(c)) \notin InFlight => message[Work(c)].owner = NoConsumer
    BY <1>2 DEF AttemptLedger, LedgerOf, State
  <1>4. ASSUME NEW stage \in RunnerStages \ {"idle"}, GoTo(c, stage) \/ Throw(c, stage)
        PROVE  FALSE
    BY <1>1, <1>4, RunnerWritten
  <1>5. {"locked", "stopping", "marked", "begun", "waiting", "acknowledged", "closing",
         "unwinding", "deferring", "retrying", "failing", "escalating"}
           \subseteq RunnerStages \ {"idle"}
    BY DEF RunnerStages
  <1>6. SyncRequeues(c) \/ KeepLease(c) \/ Dies(c) => runner'[c].stage = runner[c].stage
    BY DEF SyncRequeues, KeepLease, Dies
  <1>7. CASE At(c, "unwinding") /\ Unwind(c)
    <2>1. ~runner[c].threw
      BY <1>4, <1>5, <1>7 DEF Unwind
    <2>2. QED
      BY <1>7, <2>1 DEF At, LetGo, Over
  <1>8. CASE At(c, "deferring") /\ (DeferFails(c) \/ DeferNothing(c) \/ DeferThrows(c))
    BY <1>2, <1>3, <1>4, <1>5, <1>8
    DEF DeferFails, DeferNothing, DeferThrows, Leave, LeaveThrowing
  <1>9. CASE At(c, "retrying")
    BY <1>9 DEF At, LetGo, Over
  <1>10. CASE At(c, "failing") /\ (FailAccepted(c) \/ FailOwn(c) \/ FailForeign(c))
    <2>1. FailAccepted(c)
      BY <1>4, <1>5, <1>10 DEF FailOwn, FailForeign
    <2>2. State(Work(c)) \notin InFlight
      BY <2>1 DEF FailAccepted, ReportEscalated, InFlight
    <2>3. QED
      BY <1>2, <1>3, <2>2
  <1>11. CASE At(c, "escalating")
    BY <1>11 DEF At, LetGo, Over
  <1>12. CASE At(c, "claimed") \/ At(c, "locked") \/ At(c, "stopping") \/ At(c, "marked")
              \/ At(c, "begun")
    BY <1>1, <1>4, <1>5, <1>6, <1>12
    DEF ActsAtStage, At, AcquireLock, LockIsHeld, LockFails, DeferToAttached, MarkAutomated,
        StopDetached, Begin, BeginThrows, Spawn, SpawnThrows
  <1>13. CASE At(c, "waiting") \/ At(c, "acknowledged") \/ At(c, "closing")
    BY <1>1, <1>4, <1>5, <1>6, <1>13
    DEF ActsAtStage, At, EventCompleted, EventFailed, NoTerminalEvent, CompletesMessage,
        ChildCloses
  <1>14. ~At(c, "idle") /\ ~At(c, "ready")
    BY DEF At, Busy
  <1>15. QED
    BY <1>1, <1>6, <1>7, <1>8, <1>9, <1>10, <1>11, <1>12, <1>13, <1>14 DEF ActsAtStage, Busy

\* Nor does one whose delivery gets to its end.
LEMMA OverFrees ==
  ASSUME Typed, AttemptLedger, LetGo, NEW c \in Consumers, RunnerActs(c), Proceeds(c), Over(c)'
  PROVE  message[Work(c)].owner # c \/ message'[Work(c)].owner # c
  <1> USE Found
  <1>1. ActsAtStage(c) /\ Follows(runner[c].stage, runner'[c].stage)
        /\ runner'[c].threw \in {TRUE, runner[c].threw}
    BY StageDecides DEF Proceeds
  <1>2. NoConsumer # c /\ Work(c) \in Messages /\ Busy(c)
    BY <1>1, QueueAssumption DEF Follows, Busy
  <1>3. State(Work(c)) \notin InFlight => message[Work(c)].owner = NoConsumer
    BY <1>2 DEF AttemptLedger, LedgerOf, State
  <1>4. ASSUME NEW stage \in RunnerStages, Throw(c, stage)
        PROVE  runner'[c].threw = TRUE /\ runner'[c].stage = stage
    BY <1>4, RunnerWritten
  <1>5. ASSUME NEW stage \in RunnerStages, GoTo(c, stage)
        PROVE  runner'[c].stage = stage
    BY <1>5, RunnerWritten
  <1>6. {"locked", "stopping", "marked", "begun", "waiting", "acknowledged", "closing",
         "unwinding", "deferring", "retrying", "failing", "escalating"} \subseteq RunnerStages
    BY DEF RunnerStages
  <1>7. SyncRequeues(c) \/ KeepLease(c) \/ Dies(c) => runner'[c].stage = runner[c].stage
    BY DEF SyncRequeues, KeepLease, Dies
  <1>8. \A stage : ~Follows(stage, stage)
    BY DEF Follows
  <1>9. CASE runner[c].stage = "waiting"
    <2>1. EventCompleted(c) \/ EventFailed(c) \/ NoTerminalEvent(c)
      BY <1>1, <1>7, <1>8, <1>9 DEF ActsAtStage, At
    <2>2. ~runner'[c].threw
      BY <1>1, <1>9 DEF Over, Follows
    <2>3. State(Work(c)) \notin InFlight
      BY <1>4, <1>6, <2>1, <2>2
      DEF EventCompleted, EventFailed, NoTerminalEvent, Acknowledge, Complete, ReportRetrySafe,
          ReportEscalated, InFlight
    <2>4. QED
      BY <1>2, <1>3, <2>3
  <1>10. CASE runner[c].stage \in {"acknowledged", "closing"}
    <2>1. ~runner[c].threw
      BY <1>1, <1>10 DEF Over, Follows
    <2>2. QED
      BY <1>10, <2>1 DEF LetGo, Over
  <1>11. CASE runner[c].stage \in {"marked", "begun"}
    <2>1. Begin(c) \/ BeginThrows(c) \/ Spawn(c) \/ SpawnThrows(c)
      BY <1>1, <1>7, <1>8, <1>11 DEF ActsAtStage, At
    <2>2. runner'[c].stage = "unwinding" => runner'[c].threw = TRUE
      BY <1>4, <1>5, <1>6, <2>1 DEF Begin, BeginThrows, Spawn, SpawnThrows
    <2>3. QED
      BY <1>1, <1>11, <2>2 DEF Over, Follows
  <1>12. CASE runner[c].stage = "deferring"
    <2>1. DeferFails(c) \/ DeferNothing(c) \/ DeferThrows(c)
      BY <1>1, <1>7, <1>8, <1>12 DEF ActsAtStage, At
    <2>2. CASE DeferFails(c)
      BY <1>2, <2>2, FailFails DEF FailedBy
    <2>3. CASE DeferNothing(c)
      BY <1>2, <1>3, <2>3 DEF DeferNothing
    <2>4. CASE DeferThrows(c)
      <3>1. runner'[c].stage = "unwinding" => runner'[c].threw = TRUE
        BY <1>4, <1>5, <1>6, <2>4 DEF DeferThrows, LeaveThrowing
      <3>2. runner'[c].stage \in {"unwinding", "failing"}
        BY <1>4, <1>5, <1>6, <2>4 DEF DeferThrows, LeaveThrowing
      <3>3. QED
        BY <3>1, <3>2 DEF Over
    <2>5. QED
      BY <2>1, <2>2, <2>3, <2>4
  <1>13. CASE runner[c].stage = "retrying"
    BY <1>13 DEF LetGo, Over
  <1>14. CASE runner[c].stage = "failing"
    <2>1. FailAccepted(c) \/ FailOwn(c) \/ FailForeign(c)
      BY <1>1, <1>7, <1>8, <1>14 DEF ActsAtStage, At
    <2>2. ~FailAccepted(c)
      <3>1. Return(c) => runner'[c].stage = "idle"
        BY DEF Return, IdleRunner
      <3>2. QED
        BY <1>1, <3>1 DEF FailAccepted, Follows
    <2>3. CASE FailOwn(c)
      BY <1>2, <2>3, FailFails DEF FailedBy
    <2>4. CASE FailForeign(c)
      BY <2>4 DEF FailForeign
    <2>5. QED
      BY <2>1, <2>2, <2>3, <2>4
  <1>15. QED
    BY <1>1, <1>9, <1>10, <1>11, <1>12, <1>13, <1>14 DEF Follows, Over

\* What a step makes of one call.
LEMMA CallMoves ==
  ASSUME Typed, [CoordinatorNext]_coordinatorVars, NEW x \in Consumers
  PROVE  \/ runner'[x] = runner[x]
         \/ /\ x \in alive /\ RunnerActs(x) /\ OthersRun(x)
            /\ Ends(x) \/ Readies(x) \/ Claims(x) \/ (Proceeds(x) /\ Ways(x))
  <1>1. \A c \in Consumers : OthersRun(c) => c = x \/ runner'[x] = runner[x]
    BY DEF OthersRun
  <1>2. QED
    BY <1>1, Steps DEF Stays, Grows

\* Begin leaves the call at the stage it is named for.
LEMMA BeginsCall ==
  ASSUME Typed, NEW c \in Consumers, Begin(c)
  PROVE  /\ c \in alive' /\ runner'[c].stage = "begun" /\ Busy(c)'
         /\ Work(c)' = Work(c) /\ Number(c)' = Number(c)
  <1>1. GoTo(c, "begun") /\ "begun" \in RunnerStages
    BY DEF Begin, RunnerStages
  <1>2. runner'[c].stage = "begun" /\ Work(c)' = Work(c) /\ Number(c)' = Number(c)
    BY <1>1, RunnerWritten, Found
  <1>3. QED
    BY <1>2 DEF Begin, At, BeginDelivery, Busy

\* The consumer that leases a message stays at work on it.
LEMMA OwnerWorksKept ==
  ASSUME Grounded, Ownership, [CoordinatorNext]_coordinatorVars
  PROVE  OwnerWorks'
  <1>0. Typed /\ AttemptLedger /\ OwnerWorks /\ LetGo
    BY DEF Grounded, Ownership
  <1> USE <1>0
  <1> SUFFICES ASSUME NEW m \in Messages, NEW x \in Consumers, message'[m].owner = x
               PROVE  Busy(x)' /\ Work(x)' = m /\ Number(x)' = message'[m].attemptCount
    BY DEF OwnerWorks
  <1>1. x # NoConsumer
    BY QueueAssumption
  <1>2. CASE \E c \in Consumers : ClaimedBy(c, m)
    BY <1>2 DEF ClaimedBy, Claims, Busy
  <1>3. CASE \E c \in Consumers : BegunBy(c, m)
    <2>1. BegunBy(x, m)
      BY <1>3 DEF BegunBy
    <2>2. Number(x) = message[m].attemptCount
      BY <2>1 DEF BegunBy, OwnerWorks
    <2>3. QED
      BY <2>1, <2>2, BeginsCall DEF BegunBy
  <1>4. CASE \E c \in Consumers : FailedBy(c, m)
    BY <1>1, <1>4 DEF FailedBy
  <1>5. CASE RestMoves(m)
    <2>1. message[m].owner = x /\ message'[m].attemptCount = message[m].attemptCount
      BY <1>1, <1>5 DEF RestMoves
    <2>2. Busy(x) /\ Work(x) = m /\ Number(x) = message[m].attemptCount
      BY <2>1 DEF OwnerWorks
    <2>3. CASE runner'[x] = runner[x]
      BY <2>1, <2>2, <2>3 DEF Busy, Work, Number
    <2>4. ~(RunnerActs(x) /\ Ends(x))
      BY <2>1, <2>2, EndsFree
    <2>5. ~Readies(x) /\ ~Claims(x)
      BY <2>2 DEF Readies, Claims, Busy
    <2>6. CASE Proceeds(x)
      BY <2>1, <2>2, <2>6 DEF Proceeds, Follows, Busy
    <2>7. QED
      BY <2>3, <2>4, <2>5, <2>6, CallMoves
  <1>6. QED
    BY <1>2, <1>3, <1>4, <1>5, MessageMoves

\* A call that has let go of its message does not lease it again.
LEMMA LetGoKept ==
  ASSUME Grounded, Ownership, [CoordinatorNext]_coordinatorVars
  PROVE  LetGo'
  <1>0. Typed /\ AttemptLedger /\ OwnerWorks /\ LetGo
    BY DEF Grounded, Ownership
  <1> USE <1>0
  <1> SUFFICES ASSUME NEW x \in Consumers, Over(x)', NEW m, m = Work(x)', message'[m].owner = x
               PROVE  FALSE
    BY DEF LetGo
  <1>1. x # NoConsumer
    BY QueueAssumption
  <1>2. m \in Messages
    BY TypedInductive, Found DEF Over, Busy, Typed, WorksOnAttempt
  <1>3. CASE \E c \in Consumers : ClaimedBy(c, m)
    BY <1>3 DEF ClaimedBy, Claims, Over
  <1>4. CASE \E c \in Consumers : BegunBy(c, m)
    <2>1. BegunBy(x, m)
      BY <1>4 DEF BegunBy
    <2>2. QED
      BY <2>1, BeginsCall DEF BegunBy, Over
  <1>5. CASE \E c \in Consumers : FailedBy(c, m)
    BY <1>1, <1>5 DEF FailedBy
  <1>6. CASE RestMoves(m)
    <2>1. message[m].owner = x
      BY <1>1, <1>6 DEF RestMoves
    <2>2. Busy(x) /\ Work(x) = m
      BY <1>2, <2>1 DEF OwnerWorks
    <2>3. runner'[x] # runner[x]
      BY <2>1, <2>2 DEF LetGo, Over, Work
    <2>4. ~Ends(x) /\ ~Readies(x) /\ ~Claims(x)
      BY <2>2 DEF Ends, IdleRunner, Readies, Claims, Over
    <2>5. ~(RunnerActs(x) /\ Proceeds(x))
      BY <2>1, <2>2, OverFrees
    <2>6. QED
      BY <2>3, <2>4, <2>5, CallMoves
  <1>7. QED
    BY <1>2, <1>3, <1>4, <1>5, <1>6, MessageMoves

\* A delivery goes on in the attempt it was begun in.
LEMMA BegunByLastKept ==
  ASSUME Grounded, Ownership, [CoordinatorNext]_coordinatorVars
  PROVE  BegunByLast'
  <1>0. Typed /\ AttemptLedger /\ OwnerWorks /\ LetGo /\ BegunByLast
    BY DEF Grounded, Ownership
  <1> USE <1>0
  <1>1. HoldsLock' /\ Typed' /\ OwnerWorks'
    BY GroundedInductive, OwnerWorksKept DEF Grounded
  <1>2. alive' \subseteq alive /\ alive \subseteq Consumers
    BY StepOnQueue, AliveShrinks, Found DEF TypeOK
  <1> SUFFICES ASSUME NEW x \in alive', NEW m, m = Work(x)', runner'[x].stage \in Delivering,
                      State(m)' \in Delivered
               PROVE  message'[m].attemptCount = Number(x)'
    BY DEF BegunByLast
  <1>3. x \in Consumers /\ x \in alive /\ runner'[x].stage \in Locked
    BY <1>2 DEF Delivering, Watching, Locked
  <1>4. m \in Messages
    BY <1>1, <1>3 DEF Typed, WorksOnAttempt, Locked, Busy
  <1>5. ASSUME NEW c \in Consumers, ClaimedBy(c, m) \/ FailedBy(c, m)
        PROVE  FALSE
    BY <1>5 DEF ClaimedBy, FailedBy, Delivered, Accepted
  <1>6. ASSUME NEW c \in Consumers, BegunBy(c, m)
        PROVE  message'[m].attemptCount = Number(x)'
    <2>1. /\ c \in alive' /\ runner'[c].stage \in Locked
          /\ Work(c)' = m /\ message'[m].owner = c
      BY <1>6, BeginsCall DEF BegunBy, Locked
    <2>2. flock'[Recipient[m]] = c /\ flock'[Recipient[m]] = x
      BY <1>1, <1>3, <2>1 DEF HoldsLock, Worker
    <2>3. QED
      BY <1>1, <1>3, <1>4, <2>1, <2>2 DEF OwnerWorks
  <1>7. CASE RestMoves(m)
    <2>1. State(m) \in Delivered /\ message'[m].attemptCount = message[m].attemptCount
      BY <1>7 DEF RestMoves, Delivered
    <2>2. ASSUME Work(x) = m, Number(x)' = Number(x), runner[x].stage \in Delivering
          PROVE  message'[m].attemptCount = Number(x)'
      BY <1>3, <2>1, <2>2 DEF BegunByLast
    <2>3. runner'[x] = runner[x] => message'[m].attemptCount = Number(x)'
      BY <2>2 DEF Work, Number
    <2>4. ~Ends(x) /\ ~Readies(x) /\ ~Claims(x)
      BY <1>3 DEF Ends, IdleRunner, Readies, Claims, Delivering, Watching
    <2>5. CASE Proceeds(x) /\ Ways(x)
      <3>1. Work(x) = m /\ Number(x)' = Number(x)
        BY <2>5 DEF Proceeds
      <3>2. ~Begin(x)
        BY <1>3, <2>1, <3>1, BeginBegins DEF BegunBy, Delivered, Accepted
      <3>3. runner[x].stage \in Delivering
        BY <2>5, <3>2 DEF Proceeds, Follows, Ways, Delivering, Watching
      <3>4. QED
        BY <2>2, <3>1, <3>3
    <2>6. QED
      BY <1>3, <2>3, <2>4, <2>5, CallMoves
  <1>8. QED
    BY <1>4, <1>5, <1>6, <1>7, MessageMoves

\* Every step keeps whose message it is.
LEMMA OwnershipInductive ==
  Grounded /\ Ownership /\ [CoordinatorNext]_coordinatorVars => Ownership'
  BY OwnerWorksKept, LetGoKept, BegunByLastKept DEF Ownership

\* Nobody leases anything at the start.
LEMMA InitOwnership == CoordinatorInit => Ownership
  <1> SUFFICES ASSUME CoordinatorInit PROVE Ownership
    OBVIOUS
  <1>1. \A c \in Consumers : runner[c].stage = "idle"
    BY DEF CoordinatorInit, IdleRunner
  <1>2. \A m \in Messages : message[m].owner \notin Consumers
    BY QueueAssumption DEF CoordinatorInit, Init, NoMessage
  <1>3. alive \subseteq Consumers
    BY DEF CoordinatorInit, Init
  <1>4. OwnerWorks /\ LetGo
    BY <1>1, <1>2 DEF OwnerWorks, LetGo, Over
  <1>5. BegunByLast
    BY <1>1, <1>3 DEF BegunByLast, Delivering, Watching
  <1>6. QED
    BY <1>4, <1>5 DEF Ownership

-----------------------------------------------------------------------------
(***************************************************************************)
(* A turn keeps its message.                                               *)
(***************************************************************************)

\* Reports stay on record.
LEMMA ReportsStay ==
  ASSUME Typed, AttemptLedger, [CoordinatorNext]_coordinatorVars, NEW k \in Reports,
         NEW m, NEW n
  PROVE  /\ Reported(k, m, n) => Reported(k, m, n)' /\ interruption'[k] = interruption[k]
         /\ \A disposition : Told(k, m, n, disposition) => Told(k, m, n, disposition)'
  <1>1. interruption[k] # NoInterruption => interruption'[k] = interruption[k]
    BY StepOnQueue, QueueKeeps, Found DEF TablesKept
  <1>2. QED
    BY <1>1 DEF Told, Reported

\* The runner of a child that exists ran it before.
LEMMA RanBefore ==
  ASSUME Grounded, [CoordinatorNext]_coordinatorVars, NEW m \in Messages, NEW n \in Numbers,
         child[m][n] # NoChild, NEW c \in Consumers, Runs(c, m, n)'
  PROVE  Runs(c, m, n)
  <1>0. Typed /\ AttemptLedger
    BY DEF Grounded
  <1> USE <1>0
  <1>1. c \in alive
    BY StepOnQueue, AliveShrinks DEF Runs
  <1>2. Work(c)' = m /\ Number(c)' = n /\ n # 0
    BY DEF Runs, Work, Number, Numbers
  <1>3. CASE runner'[c] = runner[c]
    BY <1>1, <1>3 DEF Runs
  <1>4. ~Ends(c)
    BY <1>2 DEF Ends, IdleRunner, Number
  <1>5. ~Readies(c)
    BY <1>2 DEF Readies, Typed, WorksOnAttempt, Busy, Number
  <1>6. ~Claims(c)
    <2>1. ASSUME Claims(c)
          PROVE  FALSE
      <3>1. attempt[m][n].outcome = "none"
        BY <1>2, <2>1, ClaimOpens
      <3>2. QED
        BY <3>1 DEF Grounded, Parentage, Recorded
    <2>2. QED
      BY <2>1
  <1>7. CASE Proceeds(c)
    BY <1>1, <1>2, <1>7 DEF Proceeds, Runs, Work, Number
  <1>8. QED
    BY <1>3, <1>4, <1>5, <1>6, <1>7, CallMoves

\* While a child lives and its runner with it, a message being delivered or
\* accepted is in the attempt of that child.
LEMMA LiveTurnIsLast ==
  ASSUME Grounded, Ownership, NEW m \in Messages, NEW n \in Numbers, NEW c \in Consumers,
         Live(m, n), Runs(c, m, n), State(m) \in Delivered
  PROVE  message[m].attemptCount = n
  <1>1. Watches(c, m, n)
    BY TheRunnerWatches DEF Runs
  <1>2. QED
    BY <1>1 DEF Runs, Watches, Delivering, Ownership, BegunByLast, Work, Number

\* A step that puts a child to work finds its message accepted.
LEMMA GoesToWork ==
  ASSUME Typed, [CoordinatorNext]_coordinatorVars, NEW m \in Messages, NEW n \in Numbers,
         Stage(m, n) # "working", Stage(m, n)' = "working"
  PROVE  State(m)' \in Accepted
  <1> USE Found
  <1>1. ASSUME NEW c \in Consumers, Spawns(c) \/ Buries(c)
        PROVE  FALSE
    <2>1. Work(c)' = Work(c) /\ Number(c)' = Number(c)
      BY <1>1, RunnerWritten DEF Spawns, Buries, Spawn, ChildCloses, RunnerStages
    <2>2. ChildOf(c)'.stage # "working" /\ OtherChildren(Work(c), Number(c))
      BY <1>1 DEF Spawns, Buries
    <2>3. QED
      BY <2>1, <2>2 DEF ChildOf, OtherChildren, Stage
  <1>2. ASSUME NEW x \in Messages, NEW y \in Numbers, Grows(x, y)
        PROVE  State(m)' \in Accepted
    <2>1. x = m /\ y = n
      BY <1>2 DEF Grows, OtherChildren, Stage
    <2>2. QED
      BY <1>2, <2>1 DEF Grows
  <1>3. child' # child
    BY DEF Stage
  <1>4. QED
    BY <1>1, <1>2, <1>3, ChildrenMove

\* Every step keeps the message with the turn at work on it.
LEMMA TurnInductive ==
  Grounded /\ Ownership /\ TurnKeepsMessage /\ [CoordinatorNext]_coordinatorVars
    => TurnKeepsMessage'
  <1> SUFFICES ASSUME Grounded, Ownership, TurnKeepsMessage, [CoordinatorNext]_coordinatorVars,
                      NEW m \in Messages, NEW n \in Numbers,
                      Stage(m, n)' = "working", NEW c \in Consumers, Runs(c, m, n)'
               PROVE  State(m)' \in Accepted \/ \E k \in Reports : Reported(k, m, n)'
    BY DEF TurnKeepsMessage, Attended
  <1>0. Typed /\ AttemptLedger
    BY DEF Grounded
  <1> USE <1>0
  <1>1. CASE Stage(m, n) # "working"
    BY <1>1, GoesToWork
  <1>2. CASE Stage(m, n) = "working"
    <2>1. Live(m, n) /\ child[m][n] # NoChild
      BY <1>2 DEF Live, Stage, NoChild
    <2>2. Runs(c, m, n)
      BY <2>1, RanBefore
    <2>3. CASE \E k \in Reports : Reported(k, m, n)
      BY <2>3, ReportsStay
    <2>4. CASE State(m) \in Accepted
      <3>1. message[m].attemptCount = n
        BY <2>1, <2>2, <2>4, LiveTurnIsLast DEF Delivered
      <3>2. RestMoves(m)
        BY <2>4, MessageMoves DEF ClaimedBy, BegunBy, FailedBy, Accepted, InFlight
      <3>3. QED
        BY <2>4, <3>1, <3>2 DEF RestMoves
    <2>5. QED
      BY <1>2, <2>2, <2>3, <2>4 DEF TurnKeepsMessage, Attended
  <1>3. QED
    BY <1>1, <1>2

\* A turn at work whose runner lives has the message, unless a report that
\* names this very attempt has ended it: #fail of a runner with an older
\* attempt, which looks at the message's state alone, does not end it.
THEOREM TurnKeeps == CoordinatorSpec => []TurnKeepsMessage
  <1>1. CoordinatorInit => TurnKeepsMessage
    BY DEF CoordinatorInit, TurnKeepsMessage, Stage, NoChild
  <1>2. QED
    BY <1>1, InitGrounded, InitOwnership, GroundedInductive, OwnershipInductive, TurnInductive,
       PTL DEF CoordinatorSpec

-----------------------------------------------------------------------------
(***************************************************************************)
(* Failures are told.                                                      *)
(***************************************************************************)
Surfaced(m, n) ==
  \/ escalation[FailureKey(m, n)] # "absent"
  \/ \E k \in Reports : Told(k, m, n, "escalated")

\* The call that failed attempt n of the message has yet to say so.
ToTell(c, m, n) ==
  Work(c) = m /\ Number(c) = n /\ runner[c].stage \in {"retrying", "escalating"}

FailureTold ==
  \A m \in Messages, n \in 0..MaxAttempts :
    State(m) = "failed" /\ n = message[m].attemptCount =>
      n \in Numbers /\ (Surfaced(m, n) \/ \E c \in Consumers : ToTell(c, m, n))

\* What has been surfaced stays so.
LEMMA SurfacedStays ==
  ASSUME Typed, AttemptLedger, [CoordinatorNext]_coordinatorVars, NEW m \in Messages,
         NEW n \in Numbers, Surfaced(m, n)
  PROVE  Surfaced(m, n)'
  <1>1. TablesKept
    BY StepOnQueue, QueueKeeps, Found
  <1>2. CASE escalation[FailureKey(m, n)] # "absent"
    BY <1>1, <1>2, KeysKnown DEF TablesKept, Surfaced
  <1>3. CASE \E k \in Reports : Told(k, m, n, "escalated")
    BY <1>3, ReportsStay DEF Surfaced
  <1>4. QED
    BY <1>2, <1>3 DEF Surfaced

\* A call with a failure to tell keeps it to tell, tells it, or has the
\* message queued again.
LEMMA TellingMoves ==
  ASSUME Typed, [CoordinatorNext]_coordinatorVars, NEW m \in Messages,
         NEW n \in Numbers, NEW c \in Consumers, ToTell(c, m, n), State(m) = "failed"
  PROVE  ToTell(c, m, n)' \/ Surfaced(m, n)' \/ State(m)' # "failed"
  <1> USE Found
  <1>1. CASE runner'[c] = runner[c]
    BY <1>1 DEF ToTell, Work, Number
  <1>2. CASE RunnerActs(c) /\ runner'[c] # runner[c]
    <2>1. ActsAtStage(c) /\ ~SyncRequeues(c) /\ ~KeepLease(c) /\ ~Dies(c)
      BY <1>2, StageDecides DEF SyncRequeues, KeepLease, Dies
    <2>2. CASE runner[c].stage = "retrying"
      <3>1. DeferRetries(c)
        BY <2>1, <2>2 DEF ActsAtStage, At, DeferThrows, ToTell
      <3>2. PICK delay \in Delays : Retry(m, now, delay)
        BY <3>1 DEF DeferRetries, ToTell
      <3>3. message[m] \in MessageRow /\ now + delay \in Nat
        BY QueueAssumption DEF TypeOK
      <3>4. message'[m] = Requeued(message[m], now + delay)
        BY <3>2 DEF Retry, TypeOK
      <3>5. QED
        BY <3>3, <3>4, RowFields DEF State, States
    <2>3. CASE runner[c].stage = "escalating"
      <3>1. Escalate(c)
        BY <2>1, <2>3 DEF ActsAtStage, At
      <3>2. FailureKey(m, n) \in Reports \cup Topics
        BY KeysKnown
      <3>3. escalation'[FailureKey(m, n)] # "absent"
        BY <3>1, <3>2 DEF Escalate, ToTell, CreateEscalation, vars, TypeOK
      <3>4. QED
        BY <3>3 DEF Surfaced
    <2>4. QED
      BY <2>2, <2>3 DEF ToTell
  <1>3. QED
    BY <1>1, <1>2, CallMoves

\* Every step keeps the failures told, or to be told.
LEMMA TellingInductive ==
  Grounded /\ Ownership /\ AcceptedOnReceipt /\ FailureTold
      /\ [CoordinatorNext]_coordinatorVars
    => FailureTold'
  <1> SUFFICES ASSUME Grounded, Ownership, AcceptedOnReceipt, FailureTold,
                      [CoordinatorNext]_coordinatorVars,
                      NEW m \in Messages, NEW n \in 0..MaxAttempts,
                      State(m)' = "failed", n = message'[m].attemptCount
               PROVE  n \in Numbers /\ (Surfaced(m, n)' \/ \E c \in Consumers : ToTell(c, m, n)')
    BY DEF FailureTold
  <1>0. Typed /\ AttemptLedger /\ OwnerWorks
    BY DEF Grounded, Ownership
  <1> USE <1>0, Found
  <1>1. CASE \E c \in Consumers : FailedBy(c, m)
    <2>1. PICK c \in Consumers : FailedBy(c, m)
      BY <1>1
    <2>2. Number(c) = n /\ n \in Numbers
      BY <2>1 DEF FailedBy, OwnerWorks
    <2>3. runner'[c].stage \in {"retrying", "escalating"}
          /\ Work(c)' = m /\ Number(c)' = Number(c)
      <3>1. \E stage \in {"retrying", "escalating"} : stage \in RunnerStages /\ GoTo(c, stage)
        BY <2>1 DEF FailedBy, DeferFails, FailOwn, RunnerStages
      <3>2. QED
        BY <2>1, <3>1, RunnerWritten DEF FailedBy
    <2>4. QED
      BY <2>2, <2>3 DEF ToTell
  <1>2. CASE RestMoves(m)
    <2>1. message[m].attemptCount = n
      BY <1>2 DEF RestMoves
    <2>2. CASE State(m) \in Accepted /\ \E k \in Reports : Told(k, m, n, "escalated")'
      BY <2>1, <2>2 DEF Surfaced, AcceptedOnReceipt, LastReceipted
    <2>3. CASE State(m) = "failed"
      BY <2>1, <2>3, SurfacedStays, TellingMoves DEF FailureTold
    <2>4. QED
      BY <1>2, <2>1, <2>2, <2>3 DEF RestMoves, Told, Reported
  <1>3. QED
    BY <1>1, <1>2, MessageMoves DEF ClaimedBy, BegunBy

\* Every failed message has an escalation about its last attempt, or a runner
\* that has failed it and has not said so, or has died before it could.
THEOREM FailuresSurface == CoordinatorSpec => []FailureIsSurfaced
  <1>1. CoordinatorInit => FailureTold /\ AcceptedOnReceipt
    BY QueueStarts DEF CoordinatorInit, Init, FailureTold, NoMessage, State
  <1>2. Grounded /\ AcceptedOnReceipt /\ [CoordinatorNext]_coordinatorVars => AcceptedOnReceipt'
    BY StepOnQueue, AcceptedInductive, Found DEF Grounded
  <1>3. Grounded /\ FailureTold => FailureIsSurfaced
    <2> SUFFICES ASSUME Grounded, FailureTold, NEW m \in Messages, State(m) = "failed"
                 PROVE  \/ escalation[FailureKey(m, message[m].attemptCount)] # "absent"
                        \/ \E k \in Reports :
                             /\ Reported(k, m, message[m].attemptCount)
                             /\ interruption[k].disposition = "escalated"
                        \/ Untold(m)
      BY DEF FailureIsSurfaced
    <2>1. message[m].attemptCount \in 0..MaxAttempts
      BY DEF Grounded, Typed, CoordinatorTypeOK, TypeOK, MessageRow
    <2>2. QED
      BY <2>1 DEF FailureTold, Surfaced, Told, ToTell, Untold, Work
  <1>4. QED
    BY <1>1, <1>2, <1>3, InitGrounded, InitOwnership, GroundedInductive, OwnershipInductive,
       TellingInductive, PTL DEF CoordinatorSpec

-----------------------------------------------------------------------------
(***************************************************************************)
(* Turns that worked are not replayed.                                     *)
(***************************************************************************)

\* A runner makes a report about the message it works on, which is accepted.
MakesReport(c, k, disposition) ==
  /\ State(Work(c)) \in {"receipted", "acknowledged"}
  /\ interruption' = [interruption EXCEPT ![k] = Interruption(Work(c), disposition)]
  /\ \/ k = StreamKey(Work(c), Number(c)) /\ EventFailed(c)
     \/ k = UnclassifiedKey(Work(c), Number(c)) /\ FailAccepted(c)
  /\ disposition = "retry_safe" => EventFailed(c) /\ RetrySafe(c)

\* Only runners make reports: retry_safe after a transient failure before the
\* model did anything, else escalated.
LEMMA ReportsMade ==
  ASSUME Typed, [CoordinatorNext]_coordinatorVars, interruption' # interruption
  PROVE  \E c \in Consumers, k \in Reports, disposition \in {"retry_safe", "escalated"} :
           MakesReport(c, k, disposition)
  <1> USE Found
  <1>1. ASSUME NEW c \in Consumers, RunnerActs(c)
        PROVE  EventFailed(c) \/ FailAccepted(c)
    <2>1. CASE SyncRequeues(c) \/ SyncAvailability(c) \/ Claim(c) \/ NothingToDeliver(c)
               \/ AcquireLock(c) \/ LockIsHeld(c) \/ LockFails(c) \/ StopDetached(c)
      BY <2>1
      DEF SyncRequeues, SyncAvailability, Claim, NothingToDeliver, AcquireLock, LockIsHeld,
          LockFails, StopDetached, RequeueExpiredLeases, RequeueExpired, ClaimNext, vars
    <2>2. CASE DeferToAttached(c) \/ MarkAutomated(c) \/ Unwind(c)
      BY <2>2 DEF DeferToAttached, MarkAutomated, Unwind, SetAvailability,
                  SetWorkerAvailability, vars
    <2>3. CASE Begin(c) \/ BeginThrows(c) \/ Spawn(c) \/ SpawnThrows(c) \/ ChildCloses(c)
               \/ NoTerminalEvent(c) \/ KeepLease(c) \/ Dies(c)
      BY <2>3
      DEF Begin, BeginThrows, Spawn, SpawnThrows, ChildCloses, NoTerminalEvent, KeepLease,
          Dies, BeginDelivery, RenewLease, Crash, vars, tables
    <2>4. CASE EventCompleted(c) \/ CompletesMessage(c)
      BY <2>4 DEF EventCompleted, CompletesMessage, Acknowledge, Complete, vars
    <2>5. CASE DeferFails(c) \/ DeferRetries(c) \/ DeferNothing(c) \/ DeferThrows(c)
               \/ FailOwn(c) \/ FailForeign(c) \/ Escalate(c)
      BY <2>5
      DEF DeferFails, DeferRetries, DeferNothing, DeferThrows, FailOwn, FailForeign, Escalate,
          Fail, Retry, CreateEscalation, vars
    <2>6. QED
      BY <1>1, <2>1, <2>2, <2>3, <2>4, <2>5
      DEF RunnerActs, RunnerStep, FailThrows, RenewsTooLate, CrashRunner
  <1>2. ASSUME NEW m \in Messages, NEW n \in Numbers, ChildStep(m, n)
        PROVE  FALSE
    BY <1>2
    DEF ChildStep, ChildSessionStart, PromptChecked, PromptBlocked, TurnRecorded,
        ReceiptRecorded, ReceiptRefused, ModelWorks, TurnStops, TurnFails,
        BlockedTurnCompletes, ChildDies, RecordReceipt, SetAvailability,
        SetWorkerAvailability, vars
  <1>3. ASSUME NEW a \in Agents, UserStep(a)
        PROVE  FALSE
    BY <1>3
    DEF UserStep, UserAttaches, UserAttachesByHand, UserLeaves, UserSessionStart,
        UserPrompts, UserTurnStops, Configure, SetAvailability, SetWorkerAvailability, vars
  <1>4. (\E m \in Messages : OperatorQueues(m)) \/ TimePasses => interruption' = interruption
    BY DEF OperatorQueues, TimePasses, Enqueue, Retry, Tick, tables
  <1>5. PICK c \in Consumers : RunnerActs(c) /\ (EventFailed(c) \/ FailAccepted(c))
    BY <1>1, <1>2, <1>3, <1>4 DEF CoordinatorNext, RunnerActs, coordinatorVars, vars
  <1>6. Work(c) \in Messages /\ Number(c) \in Numbers
    BY <1>5 DEF EventFailed, FailAccepted, At, Busy
  <1>7. StreamKey(Work(c), Number(c)) \in Reports /\ UnclassifiedKey(Work(c), Number(c)) \in Reports
    BY <1>6, KeysKnown
  <1>8. CASE EventFailed(c)
    <2>1. \/ MakesReport(c, StreamKey(Work(c), Number(c)), "retry_safe")
          \/ MakesReport(c, StreamKey(Work(c), Number(c)), "escalated")
      BY <1>8 DEF EventFailed, ReportRetrySafe, ReportEscalated, MakesReport, vars
    <2>2. QED
      BY <1>7, <2>1
  <1>9. CASE FailAccepted(c)
    <2>1. MakesReport(c, UnclassifiedKey(Work(c), Number(c)), "escalated")
      BY <1>9 DEF FailAccepted, ReportEscalated, MakesReport, vars
    <2>2. QED
      BY <1>7, <2>1
  <1>10. QED
    BY <1>5, <1>8, <1>9

\* A report that is safe to retry is about an attempt in whose turn the model
\* did nothing, and does nothing any more.
SafeMeansUnworked ==
  \A m \in Messages, n \in Numbers, k \in Reports : Told(k, m, n, "retry_safe") =>
    ~child[m][n].worked /\ Stage(m, n) \in {"transient", "gone"}

\* Every step keeps that: only the runner of the last attempt's child, which
\* read its stream, makes such a report.
LEMMA SafeInductive ==
  Grounded /\ Ownership /\ SafeMeansUnworked /\ [CoordinatorNext]_coordinatorVars
    => SafeMeansUnworked'
  <1> SUFFICES ASSUME Grounded, Ownership, SafeMeansUnworked, [CoordinatorNext]_coordinatorVars,
                      NEW m \in Messages, NEW n \in Numbers, NEW k \in Reports,
                      Told(k, m, n, "retry_safe")'
               PROVE  ~child'[m][n].worked /\ Stage(m, n)' \in {"transient", "gone"}
    BY DEF SafeMeansUnworked
  <1>0. Typed /\ AttemptLedger /\ Unspawned /\ BegunByLast
    BY DEF Grounded, Ownership, Parentage
  <1> USE <1>0, Found
  <1>1. CASE Told(k, m, n, "retry_safe")
    <2>1. ~child[m][n].worked /\ Stage(m, n) \in {"transient", "gone"}
      BY <1>1 DEF SafeMeansUnworked
    <2>2. ASSUME NEW c \in Consumers, Spawns(c)
          PROVE  OtherChildren(Work(c), Number(c)) /\ ~(m = Work(c) /\ n = Number(c))
      <3>1. ChildOf(c) = NoChild /\ OtherChildren(Work(c), Number(c))
        BY <2>2 DEF Spawns, Spawn, At, Unspawned, BeforeSpawn
      <3>2. QED
        BY <2>1, <3>1 DEF ChildOf, Stage, NoChild
    <2>3. ASSUME NEW c \in Consumers, Buries(c)
          PROVE  child'[m][n].worked = child[m][n].worked
                 /\ Stage(m, n)' \in {Stage(m, n), "gone"}
      <3>1. Work(c)' = Work(c) /\ Number(c)' = Number(c)
        BY <2>3, RunnerWritten DEF Buries, ChildCloses, RunnerStages
      <3>2. QED
        BY <2>1, <2>3, <3>1 DEF Buries, OtherChildren, ChildOf, Stage
    <2>4. ASSUME NEW x \in Messages, NEW y \in Numbers, Grows(x, y)
          PROVE  child'[m][n] = child[m][n]
      BY <2>1, <2>4 DEF Grows, OtherChildren, ChildFollows, Stage
    <2>5. QED
      BY <2>1, <2>2, <2>3, <2>4, ChildrenMove DEF OtherChildren, Stage
  <1>2. CASE ~Told(k, m, n, "retry_safe")
    <2>1. interruption' # interruption
      BY <1>2 DEF Told, Reported
    <2>2. PICK c \in Consumers, j \in Reports, disposition \in {"retry_safe", "escalated"} :
            MakesReport(c, j, disposition)
      BY <2>1, ReportsMade
    <2>3. j = k /\ interruption'[k] = Interruption(Work(c), disposition)
      BY <1>2, <2>2 DEF MakesReport, Told, Reported, TypeOK
    <2>4. disposition = "retry_safe" /\ m = Work(c) /\ n = message[Work(c)].attemptCount
      BY <2>3 DEF Told, Reported, Interruption
    <2>5. EventFailed(c) /\ RetrySafe(c)
      BY <2>2, <2>4 DEF MakesReport
    <2>6. Number(c) = n
      BY <2>2, <2>4, <2>5
      DEF MakesReport, EventFailed, At, BegunByLast, Delivering, Watching, Delivered, Accepted
    <2>7. child' = child
      BY <2>5 DEF EventFailed
    <2>8. QED
      BY <2>4, <2>5, <2>6, <2>7 DEF RetrySafe, ChildOf, Stage
  <1>3. QED
    BY <1>1, <1>2

\* A prompt past its hook's check, or a turn in which the model did something.
Past(m, n) == Stage(m, n) \in {"checked", "admitted", "working"} \/ child[m][n].worked

\* After an accepted attempt no later prompt gets past the check but on a
\* retry_safe report about the attempt just before it.
Authorized ==
  \A m \in Messages, n \in Numbers, later \in Numbers :
    Past(m, later) /\ n < later /\ attempt[m][n].outcome = "receipted" =>
      \E k \in Reports : Told(k, m, later - 1, "retry_safe")

ReceiptsKept ==
  \A m \in Messages, n \in Numbers : attempt[m][n].outcome = "receipted" => m \in receipts

\* Every step keeps the receipts of accepted attempts.
LEMMA ReceiptsInductive ==
  Grounded /\ ReceiptsKept /\ [CoordinatorNext]_coordinatorVars => ReceiptsKept'
  <1> SUFFICES ASSUME Grounded, ReceiptsKept, [CoordinatorNext]_coordinatorVars
               PROVE  ReceiptsKept'
    OBVIOUS
  <1>1. TablesKept
    BY StepOnQueue, QueueKeeps, Found DEF Grounded
  <1>2. QED
    BY <1>1 DEF TablesKept, AttemptKept, ReceiptsKept

\* A prompt gets past the check in a step of its hook, which reads the queue
\* and does not write it.
LEMMA GetsPast ==
  ASSUME Typed, [CoordinatorNext]_coordinatorVars, NEW m \in Messages, NEW n \in Numbers,
         ~Past(m, n), Past(m, n)'
  PROVE  HookAccepts(m, n) /\ UNCHANGED vars
  <1> USE Found
  <1>1. ASSUME NEW c \in Consumers, Spawns(c) \/ Buries(c)
        PROVE  FALSE
    <2>1. Work(c)' = Work(c) /\ Number(c)' = Number(c)
      BY <1>1, RunnerWritten DEF Spawns, Buries, Spawn, ChildCloses, RunnerStages
    <2>2. /\ ChildOf(c)'.stage \in {"spawned", "done", "gone"}
          /\ ChildOf(c)'.worked => ChildOf(c).worked
          /\ OtherChildren(Work(c), Number(c))
      BY <1>1 DEF Spawns, Buries
    <2>3. QED
      BY <2>1, <2>2 DEF ChildOf, OtherChildren, Past, Stage
  <1>2. ASSUME NEW x \in Messages, NEW y \in Numbers, Grows(x, y)
        PROVE  HookAccepts(m, n) /\ UNCHANGED vars
    <2>1. x = m /\ y = n
      BY <1>2 DEF Grows, OtherChildren, Past, Stage
    <2>2. child'[m][n].worked => child[m][n].worked
      BY <1>2, <2>1 DEF Grows, Past
    <2>3. Stage(m, n)' = "checked"
      BY <1>2, <2>1, <2>2 DEF Grows, ChildFollows, Past
    <2>4. QED
      BY <1>2, <2>1, <2>3 DEF Grows
  <1>3. child' # child
    BY DEF Past, Stage
  <1>4. QED
    BY <1>1, <1>2, <1>3, ChildrenMove

\* Every step keeps the later prompts authorized.
LEMMA AuthorizedInductive ==
  Grounded /\ ReceiptsKept /\ Authorized /\ [CoordinatorNext]_coordinatorVars => Authorized'
  <1> SUFFICES ASSUME Grounded, ReceiptsKept, Authorized, [CoordinatorNext]_coordinatorVars,
                      NEW m \in Messages, NEW n \in Numbers, NEW later \in Numbers,
                      Past(m, later)', n < later, attempt'[m][n].outcome = "receipted"
               PROVE  \E k \in Reports : Told(k, m, later - 1, "retry_safe")'
    BY DEF Authorized
  <1>0. Typed /\ AttemptLedger
    BY DEF Grounded
  <1> USE <1>0, Found
  <1>1. CASE Past(m, later)
    <2>1. attempt[m][later].outcome # "none"
      BY <1>1 DEF Past, Grounded, Parentage, Recorded, Stage, NoChild
    <2>2. ~(message[m].attemptCount < later) /\ message[m].attemptCount \in 0..MaxAttempts
      BY <2>1 DEF AttemptLedger, LedgerOf, TypeOK, MessageRow
    <2>3. n # message[m].attemptCount
      BY <2>2 DEF Numbers
    <2>4. attempt[m][n].outcome = "receipted"
      BY <2>3, StepOnQueue, QueueKeeps DEF TablesKept, AttemptKept
    <2>5. PICK k \in Reports : Told(k, m, later - 1, "retry_safe")
      BY <1>1, <2>4 DEF Authorized
    <2>6. QED
      BY <2>5, ReportsStay
  <1>2. CASE ~Past(m, later)
    <2>1. HookAccepts(m, later) /\ UNCHANGED vars
      BY <1>2, GetsPast
    <2>2. m \in receipts
      BY <2>1 DEF ReceiptsKept, vars
    <2>3. PICK k \in Reports :
            Reported(k, m, later - 1) /\ interruption[k].disposition = "retry_safe"
      BY <2>1, <2>2 DEF HookAccepts, SafeRetryAuthorized
    <2>4. Told(k, m, later - 1, "retry_safe")
      BY <2>3 DEF Told
    <2>5. QED
      BY <2>4, ReportsStay
  <1>3. QED
    BY <1>1, <1>2

\* A turn that was accepted and in which the model did something is followed by
\* another turn at work only after a retry_safe report about an attempt in
\* between, so never in the very next attempt.
THEOREM WorkNotReplayed == CoordinatorSpec => []WorkedTurnNotReplayed
  <1>1. CoordinatorInit => SafeMeansUnworked /\ ReceiptsKept /\ Authorized
    BY DEF CoordinatorInit, Init, SafeMeansUnworked, Told, Reported, ReceiptsKept, Authorized,
           Past, Stage, NoChild, NoAttempt
  <1>2. SafeMeansUnworked /\ Authorized => WorkedTurnNotReplayed
    <2> SUFFICES ASSUME SafeMeansUnworked, Authorized,
                        NEW m \in Messages, NEW n \in Numbers, NEW later \in Numbers,
                        n < later, child[m][n].worked, child[m][later].worked,
                        attempt[m][n].outcome = "receipted"
                 PROVE  \E k \in Reports, between \in Numbers :
                          /\ n < between /\ between < later
                          /\ Reported(k, m, between)
                          /\ interruption[k].disposition = "retry_safe"
      BY DEF WorkedTurnNotReplayed
    <2>1. PICK k \in Reports : Told(k, m, later - 1, "retry_safe")
      BY DEF Authorized, Past
    <2>2. later - 1 \in Numbers
      BY QueueAssumption DEF Numbers
    <2>3. later - 1 # n
      BY <2>1 DEF SafeMeansUnworked
    <2>4. n < later - 1 /\ later - 1 < later
      BY <2>3, QueueAssumption DEF Numbers
    <2>5. QED
      BY <2>1, <2>2, <2>4 DEF Told
  <1>3. QED
    BY <1>1, <1>2, InitGrounded, InitOwnership, GroundedInductive, OwnershipInductive,
       SafeInductive, ReceiptsInductive, AuthorizedInductive, PTL DEF CoordinatorSpec

-----------------------------------------------------------------------------
(***************************************************************************)
(* Completion.                                                             *)
(***************************************************************************)

\* A message is received by the hook of a child, and acknowledged and completed
\* by a runner that works on it.
Advances(m) == State(m)' \in Accepted /\ State(m)' # State(m)

\* The other steps of a runner do not advance any message.
LEMMA RunnerAdvances ==
  ASSUME Typed, NEW c \in Consumers, RunnerActs(c), NEW m \in Messages, Advances(m)
  PROVE  Work(c) = m /\ (EventCompleted(c) \/ CompletesMessage(c))
  <1> USE Found
  <1>1. message' # message /\ message \in [Messages -> MessageRow]
    BY DEF Advances, State, TypeOK
  <1>2. ASSUME NEW row, Busy(c), message' = [message EXCEPT ![Work(c)] = row]
        PROVE  Work(c) = m /\ row.state \in Accepted /\ row.state # State(m)
    BY <1>1, <1>2 DEF Advances, State
  <1>3. CASE SyncAvailability(c) \/ NothingToDeliver(c) \/ AcquireLock(c) \/ LockIsHeld(c)
             \/ LockFails(c) \/ StopDetached(c) \/ DeferToAttached(c) \/ MarkAutomated(c)
             \/ Unwind(c)
    BY <1>1, <1>3
    DEF SyncAvailability, NothingToDeliver, AcquireLock, LockIsHeld, LockFails, StopDetached,
        DeferToAttached, MarkAutomated, Unwind, SetAvailability, SetWorkerAvailability, vars
  <1>4. CASE BeginThrows(c) \/ Spawn(c) \/ SpawnThrows(c) \/ ChildCloses(c)
             \/ NoTerminalEvent(c) \/ Dies(c) \/ DeferNothing(c) \/ DeferThrows(c)
             \/ FailForeign(c) \/ Escalate(c)
    BY <1>1, <1>4
    DEF BeginThrows, Spawn, SpawnThrows, ChildCloses, NoTerminalEvent, Dies, Crash,
        DeferNothing, DeferThrows, FailForeign, Escalate, CreateEscalation, vars, tables
  <1>5. ~SyncRequeues(c)
    BY ExpiryMoves DEF SyncRequeues, RequeueExpiredLeases, RequeueExpired, Advances, State,
                       Accepted
  <1>6. ~Claim(c)
    <2>1. ASSUME NEW x \in Messages, ClaimNext(x, c, now, Deliverable)
          PROVE  message'[m].state \in {MessagesAfterExpiry(now)[m].state, "leased"}
      <3>1. MessagesAfterExpiry(now) \in [Messages -> MessageRow]
        BY ExpiryType
      <3>2. QED
        BY <2>1, <3>1 DEF ClaimNext, MessageRow
    <2>2. QED
      BY <2>1, ExpiryMoves DEF Claim, Advances, State, Accepted
  <1>7. ~Begin(c) /\ ~DeferFails(c) /\ ~FailOwn(c)
    <2>1. ASSUME Begin(c) \/ DeferFails(c) \/ FailOwn(c)
          PROVE  Busy(c) /\ \E row : message' = [message EXCEPT ![Work(c)] = row]
      BY <2>1
      DEF Begin, BeginDelivery, DeferFails, FailOwn, Fail, At, Busy
    <2>2. Begin(c) \/ DeferFails(c) \/ FailOwn(c) => Work(c) = m
      BY <1>2, <2>1
    <2>3. QED
      BY <2>2, BeginBegins, FailFails DEF BegunBy, FailedBy, Advances, Accepted
  <1>8. ~KeepLease(c) /\ ~EventFailed(c) /\ ~DeferRetries(c) /\ ~FailAccepted(c)
    <2>1. \A delay \in Delays : now + delay \in Nat
      BY QueueAssumption
    <2>2. Busy(c) => message[Work(c)] \in MessageRow
      BY <1>1
    <2>3. ASSUME KeepLease(c)
          PROVE  FALSE
      <3>1. Busy(c) /\ message' = [message EXCEPT ![Work(c)] =
              [message[Work(c)] EXCEPT !.expiry = now + LeaseMs]]
        BY <2>3 DEF KeepLease, Keep, RenewLease, At, Busy
      <3>2. [message[Work(c)] EXCEPT !.expiry = now + LeaseMs].state = message[Work(c)].state
        BY <2>2, <3>1 DEF MessageRow
      <3>3. QED
        BY <1>2, <3>1, <3>2 DEF State
    <2>4. ASSUME EventFailed(c) \/ DeferRetries(c) \/ FailAccepted(c)
          PROVE  FALSE
      <3>1. Busy(c)
        BY <2>4 DEF EventFailed, DeferRetries, FailAccepted, At, Busy
      <3>2. \/ message' = [message EXCEPT ![Work(c)] = Released(message[Work(c)], "failed")]
            \/ \E delay \in Delays :
                 message' = [message EXCEPT ![Work(c)] = Requeued(message[Work(c)], now + delay)]
        BY <1>1, <2>4
        DEF EventFailed, DeferRetries, FailAccepted, ReportRetrySafe, ReportEscalated, Retry,
            vars
      <3>3. Released(message[Work(c)], "failed").state = "failed"
            /\ \A delay \in Delays : Requeued(message[Work(c)], now + delay).state = "queued"
        BY <2>1, <2>2, <3>1, RowFields DEF States
      <3>4. QED
        BY <1>2, <3>1, <3>2, <3>3 DEF Accepted
    <2>5. QED
      BY <2>3, <2>4
  <1>9. EventCompleted(c) \/ CompletesMessage(c)
    BY <1>3, <1>4, <1>5, <1>6, <1>7, <1>8
    DEF RunnerActs, RunnerStep, FailThrows, RenewsTooLate, CrashRunner
  <1>10. Busy(c) /\ \E row : message' = [message EXCEPT ![Work(c)] = row]
    BY <1>1, <1>9 DEF EventCompleted, CompletesMessage, Acknowledge, Complete, At, Busy, vars
  <1>11. QED
    BY <1>2, <1>9, <1>10

\* Nor do the steps of children, the operator and time, but for a receipt.
LEMMA AdvancesMade ==
  ASSUME Typed, [CoordinatorNext]_coordinatorVars, NEW m \in Messages, Advances(m)
  PROVE  \/ \E n \in Numbers : ReceiptRecorded(m, n) /\ RecordReceipt(m)
         \/ \E c \in Consumers : /\ RunnerActs(c) /\ Work(c) = m
                                 /\ EventCompleted(c) \/ CompletesMessage(c)
  <1> USE Found
  <1>1. message' # message /\ message \in [Messages -> MessageRow]
    BY DEF Advances, State, TypeOK
  <1>2. ASSUME NEW x \in Messages, NEW n \in Numbers, ChildStep(x, n)
        PROVE  ReceiptRecorded(m, n) /\ RecordReceipt(m)
    <2>1. ReceiptRecorded(x, n) /\ RecordReceipt(x)
      BY <1>1, <1>2
      DEF ChildStep, ChildSessionStart, PromptChecked, PromptBlocked, TurnRecorded,
          ReceiptRecorded, ReceiptRefused, ModelWorks, TurnStops, TurnFails,
          BlockedTurnCompletes, ChildDies, SetAvailability, SetWorkerAvailability, vars
    <2>2. x = m
      BY <1>1, <2>1 DEF RecordReceipt, Advances, State
    <2>3. QED
      BY <2>1, <2>2
  <1>3. ASSUME NEW a \in Agents, UserStep(a)
        PROVE  FALSE
    BY <1>1, <1>3
    DEF UserStep, UserAttaches, UserAttachesByHand, UserLeaves, UserSessionStart,
        UserPrompts, UserTurnStops, Configure, SetAvailability, SetWorkerAvailability, vars
  <1>4. ASSUME NEW x \in Messages, OperatorQueues(x)
        PROVE  FALSE
    <2>1. PICK delay \in Delays : Enqueue(x, now, delay) \/ Retry(x, now, delay)
      BY <1>4 DEF OperatorQueues
    <2>2. now + delay \in Nat /\ message[x] \in MessageRow
      BY <1>1, QueueAssumption
    <2>3. Requeued(message[x], now + delay).state = "queued"
      BY <2>2, RowFields DEF States
    <2>4. NoMessage \in MessageRow
      BY QueueAssumption DEF NoMessage, MessageRow, Owners, States
    <2>5. [NoMessage EXCEPT !.state = "queued", !.createdAt = now,
                            !.availableAt = now + delay].state = "queued"
      BY <2>4 DEF MessageRow
    <2>6. message'[m].state \in {message[m].state, "queued"}
      BY <1>1, <2>1, <2>3, <2>5 DEF Enqueue, Retry
    <2>7. QED
      BY <2>6 DEF Advances, State, Accepted
  <1>5. ~TimePasses
    BY <1>1 DEF TimePasses, Tick, tables
  <1>6. QED
    BY <1>1, <1>2, <1>3, <1>4, <1>5, RunnerAdvances
    DEF CoordinatorNext, RunnerActs, coordinatorVars, vars

\* What a step makes of one child.
LEMMA OneChildMoves ==
  ASSUME Grounded, [CoordinatorNext]_coordinatorVars, NEW m \in Messages, NEW n \in Numbers
  PROVE  \/ Stage(m, n)' = Stage(m, n)
         \/ Stage(m, n) = "none" /\ Stage(m, n)' = "spawned"
         \/ ChildFollows(Stage(m, n), Stage(m, n)')
         \/ /\ \E c \in Consumers : runner[c].stage = "closing" /\ Work(c) = m /\ Number(c) = n
                                    /\ runner'[c].stage = "unwinding"
            /\ Stage(m, n)' = IF Stage(m, n) = "stopped" THEN "done" ELSE "gone"
  <1>0. Typed /\ Unspawned
    BY DEF Grounded, Parentage
  <1> USE <1>0, Found
  <1>1. ASSUME NEW c \in Consumers, Spawns(c)
        PROVE  \/ Stage(m, n)' = Stage(m, n)
               \/ Stage(m, n) = "none" /\ Stage(m, n)' = "spawned"
    <2>1. Work(c)' = Work(c) /\ Number(c)' = Number(c)
      BY <1>1, RunnerWritten DEF Spawns, Spawn, RunnerStages
    <2>2. ChildOf(c) = NoChild
      BY <1>1 DEF Spawns, Spawn, At, Unspawned, BeforeSpawn
    <2>3. QED
      BY <1>1, <2>1, <2>2 DEF Spawns, OtherChildren, ChildOf, Stage, NoChild
  <1>2. ASSUME NEW c \in Consumers, Buries(c)
        PROVE  \/ Stage(m, n)' = Stage(m, n)
               \/ /\ runner[c].stage = "closing" /\ Work(c) = m /\ Number(c) = n
                  /\ runner'[c].stage = "unwinding"
                  /\ Stage(m, n)' = IF Stage(m, n) = "stopped" THEN "done" ELSE "gone"
    <2>1. Work(c)' = Work(c) /\ Number(c)' = Number(c) /\ runner'[c].stage = "unwinding"
      BY <1>2, RunnerWritten DEF Buries, ChildCloses, RunnerStages
    <2>2. runner[c].stage = "closing"
      BY <1>2 DEF Buries, ChildCloses, At
    <2>3. QED
      BY <1>2, <2>1, <2>2 DEF Buries, OtherChildren, ChildOf, Stage
  <1>3. ASSUME NEW x \in Messages, NEW y \in Numbers, Grows(x, y)
        PROVE  Stage(m, n)' = Stage(m, n) \/ ChildFollows(Stage(m, n), Stage(m, n)')
    BY <1>3 DEF Grows, OtherChildren, Stage
  <1>4. QED
    BY <1>1, <1>2, <1>3, ChildrenMove DEF Stage

\* The child of a call that has not seen it close is not done.
NotDone == \A c \in Consumers : runner[c].stage \in Watching => ChildOf(c).stage # "done"

\* A call completes its message on a stream that ended in turn.completed.
Ended == \A c \in alive : runner[c].stage = "acknowledged" => ChildOf(c).stage \in Completion

\* Every step keeps both.
LEMMA EndedInductive ==
  Grounded /\ NotDone /\ Ended /\ [CoordinatorNext]_coordinatorVars => NotDone' /\ Ended'
  <1> SUFFICES ASSUME Grounded, NotDone, Ended, [CoordinatorNext]_coordinatorVars
               PROVE  NotDone' /\ Ended'
    OBVIOUS
  <1>0. Typed /\ OwnAttempt /\ alive \subseteq Consumers
    BY DEF Grounded, Parentage, Typed, CoordinatorTypeOK, TypeOK
  <1> USE <1>0, Found
  <1>1. ASSUME NEW x \in Consumers, runner'[x].stage \in Watching,
               runner[x].stage \in Watching, Work(x)' = Work(x), Number(x)' = Number(x)
        PROVE  ChildOf(x)'.stage # "done"
    <2>1. Work(x) \in Messages /\ Number(x) \in Numbers /\ Busy(x)
      BY <1>1 DEF Watching, Busy
    <2>2. Stage(Work(x), Number(x)) # "done"
      BY <1>1 DEF NotDone, ChildOf, Stage
    <2>3. ASSUME NEW c \in Consumers, runner[c].stage = "closing",
                 Work(c) = Work(x), Number(c) = Number(x)
          PROVE  c = x
      BY <2>1, <2>3, OneCall DEF Busy
    <2>4. PICK m, n : m = Work(x) /\ n = Number(x)
      OBVIOUS
    <2>5. Stage(m, n)' # "done"
      BY <1>1, <2>1, <2>2, <2>3, <2>4, OneChildMoves DEF ChildFollows, Watching
    <2>6. QED
      BY <1>1, <2>4, <2>5 DEF ChildOf, Stage
  <1>2. ASSUME NEW x \in Consumers, runner'[x].stage \in Watching
        PROVE  ChildOf(x)'.stage # "done"
    <2>1. CASE runner'[x] = runner[x]
      BY <1>1, <1>2, <2>1 DEF Work, Number
    <2>2. ~Ends(x) /\ ~Readies(x) /\ ~Claims(x)
      BY <1>2 DEF Ends, IdleRunner, Readies, Claims, Watching
    <2>3. CASE Proceeds(x) /\ Ways(x)
      <3>1. CASE Spawn(x)
        <4>1. Work(x)' = Work(x) /\ Number(x)' = Number(x)
          BY <2>3 DEF Proceeds
        <4>2. QED
          BY <3>1, <4>1, RunnerSpawns DEF Spawns
      <3>2. CASE ~Spawn(x)
        <4>1. runner[x].stage \in Watching
          BY <1>2, <2>3, <3>2 DEF Proceeds, Follows, Ways, Watching
        <4>2. QED
          BY <1>1, <1>2, <2>3, <4>1 DEF Proceeds
      <3>3. QED
        BY <3>1, <3>2
    <2>4. QED
      BY <2>1, <2>2, <2>3, CallMoves
  <1>3. ASSUME NEW x \in alive', runner'[x].stage = "acknowledged"
        PROVE  ChildOf(x)'.stage \in Completion
    <2>1. x \in alive /\ x \in Consumers
      BY StepOnQueue, AliveShrinks
    <2>2. CASE runner'[x] = runner[x]
      <3>1. Work(x)' = Work(x) /\ Number(x)' = Number(x) /\ runner[x].stage = "acknowledged"
        BY <1>3, <2>2 DEF Work, Number
      <3>2. Work(x) \in Messages /\ Number(x) \in Numbers /\ Busy(x)
        BY <2>1, <3>1 DEF Busy
      <3>3. PICK m, n : m = Work(x) /\ n = Number(x)
        OBVIOUS
      <3>4. Stage(m, n) \in Completion
        BY <2>1, <3>1, <3>3 DEF Ended, ChildOf, Stage
      <3>5. ASSUME NEW c \in Consumers, runner[c].stage = "closing", Work(c) = m, Number(c) = n
            PROVE  FALSE
        <4>1. c = x
          BY <2>1, <3>2, <3>3, <3>5, OneCall DEF Busy
        <4>2. QED
          BY <3>1, <3>5, <4>1
      <3>6. Stage(m, n)' = Stage(m, n)
        BY <3>2, <3>3, <3>4, <3>5, OneChildMoves DEF ChildFollows, Completion
      <3>7. QED
        BY <3>1, <3>3, <3>4, <3>6 DEF ChildOf, Stage
    <2>3. ~Ends(x) /\ ~Readies(x) /\ ~Claims(x)
      BY <1>3 DEF Ends, IdleRunner, Readies, Claims
    <2>4. CASE Proceeds(x) /\ Ways(x)
      <3>1. EventCompleted(x) /\ Work(x)' = Work(x) /\ Number(x)' = Number(x)
        BY <1>3, <2>4 DEF Ways, Proceeds
      <3>2. QED
        BY <3>1 DEF EventCompleted, ChildOf
    <2>5. QED
      BY <2>1, <2>2, <2>3, <2>4, CallMoves
  <1>4. QED
    BY <1>2, <1>3 DEF NotDone, Ended

\* As long as no runner dies, an accepted message was accepted by the turn of
\* its last attempt, which got to work.
AtWorkOrOver == {"working", "stopped", "transient", "broken", "done", "gone"}

AcceptedByTurn ==
  \A m \in Messages, n \in Numbers :
    alive = Consumers /\ State(m) \in Accepted /\ n = message[m].attemptCount =>
      Stage(m, n) \in AtWorkOrOver

\* Every step keeps that: the child whose receipt is recorded is watched by a
\* runner that lives, and so is the child of the last attempt.
LEMMA AcceptedByTurnInductive ==
  Grounded /\ Ownership /\ AcceptedByTurn /\ [CoordinatorNext]_coordinatorVars
    => AcceptedByTurn'
  <1> SUFFICES ASSUME Grounded, Ownership, AcceptedByTurn, [CoordinatorNext]_coordinatorVars,
                      NEW m \in Messages, NEW n \in Numbers, alive' = Consumers,
                      State(m)' \in Accepted, n = message'[m].attemptCount
               PROVE  Stage(m, n)' \in AtWorkOrOver
    BY DEF AcceptedByTurn
  <1>0. Typed /\ AttemptLedger
    BY DEF Grounded
  <1> USE <1>0, Found
  <1>1. alive = Consumers
    BY StepOnQueue, AliveShrinks DEF TypeOK
  <1>2. RestMoves(m)
    BY MessageMoves DEF ClaimedBy, BegunBy, FailedBy, Accepted
  <1>3. n = message[m].attemptCount
    BY <1>2 DEF RestMoves
  <1>4. CASE \E y \in Numbers : ReceiptRecorded(m, y) /\ RecordReceipt(m)
    <2>1. PICK y \in Numbers : ReceiptRecorded(m, y) /\ RecordReceipt(m)
      BY <1>4
    <2>2. Live(m, y) /\ State(m) \in Delivered
      BY <2>1 DEF ReceiptRecorded, RecordReceipt, Live, Delivered
    <2>3. PICK c \in Consumers : Watches(c, m, y)
      BY <2>2 DEF Grounded, Parentage, Watched
    <2>4. y = n
      BY <1>1, <1>3, <2>2, <2>3, LiveTurnIsLast DEF Watches, Runs
    <2>5. Stage(m, y)' = "working"
      BY <2>1, BecomesWritten DEF ReceiptRecorded, ChildStages
    <2>6. QED
      BY <2>4, <2>5 DEF AtWorkOrOver
  <1>5. CASE State(m) \in Accepted
    <2>1. Stage(m, n) \in AtWorkOrOver
      BY <1>1, <1>3, <1>5 DEF AcceptedByTurn
    <2>2. QED
      BY <2>1, OneChildMoves DEF AtWorkOrOver, ChildFollows
  <1>6. ASSUME NEW c \in Consumers, Work(c) = m, EventCompleted(c) \/ CompletesMessage(c)
        PROVE  State(m) \in Accepted
    BY <1>2, <1>6
    DEF EventCompleted, CompletesMessage, Acknowledge, Complete, Accepted, State, vars
  <1>7. QED
    BY <1>4, <1>5, <1>6, AdvancesMade DEF Advances

\* Every step keeps the completed messages worked on.
LEMMA CompletionInductive ==
  Grounded /\ Ownership /\ NotDone /\ Ended /\ AcceptedByTurn /\ AcceptedOnReceipt
      /\ CompletionMeansWork /\ [CoordinatorNext]_coordinatorVars
    => CompletionMeansWork'
  <1> SUFFICES ASSUME Grounded, Ownership, NotDone, Ended, AcceptedByTurn, AcceptedOnReceipt,
                      CompletionMeansWork, [CoordinatorNext]_coordinatorVars,
                      NEW m \in Messages, alive' = Consumers, State(m)' = "completed"
               PROVE  \E n \in Numbers : Stage(m, n)' \in {"stopped", "done"}
    BY DEF CompletionMeansWork
  <1>0. Typed /\ AttemptLedger /\ BegunByLast
    BY DEF Grounded, Ownership
  <1> USE <1>0, Found
  <1>1. alive = Consumers
    BY StepOnQueue, AliveShrinks DEF TypeOK
  <1>2. CASE State(m) = "completed"
    <2>1. PICK n \in Numbers : Stage(m, n) \in {"stopped", "done"}
      BY <1>1, <1>2 DEF CompletionMeansWork
    <2>2. ASSUME NEW c \in Consumers, runner[c].stage = "closing", Work(c) = m, Number(c) = n
          PROVE  Stage(m, n) # "done"
      BY <2>2 DEF NotDone, Watching, ChildOf, Stage
    <2>3. QED
      BY <2>1, <2>2, OneChildMoves DEF ChildFollows
  <1>3. CASE State(m) # "completed"
    <2>1. PICK c \in Consumers : Work(c) = m /\ (EventCompleted(c) \/ CompletesMessage(c))
      <3>1. ASSUME RecordReceipt(m)
            PROVE  FALSE
        <4>1. message[m] \in MessageRow
          BY DEF TypeOK
        <4>2. message'[m].state = "receipted"
          BY <3>1, <4>1, RowFields DEF RecordReceipt, TypeOK, States
        <4>3. QED
          BY <4>2 DEF State
      <3>2. QED
        BY <1>3, <3>1, AdvancesMade DEF Advances, Accepted
    <2>2. State(m) \in Accepted
      <3>1. RestMoves(m)
        BY MessageMoves DEF ClaimedBy, BegunBy, FailedBy
      <3>2. QED
        BY <1>3, <3>1 DEF RestMoves, Accepted
    <2>3. c \in alive /\ runner[c].stage \in Delivering /\ ChildOf(c).stage \in Completion
          /\ child' = child
      BY <2>1 DEF EventCompleted, CompletesMessage, At, Delivering, Watching, Ended
    <2>4. message[m].attemptCount = Number(c) /\ Number(c) \in Numbers
      BY <2>1, <2>2, <2>3
      DEF BegunByLast, Delivered, AcceptedOnReceipt, LastReceipted
    <2>5. Stage(m, Number(c)) \in AtWorkOrOver
      BY <1>1, <2>2, <2>4 DEF AcceptedByTurn
    <2>6. Stage(m, Number(c)) = "stopped"
      BY <2>1, <2>3, <2>5 DEF ChildOf, Stage, Completion, AtWorkOrOver
    <2>7. QED
      BY <2>3, <2>4, <2>6 DEF Stage
  <1>4. QED
    BY <1>2, <1>3

\* As long as no runner dies, a message is completed only because a turn about
\* it was accepted and ran to its end.
THEOREM CompletionWorks == CoordinatorSpec => []CompletionMeansWork
  <1>1. CoordinatorInit =>
          NotDone /\ Ended /\ AcceptedByTurn /\ AcceptedOnReceipt /\ CompletionMeansWork
    <2> SUFFICES ASSUME CoordinatorInit
                 PROVE  NotDone /\ Ended /\ AcceptedByTurn /\ AcceptedOnReceipt
                        /\ CompletionMeansWork
      OBVIOUS
    <2>1. \A c \in Consumers : runner[c].stage = "idle"
      BY DEF CoordinatorInit, IdleRunner
    <2>2. \A m \in Messages : State(m) = "absent"
      BY DEF CoordinatorInit, Init, NoMessage, State
    <2>3. alive = Consumers
      BY DEF CoordinatorInit, Init
    <2>4. QED
      BY <2>1, <2>2, <2>3
      DEF NotDone, Watching, Ended, AcceptedByTurn, AcceptedOnReceipt, Accepted,
          CompletionMeansWork
  <1>2. Grounded /\ AcceptedOnReceipt /\ [CoordinatorNext]_coordinatorVars => AcceptedOnReceipt'
    BY StepOnQueue, AcceptedInductive, Found DEF Grounded
  <1>3. QED
    BY <1>1, <1>2, InitGrounded, InitOwnership, GroundedInductive, OwnershipInductive,
       EndedInductive, AcceptedByTurnInductive, CompletionInductive, PTL DEF CoordinatorSpec

-----------------------------------------------------------------------------
(***************************************************************************)
(* The queue beneath.                                                      *)
(***************************************************************************)

\* Runners, hooks and the operator drive the queue through its operations
\* alone, so it keeps in their hands what it keeps in any: its ledger, and
\* that no accepted attempt ends without completion or its one report.
THEOREM QueueKept ==
  CoordinatorSpec =>
    [](AttemptLedger /\ AcceptedOnReceipt /\ NotReplayedBlindly /\ OneReportPerTurn)
  <1> DEFINE Kept == AttemptLedger /\ AcceptedOnReceipt /\ NotReplayedBlindly /\ OneReportPerTurn
  <1>1. CoordinatorInit => Kept
    BY QueueStarts DEF CoordinatorInit
  <1>2. Typed /\ Kept /\ [CoordinatorNext]_coordinatorVars => Kept'
    BY StepOnQueue, LedgerInductive, AcceptedInductive, ReportsInductive, Found
  <1>3. QED
    BY <1>1, <1>2, InitTyped, TypedInductive, PTL DEF CoordinatorSpec

\* The composition keeps the contract of delivery: whatever the runners, the
\* hooks of their children, the operator and the crashes do, nobody but its
\* holder touches a message before the deadline of the hold, and a recipient
\* that accepted it has it to itself until it finishes or is reported on.
THEOREM DeliveryImplementsContract == CoordinatorSpec => KeepsContract
  <1>1. CoordinatorInit => AttemptLedger /\ Contract!ContractInit
    BY QueueStarts, StartsEmpty DEF CoordinatorInit
  <1>2. Typed /\ AttemptLedger /\ [CoordinatorNext]_coordinatorVars
          => AttemptLedger' /\ [Contract!ContractNext]_(Contract!contractVars)
    BY StepOnQueue, LedgerInductive, StepPermitted, Found DEF Permitted
  <1>3. QED
    BY <1>1, <1>2, InitTyped, TypedInductive, PTL
    DEF CoordinatorSpec, KeepsContract, Contract!ContractSpec
=============================================================================
