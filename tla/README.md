# After Party: specifications, model checks and proofs

This directory specifies the stateful parts of After Party in TLA+. After Party
has two halves that share no state:

- the **dispatcher** (`dispatcher/`), which runs on a developer's machine, keeps
  SQLite databases, and drives Codex conversations from GitHub events, from
  messages between named workers, and from a browser terminal;
- the **tenant runtime and site** (`runtime/`, `site/`), which run operations on
  a customer's Azure tenant and protect them with a lock in Blob Storage.

Paths below are relative to the repository. `X.ts:n` is a line of a source file.

## 1. Inventory

| part | state it keeps | operations | what makes it correct |
|---|---|---|---|
| goal context store, `dispatcher/goal-context.ts` | `goal_contexts` (thread, pids, runtime state, `pending_operation`), `goal_events`, coordination locks, external waits | enqueue, claim, complete, requeue, recover events; claim, replace, finish the pending operation; `updateRuntime` | one owner of the conversation at a time; events in source order; nothing lost or repeated |
| goal loop, `dispatcher/party.ts` (`runGoalLoop`) | none beyond the process | poll, checkpoint, start runtimes, recover, deliver | a crashed iteration is repaired by the next |
| event delivery, `dispatcher/goal-event-delivery.ts` | one call's event, client id, turn | `deliverOnce` | a prompt is submitted once per client message id; an event is consumed only after its turn |
| goal gateway, `dispatcher/goal-gateway.ts` | active turn, ended turns, follow-ups | browser input, notifications, start, stop | the browser and automated delivery take turns |
| goal runtime, `dispatcher/goal-runtime.ts` | processes; pids in the store | start, stop, inspect | one runtime per context |
| app-server client, `dispatcher/app-server-client.ts` | pending requests, terminal turns | connect, thread/resume, turn/start, turn/steer, wait | every request is answered, fails or times out |
| message queue, `dispatcher/queue.ts` | messages, delivery attempts, receipts, interruptions, escalations, workers | 17 operations, each a transaction | at most one holder; leases; acceptance only on receipt; no blind replay |
| delivery coordinator, `dispatcher/worker-runner.ts`, `worker-lock.ts`, `tmux-runner.ts` | one delivery; a flock and a tmux session per worker | synchronise, claim, begin, wait, renew, defer, fail | never two clients of one worker; a failure is reported |
| hooks, sessions, turn outcomes, `lifecycle.ts`, `session-store.ts`, `turn-outcome.ts` | sessions and active turns | session start, prompt submit, stop; classify a turn's end | a receipt per accepted prompt; no second turn after one that did work |
| goal poller, `dispatcher/goal-github.ts` | waits and coordination locks in the store; fields on the project board | poll, provision, record | every event recorded; the board shows the context; back-off survives restarts |
| GitHub feedback and continuation, `github-feedback.ts`, `github-continuation.ts`, `github-cli.ts` | cursors and outcomes of events; continuations and their decisions | a pass: read, record, route, decide, finish | every event is routed, every continuation answered once, whatever passes overlap or die |
| tenant operation lock, `runtime/tenant-lock.mjs` | per call: session, renewal loop, abort signals | acquire, renew, release, `runWithTenantLock` | one stateful operation per tenant; the loser knows |
| blob lease store, `runtime/blob-lease-store.mjs` | a blob's lease and record | acquire, renew, release | the record names the holder |
| tenant runtime server, `runtime/*.mjs` | replay records | authorize, claim request id, run | a request id runs once |
| site, `site/*.js` | browser session, discovered runtime | sign in, install, call runtime | the page shows what Azure has |
| scripts, infra | none | one-shot | |

How they interact. The goal loop, its deliveries and the gateway are in two
processes (or more) that share the SQLite store and one app-server; the gateway
hears of turns by notifications, in order, and the store by statements that
interleave. Consumers of the message queue, the hook processes of recipients and
the operator's command line share the queue's database. Operations on a tenant
share one blob.

What is hard, and where (the list with lines is under `hazards` in
`PROJECT.json`):

- *read, then write*: `updateRuntime` (`goal-context.ts:266`) reads a row and
  writes every column back outside a transaction;
- *asynchronous code that goes on after the world has changed*: `deliverOnce`
  awaits the app-server four times, and another iteration may recover its event;
- *lost answers*: a turn can be started although `turn/start` failed;
- *leases* that run out under their holder, clocks read before a lock is held;
- *late and duplicate reports* from recipients;
- *children that outlive their parents*: a Codex child and its hooks go on after
  the runner that started them has died, and its message is claimed again;
- *pairs of transactions with a crash between them*: fail and retry, enqueue and
  mark, claim a decision and act on it;
- *processes known by pid*: recorded by two writers, lost by a crash, reused;
- *a renewal that races the end of the operation it protects*, storage that
  fails or hangs between two requests that belong together.

## 2. Modules

| module | role |
|---|---|
| `EventFeed` | abstract: what event delivery promises of one context |
| `GoalContextStore` | the store's rows and one operator per transaction |
| `AppServer` | the Codex app-server, external, as the client uses it |
| `GoalGateway` | the gateway process |
| `GoalRunner` | the loop and the deliveries, composed with the three above; properties |
| `GoalRunnerProofs` | the theorems about `GoalRunner`, with the refinement of `EventFeed` |
| `MCGoalRunner` | the source times used by TLC |
| `DeliveryContract` | abstract: what the message queue promises |
| `MessageQueue` | the queue's tables and all its operations; properties |
| `MCMessageQueue` | the recipients used by TLC |
| `MessageQueueProofs` | the theorems about `MessageQueue`, and that it implements `DeliveryContract` |
| `WorkerSessions` | the `worker_sessions` table |
| `WorkerClient` | the flock and the tmux session of a worker |
| `DeliveryCoordinator` | runners, Codex children, hooks and the operator over `MessageQueue` and the two above; properties |
| `DeliveryCoordinatorProofs` | the theorems about `DeliveryCoordinator` |
| `MCDeliveryCoordinator` | the recipients and dedupe keys used by TLC |
| `GitHubFeedback` | the feedback store and how an event is routed |
| `GitHubContinuation` | the continuation store and the verdict on a pull request |
| `GitHubPoller` | passes over both, the queue as the keys in it, GitHub; properties |
| `GitHubPollerProofs` | the theorems about `GitHubPoller` |
| `MCGitHubPoller` | the events, items and workloads used by TLC |
| `GoalRuntime` | start, stop and probe of a context's app-server and gateway processes |
| `GoalSupervisor` | the loop and the `party goal` commands over `GoalRuntime`; properties |
| `GoalIntake` | polls of the board by several dispatchers; properties |
| `GoalIntakeProofs` | the theorems about `GoalIntake` |
| `MCGoalLoop` | both parts of the goal loop side by side for TLC |
| `GoalLoopProofs` | the theorems about `GoalRuntime`, `GoalSupervisor` and both parts together |
| `AzureBlobLease` | the lock blob, external, as the store uses it |
| `TenantLock` | the lock session, the renewal loop and `runWithTenantLock`; properties |
| `TenantLockProofs` | the theorems about `TenantLock` |
| `ExtremaLemmas` | lemmas: least and greatest elements of sets of numbers |

### Goal delivery

`GoalContextStore` keeps `event` (a `goal_events` row for each event; the client
id is a recovery round: 0 is the source id and n is `<source id>:recovery:<n>`),
`pendingOperation`, and `reading`. An operator is one transaction, with one
exception: `updateRuntime` is `BeginUpdate` (the SELECT) and `FinishUpdate` (the
UPDATE), and `reading[p]` holds the value process `p` has read and is about to
write back. Everything the code writes through `updateRuntime` besides
`pending_operation` is left out, but the write-back of that column is not.

`AppServer` has the `turns` of the thread and the `stream` of notifications to
the gateway. A turn carries the client message id it was started under, which is
how `findClientTurn` recognises it. `GoalGateway` has the gateway's memory and an
action for each piece of code between two awaits: the `#submit` path is
`Submit`, `SubmitAccepted` (at the server), `SubmitAnswered`, `SubmitRecorded` or
`SubmitFails`; a notification is `TurnStarted`/`TurnStartedRecorded` or
`TurnCompleted`, which also resubmits the next follow-up.

`GoalRunner` adds `loop` (the place in `runGoalLoop`) and `delivery` (a record
for each `deliverOnce`). The catch and finally blocks are `Abort`. Faults are the
death of the dispatcher (`RunnerCrash`), of the gateway, or of gateway and
app-server (`RuntimeFails`); lost requests and time-outs are not counted as
faults and may happen at any await (`DeliveryFails`, `SubmitFails`).
`Continuous` selects between the service loop, which does not wait for its
deliveries, and `--once`, which does.

### Message queue

`MessageQueue` has one variable per table. An operation reads the clock *before*
it waits for the write lock, so each action takes the time `at` it has read from
`ReadTimes`, up to `Staleness` ticks in the past; `requeueExpiredLeases` alone
reads it inside. `claimNext` includes the requeueing of expired leases that the
code does in the same transaction. Operations of recipients and of the operator
may come at any time, in any order: nothing in the queue ties them to an
attempt.

### Delivery coordinator

`DeliveryCoordinator` extends `MessageQueue` and uses its operations as they
are. `runner[c]` is the place of consumer c in `deliverOnce`, `child[m][n]` the
Codex child of attempt n of message m. The three hooks run in the child:
`ChildSessionStart`, `PromptChecked` / `PromptBlocked` (the hook's decision),
`TurnRecorded` and `ReceiptRecorded` (its three writes), `TurnStops`. The runner
reads the child's stream (`EventCompleted`, `EventFailed`) and waits for its end
(`ChildCloses`, `NoTerminalEvent`), renews the lease meanwhile (`KeepLease`), and
leaves through `Unwind`, `Defer...` or `Fail...`. A runner that dies leaves its
child alone. The operator attaches with `party agent` or by hand, types prompts,
configures workers and retries messages.

Taken as one action: the synchronisation of the workers after expired leases were
requeued; a read of a message and of its inspection next to each other; the two
writes of the session-start and stop hooks. A hook that throws is taken to block
its prompt, as Codex documents it. Every worker has a registered session and,
unless `syncAvailability` finds it missing, a worktree.

### GitHub feedback and continuations

A pass of `party-github-poller` is a record `pass[p]`; passes overlap. Each
source (kind of feedback) has a `cursor`; `BeginSource` is the read of the cursor
and the request, `RecordSource` the transaction that records the page and moves
the cursor. Routing handles one pending event after the other, each with its
escalations and outcome in transactions of their own. A continuation goes through
`Take`, `ReadPull` (one read of the pull request for a pass), `Decide` (the
decision is claimed), an enqueue or an escalation, and `Finish...`. The queue is
the set of dedupe keys that have been used, which is what it does with a key that
is taken.

### The goal loop around its deliveries

`GoalRuntime` has the runtime columns of the row (`context`), a table of
processes by pid, and the call each caller is in, at one action per statement,
signal or wait. `updateRuntime` is two actions (`ReadRow`, `Writes`), so that
starter, loop and gateway can undo each other's columns. A gateway connects,
reads, writes, binds and stops in steps of its own. Pids are given out in turn,
as the kernel does, so that a recorded pid can be another program's
(`PidTaken`). `GoalSupervisor` adds the iteration of the loop after a poll
(map the board's state, checkpoint, stale start, stop, start, human gate) and
the commands `start`, `stop` and `recover`; both callers, every process and the
worktree may fail at any time. Age of a row matters only in `starting`. Two history
variables are read by properties alone: `disturbed` (a command was given, or a start or
stop was cut short) and `reverted` (a write-back has made the row `starting` again after
another process had written something else).

`GoalIntake` has two dispatchers that poll one goal's board item, one request per
action, with the coordination lock, the events and the external wait. What a
poll does to the state of the context is in `GoalSupervisor`. `MCGoalLoop`
checks the two in one run: a behaviour is one of either, the other part rests.

### Tenant lock

An operation is a record: the `phase` of `runWithTenantLock`, its callback
(`execution`), its renewal `loop`, the request under way (`call`, `reply`) and
the flags of the code (`active`, `aborted`). A request is sent, served and
answered in separate steps, may fail before or after it was served, and has no
time-out. `AzureBlobLease` follows the lease semantics the store relies on: an
expired lease may be renewed or released by its last holder until somebody else
has acquired the blob, and a write with a lease id needs a live lease.

## 3. Runs

| run | checks | result |
|---|---|---|
| `goal_once` | `TypeOK`, `OnePromptPerClientId`, `ConsumedMeansTurnCompleted` | hold, 3.8 million states |
| `goal_wakeup` | `ImplementsEventFeed`, `DeliveringResolves` | hold, 208 thousand states |
| `goal_service_prompts` | `OnePromptPerClientId` with the service loop | violated |
| `goal_two_clients` | `OneOwnerAtATime` | violated |
| `goal_idle_stuck` | `IdleContextsResume` | violated |
| `goal_loop` | `LoopTypeOK`, `NothingStrays`, `ClosedGoalIsDown`, `RuntimeComesBack`; `OneWriterWithinLease`, `BoardShowsContext`, `EventsRecorded` | hold, 478 thousand states |
| `queue_tables` | `TypeOK`, `AttemptLedger`, `AcceptedOnReceipt`, `NotReplayedBlindly`, `OneReportPerTurn`, `DeadConsumersLoseLeases` | hold, 410 thousand states |
| `queue_contract` | `KeepsContract` | holds, 750 thousand states |
| `coordinator` | `CoordinatorTypeOK`, `LockCoversChild`, `MarkFollowsLock`, `WorkedTurnNotReplayed`, `TurnKeepsMessage`, `FailureIsSurfaced`, `CompletionMeansWork` | hold, 3.4 million states |
| `github_intake` | `PollerTypeOK`, `NothingSkipped`, `OutcomeIsBacked`, `SentOrEscalated`, `AnsweredAsDecided`, `CyclesEscalatedInSeries`, `FeedbackIsRouted`, `ContinuationsAnswered` | hold, 330 thousand states |
| `tenant_lock` | `TypeOK`, `OneAtATimeWhenPunctual`, `NoTwoWinners`, `LetGoOnReturn`, `RecordNamesHolder`, `CallsReturn` | hold, 970 thousand states |
| `lock_overlap` | `OneAtATime` | violated |

Each run is `tlc -config <cfg> <module>` in this directory; `PROJECT.json` pairs
them. For every property of a passing run there is a *slip*, a definition with a
plausible mistake (commented "A slip"), that breaks the property when it takes
the place of the definition after it.

`goal_loop` checks for deadlock: its loops never end. In the other runs the
system may come to rest (all events consumed, the clock at its bound, nothing
left to attempt, all operations returned), so they do not.

### Bounds, and why they are enough

- `goal_once`: two events, the second discovered being the earlier one, so that
  order of discovery and source order differ; one browser submission; two turns,
  so that a repeated prompt fits; two attempts of an event, the second being the
  first recovery round; one process death.
- `goal_wakeup` leaves the browser out. With it neither property holds: the lost
  update described below lets a second event be claimed while the first is in
  delivery, and keeps recovery from running.
- `queue_tables`: one message, since the tables of different messages meet only
  in the order of claims; two consumers (an owner and a rival), two reports (a
  competitor under another key), two attempts, three ticks with leases of one,
  one tick of staleness. `queue_contract`: two messages to one worker, for the
  order of claims and for a claim that requeues the other message; one consumer.
  The theorems below cover every number of each.
- `coordinator`: one worker, since workers meet only in the order of claims; two
  runners (an owner and one that finds the lease run out), one message, two
  attempts (one to fail, be orphaned or be blocked, one to follow it), one tick,
  which is the whole lease. A third attempt would add the order "safe retry,
  deferral, prompt", in which the hook blocks the prompt for good. What a fourth
  one adds is described in section 4 (`WorkedTurnNotReplayed`); the theorems
  cover every number.
- `github_intake`: two passes and one death or failed request; two reviews of one
  author with a threshold of two, the second being older than the first, a review
  and a comment (two sources), an event without an actor on a board that may link
  two agents, two continuations of one pull request that changes up to twice.
  What comes up in one behaviour is chosen at its start (`MCWorkloads`).
- `goal_loop`: `LoopBudgets` are the combinations that a behaviour may use. Without
  the operator: four starts, and a fault with a move on the board, two faults, or a
  fault with a loss of the worktree. A start follows the first provisioning, a fault
  or a move, so these cost at most three: no behaviour that `RuntimeComesBack`
  speaks of runs out of starts (TLC confirmed that the fourth is never begun
  in one), and the property excuses no bound. A start that fails spends one too, and
  is followed by another. With the operator, whom `NothingStrays` and
  `RuntimeComesBack` leave aside: a `stop` against the first start with a move, a
  `start`, or a `recover` that is interrupted or finds no worktree. Three pids are
  enough for a runtime and a stranger, and no start lacks one. The intake has two
  pollers, two events, one fault and one move by people.
- `tenant_lock`: two operations, leases of two ticks renewed after one, five
  ticks (an acquisition, a renewal, an expiry and a second acquisition), two
  faults (a failure and a failure of the recovery from it).

### Fairness

- goal runs: the loop, each delivery, the gateway and the end of every turn are
  weakly fair. Each await of the loop and of a delivery has a time-out
  (`app-server-client.ts:234`, `:269`), and a turn of the app-server ends. A
  process that dies is restarted by its supervisor (`service.ts`).
- goal loop: the loop, the commands, every call and every gateway are weakly fair:
  their waits end (`goal-runtime.ts:248`, `:270`, `:312`), the service restarts
  the dispatcher and the loop polls again. No fault and no command is fair. A lock
  lapses and a wait becomes due.
- GitHub passes: "Invoke it again on a schedule" (`github-cli.ts:141`), so each
  pass is weakly fair and followed by another; nothing is assumed of GitHub or of people.
- queue: time passes, and requeueing expired leases is fair because
  `syncAvailability` does it in every iteration of the runner
  (`worker-runner.ts:81`). No consumer or recipient is fair.
- lock: a request is served in the end, ready code runs, and a callback ends
  (`docs/tenant-lock.md`: "callbacks must observe the supplied AbortSignal").

## 4. What the violated runs show

1. **`goal_service_prompts`**: `dispatcher/README.md:56` says "Action-level
   idempotency prevents a repeated observation from creating another context,
   prompt, ...". The service loop starts a delivery without waiting for it
   (`party.ts:404`) and calls `recoverInterruptedEvents` in its next iteration
   (`party.ts:397`), which returns the event in flight to pending. The second
   delivery takes its snapshot before the first one's turn exists, and both call
   `turn/start` with the same client id.
2. **`goal_two_clients`**: `dispatcher/README.md:63` says "only one Codex client
   owns the conversation at a time". The loop's checkpoint (`party.ts:352`) reads
   the row, the gateway claims or releases the operation, and the loop writes the
   old value back. A claim is thus undone, and the other side starts a turn while
   one is running.
3. **`goal_idle_stuck`**: `dispatcher/README.md:61` says "Idle or sleeping
   contexts resume automatically". The same write-back restores
   the operation of a browser turn (`turn:<id>` or `browser-submit:<id>`) after
   the gateway has finished it. Nothing clears it: `claimNextOrdered` needs the
   column empty, and `recoverInterruptedEvents` acts only when an event is in
   delivery, and leaves browser submissions alone even then. Events wait until
   the gateway restarts.
4. **`lock_overlap`**: `docs/architecture.md:224` says "The lock prevents two
   stateful operations from changing the same tenant at the same time".
   `assertLockHeld` (`tenant-lock.mjs:352`) and the abort signal know only of a
   renewal that has *failed*. A renewal request that hangs (`fetch` without a
   time-out, `blob-lease-store.mjs:93`), or a renewal timer that fires late,
   leaves the callback at work after the
   lease has expired and someone else has it. `OneAtATimeWhenPunctual` shows the
   other side: while requests are answered and timers fire within a tick, the
   lock does exclude; and `NoTwoWinners` that even when late the two cannot both
   report success.

### What the passing runs leave out on purpose

Some properties had to be stated with an excuse that the code's documents do not
make. Each excuse is a behaviour of the code:

- *A start that was cut short is not repaired.* The loop
  declares a start stale when the row is more than 30 seconds old
  (`party.ts:358`), but a few lines before it has written its checkpoint into the
  row (`party.ts:352`), and `updateRuntime` sets `updated_at` (`goal-context.ts:279`).
  While the worktree exists the row of a dispatcher that died right after
  `tryBeginRuntimeStart` therefore stays in `starting`, and so does that of a start whose
  wait or signal throws before the `try` (`goal-runtime.ts:38-40`). A dispatcher
  that dies between spawning a gateway and `goal-runtime.ts:99` leaves a gateway
  that the row does not name and that keeps the context's port: the gateway of every
  later start ends when it binds, the stray one answers `waitForHttp`, and the loop
  finds the runtime down and starts it again, for ever.
  `dispatcher/README.md` promises that startup "reconciles durable records with
  actual processes". `RuntimeComesBack` therefore speaks of behaviours in which
  no start or stop is cut short (`disturbed`); apps and gateways may
  die in them at any time, also during a start. Only `party goal stop` or `recover`
  helps, and against a stray gateway neither.
- *A start may leave `starting` behind although it succeeded.* The starter's write of
  the gateway's pid (`goal-runtime.ts:99`) is a read and a write-back of the whole
  row, and may put `starting` over the `running` that the gateway has written in
  between. The runtime works. But if nothing else writes the state (a turn does),
  and a process dies later, the row stays in `starting` as above and nothing
  restarts it. `RuntimeComesBack` excuses a row that has been put back to `starting`
  and stays so (`reverted`), and none that is `starting` for another reason.
- *When a start is found stale, its pids are forgotten, not ended*
  (`party.ts:360`): an app-server that did come up is left behind.
  `NothingStrays` holds up to there.
- *Review cycles are escalated for certain only by passes that neither overlap
  nor die.* `github-cli.ts:142` calls restart and overlapping passes safe. The
  cycles are counted after the outcome of a review is recorded, and compared with
  `===` (`github-feedback.ts:576`): a pass that dies after `markOutcome`
  (`github-feedback.ts:543`) never counts, and of two passes that have recorded the
  reviews number two and three before either counts, both see three.
  `CyclesEscalatedInSeries` holds; `CyclesEscalated`, in the same module and part
  of no run, is violated by the first of these.
- *A turn that did work may be followed by another, at a distance.* The hook
  allows a retry when the report of the attempt just before says `retry_safe`
  (`lifecycle.ts:148`), and asks about none before it. An attempt that never ran
  can count as accepted, through the late hook of an orphan, and be reported
  safe. With four attempts (found when the property was to be proved; two attempts
  cannot show it) the work of the first is then done again. What holds, and is
  proved, is `WorkedTurnNotReplayed`: never the next attempt, and only after a
  `retry_safe` report about one in between.

Further limits in the comments of the properties: `CompletionMeansWork` and
`MarkFollowsLock` hold as long as no runner dies (an orphan's receipt lets the
next, blocked attempt complete the message), and `ClosedGoalIsDown` unless a
foreign program runs under the gateway's pid: `safeKill` then throws before it
has signalled the app-server, in every iteration.

## 5. Theorems

Each theorem holds for every value of the constants that satisfies the
assumptions of the modules; for each component that is the named `ASSUME` at the
head of its module. The properties are the ones that TLC checks on the
bounds of section 3; the invariant of the goal loop's processes was also checked
there, and on larger bounds, before it was proved.

**Message queue** (`MessageQueueProofs`), for every set of
messages, consumers, agents and reports, every lease duration, delay, staleness
and bound, from `QueueAssumption` (`NoConsumer` is no consumer, recipients are
agents, report keys are not other escalations' keys, bounds are numbers):

- `TypeCorrect`: `Spec => []TypeOK`;
- `LedgerCorrect`: `Spec => []AttemptLedger`. `TypeOK /\ AttemptLedger` is
  inductive; there is a lemma for each kind of update of a row (closing the
  attempt with the lease, leaving the lease alone, claiming, expiry) and the
  proof of the step applies one per operation;
- `AcceptedCorrect`: `Spec => []AcceptedOnReceipt`. It needs the ledger: a
  receipt closes "the open attempt", and only the ledger says that this is the
  last one;
- `ReportsCorrect`: `Spec => [](NotReplayedBlindly /\ OneReportPerTurn)`, and
  `OneReport` from it. Neither
  is inductive alone. `Settled` names the accepted attempts that are over; no
  operation but a report settles one (`SettledBy...`), a report settles exactly
  the last attempt, and `AcceptedOnReceipt` says that this attempt was accepted;
- `QueueImplementsContract`: `Spec => KeepsContract`, the refinement of
  `DeliveryContract`. Each operation is one step of the contract or changes
  nothing it speaks of. Two facts carry it: a lease that had run out at the time
  an operation read has run out when it commits (`ExpiredRunOut`), and a message
  out of flight has neither holder nor deadline (from `AttemptLedger`), without
  which cancelling or completing one would not be the contract's step.

The step that these proofs are about is `QueueStep`, any of the queue's operations
with any message, consumer, report and time, in or out of the order in which
`MessageQueue!Next` takes them; a composition whose steps are `QueueStep`s of the
tables keeps everything proved here.

**Delivery coordinator** (`DeliveryCoordinatorProofs`), for any consumers, agents,
messages, attempts and bounds, from `QueueAssumption` and the assumptions of
`DeliveryCoordinator`. Every step is a `QueueStep` or leaves the tables
(`StepOnQueue`), so the queue keeps in these hands what it keeps in any
(`QueueKept`) and the composition implements `DeliveryContract`
(`DeliveryImplementsContract`: `CoordinatorSpec => KeepsContract`). On top:

- `CoordinatorTypes` (`CoordinatorTypeOK`) with `WorksOnAttempt`: a call that has
  claimed works on an attempt there is;
- `LockCovers` (`LockCoversChild`): the runner of a living child is past the
  acquisition of the lock and before its release (`HoldsLock`), because an attempt
  has at most one runner (`Parentage`). `Grounded` joins these with the queue's
  ledger and is the base of all that follows;
- `MarkFollows` (`MarkFollowsLock`): observations are never of the future
  (`Clocks`), so that the mark and its removal, compared by time, come in order;
- `TurnKeeps` (`TurnKeepsMessage`): `Ownership` says that the owner of a lease works
  on the last attempt, that a call which ends leases nothing, and that a message
  in delivery is in the attempt of the runner that delivers it;
- `FailuresSurface` (`FailureIsSurfaced`): `FailureTold`, a failed message is
  escalated or somebody has still to say so;
- `WorkNotReplayed` (`WorkedTurnNotReplayed`): a `retry_safe` report is about an
  attempt that did nothing and will do nothing (`SafeMeansUnworked`), an accepted
  attempt leaves a receipt (`ReceiptsKept`), and no prompt gets past the hook's
  check after one but on such a report (`Authorized`);
- `CompletionWorks` (`CompletionMeansWork`): `Ended` ties the completion to the
  end of the stream that the runner has read, `AcceptedByTurn` the acceptance
  to the turn.

**Goal delivery** (`GoalRunnerProofs`), for any events, source times, browser
inputs, turns, attempts and deaths (the assumptions of `GoalRunner` and of the
modules it is made of):

- `RunnerTypes` (`TypeOK`), with what the types rest on: a delivery that has read a
  turn has one of its own event (`FollowsItsTurn`), a submission that was
  accepted has its turn, and sequence numbers have a maximum (`ExtremaLemmas`);
- `ConsumedCorrect` (`ConsumedMeansTurnCompleted`) for the service loop and `--once`;
- `OncePerClientId` (`OnePromptPerClientId`) under the hypothesis
  `Continuous = FALSE`, which is `party run --once`. It is there because the
  statement is false without it: run `goal_service_prompts` is the counterexample.
  The invariant says that there is one delivery at a time (`OneDelivery`), that it
  owns its event in the round it knows and has seen no turn of that round before
  it starts one (`DeliveriesConsistent`), and that rounds only grow (`RoundsGrow`);
- `FeedImplemented` (`Spec => ImplementsEventFeed`) under `Inputs = {}`, no
  browser submissions: with them the lost update of section 4 lets two events be
  in delivery. Deaths, lost answers and time-outs are all in;
- `ConsumedIsFinal`: the action property that no step takes an event out of
  `consumed`, with browser submissions as well.

**Goal loop** (`GoalLoopProofs`), for any pids, starts, moves, faults, commands and
budgets (`RuntimeAssumption`, `SupervisorAssumption`):

- `SupervisorTypes` and, with the intake, `LoopTypes` (`LoopTypeOK`). A start
  counts the generation up, and a stale write may count it down again, so the type
  is not inductive: `TypeInv` bounds every row, in the store, in a call, in a
  gateway or in the hands of loop and command, by the starts that have been made;
- `NothingLost`, and `LoopLosesNothing` for the composition (`NothingStrays`).
  `WatchInv` says what each part relies on as long as nothing has disturbed the
  dispatcher: at each stage of a call which programs there are, either those
  of the row that was read, or none, or those the call has started (`CallKnows`);
  that a gateway is the only one, and the row it will write back names the
  app-server (`GatewayKnows`); that the row which the loop will write back names
  all of them, and that it waits during a call (`LoopKnows`). Most steps only end
  processes (`Ebbs`), and then what a row names it still names.

**Tenant lock** (`TenantLockProofs`), for any number of operations, any lease of
at least two ticks and any number of faults (`LockAssumption`): `LockTypes`,
`OneAtATimeHolds` (`OneAtATimeWhenPunctual`), `AtMostOneWinner` (`NoTwoWinners`),
`LetGo` (`LetGoOnReturn`) and `HolderIsNamed` (`RecordNamesHolder`). One invariant
gives all five. Per operation (`Fine`) it says which request may be under way in
which phase (`Local`), what an answer tells of the blob and for how long
(`KnowsLost`, `KnowsRecord`), and, as long as nothing was late, that a lease just
renewed is whole and that the timer fires before it ends (`Fresh`, `InTime`).
`OneMayWin` says that of two operations that met, one can no longer succeed:
losing the lease is final.

**Goal intake** (`GoalIntakeProofs`), for any pollers, events and bounds
(`IntakeAssumption`): `IntakeTypes` and `OneWriter` (`OneWriterWithinLease`). A
poller that writes and has not overrun its minute owns a lock that has not lapsed
(`PunctualHolds`); the type needs `CountsFailures`, because the count of the
back-off is one more than a count read before the request that failed.

**GitHub** (`GitHubPollerProofs`), for any passes, events, continuations and
workloads (`FeedbackAssumption`, `ContinuationAssumption`, `PollerAssumption`):
`Recorded` (`NothingSkipped`), `Backed` (`OutcomeIsBacked`) and `Answered`
(`AnsweredAsDecided`). Two passes may be anywhere in their work, so the invariant
says what each relies on between two steps: what it is about to record was sent
(`SentFirst`), and the decision it carries out is the claimed one (`KnowsDecided`,
`CarriesOut`). A claimed decision never changes and nothing is unsent, so no other
pass takes that away (`OthersRely`). In a series of passes (`serial`) more holds:
`SentOnceInSeries` (`SentOrEscalated`) and `CyclesReported`
(`CyclesEscalatedInSeries`). One pass is at work at a time (`Alone`), what it has
listed stays pending until it comes to it (`Holds`), what was sent has its outcome or is
in hand (`SentOnce`), and the number of review cycles is below the threshold,
told, or equal to it with a pass about to compare (`CyclesTold`): outcomes come one
at a time, so `===` does not miss. `PollerTypes` (`PollerTypeOK`) needs that a
cursor, a maximum over what a page lists, exists: there is a latest time among what
is visible (`VisibleBounded`), and a bounded set of numbers has a maximum, which
`ExtremaLemmas` derives from the well-foundedness of the natural numbers.

Every invariant that a passing run checks is stated by a theorem, and so are the two
refinements (`KeepsContract`, `ImplementsEventFeed`). Model-checked only: the liveness
properties `DeliveringResolves`, `DeadConsumersLoseLeases`, `CallsReturn`,
`FeedbackIsRouted`, `ContinuationsAnswered`, `ClosedGoalIsDown`,
`RuntimeComesBack`, `BoardShowsContext` and `EventsRecorded`. They rest on fairness,
which the prover does not handle. The violated properties have their
counterexamples.

## 6. Not modelled, and why

- the store's `failed` event state with `completeEvent`, `failEvent`,
  `requeueEvent` and `claimNext`: nothing calls them;
- deliveries of goal events by two dispatchers at once (`GoalRunner` has a
  restart under another name; `GoalIntake` and `GoalSupervisor` have two
  processes), and deliveries while the runtime is being stopped;
- a start that times out while its processes are alive (`goal-runtime.ts:248-286`:
  `GoalRuntime` lets it time out only when one is gone), and the write-backs of a
  gateway that listens (`goal-gateway.ts:132`, `:271`). Neither breaks a property of
  `goal_loop`: the first ends both programs, which the row or the call names, and
  goes the way of any failed start; the second carries the pids that the row had since
  the gateway came up, and no call replaces those before it has ended the gateway;
- a `turn/start` that timed out and is accepted only later; an event that two goals
  share (`goal-context.ts:906` refuses it), since `GoalIntake` has one goal;
- the coordinator without a turn-outcome source (`worker-runner.ts:189`: prompting
  in tmux and waiting for a receipt): the command line always passes one. Fresh
  sessions of a worker and a tmux that fails to stop;
- `shared-worker-prototype.ts`, a prototype that shares one consumer name among
  its processes;
- columns of `goal_contexts` that no modelled decision depends on; ports;
- other pull requests than one, paging and retries of single requests, texts;
- the blob's creation and the read of the blocking record, which change no lock
  state; a request of a process that dies never reaches the blob afterwards;
- the tenant runtime server: its request gate is next in the plan; the rest is
  token validation and HTTP;
- parsing, rendering and command lines; the site, scripts and infra.

## 7. Plan

1. *Done*: goal delivery, message queue, tenant lock, theorems of the queue; the
   delivery coordinator; GitHub feedback and continuations; the goal loop's
   runtime, supervision and intake.
2. *Done*: theorems for every invariant the runs check, the queue as a refinement
   of its contract, alone and under the coordinator, and goal delivery as a
   refinement of the event feed. Left: action properties of the other tables
   (what is final stays final), and what the abstract specifications promise
   as theorems of their own.
3. `RuntimeGate`: authorization, replay claim, operation and the lock diagnostic
   of `operations.mjs` over `TenantLock`'s contract.
4. Two dispatchers that deliver one goal's events; the site's installation state.
