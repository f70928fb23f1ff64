------------------------- MODULE DeliveryCoordinator -------------------------
(***************************************************************************)
(* Delivery of queued messages to named workers: `party run` and           *)
(* `party deliver` (dispatcher/worker-runner.ts), the Codex children they  *)
(* start and watch (dispatcher/turn-outcome.ts), the lifecycle hooks that  *)
(* Codex runs in them (dispatcher/lifecycle.ts), and the operator's        *)
(* interactive client (`party agent`, dispatcher/party.ts).                *)
(*                                                                         *)
(* Runners, hooks and the operator are processes of their own.  They meet  *)
(* in the queue's tables, in worker_sessions, in a lock file per worker    *)
(* and in tmux.  A Codex child belongs to one attempt of one message and   *)
(* may outlive the runner that started it.                                 *)
(*                                                                         *)
(* Codex is external: which prompts end, fail or are lost is its choice.   *)
(* A prompt whose hook blocks it, or fails, does not run.                  *)
(***************************************************************************)
EXTENDS MessageQueue

CONSTANTS
  User,        \* the operator's `party agent`
  NoTurn       \* SQL NULL in active_turn_id

VARIABLES
  reason,      \* workers.reason, as far as the code compares it
  session,     \* worker_sessions
  flock,       \* the worker locks
  terminal,    \* the workers' tmux sessions
  runner,      \* the deliverOnce call of each consumer
  child        \* the Codex child of each attempt

\* The turns of the children, and the turn typed into the interactive client.
ChildTurns == Messages \X Numbers

Sessions == INSTANCE WorkerSessions WITH
  Workers <- Agents, Turns <- ChildTurns \cup {User}

Client == INSTANCE WorkerClient WITH
  Terminals <- Agents, Clients <- Consumers \cup {User}, NoClient <- NoConsumer

\* The dedupe keys of this code's reports and escalations.
StreamKey(m, n) == <<"codex-exec", m, n>>
UnclassifiedKey(m, n) == <<"runner-unclassified", m, n>>
FailureKey(m, n) == <<"delivery-failure", m, n>>

ASSUME CoordinatorAssumption ==
  /\ User \notin Consumers \cup {NoConsumer}
  /\ \A m \in Messages, n \in Numbers :
       /\ {StreamKey(m, n), UnclassifiedKey(m, n)} \subseteq Reports
       /\ FailureKey(m, n) \in Topics

clientVars == <<reason, session, flock, terminal>>
coordinatorVars == <<vars, clientVars, runner, child>>

-----------------------------------------------------------------------------
\* Where a deliverOnce call is: its message and attempt, and whether what it
\* awaits has thrown.
RunnerStages ==
  {"idle", "ready", "claimed", "locked", "stopping", "marked", "begun", "waiting",
   "acknowledged", "closing", "unwinding", "deferring", "retrying",
   "failing", "escalating"}

Runner ==
  [stage : RunnerStages, message : Messages \cup {NoTurn}, number : 0..MaxAttempts,
   threw : BOOLEAN]

IdleRunner == [stage |-> "idle", message |-> NoTurn, number |-> 0, threw |-> FALSE]

(***************************************************************************)
(* A child: spawned, its SessionStart hook has run, its UserPromptSubmit   *)
(* hook has checked the prompt and recorded the turn, the model is at      *)
(* work; then one of the terminal events of its stream (turn.completed     *)
(* after the Stop hook, a transient or another error, turn.completed of a  *)
(* prompt that was blocked), or none.  A prompt's hook keeps the time it   *)
(* observed the prompt; the stream shows whether the model did anything.   *)
(***************************************************************************)
ChildStages ==
  {"none", "spawned", "started", "checked", "admitted", "working", "stopped",
   "transient", "broken", "blocked", "hollow", "done", "gone"}

Child == [stage : ChildStages, observedAt : Nat, worked : BOOLEAN]

NoChild == [stage |-> "none", observedAt |-> 0, worked |-> FALSE]

Reasons == {"none", "attached", "automated"}

CoordinatorTypeOK ==
  /\ TypeOK
  /\ Sessions!SessionsTypeOK /\ Client!ClientsTypeOK
  /\ reason \in [Agents -> Reasons]
  /\ runner \in [Consumers -> Runner]
  /\ child \in [Messages -> [Numbers -> Child]]

CoordinatorInit ==
  /\ Init
  /\ Sessions!SessionsInit /\ Client!ClientsInit
  /\ reason = [a \in Agents |-> "none"]
  /\ runner = [c \in Consumers |-> IdleRunner]
  /\ child = [m \in Messages |-> [n \in Numbers |-> NoChild]]

\* setWorkerAvailability, with a reason or with NULL.
SetAvailability(a, availability, why, at) ==
  IF worker[a].observedAt <= at
  THEN /\ SetWorkerAvailability(a, availability, at)
       /\ reason' = [reason EXCEPT ![a] = why]
  ELSE UNCHANGED <<vars, reason>>

Work(c) == runner[c].message
Number(c) == runner[c].number
Worker(c) == Recipient[Work(c)]

At(c, stage) == c \in alive /\ runner[c].stage = stage

GoTo(c, stage) == runner' = [runner EXCEPT ![c].stage = stage]

Throw(c, stage) == runner' = [runner EXCEPT ![c].stage = stage, ![c].threw = TRUE]

Return(c) == runner' = [runner EXCEPT ![c] = IdleRunner]

ChildOf(c) == child[Work(c)][Number(c)]

-----------------------------------------------------------------------------
(***************************************************************************)
(* syncAvailability.                                                       *)
(***************************************************************************)

\* #hasActiveStructuredTurn
HasActiveTurn(a) ==
  \E m \in Messages :
    Recipient[m] = a /\ State(m) \in InFlight \cup {"receipted", "acknowledged"}

Seen(a) ==
  [availability |-> worker[a].availability, reason |-> reason[a],
   observedAt |-> worker[a].observedAt]

Written(availability, why) ==
  [availability |-> availability, reason |-> why, observedAt |-> now]

\* The mark of an automated turn that is over and whose runner has let go
\* of the lock is cleared.
Recovered(a) ==
  IF reason[a] = "automated" /\ ~HasActiveTurn(a) /\ Client!Free(a)
  THEN Written("idle", "none") ELSE Seen(a)

\* What the loop over the workers makes of one; its worktree may be missing.
Synced(a, present) ==
  LET current == Recovered(a)
      attached == Client!HasAttachedClient(a)
  IN  CASE ~present -> Written("unavailable", "none")
        [] present /\ attached /\ (current.availability # "busy" \/ current.reason = "attached") ->
             Written("busy", "attached")
        [] present /\ ~attached /\ current.reason = "attached" -> Written("idle", "none")
        [] OTHER -> current

SyncRequeues(c) ==
  /\ At(c, "idle")
  /\ RequeueExpiredLeases
  /\ UNCHANGED <<clientVars, runner, child>>

SyncAvailability(c) ==
  \E present \in [Agents -> BOOLEAN] :
    /\ At(c, "idle")
    /\ Expired(now) = {}
    /\ worker' = [a \in Agents |->
         [availability |-> Synced(a, present[a]).availability,
          observedAt |-> Synced(a, present[a]).observedAt]]
    /\ reason' = [a \in Agents |-> Synced(a, present[a]).reason]
    /\ GoTo(c, "ready")
    /\ UNCHANGED <<message, attempt, receipts, interruption, escalation, alive, now>>
    /\ UNCHANGED <<session, flock, terminal, child>>

-----------------------------------------------------------------------------
(***************************************************************************)
(* deliverOnce, up to the start of the Codex child.                        *)
(***************************************************************************)
Deliverable == {"idle", "asleep"}

Claim(c) ==
  \E m \in Messages :
    /\ At(c, "ready")
    /\ ClaimNext(m, c, now, Deliverable)
    /\ runner' = [runner EXCEPT ![c] =
         [IdleRunner EXCEPT !.stage = "claimed", !.message = m,
                            !.number = AttemptNumber(message[m])]]
    /\ UNCHANGED <<clientVars, child>>

NothingToDeliver(c) ==
  /\ At(c, "ready")
  /\ Expired(now) = {}
  /\ Claimable(now, Deliverable) = {}
  /\ Return(c)
  /\ UNCHANGED <<vars, clientVars, child>>

AcquireLock(c) ==
  /\ At(c, "claimed")
  /\ Client!TryAcquire(Worker(c), c)
  /\ GoTo(c, "locked")
  /\ UNCHANGED <<vars, reason, session, terminal, child>>

LockIsHeld(c) ==
  /\ At(c, "claimed")
  /\ ~Client!Free(Worker(c))
  /\ GoTo(c, "deferring")
  /\ UNCHANGED <<vars, clientVars, child>>

\* tryAcquire throws: it timed out, or the lock's child could not start.
LockFails(c) ==
  /\ At(c, "claimed")
  /\ GoTo(c, "failing")
  /\ UNCHANGED <<vars, clientVars, child>>

DeferToAttached(c) ==
  /\ At(c, "locked")
  /\ Client!HasAttachedClient(Worker(c))
  /\ SetAvailability(Worker(c), "busy", "attached", now)
  /\ GoTo(c, "deferring")
  /\ UNCHANGED <<session, flock, terminal, child>>

\* The worker is marked, and a detached interactive client stopped, also when
\* someone has attached to it by hand in between.
MarkAutomated(c) ==
  /\ At(c, "locked")
  /\ ~Client!HasAttachedClient(Worker(c))
  /\ SetAvailability(Worker(c), "busy", "automated", now)
  /\ GoTo(c, IF Client!HasSession(Worker(c)) THEN "stopping" ELSE "marked")
  /\ UNCHANGED <<session, flock, terminal, child>>

StopDetached(c) ==
  /\ At(c, "stopping")
  /\ Client!Stop(Worker(c))
  /\ GoTo(c, "marked")
  /\ UNCHANGED <<vars, reason, session, flock, child>>

Begin(c) ==
  /\ At(c, "marked")
  /\ BeginDelivery(Work(c), c, now)
  /\ GoTo(c, "begun")
  /\ UNCHANGED <<clientVars, child>>

\* beginDelivery throws: the lease has run out or is someone else's.
BeginThrows(c) ==
  /\ At(c, "marked")
  /\ ~OwnedInFlight(Work(c), c, now, {"leased"})
  /\ Throw(c, "unwinding")
  /\ UNCHANGED <<vars, clientVars, child>>

\* waitForOutcome: the monitor checks the attempt, then the child is spawned.
Spawn(c) ==
  /\ At(c, "begun")
  /\ message[Work(c)].attemptCount = Number(c)
  /\ child' = [child EXCEPT ![Work(c)][Number(c)] = [NoChild EXCEPT !.stage = "spawned"]]
  /\ GoTo(c, "waiting")
  /\ UNCHANGED <<vars, clientVars>>

SpawnThrows(c) ==
  /\ At(c, "begun")
  /\ message[Work(c)].attemptCount # Number(c)
  /\ Throw(c, "unwinding")
  /\ UNCHANGED <<vars, clientVars, child>>

-----------------------------------------------------------------------------
(***************************************************************************)
(* The Codex child and its hooks.                                          *)
(***************************************************************************)
Stage(m, n) == child[m][n].stage

Becomes(m, n, stage) == child' = [child EXCEPT ![m][n].stage = stage]

\* SessionStart: the session is the child's, and the worker idle.
ChildSessionStart(m, n) ==
  /\ Stage(m, n) = "spawned"
  /\ Sessions!RegisterSession(Recipient[m], TRUE, now)
  /\ SetAvailability(Recipient[m], "idle", "none", now)
  /\ Becomes(m, n, "started")
  /\ UNCHANGED <<flock, terminal, runner>>

\* The interruption reported last; the numbers of reports only grow.
SafeRetryAuthorized(m) ==
  \E k \in Reports :
    /\ State(m) = "delivering"
    /\ Reported(k, m, message[m].attemptCount - 1)
    /\ interruption[k].disposition = "retry_safe"

\* UserPromptSubmit of a handoff, as far as it only reads.
HookAccepts(m, n) ==
  /\ message[m].attemptCount = n
  /\ m \in receipts => SafeRetryAuthorized(m)

PromptChecked(m, n) ==
  /\ Stage(m, n) = "started"
  /\ HookAccepts(m, n)
  /\ child' = [child EXCEPT ![m][n] = [@ EXCEPT !.stage = "checked", !.observedAt = now]]
  /\ UNCHANGED <<vars, clientVars, runner>>

PromptBlocked(m, n) ==
  /\ Stage(m, n) = "started"
  /\ ~HookAccepts(m, n)
  /\ Becomes(m, n, "blocked")
  /\ UNCHANGED <<vars, clientVars, runner>>

\* startTurn and setWorkerAvailability, with the time the prompt was observed.
TurnRecorded(m, n) ==
  LET at == child[m][n].observedAt
  IN  /\ Stage(m, n) = "checked"
      /\ Sessions!StartTurn(Recipient[m], <<m, n>>, at)
      /\ SetAvailability(Recipient[m], "busy", "none", at)
      /\ Becomes(m, n, "admitted")
      /\ UNCHANGED <<flock, terminal, runner>>

\* recordReceipt; a message that has been accepted is left as it is.
ReceiptRecorded(m, n) ==
  /\ Stage(m, n) = "admitted"
  /\ \/ RecordReceipt(m)
     \/ State(m) \in Accepted /\ UNCHANGED vars
  /\ Becomes(m, n, "working")
  /\ UNCHANGED <<clientVars, runner>>

ReceiptRefused(m, n) ==
  /\ Stage(m, n) = "admitted"
  /\ State(m) \notin Accepted \cup {"delivering"}
  /\ Becomes(m, n, "blocked")
  /\ UNCHANGED <<vars, clientVars, runner>>

ModelWorks(m, n) ==
  /\ Stage(m, n) = "working" /\ ~child[m][n].worked
  /\ child' = [child EXCEPT ![m][n].worked = TRUE]
  /\ UNCHANGED <<vars, clientVars, runner>>

\* The Stop hook, then turn.completed.
TurnStops(m, n) ==
  /\ Stage(m, n) = "working"
  /\ Sessions!FinishTurn(Recipient[m], <<m, n>>, now)
  /\ IF Sessions!Matched(Recipient[m], <<m, n>>, now)
     THEN SetAvailability(Recipient[m], "idle", "none", now)
     ELSE UNCHANGED <<vars, reason>>
  /\ Becomes(m, n, "stopped")
  /\ UNCHANGED <<flock, terminal, runner>>

\* turn.failed, or an error that will not be retried.
TurnFails(m, n) ==
  /\ Stage(m, n) \in {"spawned", "started", "working"}
  /\ \E event \in {"transient", "broken"} : Becomes(m, n, event)
  /\ UNCHANGED <<vars, clientVars, runner>>

\* What a child makes of a prompt that its hook blocked is not documented.
BlockedTurnCompletes(m, n) ==
  /\ Stage(m, n) = "blocked"
  /\ Becomes(m, n, "hollow")
  /\ UNCHANGED <<vars, clientVars, runner>>

Undecided == {"spawned", "started", "checked", "admitted", "working", "blocked"}

\* The child is gone without a terminal event, the hook it ran with it.
ChildDies(m, n) ==
  /\ Stage(m, n) \in Undecided
  /\ Becomes(m, n, "gone")
  /\ UNCHANGED <<vars, clientVars, runner>>

-----------------------------------------------------------------------------
(***************************************************************************)
(* The runner reads the child's stream (consume) and waits for its end.    *)
(***************************************************************************)
Keep(c, m) ==
  /\ At(c, "waiting") \/ At(c, "closing")
  /\ State(m) = "delivering" /\ message[m].owner = c

\* The timer of #withLeaseRenewal.
KeepLease(c) ==
  /\ Keep(c, Work(c))
  /\ RenewLease(Work(c), c, now)
  /\ UNCHANGED <<clientVars, runner, child>>

Dies(c) ==
  /\ Crash(c)
  /\ flock' = Client!LocksAfterDeath(c)
  /\ UNCHANGED <<reason, session, terminal, runner, child>>

\* A timer that runs after the lease has run out throws, out of every catch.
RenewsTooLate(c) ==
  /\ Keep(c, Work(c))
  /\ message[Work(c)].expiry <= now
  /\ Dies(c)

Completion == {"stopped", "hollow"}
Failure == {"transient", "broken"}

EventCompleted(c) ==
  /\ At(c, "waiting")
  /\ ChildOf(c).stage \in Completion
  /\ \/ Acknowledge(Work(c)) /\ GoTo(c, "acknowledged")
     \/ Complete(Work(c)) /\ GoTo(c, "closing")
     \/ State(Work(c)) = "completed" /\ UNCHANGED vars /\ GoTo(c, "closing")
     \/ /\ State(Work(c)) \notin Accepted
        /\ UNCHANGED vars /\ Throw(c, "closing")
  /\ UNCHANGED <<clientVars, child>>

CompletesMessage(c) ==
  /\ At(c, "acknowledged")
  /\ \/ Complete(Work(c)) /\ GoTo(c, "closing")
     \/ State(Work(c)) = "completed" /\ UNCHANGED vars /\ GoTo(c, "closing")
     \/ /\ State(Work(c)) \notin {"acknowledged", "completed"}
        /\ UNCHANGED vars /\ Throw(c, "closing")
  /\ UNCHANGED <<clientVars, child>>

\* A slip: a transient failure is retried whatever the model had done.
RetrySafeIfTransient(c) == ChildOf(c).stage = "transient"

RetrySafe(c) == ChildOf(c).stage = "transient" /\ ~ChildOf(c).worked

EventFailed(c) ==
  LET key == StreamKey(Work(c), Number(c))
  IN  /\ At(c, "waiting")
      /\ ChildOf(c).stage \in Failure
      /\ \/ /\ RetrySafe(c)
            /\ \E delay \in Delays : ReportRetrySafe(key, Work(c), now, delay)
            /\ GoTo(c, "closing")
         \/ /\ ~RetrySafe(c)
            /\ ReportEscalated(key, Work(c))
            /\ GoTo(c, "closing")
         \/ /\ State(Work(c)) \notin {"receipted", "acknowledged"}
            /\ UNCHANGED vars /\ Throw(c, "closing")
      /\ UNCHANGED <<clientVars, child>>

\* The child has closed its streams, after the event that was consumed.
ChildCloses(c) ==
  /\ At(c, "closing")
  /\ Becomes(Work(c), Number(c), IF ChildOf(c).stage = "stopped" THEN "done" ELSE "gone")
  /\ GoTo(c, "unwinding")
  /\ UNCHANGED <<vars, clientVars>>

NoTerminalEvent(c) ==
  /\ At(c, "waiting")
  /\ ChildOf(c).stage = "gone"
  /\ Throw(c, "unwinding")
  /\ UNCHANGED <<vars, clientVars, child>>


-----------------------------------------------------------------------------
(***************************************************************************)
(* The ways out of deliverOnce.                                            *)
(***************************************************************************)
\* A return passes through the finally clause while the lock is held; a throw
\* also goes on to #fail.
Leave(c) == IF flock[Worker(c)] = c THEN GoTo(c, "unwinding") ELSE Return(c)

LeaveThrowing(c) ==
  IF flock[Worker(c)] = c THEN Throw(c, "unwinding") ELSE GoTo(c, "failing")

\* A slip: the finally clause only releases the lock.
UnwindLeavingMark(c) ==
  /\ At(c, "unwinding")
  /\ Client!Release(Worker(c))
  /\ IF runner[c].threw THEN GoTo(c, "failing") ELSE Return(c)
  /\ UNCHANGED <<vars, reason, session, terminal, child>>

\* The finally clause: the mark is cleared if it is still there, then the
\* lock is released, and only then does the catch clause run.
Unwind(c) ==
  /\ At(c, "unwinding")
  /\ IF reason[Worker(c)] = "automated"
     THEN SetAvailability(Worker(c), "idle", "none", now)
     ELSE UNCHANGED <<vars, reason>>
  /\ Client!Release(Worker(c))
  /\ IF runner[c].threw THEN GoTo(c, "failing") ELSE Return(c)
  /\ UNCHANGED <<session, terminal, child>>

\* #defer: the attempt fails and the message is queued again.
DeferFails(c) ==
  /\ At(c, "deferring")
  /\ Fail(Work(c), c, now)
  /\ GoTo(c, "retrying")
  /\ UNCHANGED <<clientVars, child>>

DeferRetries(c) ==
  /\ At(c, "retrying")
  /\ \E delay \in Delays : Retry(Work(c), now, delay)
  /\ Leave(c)
  /\ UNCHANGED <<clientVars, child>>

DeferNothing(c) ==
  /\ At(c, "deferring")
  /\ State(Work(c)) \notin InFlight
  /\ Leave(c)
  /\ UNCHANGED <<vars, clientVars, child>>

DeferThrows(c) ==
  /\ \/ /\ At(c, "deferring")
        /\ State(Work(c)) \in InFlight
        /\ ~OwnedInFlight(Work(c), c, now, InFlight)
     \/ At(c, "retrying") /\ State(Work(c)) # "failed"
  /\ LeaveThrowing(c)
  /\ UNCHANGED <<vars, clientVars, child>>

\* #fail of a message that was completed, or accepted, by whatever attempt.
FailAccepted(c) ==
  /\ At(c, "failing")
  /\ \/ State(Work(c)) = "completed" /\ UNCHANGED vars
     \/ ReportEscalated(UnclassifiedKey(Work(c), Number(c)), Work(c))
  /\ Return(c)
  /\ UNCHANGED <<clientVars, child>>

\* #fail of the attempt this runner holds.
FailOwn(c) ==
  /\ At(c, "failing")
  /\ Fail(Work(c), c, now)
  /\ GoTo(c, "escalating")
  /\ UNCHANGED <<clientVars, child>>

\* queue.fail throws out of the catch clause: the lease is over, although
\* nobody has taken it yet.  The process ends.
FailThrows(c) ==
  /\ At(c, "failing")
  /\ State(Work(c)) \in InFlight /\ message[Work(c)].owner = c
  /\ message[Work(c)].expiry <= now
  /\ Dies(c)

FailForeign(c) ==
  /\ At(c, "failing")
  /\ State(Work(c)) \notin {"receipted", "acknowledged", "completed"}
  /\ message[Work(c)].owner # c
  /\ GoTo(c, "escalating")
  /\ UNCHANGED <<vars, clientVars, child>>

\* A slip: the dedupe key of the escalation does not name the attempt.
EscalateOnce(c) ==
  LET key == FailureKey(Work(c), 1)
  IN  /\ At(c, "escalating")
      /\ \/ CreateEscalation(key)
         \/ escalation[key] # "absent" /\ UNCHANGED vars
      /\ Return(c)
      /\ UNCHANGED <<clientVars, child>>

\* createEscalation; under a dedupe key that is taken it changes nothing.
Escalate(c) ==
  LET key == FailureKey(Work(c), Number(c))
  IN  /\ At(c, "escalating")
      /\ \/ CreateEscalation(key)
         \/ escalation[key] # "absent" /\ UNCHANGED vars
      /\ Return(c)
      /\ UNCHANGED <<clientVars, child>>

CrashRunner(c) == alive # {c} /\ Dies(c)

-----------------------------------------------------------------------------
(***************************************************************************)
(* The operator: `party agent`, tmux, the dispatcher commands.             *)
(***************************************************************************)
UserAttaches(a) ==
  /\ Client!TryAcquire(a, User)
  /\ Client!StartAndAttach(a)
  /\ UNCHANGED <<vars, reason, session, runner, child>>

\* `tmux attach`, without the lock.
UserAttachesByHand(a) ==
  /\ Client!HasSession(a) /\ flock[a] # User /\ ~terminal[a].attached
  /\ Client!StartAndAttach(a)
  /\ UNCHANGED <<vars, reason, session, flock, runner, child>>

\* The client detaches, or its Codex has ended or was stopped.
UserLeaves(a) ==
  /\ terminal[a].attached \/ flock[a] = User
  /\ terminal' = [terminal EXCEPT ![a].attached = FALSE]
  /\ flock' = [flock EXCEPT ![a] = IF @ = User THEN NoConsumer ELSE @]
  /\ UNCHANGED <<vars, reason, session, runner, child>>

UserSessionStart(a) ==
  /\ terminal[a].codex = "starting"
  /\ Sessions!RegisterSession(a, TRUE, now)
  /\ SetAvailability(a, "idle", "none", now)
  /\ terminal' = [terminal EXCEPT ![a].codex = "quiet"]
  /\ UNCHANGED <<flock, runner, child>>

UserPrompts(a) ==
  /\ Client!HasAttachedClient(a) /\ terminal[a].codex = "quiet"
  /\ Sessions!StartTurn(a, User, now)
  /\ SetAvailability(a, "busy", "none", now)
  /\ terminal' = [terminal EXCEPT ![a].codex = "turn"]
  /\ UNCHANGED <<flock, runner, child>>

UserTurnStops(a) ==
  /\ terminal[a].codex = "turn"
  /\ Sessions!FinishTurn(a, User, now)
  /\ IF Sessions!Matched(a, User, now)
     THEN SetAvailability(a, "idle", "none", now)
     ELSE UNCHANGED <<vars, reason>>
  /\ terminal' = [terminal EXCEPT ![a].codex = "quiet"]
  /\ UNCHANGED <<flock, runner, child>>

\* `party configure`
Configure(a) ==
  /\ Sessions!ConfigureWorker(a)
  /\ SetAvailability(a, "asleep", "none", now)
  /\ UNCHANGED <<flock, terminal, runner, child>>

OperatorQueues(m) ==
  /\ message[m].attemptCount < MaxAttempts
  /\ \E delay \in Delays : Enqueue(m, now, delay) \/ Retry(m, now, delay)
  /\ UNCHANGED <<clientVars, runner, child>>

TimePasses ==
  /\ Tick
  /\ UNCHANGED <<clientVars, runner, child>>

-----------------------------------------------------------------------------
RunnerStep(c) ==
  \/ SyncRequeues(c) \/ SyncAvailability(c) \/ Claim(c) \/ NothingToDeliver(c)
  \/ AcquireLock(c) \/ LockIsHeld(c) \/ LockFails(c)
  \/ DeferToAttached(c) \/ MarkAutomated(c) \/ StopDetached(c)
  \/ Begin(c) \/ BeginThrows(c) \/ Spawn(c) \/ SpawnThrows(c)
  \/ EventCompleted(c) \/ CompletesMessage(c) \/ EventFailed(c)
  \/ ChildCloses(c) \/ NoTerminalEvent(c) \/ Unwind(c)
  \/ DeferFails(c) \/ DeferRetries(c) \/ DeferNothing(c) \/ DeferThrows(c)
  \/ FailAccepted(c) \/ FailOwn(c) \/ FailThrows(c) \/ FailForeign(c) \/ Escalate(c)

ChildStep(m, n) ==
  \/ ChildSessionStart(m, n) \/ PromptChecked(m, n) \/ PromptBlocked(m, n)
  \/ TurnRecorded(m, n) \/ ReceiptRecorded(m, n) \/ ReceiptRefused(m, n)
  \/ ModelWorks(m, n) \/ TurnStops(m, n) \/ TurnFails(m, n)
  \/ BlockedTurnCompletes(m, n) \/ ChildDies(m, n)

UserStep(a) ==
  \/ UserAttaches(a) \/ UserAttachesByHand(a) \/ UserLeaves(a)
  \/ UserSessionStart(a) \/ UserPrompts(a) \/ UserTurnStops(a) \/ Configure(a)

CoordinatorNext ==
  \/ \E c \in Consumers : RunnerStep(c) \/ KeepLease(c) \/ RenewsTooLate(c) \/ CrashRunner(c)
  \/ \E m \in Messages, n \in Numbers : ChildStep(m, n)
  \/ \E a \in Agents : UserStep(a)
  \/ \E m \in Messages : OperatorQueues(m)
  \/ TimePasses

CoordinatorSpec == CoordinatorInit /\ [][CoordinatorNext]_coordinatorVars

-----------------------------------------------------------------------------
(***************************************************************************)
(* Properties.                                                             *)
(***************************************************************************)
Runs(c, m, n) == c \in alive /\ runner[c].message = m /\ runner[c].number = n

\* The runner that started the child lives; otherwise the child is an orphan.
Attended(m, n) == \E c \in Consumers : Runs(c, m, n)

Live(m, n) == Stage(m, n) \notin {"none", "done", "gone"}

\* While a Codex child lives and its runner with it, the worker's lock is that
\* runner's: no second runner and no `party agent` resumes the session next to
\* it, not even after the child's terminal event (deliverOnce releases the
\* lock in a finally clause that waits for the child to close).
LockCoversChild ==
  \A m \in Messages, n \in Numbers, c \in Consumers :
    Live(m, n) /\ Runs(c, m, n) => flock[Recipient[m]] = c

\* As long as no runner dies, a worker is marked as owned by an automated turn
\* only while a runner holds its lock: the mark that keeps the operator's
\* messages waiting is not left behind on any way out of deliverOnce.
MarkFollowsLock ==
  \A a \in Agents :
    reason[a] = "automated" /\ alive = Consumers => flock[a] \in Consumers

\* A turn that was accepted under its own attempt and in which the model did
\* something is followed by another turn of the message at work only after a
\* retry_safe report about an attempt in between, whatever runners, operator
\* retries and late hooks do: never by the next attempt (reportTurnInterruption's
\* retry_safe, and the hook's authorizedSafeRetry).  There can be such a report
\* in between: the hook asks about the previous attempt alone, and an attempt
\* accepted by the late hook of an orphan counts as one whose turn ran.
WorkedTurnNotReplayed ==
  \A m \in Messages, n \in Numbers, later \in Numbers :
    /\ n < later /\ child[m][n].worked /\ child[m][later].worked
    /\ attempt[m][n].outcome = "receipted"
    => \E k \in Reports, between \in Numbers :
         /\ n < between /\ between < later
         /\ Reported(k, m, between) /\ interruption[k].disposition = "retry_safe"

\* A turn at work whose runner lives has the message: it is accepted, unless a
\* report that names this very attempt has ended it, also when a runner with
\* an older attempt reports late (#fail looks at the message's state alone).
TurnKeepsMessage ==
  \A m \in Messages, n \in Numbers :
    Stage(m, n) = "working" /\ Attended(m, n) =>
      State(m) \in Accepted \/ \E k \in Reports : Reported(k, m, n)

\* A runner that has failed a message and has not yet said so, or has died
\* before it could: #defer and #fail use two transactions.
Untold(m) ==
  \E c \in Consumers :
    runner[c].message = m /\ runner[c].stage \in {"retrying", "escalating"}

\* Every failed message has an escalation about its last attempt: the only
\* silent failures are those of a runner that died between two transactions.
FailureIsSurfaced ==
  \A m \in Messages : State(m) = "failed" =>
    \/ escalation[FailureKey(m, message[m].attemptCount)] # "absent"
    \/ \E k \in Reports : /\ Reported(k, m, message[m].attemptCount)
                          /\ interruption[k].disposition = "escalated"
    \/ Untold(m)

\* As long as no runner dies, a message is completed only because a turn about
\* it was accepted and ran to its end: not on the answer to a prompt that a hook
\* blocked, nor on the answer of another attempt (an orphan's receipt lets the
\* next, blocked attempt complete the message, hence the condition).
CompletionMeansWork ==
  \A m \in Messages : alive = Consumers /\ State(m) = "completed" =>
    \E n \in Numbers : Stage(m, n) \in {"stopped", "done"}
=============================================================================
