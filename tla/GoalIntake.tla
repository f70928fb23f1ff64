------------------------------ MODULE GoalIntake ------------------------------
(***************************************************************************)
(* What the goal loop takes from GitHub and leaves there, for one goal:    *)
(* GoalGitHubPoller and GhProjectGoalSource (dispatcher/goal-github.ts),   *)
(* the external wait around a poll (dispatcher/party.ts, runGoalLoop) and  *)
(* the coordination lock (dispatcher/goal-context.ts).                     *)
(*                                                                         *)
(* A poller is a dispatcher process; several may run on one database.  It  *)
(* reads the board, provisions a context for a goal that is active and has *)
(* none, writes the context into the fields of the board's item, under the *)
(* lock, and records the goal's events one by one.  A request to GitHub is *)
(* one action; it may fail, a poller may die between any two, and people   *)
(* move the goal on the board meanwhile.                                   *)
(*                                                                         *)
(* GoalRuntime models what a poll does to the state of the context, and    *)
(* GoalRunner what becomes of the events.                                  *)
(***************************************************************************)
EXTENDS Naturals, FiniteSets

CONSTANTS
  Pollers,        \* dispatcher processes
  GoalEvents,     \* the events of the goal, by source_id
  MaxBoardMoves,  \* bound: moves of the goal by people
  IntakeFaults    \* bound: requests that fail and pollers that die

\* Owners of the lock that are no pollers: see coordination.
Nobody == "nobody"
Gone == "gone"

ASSUME IntakeAssumption ==
  /\ Nobody \notin Pollers /\ Gone \notin Pollers
  /\ MaxBoardMoves \in Nat /\ IntakeFaults \in Nat

VARIABLES
  goalContext,   \* its row: none, one without a URL, or one with a URL
  board,         \* the item of the goal: its state, and what the fields say
  created,       \* how often the project's fields have been created
  coordination,  \* the row of the lock github-project-context-fields: its owner is a poller
                 \* by the name it has for one poll; of one that died only the row is left
  wait,          \* the goal_external_waits row; a count of 0 is no row
  goalEvents,    \* the events that are recorded
  published,     \* the events that GitHub shows
  poll,          \* where each poller is
  boardMoves, intakeFaults  \* bounds: see the constants

intakeVars == <<goalContext, board, created, coordination, wait, goalEvents, published,
                poll, boardMoves, intakeFaults>>

ContextStates == {"absent", "bare", "routed"}

\* Ready and In Progress are active; Backlog and Done are closed.
BoardItem == [state : {"active", "human", "closed"}, id : BOOLEAN, url : BOOLEAN]

PollStages ==
  {"idle", "listing", "goal", "mapped", "locking", "fields", "create", "writeId", "writeUrl",
   "writeState", "release", "events", "recording", "closing"}

(***************************************************************************)
(* A poll: the board it has listed, the context it has read, where it goes *)
(* on after recording the context, the events still to record, whether a   *)
(* failure is worth a wait, the failures counted before it, and whether it *)
(* has held the lock for longer than the lock lasts.                       *)
(***************************************************************************)
Poll ==
  [at : PollStages, listed : BoardItem, context : ContextStates,
   then : {"mapped", "events"}, todo : SUBSET GoalEvents,
   failure : {"none", "transient", "other"}, prior : 0..IntakeFaults, overran : BOOLEAN]

IdlePoll ==
  [at |-> "idle", listed |-> [state |-> "closed", id |-> FALSE, url |-> FALSE],
   context |-> "absent", then |-> "mapped", todo |-> {}, failure |-> "none", prior |-> 0,
   overran |-> FALSE]

IntakeTypeOK ==
  /\ goalContext \in ContextStates
  /\ board \in BoardItem
  /\ created \in Nat
  /\ coordination \in [owner : Pollers \cup {Nobody, Gone}, lapsed : BOOLEAN]
  /\ wait \in [count : 0..IntakeFaults, due : BOOLEAN]
  /\ goalEvents \subseteq published /\ published \subseteq GoalEvents
  /\ poll \in [Pollers -> Poll]
  /\ boardMoves \in 0..MaxBoardMoves /\ intakeFaults \in 0..IntakeFaults

IntakeInit ==
  /\ goalContext = "absent"
  /\ board \in [state : {"active", "human", "closed"}, id : {FALSE}, url : {FALSE}]
  /\ created = 0
  /\ coordination = [owner |-> Nobody, lapsed |-> FALSE]
  /\ wait = [count |-> 0, due |-> TRUE]
  /\ goalEvents = {} /\ published \in SUBSET GoalEvents
  /\ poll = [p \in Pollers |-> IdlePoll]
  /\ boardMoves \in 0..MaxBoardMoves /\ intakeFaults \in 0..IntakeFaults

PollAt(p, stage) == poll[p].at = stage

PollBecomes(p, next) == poll' = [poll EXCEPT ![p] = next]

PollGoes(p, stage) == PollBecomes(p, [poll[p] EXCEPT !.at = stage])

Writing == {"fields", "create", "writeId", "writeUrl", "writeState"}

IsWriting(p) == poll[p].at \in Writing

-----------------------------------------------------------------------------
(***************************************************************************)
(* The loop around a poll: it waits while an earlier failure is not due.   *)
(***************************************************************************)
BeginPoll(p) ==
  /\ PollAt(p, "idle")
  /\ wait.due
  /\ PollBecomes(p, [IdlePoll EXCEPT !.at = "listing", !.prior = wait.count])
  /\ UNCHANGED <<goalContext, board, created, coordination, wait, goalEvents, published,
                 boardMoves, intakeFaults>>

\* A slip: a poll that succeeds does not end a wait.
WaitAnyway(p) == [count |-> poll[p].prior + 1, due |-> FALSE]

NextWait(p) ==
  IF poll[p].failure = "transient" THEN [count |-> poll[p].prior + 1, due |-> FALSE]
  ELSE [count |-> 0, due |-> TRUE]

EndPoll(p) ==
  /\ PollAt(p, "closing")
  /\ wait' = NextWait(p)
  /\ PollBecomes(p, IdlePoll)
  /\ UNCHANGED <<goalContext, board, created, coordination, goalEvents, published,
                 boardMoves, intakeFaults>>

-----------------------------------------------------------------------------
ListGoals(p) ==
  /\ PollAt(p, "listing")
  /\ PollBecomes(p, [poll[p] EXCEPT !.at = "goal", !.listed = board])
  /\ UNCHANGED <<goalContext, board, created, coordination, wait, goalEvents, published,
                 boardMoves, intakeFaults>>

GetContext(p) ==
  /\ PollAt(p, "goal")
  /\ goalContext # "absent"
  /\ PollBecomes(p, [poll[p] EXCEPT !.at = "mapped", !.context = goalContext])
  /\ UNCHANGED <<goalContext, board, created, coordination, wait, goalEvents, published,
                 boardMoves, intakeFaults>>

\* provisionGoal: the runtime it starts gives the context its URL.
Provision(p) ==
  /\ PollAt(p, "goal")
  /\ goalContext = "absent" /\ poll[p].listed.state = "active"
  /\ goalContext' = "routed"
  /\ PollBecomes(p, [poll[p] EXCEPT !.at = "locking", !.context = "routed", !.then = "mapped"])
  /\ UNCHANGED <<board, created, coordination, wait, goalEvents, published,
                 boardMoves, intakeFaults>>

\* Without a context, a goal that is not active is skipped.
SkipGoal(p) ==
  /\ PollAt(p, "goal")
  /\ goalContext = "absent" /\ poll[p].listed.state # "active"
  /\ PollGoes(p, "closing")
  /\ UNCHANGED <<goalContext, board, created, coordination, wait, goalEvents, published,
                 boardMoves, intakeFaults>>

\* A slip: a URL that the board does not show is not noticed.
IdIsRecorded(p) == poll[p].listed.id

IsRecorded(p) ==
  poll[p].listed.id /\ (poll[p].listed.url <=> poll[p].context = "routed")

\* A closed goal is left alone; the context of an active one is written into the
\* board's fields unless the board showed it when it was listed.
MapState(p) ==
  /\ PollAt(p, "mapped")
  /\ PollBecomes(p, [poll[p] EXCEPT
       !.at = CASE poll[p].listed.state = "closed" -> "closing"
                [] poll[p].listed.state = "active" /\ ~IsRecorded(p) -> "locking"
                [] OTHER -> "events",
       !.then = "events"])
  /\ UNCHANGED <<goalContext, board, created, coordination, wait, goalEvents, published,
                 boardMoves, intakeFaults>>

-----------------------------------------------------------------------------
(***************************************************************************)
(* recordContext, under the coordination lock.  A poller that does not get *)
(* the lock goes on without it.                                            *)
(***************************************************************************)
LockIsFree == coordination.owner = Nobody \/ coordination.lapsed

TryLock(p) ==
  /\ PollAt(p, "locking")
  /\ IF LockIsFree
     THEN /\ coordination' = [owner |-> p, lapsed |-> FALSE]
          /\ PollGoes(p, "fields")
     ELSE /\ UNCHANGED coordination
          /\ PollGoes(p, poll[p].then)
  /\ UNCHANGED <<goalContext, board, created, wait, goalEvents, published,
                 boardMoves, intakeFaults>>

ReadFields(p) ==
  /\ PollAt(p, "fields")
  /\ PollGoes(p, IF created = 0 THEN "create" ELSE "writeId")
  /\ UNCHANGED <<goalContext, board, created, coordination, wait, goalEvents, published,
                 boardMoves, intakeFaults>>

CreateFields(p) ==
  /\ PollAt(p, "create")
  /\ created' = created + 1
  /\ PollGoes(p, "writeId")
  /\ UNCHANGED <<goalContext, board, coordination, wait, goalEvents, published,
                 boardMoves, intakeFaults>>

WriteId(p) ==
  /\ PollAt(p, "writeId")
  /\ board' = [board EXCEPT !.id = TRUE]
  /\ PollGoes(p, IF poll[p].context = "routed" THEN "writeUrl" ELSE "writeState")
  /\ UNCHANGED <<goalContext, created, coordination, wait, goalEvents, published,
                 boardMoves, intakeFaults>>

WriteUrl(p) ==
  /\ PollAt(p, "writeUrl")
  /\ board' = [board EXCEPT !.url = TRUE]
  /\ PollGoes(p, "writeState")
  /\ UNCHANGED <<goalContext, created, coordination, wait, goalEvents, published,
                 boardMoves, intakeFaults>>

\* In Progress, whatever the board says by now.
WriteState(p) ==
  /\ PollAt(p, "writeState")
  /\ board' = [board EXCEPT !.state = "active"]
  /\ PollGoes(p, "release")
  /\ UNCHANGED <<goalContext, created, coordination, wait, goalEvents, published,
                 boardMoves, intakeFaults>>

\* A slip: the row is deleted by the name of the lock alone.
ReleaseByName(p) == coordination' = [owner |-> Nobody, lapsed |-> FALSE]

\* releaseCoordinationLock: WHERE name = ? AND owner = ?
Release(p) ==
  coordination' =
    IF coordination.owner = p THEN [owner |-> Nobody, lapsed |-> FALSE] ELSE coordination

\* The lock is released whether the fields were written or a request failed.
EndRecord(p) ==
  /\ PollAt(p, "release")
  /\ Release(p)
  /\ PollBecomes(p, [poll[p] EXCEPT !.overran = FALSE,
       !.at = IF poll[p].failure = "none" THEN poll[p].then ELSE "closing"])
  /\ UNCHANGED <<goalContext, board, created, wait, goalEvents, published,
                 boardMoves, intakeFaults>>

-----------------------------------------------------------------------------
ListEvents(p) ==
  /\ PollAt(p, "events")
  /\ PollBecomes(p, [poll[p] EXCEPT !.at = "recording", !.todo = published])
  /\ UNCHANGED <<goalContext, board, created, coordination, wait, goalEvents, published,
                 boardMoves, intakeFaults>>

\* A slip: the rest is taken for known after the first event that is.
RestAfter(p, e) == IF e \in goalEvents THEN {} ELSE poll[p].todo \ {e}

Rest(p, e) == poll[p].todo \ {e}

RecordEvent(p) ==
  /\ PollAt(p, "recording")
  /\ \E e \in poll[p].todo :
       /\ goalEvents' = goalEvents \cup {e}
       /\ PollBecomes(p, [poll[p] EXCEPT !.todo = Rest(p, e)])
  /\ UNCHANGED <<goalContext, board, created, coordination, wait, published,
                 boardMoves, intakeFaults>>

AllRecorded(p) ==
  /\ PollAt(p, "recording")
  /\ poll[p].todo = {}
  /\ PollGoes(p, "closing")
  /\ UNCHANGED <<goalContext, board, created, coordination, wait, goalEvents, published,
                 boardMoves, intakeFaults>>

-----------------------------------------------------------------------------
(***************************************************************************)
(* Failures.  A failed poll of the board, and one of isTransient... in its *)
(* message, make the loop wait; another one does not.                      *)
(***************************************************************************)
IntakeFails ==
  /\ intakeFaults < IntakeFaults
  /\ intakeFaults' = intakeFaults + 1

RequestFails(p) ==
  /\ poll[p].at \in Writing \cup {"listing", "events"}
  /\ IntakeFails
  /\ \E failure \in {"transient", "other"} :
       /\ PollAt(p, "listing") => failure = "transient"
       /\ PollBecomes(p, [poll[p] EXCEPT !.failure = failure,
            !.at = IF IsWriting(p) THEN "release" ELSE "closing"])
  /\ UNCHANGED <<goalContext, board, created, coordination, wait, goalEvents, published, boardMoves>>

\* The context is there, but its runtime has not come up.
ProvisionFails(p) ==
  /\ PollAt(p, "goal")
  /\ goalContext = "absent" /\ poll[p].listed.state = "active"
  /\ IntakeFails
  /\ goalContext' \in {"absent", "bare"}
  /\ PollBecomes(p, [poll[p] EXCEPT !.at = "closing", !.failure = "other"])
  /\ UNCHANGED <<board, created, coordination, wait, goalEvents, published, boardMoves>>

PollerDies(p) ==
  /\ ~PollAt(p, "idle")
  /\ IntakeFails
  /\ PollBecomes(p, IdlePoll)
  /\ coordination' = [coordination EXCEPT !.owner = IF @ = p THEN Gone ELSE @]
  /\ UNCHANGED <<goalContext, board, created, wait, goalEvents, published, boardMoves>>

-----------------------------------------------------------------------------
(***************************************************************************)
(* Time, people and the rest of the loop.                                  *)
(***************************************************************************)

\* Sixty seconds pass for a poller that writes.
Overrun(p) ==
  /\ IsWriting(p)
  /\ ~poll[p].overran
  /\ PollBecomes(p, [poll[p] EXCEPT !.overran = TRUE])
  /\ coordination' = [coordination EXCEPT !.lapsed = @ \/ coordination.owner = p]
  /\ UNCHANGED <<goalContext, board, created, wait, goalEvents, published,
                 boardMoves, intakeFaults>>

\* They pass for the row that a dead poller has left.
Lapse ==
  /\ coordination.owner = Gone
  /\ ~coordination.lapsed
  /\ coordination' = [coordination EXCEPT !.lapsed = TRUE]
  /\ UNCHANGED <<goalContext, board, created, wait, goalEvents, published, poll,
                 boardMoves, intakeFaults>>

\* next_attempt_at is reached: boundedGitHubBackoff
Due ==
  /\ ~wait.due
  /\ wait' = [wait EXCEPT !.due = TRUE]
  /\ UNCHANGED <<goalContext, board, created, coordination, goalEvents, published, poll,
                 boardMoves, intakeFaults>>

\* The loop starts the runtime of a context whose first start has failed.
RouteContext ==
  /\ goalContext = "bare"
  /\ goalContext' = "routed"
  /\ UNCHANGED <<board, created, coordination, wait, goalEvents, published, poll,
                 boardMoves, intakeFaults>>

MoveGoal ==
  /\ boardMoves < MaxBoardMoves
  /\ boardMoves' = boardMoves + 1
  /\ \E state \in {"active", "human", "closed"} \ {board.state} :
       board' = [board EXCEPT !.state = state]
  /\ UNCHANGED <<goalContext, created, coordination, wait, goalEvents, published, poll, intakeFaults>>

Publish(e) ==
  /\ e \notin published
  /\ published' = published \cup {e}
  /\ UNCHANGED <<goalContext, board, created, coordination, wait, goalEvents, poll,
                 boardMoves, intakeFaults>>

-----------------------------------------------------------------------------
PollStep(p) ==
  \/ BeginPoll(p) \/ ListGoals(p) \/ GetContext(p) \/ Provision(p) \/ SkipGoal(p)
  \/ MapState(p) \/ TryLock(p) \/ ReadFields(p) \/ CreateFields(p) \/ WriteId(p)
  \/ WriteUrl(p) \/ WriteState(p) \/ EndRecord(p) \/ ListEvents(p) \/ RecordEvent(p)
  \/ AllRecorded(p) \/ EndPoll(p)

TimePasses == Lapse \/ Due \/ RouteContext

IntakeNext ==
  \/ \E p \in Pollers : PollStep(p) \/ RequestFails(p) \/ ProvisionFails(p) \/ PollerDies(p)
                          \/ Overrun(p)
  \/ TimePasses
  \/ MoveGoal
  \/ \E e \in GoalEvents : Publish(e)

\* A dispatcher loops and is restarted; a lock lapses and a wait becomes due.
IntakeFairness ==
  /\ \A p \in Pollers : WF_intakeVars(PollStep(p))
  /\ WF_intakeVars(Lapse) /\ WF_intakeVars(Due) /\ WF_intakeVars(RouteContext)

IntakeSpec == IntakeInit /\ [][IntakeNext]_intakeVars /\ IntakeFairness

-----------------------------------------------------------------------------
(***************************************************************************)
(* Properties.                                                             *)
(***************************************************************************)

\* Two pollers write the project's fields at once only if one of them takes
\* longer than its lock lasts; one that does, and ends, does not let a third in.
OneWriterWithinLease ==
  \A p, q \in Pollers :
    p # q /\ IsWriting(p) /\ IsWriting(q) => poll[p].overran \/ poll[q].overran

\* The board shows the context of a goal that stays active in the end, although
\* a poller goes on without the lock when another one holds it, may die with it,
\* and the URL may come after the context.
BoardShowsContext ==
  board.state = "active" ~> (board.id /\ board.url) \/ board.state # "active"

\* An event of a goal that stays active is recorded in the end, although the
\* events are recorded one by one and a poller may die or fail between them.
EventsRecorded ==
  \A e \in GoalEvents :
    e \in published /\ board.state = "active" ~> e \in goalEvents \/ board.state # "active"
=============================================================================
