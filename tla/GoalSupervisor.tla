---------------------------- MODULE GoalSupervisor ----------------------------
(***************************************************************************)
(* Who keeps the runtime of a goal context going: the dispatcher's loop    *)
(* (runGoalLoop) and the commands `party goal start`, `stop` and `recover` *)
(* (runGoalCommand), both in dispatcher/party.ts, over the calls and       *)
(* processes of GoalRuntime.                                               *)
(*                                                                         *)
(* An iteration of the loop polls the board, brings the state of the       *)
(* context in line with it, checkpoints the worktree into the row, and     *)
(* then starts or stops the runtime by what the row and the processes say. *)
(* A command of the operator runs beside it as another process.            *)
(***************************************************************************)
EXTENDS GoalRuntime

CONSTANTS
  Dispatcher, Operator  \* the callers

ASSUME SupervisorAssumption ==
  Callers = {Dispatcher, Operator} /\ Dispatcher # Operator

VARIABLES
  boardState,  \* the goal's state on the board
  loop,        \* where the loop is, and the row it goes by
  command,     \* what the operator is doing
  disturbed,   \* history: a command was given, or a start or stop was not finished, or
               \* given up as stale
  reverted     \* history: the row says `starting` because a write-back put that over
               \* what another process had written since

history == <<disturbed, reverted>>
ownVars == <<boardState, loop, command, history>>
supervisorVars == <<runtimeVars, ownVars>>

BoardStates == {"active", "human", "closed"}

LoopStages ==
  {"poll", "map", "mapWrite", "provisioning", "list", "checkpoint", "reconcile", "stale",
   "stopping", "starting", "human"}

CommandStages == {"idle", "checkpoint", "stopping", "starting"}

SupervisorTypeOK ==
  /\ RuntimeTypeOK
  /\ boardState \in BoardStates
  /\ loop \in [at : LoopStages, row : Row, listed : BoardStates]
  /\ command \in [at : CommandStages, kind : Commands, row : Row]
  /\ disturbed \in BOOLEAN /\ reverted \in BOOLEAN

IdleLoop == [at |-> "poll", row |-> NewRow, listed |-> "closed"]

IdleCommand == [at |-> "idle", kind |-> "start", row |-> NewRow]

SupervisorInit ==
  /\ RuntimeInit
  /\ boardState = "active"
  /\ loop = IdleLoop
  /\ command = IdleCommand
  /\ disturbed = FALSE /\ reverted = FALSE

LoopAt(stage) == loop.at = stage

\* What the board said is needed until the context is brought in line with it.
LoopGoes(stage, row) ==
  loop' = [at |-> stage, row |-> row,
           listed |-> IF stage \in {"provisioning", "map"} THEN loop.listed ELSE "closed"]

Updated(row, state) == [row EXCEPT !.state = state, !.old = FALSE]

\* What the loop goes by once it has read a row.
Gist(row) == [NewRow EXCEPT !.state = row.state, !.old = row.old]

\* Only tryBeginRuntimeStart makes a row `starting` that was not; it counts the generation.
Remembers ==
  reverted' =
    /\ context'.state = "starting"
    /\ context.state = "starting" => reverted
    /\ context.state # "starting" => context'.generation <= context.generation

CallEnded(a) == call[a].at \in {"done", "failed"}

-----------------------------------------------------------------------------
(***************************************************************************)
(* One iteration of the loop.                                              *)
(***************************************************************************)
PollBoard ==
  /\ LoopAt("poll")
  /\ loop' = [IdleLoop EXCEPT !.at = "map", !.listed = boardState]
  /\ UNCHANGED <<runtimeVars, boardState, command, history>>

\* The board cannot be read, or is not read while an earlier failure is not due.
PollBoardFails ==
  /\ LoopAt("poll")
  /\ Spend("faults")
  /\ LoopGoes("list", NewRow)
  /\ UNCHANGED <<context, process, call, worktree, lastPid, boardState, command, history>>

\* provisionGoal: createOrGet, and the runtime is started.
ProvisionGoal ==
  /\ LoopAt("map")
  /\ context.state = "absent" /\ loop.listed = "active"
  /\ context' = [context EXCEPT !.state = "stopped"]
  /\ worktree' = TRUE
  /\ Begins(Dispatcher, "probe")
  /\ LoopGoes("provisioning", NewRow)
  /\ UNCHANGED <<process, lastPid, left, boardState, command, history>>

Provisioned ==
  /\ LoopAt("provisioning")
  /\ CallEnded(Dispatcher)
  /\ call' = [call EXCEPT ![Dispatcher] = NoCall]
  /\ LoopGoes(IF CallAt(Dispatcher, "done") THEN "map" ELSE "list", NewRow)
  /\ UNCHANGED <<context, process, worktree, lastPid, left, boardState, command, history>>

\* The state that a goal listed on the board gives a context.
MappedState ==
  CASE loop.listed = "human" -> "human_needed"
    [] loop.listed = "closed" -> "stopped"
    [] loop.listed = "active" ->
         IF context.state \in {"stopped", "human_needed"} THEN "sleeping" ELSE context.state

\* poll compares the row, and updateRuntime reads it again to write it.
ReadMapped ==
  /\ LoopAt("map")
  /\ context.state # "absent"
  /\ IF MappedState = context.state THEN LoopGoes("list", NewRow)
     ELSE LoopGoes("mapWrite", Updated(context, MappedState))
  /\ UNCHANGED <<runtimeVars, boardState, command, history>>

\* A goal that is not active gets no context.
NoContext ==
  /\ LoopAt("map")
  /\ context.state = "absent" /\ loop.listed # "active"
  /\ LoopGoes("list", NewRow)
  /\ UNCHANGED <<runtimeVars, boardState, command, history>>

LoopWrites(stage, next, row) ==
  /\ LoopAt(stage)
  /\ context' = loop.row
  /\ LoopGoes(next, row)
  /\ Remembers
  /\ UNCHANGED <<process, call, worktree, lastPid, left, boardState, command, disturbed>>

WriteMapped == LoopWrites("mapWrite", "list", NewRow)

\* store.list, and the row that the checkpoint of the worktree is written into.
ListContexts ==
  /\ LoopAt("list")
  /\ IF context.state = "absent" THEN loop' = IdleLoop
     ELSE IF worktree THEN LoopGoes("checkpoint", [context EXCEPT !.old = FALSE])
     ELSE LoopGoes("reconcile", Gist(context))
  /\ UNCHANGED <<runtimeVars, boardState, command, history>>

Checkpoint == LoopWrites("checkpoint", "reconcile", Gist(loop.row))

\* A start that is thirty seconds old and whose runtime is not whole: its processes
\* are forgotten, also the one that is left.
IsStale == loop.row.state = "starting" /\ ~Healthy /\ loop.row.old

FindStale ==
  /\ LoopAt("reconcile")
  /\ IsStale
  /\ LoopGoes("stale", [Updated(context, "error") EXCEPT !.app = NoPid, !.gateway = NoPid])
  /\ disturbed' = TRUE
  /\ UNCHANGED <<runtimeVars, boardState, command, reverted>>

WriteStale == LoopWrites("stale", "reconcile", Gist(loop.row))

\* A slip: a stopped context is taken to be down.
StoppedIsDown ==
  /\ LoopAt("reconcile")
  /\ loop.row.state = "stopped"
  /\ loop' = IdleLoop
  /\ UNCHANGED <<runtimeVars, boardState, command, history>>

StopIfAlive ==
  /\ LoopAt("reconcile")
  /\ loop.row.state = "stopped"
  /\ IF AppAlive \/ GatewayAlive
     THEN Begins(Dispatcher, "stop") /\ LoopGoes("stopping", loop.row)
     ELSE UNCHANGED call /\ loop' = IdleLoop
  /\ UNCHANGED <<context, process, worktree, lastPid, left, boardState, command, history>>

\* A stop that throws ends the process; the service starts it again.
Stopped ==
  /\ LoopAt("stopping")
  /\ CallEnded(Dispatcher)
  /\ call' = [call EXCEPT ![Dispatcher] = NoCall]
  /\ loop' = IdleLoop
  /\ UNCHANGED <<context, process, worktree, lastPid, left, boardState, command, history>>

WantsRuntime == loop.row.state \in {"running", "sleeping", "human_needed", "error"}

StartIfDown ==
  /\ LoopAt("reconcile")
  /\ WantsRuntime /\ ~Healthy
  /\ Begins(Dispatcher, "probe")
  /\ LoopGoes("starting", loop.row)
  /\ UNCHANGED <<context, process, worktree, lastPid, left, boardState, command, history>>

\* Its events are delivered, or a human is waited for.
LeaveRunning ==
  /\ LoopAt("reconcile")
  /\ loop.row.state # "stopped" /\ ~IsStale /\ ~(WantsRuntime /\ ~Healthy)
  /\ loop' = IdleLoop
  /\ UNCHANGED <<runtimeVars, boardState, command, history>>

\* A runtime that came up keeps the human gate it had.
Started ==
  /\ LoopAt("starting")
  /\ CallEnded(Dispatcher)
  /\ IF CallAt(Dispatcher, "done") /\ loop.row.state = "human_needed"
     THEN LoopGoes("human", Updated(context, "human_needed"))
     ELSE loop' = IdleLoop
  /\ call' = [call EXCEPT ![Dispatcher] = NoCall]
  /\ UNCHANGED <<context, process, worktree, lastPid, left, boardState, command, history>>

WriteHuman == LoopWrites("human", "poll", NewRow)

-----------------------------------------------------------------------------
(***************************************************************************)
(* The commands of the operator.                                           *)
(***************************************************************************)
CommandGoes(stage) == command' = [command EXCEPT !.at = stage, !.row = NewRow]

\* start makes the context if there is none; recover makes the worktree again if
\* it is missing, and checkpoints it otherwise.  A command whose first step is
\* refused is not given.
GiveCommand ==
  /\ command.at = "idle"
  /\ \E kind \in left.commands :
       /\ left' = [left EXCEPT !.commands = @ \ {kind}]
       /\ kind # "start" => context.state # "absent"
       /\ context' = IF context.state = "absent" THEN [context EXCEPT !.state = "stopped"] ELSE context
       /\ worktree' = (worktree \/ kind = "recover" \/ context.state = "absent")
       /\ IF kind = "recover" /\ ~worktree
          THEN /\ command' = [at |-> "stopping", kind |-> kind, row |-> NewRow]
               /\ Begins(Operator, "stop")
          ELSE /\ command' = [at |-> "checkpoint", kind |-> kind,
                              row |-> [context' EXCEPT !.old = FALSE]]
               /\ UNCHANGED call
  /\ disturbed' = TRUE
  /\ Remembers
  /\ UNCHANGED <<process, lastPid, boardState, loop>>

CheckpointCommand ==
  /\ command.at = "checkpoint"
  /\ context' = command.row
  /\ IF command.kind = "start" THEN CommandGoes("starting") /\ Begins(Operator, "probe")
     ELSE CommandGoes("stopping") /\ Begins(Operator, "stop")
  /\ Remembers
  /\ UNCHANGED <<process, worktree, lastPid, left, boardState, loop, disturbed>>

\* recover goes on to the start whatever became of the stop.
CommandStopped ==
  /\ command.at = "stopping"
  /\ CallEnded(Operator)
  /\ IF command.kind = "recover" THEN CommandGoes("starting") /\ Begins(Operator, "probe")
     ELSE command' = IdleCommand /\ Begins(Operator, "none")
  /\ UNCHANGED <<context, process, worktree, lastPid, left, boardState, loop, history>>

CommandStarted ==
  /\ command.at = "starting"
  /\ CallEnded(Operator)
  /\ command' = IdleCommand
  /\ Begins(Operator, "none")
  /\ UNCHANGED <<context, process, worktree, lastPid, left, boardState, loop, history>>

-----------------------------------------------------------------------------
(***************************************************************************)
(* Faults, time and the board.                                             *)
(***************************************************************************)

\* The dispatcher is killed, or the operator interrupts a command.
CallerDies(a) ==
  /\ IF a = Dispatcher THEN ~LoopAt("poll") /\ Spend("faults")
     ELSE command.at # "idle" /\ Spend("accidents")
  /\ call' = [call EXCEPT ![a] = NoCall]
  /\ IF a = Dispatcher THEN loop' = IdleLoop /\ UNCHANGED command
     ELSE command' = IdleCommand /\ UNCHANGED loop
  /\ disturbed' = (disturbed \/ InCall(a))
  /\ UNCHANGED <<context, process, worktree, lastPid, boardState, reverted>>

\* The wait for processes to end is given up, or a program cannot be started.
CallGivesUp(a) ==
  /\ call[a].at \in {"exit", "exitStopped", "spawn"}
  /\ Spend("faults")
  /\ CallGoes(a, "failed")
  /\ disturbed' = TRUE
  /\ UNCHANGED <<context, process, worktree, lastPid, boardState, loop, command, reverted>>

\* An app-server or a gateway dies.
ProcessDies(p) ==
  /\ process[p].kind \in {"app", "gateway"}
  /\ Spend("faults")
  /\ process' = [process EXCEPT ![p] = NoProcess]
  /\ UNCHANGED <<context, call, worktree, lastPid, boardState, loop, command, history>>

\* Another program gets a pid that the row still names.
PidTaken(p) ==
  /\ ~Alive(p)
  /\ p \in {context.app, context.gateway}
  /\ Spend("faults")
  /\ process' = [process EXCEPT ![p] = Program("foreign", "up", 0)]
  /\ UNCHANGED <<context, call, worktree, lastPid, boardState, loop, command, history>>

LoseWorktree ==
  /\ worktree /\ Spend("accidents")
  /\ worktree' = FALSE
  /\ UNCHANGED <<context, process, call, lastPid, boardState, loop, command, history>>

\* Thirty seconds pass in which nothing updates the row; they matter to a start.
Age ==
  /\ ~context.old /\ context.state = "starting"
  /\ \A a \in Callers : ~InCall(a)
  /\ context' = [context EXCEPT !.old = TRUE]
  /\ UNCHANGED <<process, call, worktree, lastPid, left, ownVars>>

MoveGoalOnBoard ==
  /\ Spend("moves")
  /\ \E state \in BoardStates \ {boardState} : boardState' = state
  /\ UNCHANGED <<context, process, call, worktree, lastPid, loop, command, history>>

-----------------------------------------------------------------------------
LoopStep ==
  \/ PollBoard \/ ProvisionGoal \/ Provisioned \/ ReadMapped \/ NoContext \/ WriteMapped
  \/ ListContexts \/ Checkpoint \/ FindStale \/ WriteStale \/ StopIfAlive \/ Stopped
  \/ StartIfDown \/ LeaveRunning \/ Started \/ WriteHuman

CommandStep == CheckpointCommand \/ CommandStopped \/ CommandStarted

\* What a step of a call means for the history.
Observes(a) ==
  /\ Remembers
  /\ disturbed' =
       \/ disturbed
       \/ call[a].at \in {"kill", "exit", "killStopped", "undo"} /\ call'[a].at = "failed"
       \/ call[a].at \in {"gate", "killStopped"} /\ \E b \in Callers \ {a} : InCall(b)

SupervisorCallStep(a) ==
  /\ CallStep(a)
  /\ Observes(a)
  /\ UNCHANGED <<boardState, loop, command>>

SupervisorGatewayStep(p) ==
  /\ GatewayStep(p)
  /\ Remembers
  /\ UNCHANGED <<boardState, loop, command, disturbed>>

SupervisorNext ==
  \/ LoopStep \/ PollBoardFails
  \/ GiveCommand \/ CommandStep
  \/ \E a \in Callers : SupervisorCallStep(a) \/ CallerDies(a) \/ CallGivesUp(a)
  \/ \E p \in Pids : SupervisorGatewayStep(p) \/ ProcessDies(p) \/ PidTaken(p)
  \/ LoseWorktree
  \/ Age
  \/ MoveGoalOnBoard

\* The processes run; the service restarts the dispatcher when it dies.
SupervisorFairness ==
  /\ WF_supervisorVars(LoopStep) /\ WF_supervisorVars(CommandStep)
  /\ \A a \in Callers : WF_supervisorVars(SupervisorCallStep(a))
  /\ \A p \in Pids : WF_supervisorVars(SupervisorGatewayStep(p))

SupervisorSpec ==
  SupervisorInit /\ [][SupervisorNext]_supervisorVars /\ SupervisorFairness

-----------------------------------------------------------------------------
(***************************************************************************)
(* Properties.                                                             *)
(***************************************************************************)

\* As long as the dispatcher works alone, and every start and stop is finished and
\* none is given up as stale, no process is lost sight of: the row names it, or the
\* call in progress has started it, although the row is written back by the loop, by
\* the call and by gateways that are on their way up or out.
NothingStrays ==
  ~disturbed =>
    \A p \in Pids :
      \/ process[p].kind \in {"none", "foreign"}
      \/ p \in {context.app, context.gateway}
      \/ InCall(Dispatcher) /\ p \in {call[Dispatcher].app, call[Dispatcher].gateway}

\* The runtime of a goal that is closed on the board is down in the end, whatever
\* died, gave up or was undone before, unless another program got the gateway's pid.
ClosedGoalIsDown ==
  boardState = "closed" ~>
    \/ context.state \in {"absent", "stopped"} /\ ~AppAlive /\ ~GatewayAlive
    \/ IsKind(context.gateway, "foreign")
    \/ boardState # "closed"

\* Of a goal that stays open, the runtime is up again and again, whatever dies while
\* it starts, stops or runs, unless its worktree is gone, or a write-back has put its
\* row back to `starting` for ever.  As long as the dispatcher works alone and is not
\* cut short in a start or stop: what is left of a start then is not repaired.
RuntimeComesBack ==
  <>[](boardState # "closed" /\ context.state # "absent" /\ ~disturbed) =>
    []<>Healthy \/ <>[]reverted \/ <>[]~worktree
=============================================================================
