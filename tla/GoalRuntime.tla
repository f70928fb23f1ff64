----------------------------- MODULE GoalRuntime ------------------------------
(***************************************************************************)
(* The runtime of one goal context: an app-server and a gateway process,   *)
(* started and stopped by dispatcher/goal-runtime.ts, and the columns of   *)
(* the goal_contexts row that say which processes they are.                *)
(*                                                                         *)
(* A caller is a process that runs startGoalRuntime or stopGoalRuntime.    *)
(* Callers and gateways share nothing but the row and the processes they   *)
(* start and signal.  updateRuntime reads the whole row in one statement   *)
(* and writes it back in another, so that what another process writes in   *)
(* between is lost; tryBeginRuntimeStart is a single statement.            *)
(***************************************************************************)
EXTENDS Naturals

CONSTANTS
  Callers,    \* processes that start and stop the runtime
  MaxPid,     \* bound: process ids
  MaxStarts,  \* bound: starts of the runtime
  Budgets     \* bound: how many starts, moves of the goal on the board, faults of the
              \* dispatcher and the runtime, and accidents (a worktree lost, a command
              \* interrupted) there are, and which commands; one is chosen

\* They are given out in turn.
Pids == 1..MaxPid
NoPid == 0

Commands == {"start", "stop", "recover"}

Left ==
  [starts : 0..MaxStarts, commands : SUBSET Commands, moves : Nat, faults : Nat, accidents : Nat]

ASSUME RuntimeAssumption ==
  /\ MaxPid \in Nat \ {0, 1} /\ MaxStarts \in Nat
  /\ Budgets \subseteq Left

VARIABLES
  context,   \* the row
  process,   \* what runs under each pid
  call,      \* the call each caller is in
  worktree,  \* whether the goal's worktree is there
  lastPid,   \* the pid given out last
  left       \* bound: what is left of the budget

runtimeVars == <<context, process, call, worktree, lastPid, left>>

RuntimeStates ==
  {"absent", "stopped", "starting", "running", "sleeping", "human_needed", "error"}

\* An endpoint is a number that its start alone has; `old` says that the row
\* was last updated more than thirty seconds ago.
Row ==
  [state : RuntimeStates, generation : 0..MaxStarts, endpoint : 0..MaxStarts,
   app : Pids \cup {NoPid}, gateway : Pids \cup {NoPid}, old : BOOLEAN]

NewRow ==
  [state |-> "absent", generation |-> 0, endpoint |-> 0, app |-> NoPid, gateway |-> NoPid,
   old |-> FALSE]

\* A gateway is connected to the app-server at its endpoint, once it has read it,
\* and holds the row it has read to write it back.  Any other program is foreign.
GatewayStages == {"booting", "connected", "writing", "binding", "listening", "stopping", "sleeping"}

Process ==
  [kind : {"none", "foreign", "app", "gateway"}, stage : GatewayStages \cup {"up"},
   endpoint : 0..MaxStarts, row : Row]

Program(kind, stage, endpoint) ==
  [kind |-> kind, stage |-> stage, endpoint |-> endpoint, row |-> NewRow]

NoProcess == Program("none", "up", 0)

CallStages ==
  {"none", "probe", "gate", "kill", "exit", "spawn", "record", "port", "recordGateway",
   "http", "undo", "recordError", "stop", "killStopped", "exitStopped", "clear", "done", "failed"}

(***************************************************************************)
(* A call: the row it has read first, the row it is about to write back    *)
(* (`holds` says that it has read it), and the processes it has started.   *)
(***************************************************************************)
Call ==
  [at : CallStages, seen : Row, row : Row, holds : BOOLEAN,
   app : Pids \cup {NoPid}, gateway : Pids \cup {NoPid}, endpoint : 0..MaxStarts]

NoCall ==
  [at |-> "none", seen |-> NewRow, row |-> NewRow, holds |-> FALSE,
   app |-> NoPid, gateway |-> NoPid, endpoint |-> 0]

RuntimeTypeOK ==
  /\ context \in Row
  /\ process \in [Pids -> Process]
  /\ call \in [Callers -> Call]
  /\ worktree \in BOOLEAN
  /\ lastPid \in Pids
  /\ left \in Left

RuntimeInit ==
  /\ context = NewRow
  /\ process = [p \in Pids |-> NoProcess]
  /\ call = [a \in Callers |-> NoCall]
  /\ worktree = FALSE
  /\ lastPid = MaxPid
  /\ left \in Budgets

Spend(what) ==
  /\ left[what] > 0
  /\ left' = [left EXCEPT ![what] = @ - 1]

Alive(p) == p # NoPid /\ process[p].kind # "none"

\* A program gets the first free pid after the last one.
TurnsTo(p) == IF p > lastPid THEN p - lastPid ELSE p + MaxPid - lastPid

Given(p) ==
  /\ ~Alive(p)
  /\ \A q \in Pids : Alive(q) \/ TurnsTo(p) <= TurnsTo(q)
  /\ lastPid' = p

IsKind(p, kind) == p # NoPid /\ process[p].kind = kind

\* isExpectedProcess of the recorded app-server
IsApp(p, endpoint) == IsKind(p, "app") /\ process[p].endpoint = endpoint

Connected(p) == \E q \in Pids : IsApp(q, process[p].endpoint)

AppAlive == IsApp(context.app, context.endpoint)

\* functionalHealth: the recorded gateway answers, and says it is connected.
GatewayAlive ==
  /\ IsKind(context.gateway, "gateway")
  /\ process[context.gateway].stage = "listening" /\ Connected(context.gateway)

Healthy == AppAlive /\ GatewayAlive

-----------------------------------------------------------------------------
CallAt(a, stage) == call[a].at = stage

CallGoes(a, stage) == call' = [call EXCEPT ![a].at = stage]

Begins(a, stage) == call' = [call EXCEPT ![a] = [NoCall EXCEPT !.at = stage]]

InCall(a) == ~(call[a].at \in {"none", "done", "failed"})

\* updateRuntime: the row is read, and then written back with the update.  (A
\* start that failed waits for its processes, but goes on if they do not end.)
Updates(a) == call[a].at \in {"record", "recordGateway", "recordError", "clear"}

ReadRow(a) ==
  /\ Updates(a) /\ ~call[a].holds
  /\ call' = [call EXCEPT ![a].holds = TRUE, ![a].row = context]
  /\ UNCHANGED <<context, process, worktree, lastPid, left>>

Writes(a, stage, row, next) ==
  /\ CallAt(a, stage) /\ call[a].holds
  /\ context' = [row EXCEPT !.old = FALSE]
  /\ call' = [call EXCEPT ![a].at = next, ![a].holds = FALSE, ![a].row = NewRow]
  /\ UNCHANGED <<process, worktree, lastPid, left>>

\* safeKill refuses a pid that runs another program.
Refused(gateway, app, endpoint) ==
  \/ Alive(gateway) /\ ~IsKind(gateway, "gateway")
  \/ Alive(app) /\ ~IsApp(app, endpoint)

\* SIGTERM: a gateway that listens stops in order, one that does not has no
\* handler yet; an app-server ends.
Terminated(p) ==
  IF process[p].kind = "gateway" /\ process[p].stage \in {"listening", "stopping", "sleeping"}
  THEN [process[p] EXCEPT !.stage = IF @ = "listening" THEN "stopping" ELSE @]
  ELSE NoProcess

\* safeKill of the gateway, then of the app-server, unless the first one throws.
Kills(gateway, app, endpoint) ==
  [p \in Pids |->
     IF \/ p = gateway /\ IsKind(p, "gateway")
        \/ p = app /\ IsApp(p, endpoint) /\ (Alive(gateway) => IsKind(gateway, "gateway"))
     THEN Terminated(p) ELSE process[p]]

KillsPids(a, gateway, app, endpoint, next) ==
  /\ process' = Kills(gateway, app, endpoint)
  /\ CallGoes(a, IF Refused(gateway, app, endpoint) THEN "failed" ELSE next)
  /\ UNCHANGED <<context, worktree, lastPid, left>>

-----------------------------------------------------------------------------
(***************************************************************************)
(* startGoalRuntime.                                                       *)
(***************************************************************************)
Probe(a) ==
  /\ CallAt(a, "probe")
  /\ call' = [call EXCEPT ![a].seen = context, ![a].at = IF Healthy THEN "done" ELSE "gate"]
  /\ UNCHANGED <<context, process, worktree, lastPid, left>>

MayBegin(a) ==
  /\ context.generation = call[a].seen.generation /\ context.state # "starting"
  /\ left.starts > 0

\* tryBeginRuntimeStart; a start beyond the bound is refused as well.
Gate(a) ==
  /\ CallAt(a, "gate")
  /\ IF MayBegin(a)
     THEN /\ context' = [context EXCEPT !.state = "starting", !.generation = @ + 1, !.old = FALSE]
          /\ call' = [call EXCEPT ![a].at = "kill", ![a].endpoint = left.starts]
          /\ Spend("starts")
     ELSE UNCHANGED <<context, left>> /\ CallGoes(a, "failed")
  /\ UNCHANGED <<process, worktree, lastPid>>

KillSeen(a) ==
  /\ CallAt(a, "kill")
  /\ KillsPids(a, call[a].seen.gateway, call[a].seen.app, call[a].seen.endpoint, "exit")

Exited(a) ==
  /\ call[a].at \in {"exit", "exitStopped"}
  /\ ~Alive(call[a].seen.gateway) /\ ~Alive(call[a].seen.app)
  /\ call' = [call EXCEPT ![a].seen = NewRow,
       ![a].at = IF CallAt(a, "exit") THEN "spawn" ELSE "clear"]
  /\ UNCHANGED <<context, process, worktree, lastPid, left>>

\* A pid that was waited for belongs to another program by now: five seconds pass.
ExitTimesOut(a) ==
  /\ call[a].at \in {"exit", "exitStopped"}
  /\ \E p \in {call[a].seen.gateway, call[a].seen.app} : IsKind(p, "foreign")
  /\ CallGoes(a, "failed")
  /\ UNCHANGED <<context, process, worktree, lastPid, left>>

\* Both programs are started in the worktree.
SpawnApp(a) ==
  /\ CallAt(a, "spawn")
  /\ worktree
  /\ \E p \in Pids :
       /\ Given(p)
       /\ process' = [process EXCEPT ![p] = Program("app", "up", call[a].endpoint)]
       /\ call' = [call EXCEPT ![a].app = p, ![a].at = "record"]
  /\ UNCHANGED <<context, worktree, left>>

RecordApp(a) ==
  Writes(a, "record",
    [call[a].row EXCEPT !.app = call[a].app, !.gateway = NoPid, !.endpoint = call[a].endpoint],
    "port")

\* waitForPort, and the gateway is started.
SpawnGateway(a) ==
  /\ CallAt(a, "port")
  /\ worktree /\ IsKind(call[a].app, "app")
  /\ \E p \in Pids :
       /\ Given(p)
       /\ process' = [process EXCEPT ![p] = Program("gateway", "booting", 0)]
       /\ call' = [call EXCEPT ![a].gateway = p, ![a].at = "recordGateway"]
  /\ UNCHANGED <<context, worktree, left>>

RecordGateway(a) ==
  Writes(a, "recordGateway", [call[a].row EXCEPT !.gateway = call[a].gateway], "http")

\* waitForHttp: every gateway of the context has the same URL.
Listening == \E p \in Pids : IsKind(p, "gateway") /\ process[p].stage = "listening"

Answered(a) ==
  /\ CallAt(a, "http")
  /\ Listening
  /\ CallGoes(a, "done")
  /\ UNCHANGED <<context, process, worktree, lastPid, left>>

\* The worktree is gone, or no pid is left: only from the second program on, the
\* start is undone.
SpawnFails(a) ==
  /\ ~worktree \/ \A p \in Pids : Alive(p)
  /\ \/ CallAt(a, "spawn") /\ CallGoes(a, "failed")
     \/ CallAt(a, "port") /\ CallGoes(a, "undo")
  /\ UNCHANGED <<context, process, worktree, lastPid, left>>

\* The processes are gone, so that waiting for them times out.
StartTimesOut(a) ==
  /\ \/ CallAt(a, "port") /\ ~IsKind(call[a].app, "app")
     \/ CallAt(a, "http") /\ ~Listening /\ ~IsKind(call[a].gateway, "gateway")
  /\ CallGoes(a, "undo")
  /\ UNCHANGED <<context, process, worktree, lastPid, left>>

\* A slip: a start that fails only signals the gateway.
UndoGateway(a) ==
  /\ CallAt(a, "undo")
  /\ KillsPids(a, call[a].gateway, NoPid, 0, "recordError")

Undo(a) ==
  /\ CallAt(a, "undo")
  /\ KillsPids(a, call[a].gateway, call[a].app, call[a].endpoint, "recordError")

\* A slip: what a failed start has started is cleared, the state is left.
ClearPids(a) ==
  Writes(a, "recordError",
    [call[a].row EXCEPT !.app = NoPid, !.gateway = NoPid], "failed")

RecordError(a) ==
  Writes(a, "recordError",
    [call[a].row EXCEPT !.state = "error", !.app = NoPid, !.gateway = NoPid], "failed")

-----------------------------------------------------------------------------
(***************************************************************************)
(* stopGoalRuntime.                                                        *)
(***************************************************************************)
ReadStopped(a) ==
  /\ CallAt(a, "stop")
  /\ call' = [call EXCEPT ![a].seen = context, ![a].at = "killStopped"]
  /\ UNCHANGED <<context, process, worktree, lastPid, left>>

KillStopped(a) ==
  /\ CallAt(a, "killStopped")
  /\ KillsPids(a, call[a].seen.gateway, call[a].seen.app, call[a].seen.endpoint, "exitStopped")

Clear(a) ==
  Writes(a, "clear",
    [call[a].row EXCEPT !.app = NoPid, !.gateway = NoPid, !.state = "stopped"], "done")

-----------------------------------------------------------------------------
(***************************************************************************)
(* The gateway process: start and stop of dispatcher/goal-gateway.ts.      *)
(***************************************************************************)
GatewayAt(p, stage) == IsKind(p, "gateway") /\ process[p].stage = stage

Exits(p) == process' = [process EXCEPT ![p] = NoProcess]

\* It connects to the endpoint in the row, or ends when nothing is there.
Connect(p) ==
  /\ GatewayAt(p, "booting")
  /\ process' = [process EXCEPT ![p] =
       IF \E q \in Pids : IsApp(q, context.endpoint)
       THEN Program("gateway", "connected", context.endpoint) ELSE NoProcess]
  /\ UNCHANGED <<context, call, worktree, lastPid, left>>

ReadsRow(p) ==
  /\ GatewayAt(p, "connected")
  /\ process' = [process EXCEPT ![p].stage = "writing", ![p].row = context]
  /\ UNCHANGED <<context, call, worktree, lastPid, left>>

WritesRunning(p) ==
  /\ GatewayAt(p, "writing")
  /\ context' = [process[p].row EXCEPT !.gateway = p, !.state = "running", !.old = FALSE]
  /\ process' = [process EXCEPT ![p].stage = "binding", ![p].row = NewRow]
  /\ UNCHANGED <<call, worktree, lastPid, left>>

\* The port is taken as long as another gateway of the context listens.
Bind(p) ==
  /\ GatewayAt(p, "binding")
  /\ IF Listening THEN Exits(p) ELSE process' = [process EXCEPT ![p].stage = "listening"]
  /\ UNCHANGED <<context, call, worktree, lastPid, left>>

\* The connection to the app-server is closed: it stops.
LosesApp(p) ==
  /\ GatewayAt(p, "listening")
  /\ ~Connected(p)
  /\ process' = [process EXCEPT ![p].stage = "stopping"]
  /\ UNCHANGED <<context, call, worktree, lastPid, left>>

StopsReading(p) ==
  /\ GatewayAt(p, "stopping")
  /\ IF context.gateway = p
     THEN process' = [process EXCEPT ![p].stage = "sleeping", ![p].row = context]
     ELSE Exits(p)
  /\ UNCHANGED <<context, call, worktree, lastPid, left>>

WritesSleeping(p) ==
  /\ GatewayAt(p, "sleeping")
  /\ context' = [process[p].row EXCEPT !.gateway = NoPid, !.state = "sleeping", !.old = FALSE]
  /\ Exits(p)
  /\ UNCHANGED <<call, worktree, lastPid, left>>

GatewayStep(p) ==
  \/ Connect(p) \/ ReadsRow(p) \/ WritesRunning(p) \/ Bind(p) \/ LosesApp(p)
  \/ StopsReading(p) \/ WritesSleeping(p)

StartStep(a) ==
  \/ Probe(a) \/ Gate(a) \/ KillSeen(a) \/ Exited(a) \/ ExitTimesOut(a) \/ SpawnApp(a)
  \/ SpawnFails(a) \/ RecordApp(a) \/ SpawnGateway(a) \/ RecordGateway(a) \/ Answered(a)
  \/ StartTimesOut(a) \/ Undo(a) \/ RecordError(a)

StopStep(a) == ReadStopped(a) \/ KillStopped(a) \/ Clear(a)

CallStep(a) == ReadRow(a) \/ StartStep(a) \/ StopStep(a)
=============================================================================
