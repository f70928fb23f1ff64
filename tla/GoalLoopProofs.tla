----------------------------- MODULE GoalLoopProofs -----------------------------
(***************************************************************************)
(* Theorems about the goal loop, for any number of process ids, starts,    *)
(* moves, faults and commands: the types of its two parts, and that an     *)
(* undisturbed dispatcher loses sight of no process.                       *)
(***************************************************************************)
EXTENDS MCGoalLoop, GoalIntakeProofs

(***************************************************************************)
(* Types.  A start counts the generation up, and every write of a row that *)
(* was read earlier may count it down again: no row is ahead of the starts *)
(* that have been made, wherever it is held.                               *)
(***************************************************************************)
RowUpTo(n) ==
  [state : RuntimeStates, generation : 0..n, endpoint : 0..MaxStarts,
   app : Pids \cup {NoPid}, gateway : Pids \cup {NoPid}, old : BOOLEAN]

ProcessUpTo(n) ==
  [kind : {"none", "foreign", "app", "gateway"}, stage : GatewayStages \cup {"up"},
   endpoint : 0..MaxStarts, row : RowUpTo(n)]

CallUpTo(n) ==
  [at : CallStages, seen : RowUpTo(n), row : RowUpTo(n), holds : BOOLEAN,
   app : Pids \cup {NoPid}, gateway : Pids \cup {NoPid}, endpoint : 0..MaxStarts]

Begun == MaxStarts - left.starts

RuntimeUpTo(n) ==
  /\ context \in RowUpTo(n)
  /\ process \in [Pids -> ProcessUpTo(n)]
  /\ call \in [Callers -> CallUpTo(n)]
  /\ worktree \in BOOLEAN
  /\ lastPid \in Pids

OwnUpTo(n) ==
  /\ boardState \in BoardStates
  /\ loop \in [at : LoopStages, row : RowUpTo(n), listed : BoardStates]
  /\ command \in [at : CommandStages, kind : Commands, row : RowUpTo(n)]
  /\ disturbed \in BOOLEAN /\ reverted \in BOOLEAN

TypeInv == left \in Left /\ RuntimeUpTo(Begun) /\ OwnUpTo(Begun)

(***************************************************************************)
(* What a row says of the processes: the app-servers and gateways that     *)
(* run are the ones it names.                                              *)
(***************************************************************************)
OnlyApp(a) == \A p \in Pids : process[p].kind = "app" => p = a

OnlyGateway(g) == \A p \in Pids : process[p].kind = "gateway" => p = g

Covers(row) == OnlyApp(row.app) /\ OnlyGateway(row.gateway)

Quiet == OnlyApp(NoPid) /\ OnlyGateway(NoPid)

D == call[Dispatcher]

Outside == {"none", "probe", "stop", "done", "failed"}
Ending == {"gate", "kill", "exit", "killStopped", "exitStopped"}

(***************************************************************************)
(* What the call of an undisturbed dispatcher relies on, stage by stage:   *)
(* it starts a program only when the ones in the row have ended, and from  *)
(* then on the only processes there are its own.                           *)
(***************************************************************************)
CallKnows ==
  /\ D.at \in Outside \cup Ending => Covers(context)
  /\ D.at \in Ending => Covers(D.seen)
  /\ D.at \in {"spawn", "clear", "recordError"} => Quiet
  /\ D.at \in {"record", "port", "undo"} => OnlyApp(D.app) /\ OnlyGateway(NoPid)
  /\ D.at \in {"recordGateway", "http"} => OnlyApp(D.app) /\ OnlyGateway(D.gateway)
  /\ D.at \in {"port", "recordGateway", "http"} => OnlyApp(context.app)
  /\ D.at = "recordGateway" /\ D.holds => OnlyApp(D.row.app)
  /\ D.at = "http" => OnlyGateway(context.gateway)
  /\ D.holds => D.at \in {"record", "recordGateway", "recordError", "clear"}

(***************************************************************************)
(* A gateway is the only one there is, and the row that it will write back *)
(* names the app-server that runs.                                         *)
(***************************************************************************)
GatewayKnows ==
  \A p \in Pids :
    process[p].kind = "gateway" =>
      /\ OnlyGateway(p)
      /\ process[p].stage \in {"writing", "sleeping"} => OnlyApp(process[p].row.app)

\* So does the row that the loop will write back, and no call is in progress then.
Rewriting == {"mapWrite", "checkpoint", "human"}

LoopKnows ==
  /\ loop.at \in Rewriting => Covers(loop.row)
  /\ loop.at \in {"provisioning", "stopping", "starting"} \/ D.at = "none"

\* No command is in progress, and the call, the gateways and the loop know the
\* processes.
Undisturbed ==
  /\ command.at = "idle" /\ call[Operator].at = "none"
  /\ loop.at # "stale"
  /\ CallKnows /\ GatewayKnows /\ LoopKnows

\* The inductive invariant behind NothingStrays.
WatchInv == ~disturbed => Undisturbed

-----------------------------------------------------------------------------
(***************************************************************************)
(* Types of rows, programs and calls.                                      *)
(***************************************************************************)

\* The bounds are natural numbers, and pids are not the absence of one.
LEMMA Bounds == MaxPid \in Nat /\ MaxStarts \in Nat /\ NoPid \notin Pids /\ 0 \in 0..MaxStarts
  BY RuntimeAssumption DEF Pids, NoPid

\* An empty row is typed, whatever has been started.
LEMMA EmptyRow == ASSUME NEW n \in Nat PROVE NewRow \in RowUpTo(n)
  BY Bounds DEF NewRow, RowUpTo, RuntimeStates

\* So is a row in which some columns are written.
LEMMA RowWrites ==
  ASSUME NEW n \in Nat, NEW row \in RowUpTo(n), NEW state \in RuntimeStates,
         NEW app \in Pids \cup {NoPid}, NEW gateway \in Pids \cup {NoPid},
         NEW endpoint \in 0..MaxStarts, NEW old \in BOOLEAN
  PROVE  /\ [row EXCEPT !.old = old] \in RowUpTo(n)
         /\ [row EXCEPT !.state = state] \in RowUpTo(n)
         /\ [row EXCEPT !.state = state, !.old = old] \in RowUpTo(n)
         /\ [row EXCEPT !.gateway = gateway] \in RowUpTo(n)
         /\ [row EXCEPT !.app = app, !.gateway = gateway] \in RowUpTo(n)
         /\ [row EXCEPT !.app = app, !.gateway = gateway, !.endpoint = endpoint] \in RowUpTo(n)
         /\ [row EXCEPT !.gateway = gateway, !.state = state, !.old = old] \in RowUpTo(n)
         /\ [row EXCEPT !.state = state, !.app = app, !.gateway = gateway] \in RowUpTo(n)
         /\ [row EXCEPT !.app = app, !.gateway = gateway, !.state = state] \in RowUpTo(n)
  BY DEF RowUpTo

\* A program that starts is typed, and so is the absence of one.
LEMMA Programs ==
  ASSUME NEW n \in Nat, NEW kind \in {"none", "foreign", "app", "gateway"},
         NEW stage \in GatewayStages \cup {"up"}, NEW endpoint \in 0..MaxStarts
  PROVE  Program(kind, stage, endpoint) \in ProcessUpTo(n) /\ NoProcess \in ProcessUpTo(n)
  BY EmptyRow, Bounds DEF Program, NoProcess, ProcessUpTo

\* A call that begins is typed, and so is the absence of one.
LEMMA NewCalls ==
  ASSUME NEW n \in Nat, NEW stage \in CallStages
  PROVE  NoCall \in CallUpTo(n) /\ [NoCall EXCEPT !.at = stage] \in CallUpTo(n)
  <1>1. NoCall \in CallUpTo(n)
    BY EmptyRow, Bounds DEF NoCall, CallUpTo, CallStages
  <1> HIDE DEF NoCall
  <1>2. QED
    BY <1>1 DEF CallUpTo

\* What is typed stays so when there have been more starts.
LEMMA MoreStarts ==
  ASSUME NEW n \in Nat
  PROVE  /\ RowUpTo(n) \subseteq RowUpTo(n + 1)
         /\ ProcessUpTo(n) \subseteq ProcessUpTo(n + 1)
         /\ CallUpTo(n) \subseteq CallUpTo(n + 1)
  <1>1. RowUpTo(n) \subseteq RowUpTo(n + 1)
    BY DEF RowUpTo
  <1>2. QED
    BY <1>1 DEF ProcessUpTo, CallUpTo

\* A call goes to another stage, is over, or begins.
LEMMA CallGoesTyped ==
  ASSUME NEW n \in Nat, NEW a \in Callers, call \in [Callers -> CallUpTo(n)],
         NEW stage \in CallStages
  PROVE  /\ [call EXCEPT ![a].at = stage] \in [Callers -> CallUpTo(n)]
         /\ [call EXCEPT ![a] = NoCall] \in [Callers -> CallUpTo(n)]
         /\ [call EXCEPT ![a] = [NoCall EXCEPT !.at = stage]] \in [Callers -> CallUpTo(n)]
  <1>1. [call[a] EXCEPT !.at = stage] \in CallUpTo(n)
    BY DEF CallUpTo
  <1>2. QED
    BY <1>1, NewCalls

-----------------------------------------------------------------------------
(***************************************************************************)
(* The steps of a call keep the types of the runtime.                      *)
(***************************************************************************)

\* A signal leaves a program or ends it.
LEMMA KillsTyped ==
  ASSUME NEW n \in Nat, process \in [Pids -> ProcessUpTo(n)], NEW gateway, NEW app, NEW endpoint
  PROVE  Kills(gateway, app, endpoint) \in [Pids -> ProcessUpTo(n)]
  <1>1. ASSUME NEW p \in Pids PROVE Terminated(p) \in ProcessUpTo(n)
    <2>1. process[p] \in ProcessUpTo(n) /\ NoProcess \in ProcessUpTo(n)
      BY Programs, Bounds DEF GatewayStages
    <2>2. [process[p] EXCEPT !.stage = IF @ = "listening" THEN "stopping" ELSE @]
            \in ProcessUpTo(n)
      BY <2>1 DEF ProcessUpTo, GatewayStages
    <2>3. QED
      BY <2>1, <2>2 DEF Terminated
  <1>2. QED
    BY <1>1 DEF Kills

\* updateRuntime writes back a row that was read, with typed columns.
LEMMA WritesTyped ==
  ASSUME NEW n \in Nat, RuntimeUpTo(n), NEW a \in Callers, NEW stage, NEW next \in CallStages,
         NEW row \in RowUpTo(n), Writes(a, stage, row, next)
  PROVE  RuntimeUpTo(n)'
  <1>1. context' \in RowUpTo(n)
    BY RowWrites DEF Writes, RowUpTo
  <1>2. call' \in [Callers -> CallUpTo(n)]
    <2>1. call' = [call EXCEPT ![a].at = next, ![a].holds = FALSE, ![a].row = NewRow]
      BY DEF Writes
    <2>2. call[a] \in CallUpTo(n) /\ NewRow \in RowUpTo(n)
      BY EmptyRow DEF RuntimeUpTo
    <2>3. [call[a] EXCEPT !.at = next, !.holds = FALSE, !.row = NewRow] \in CallUpTo(n)
      BY <2>2 DEF CallUpTo
    <2>4. QED
      BY <2>1, <2>3 DEF RuntimeUpTo
  <1>3. QED
    BY <1>1, <1>2 DEF Writes, RuntimeUpTo

\* The steps of a call that only it sees.
LEMMA OwnCallSteps ==
  ASSUME NEW n \in Nat, RuntimeUpTo(n), NEW a \in Callers,
         \/ ReadRow(a) \/ Probe(a) \/ Exited(a) \/ ExitTimesOut(a) \/ SpawnFails(a)
         \/ Answered(a) \/ StartTimesOut(a) \/ ReadStopped(a)
  PROVE  RuntimeUpTo(n)'
  <1> USE DEF CallStages
  <1>1. UNCHANGED <<context, process, worktree, lastPid>>
    BY DEF ReadRow, Probe, Exited, ExitTimesOut, SpawnFails, Answered, StartTimesOut, ReadStopped
  <1>2. PICK stage \in CallStages, row \in RowUpTo(n) :
          \/ call' = [call EXCEPT ![a].holds = TRUE, ![a].row = row]
          \/ call' = [call EXCEPT ![a].seen = row, ![a].at = stage]
          \/ call' = [call EXCEPT ![a].at = stage]
    <2>1. context \in RowUpTo(n) /\ NewRow \in RowUpTo(n)
      BY EmptyRow DEF RuntimeUpTo
    <2>2. CASE ReadRow(a)
      BY <2>1, <2>2 DEF ReadRow
    <2>3. CASE Probe(a) \/ Exited(a) \/ ReadStopped(a)
      BY <2>1, <2>3 DEF Probe, Exited, ReadStopped
    <2>4. CASE ExitTimesOut(a) \/ SpawnFails(a) \/ Answered(a) \/ StartTimesOut(a)
      BY <2>1, <2>4 DEF ExitTimesOut, SpawnFails, Answered, StartTimesOut, CallGoes
    <2>5. QED
      BY <2>2, <2>3, <2>4
  <1>3. call' \in [Callers -> CallUpTo(n)]
    <2>1. call \in [Callers -> CallUpTo(n)]
      BY DEF RuntimeUpTo
    <2>2. CASE call' = [call EXCEPT ![a].holds = TRUE, ![a].row = row]
      <3>1. [call[a] EXCEPT !.holds = TRUE, !.row = row] \in CallUpTo(n)
        BY <2>1 DEF CallUpTo
      <3>2. QED
        BY <2>1, <2>2, <3>1
    <2>3. CASE call' = [call EXCEPT ![a].seen = row, ![a].at = stage]
      <3>1. [call[a] EXCEPT !.seen = row, !.at = stage] \in CallUpTo(n)
        BY <2>1 DEF CallUpTo
      <3>2. QED
        BY <2>1, <2>3, <3>1
    <2>4. CASE call' = [call EXCEPT ![a].at = stage]
      BY <2>1, <2>4, CallGoesTyped
    <2>5. QED
      BY <1>2, <2>2, <2>3, <2>4
  <1>4. QED
    BY <1>1, <1>3 DEF RuntimeUpTo

\* The steps of a call that start, signal or record processes.
LEMMA ProcessCallSteps ==
  ASSUME NEW n \in Nat, RuntimeUpTo(n), NEW a \in Callers,
         \/ KillSeen(a) \/ KillStopped(a) \/ Undo(a) \/ SpawnApp(a) \/ SpawnGateway(a)
         \/ RecordApp(a) \/ RecordGateway(a) \/ RecordError(a) \/ Clear(a)
  PROVE  RuntimeUpTo(n)'
  <1> USE DEF CallStages
  <1>1. /\ context \in RowUpTo(n) /\ process \in [Pids -> ProcessUpTo(n)]
        /\ call \in [Callers -> CallUpTo(n)] /\ worktree \in BOOLEAN /\ lastPid \in Pids
    BY DEF RuntimeUpTo
  <1>2. /\ call[a].app \in Pids \cup {NoPid} /\ call[a].gateway \in Pids \cup {NoPid}
        /\ call[a].endpoint \in 0..MaxStarts /\ call[a].row \in RowUpTo(n)
    BY <1>1 DEF CallUpTo
  <1>3. CASE KillSeen(a) \/ KillStopped(a) \/ Undo(a)
    <2>1. PICK gateway, app, endpoint : \E stage \in CallStages :
            KillsPids(a, gateway, app, endpoint, stage)
      <3>1. CASE KillSeen(a)
        BY <3>1 DEF KillSeen
      <3>2. CASE KillStopped(a)
        BY <3>2 DEF KillStopped
      <3>3. CASE Undo(a)
        BY <3>3 DEF Undo
      <3>4. QED
        BY <1>3, <3>1, <3>2, <3>3
    <2>2. PICK next \in CallStages : CallGoes(a, next)
      BY <2>1 DEF KillsPids
    <2>3. call' \in [Callers -> CallUpTo(n)]
      BY <1>1, <2>2, CallGoesTyped DEF CallGoes
    <2>4. process' \in [Pids -> ProcessUpTo(n)]
      BY <1>1, <2>1, KillsTyped DEF KillsPids
    <2>5. QED
      BY <1>1, <2>1, <2>3, <2>4 DEF KillsPids, RuntimeUpTo
  <1>4. CASE SpawnApp(a) \/ SpawnGateway(a)
    <2>1. PICK p \in Pids, stage \in CallStages, program \in ProcessUpTo(n) :
            /\ process' = [process EXCEPT ![p] = program]
            /\ \/ call' = [call EXCEPT ![a].app = p, ![a].at = stage]
               \/ call' = [call EXCEPT ![a].gateway = p, ![a].at = stage]
            /\ lastPid' = p /\ UNCHANGED <<context, worktree>>
      <3>1. /\ Program("app", "up", call[a].endpoint) \in ProcessUpTo(n)
            /\ Program("gateway", "booting", 0) \in ProcessUpTo(n)
        BY <1>2, Programs, Bounds DEF GatewayStages
      <3>2. CASE SpawnApp(a)
        BY <3>1, <3>2 DEF SpawnApp, Given
      <3>3. CASE SpawnGateway(a)
        BY <3>1, <3>3 DEF SpawnGateway, Given
      <3>4. QED
        BY <1>4, <3>2, <3>3
    <2>2. call' \in [Callers -> CallUpTo(n)]
      <3>1. /\ [call[a] EXCEPT !.app = p, !.at = stage] \in CallUpTo(n)
            /\ [call[a] EXCEPT !.gateway = p, !.at = stage] \in CallUpTo(n)
        BY ZenonT(40), <1>1 DEF CallUpTo
      <3>2. QED
        BY <1>1, <2>1, <3>1
    <2>3. QED
      BY <1>1, <2>1, <2>2 DEF RuntimeUpTo
  <1>5. CASE RecordApp(a) \/ RecordGateway(a) \/ RecordError(a) \/ Clear(a)
    <2>1. PICK row \in RowUpTo(n), stage, next \in CallStages : Writes(a, stage, row, next)
      <3> DEFINE r == call[a].row
      <3>1. /\ [r EXCEPT !.app = call[a].app, !.gateway = NoPid, !.endpoint = call[a].endpoint]
                 \in RowUpTo(n)
            /\ [r EXCEPT !.gateway = call[a].gateway] \in RowUpTo(n)
            /\ [r EXCEPT !.state = "error", !.app = NoPid, !.gateway = NoPid] \in RowUpTo(n)
            /\ [r EXCEPT !.app = NoPid, !.gateway = NoPid, !.state = "stopped"] \in RowUpTo(n)
        BY <1>2 DEF RowUpTo, RuntimeStates
      <3>2. CASE RecordApp(a)
        BY <3>1, <3>2 DEF RecordApp
      <3>3. CASE RecordGateway(a)
        BY <3>1, <3>3 DEF RecordGateway
      <3>4. CASE RecordError(a)
        BY <3>1, <3>4 DEF RecordError
      <3>5. CASE Clear(a)
        BY <3>1, <3>5 DEF Clear
      <3>6. QED
        BY <1>5, <3>2, <3>3, <3>4, <3>5
    <2>2. QED
      BY <2>1, WritesTyped
  <1>6. QED
    BY <1>3, <1>4, <1>5

\* tryBeginRuntimeStart: there has been one more start, or nothing was written.
LEMMA GateTyped ==
  ASSUME NEW n \in Nat, RuntimeUpTo(n), left \in Left, NEW a \in Callers, Gate(a)
  PROVE  \/ left' = left /\ RuntimeUpTo(n)'
         \/ /\ left.starts > 0 /\ left' = [left EXCEPT !.starts = @ - 1]
            /\ RuntimeUpTo(n + 1)'
  <1> USE DEF CallStages
  <1>1. /\ context \in RowUpTo(n) /\ process \in [Pids -> ProcessUpTo(n)]
        /\ call \in [Callers -> CallUpTo(n)] /\ worktree \in BOOLEAN /\ lastPid \in Pids
    BY DEF RuntimeUpTo
  <1>2. CASE MayBegin(a)
    <2>1. left.starts \in 0..MaxStarts
      BY DEF Left
    <2>2. context' \in RowUpTo(n + 1)
      <3>1. context' =
              [context EXCEPT !.state = "starting", !.generation = @ + 1, !.old = FALSE]
        BY <1>2 DEF Gate
      <3>2. context.generation + 1 \in 0..(n + 1)
        BY <1>1 DEF RowUpTo
      <3>3. context \in RowUpTo(n + 1)
        BY <1>1, MoreStarts
      <3>4. QED
        BY <3>1, <3>2, <3>3 DEF RowUpTo, RuntimeStates
    <2>3. call' \in [Callers -> CallUpTo(n)]
      <3>1. call' = [call EXCEPT ![a].at = "kill", ![a].endpoint = left.starts]
        BY <1>2 DEF Gate
      <3>2. [call[a] EXCEPT !.at = "kill", !.endpoint = left.starts] \in CallUpTo(n)
        BY <1>1, <2>1 DEF CallUpTo
      <3>3. QED
        BY <1>1, <3>1, <3>2
    <2>4. RuntimeUpTo(n + 1)'
      BY <1>1, <2>2, <2>3, MoreStarts DEF Gate, RuntimeUpTo
    <2>5. QED
      BY <1>2, <2>4 DEF Gate, Spend
  <1>3. CASE ~MayBegin(a)
    <2>1. UNCHANGED <<context, left>> /\ CallGoes(a, "failed")
      BY <1>3 DEF Gate
    <2>2. call' \in [Callers -> CallUpTo(n)]
      BY <1>1, <2>1, CallGoesTyped DEF CallGoes
    <2>3. QED
      BY <1>1, <2>1, <2>2 DEF Gate, RuntimeUpTo
  <1>4. QED
    BY <1>2, <1>3

\* So do the steps of a gateway.
LEMMA GatewayTyped ==
  ASSUME NEW n \in Nat, RuntimeUpTo(n), NEW p \in Pids, GatewayStep(p)
  PROVE  RuntimeUpTo(n)'
  <1>1. /\ context \in RowUpTo(n) /\ process \in [Pids -> ProcessUpTo(n)]
        /\ call \in [Callers -> CallUpTo(n)] /\ worktree \in BOOLEAN /\ lastPid \in Pids
    BY DEF RuntimeUpTo
  <1>2. process[p] \in ProcessUpTo(n) /\ process[p].row \in RowUpTo(n)
    BY <1>1 DEF ProcessUpTo
  <1>3. process' \in [Pids -> ProcessUpTo(n)]
    <2>1. NoProcess \in ProcessUpTo(n)
      BY Programs, Bounds DEF GatewayStages
    <2>2. CASE Connect(p)
      <3>1. Program("gateway", "connected", context.endpoint) \in ProcessUpTo(n)
        BY <1>1, Programs DEF RowUpTo, GatewayStages
      <3>2. QED
        BY <1>1, <2>1, <2>2, <3>1 DEF Connect
    <2>3. CASE ReadsRow(p) \/ WritesRunning(p) \/ StopsReading(p)
      <3>1. PICK stage \in GatewayStages, row \in RowUpTo(n) :
              \/ process' = [process EXCEPT ![p].stage = stage, ![p].row = row]
              \/ Exits(p)
        BY <1>1, <2>3, EmptyRow DEF ReadsRow, WritesRunning, StopsReading, GatewayStages
      <3>2. [process[p] EXCEPT !.stage = stage, !.row = row] \in ProcessUpTo(n)
        BY <1>2 DEF ProcessUpTo
      <3>3. QED
        BY <1>1, <2>1, <3>1, <3>2 DEF Exits
    <2>4. CASE Bind(p) \/ LosesApp(p) \/ WritesSleeping(p)
      <3>1. PICK stage \in GatewayStages :
              process' = [process EXCEPT ![p].stage = stage] \/ Exits(p)
        BY <2>4 DEF Bind, LosesApp, WritesSleeping, GatewayStages
      <3>2. [process[p] EXCEPT !.stage = stage] \in ProcessUpTo(n)
        BY <1>2 DEF ProcessUpTo
      <3>3. QED
        BY <1>1, <2>1, <3>1, <3>2 DEF Exits
    <2>5. QED
      BY <2>2, <2>3, <2>4 DEF GatewayStep
  <1>4. context' \in RowUpTo(n)
    <2>1. CASE WritesRunning(p)
      <3>1. context' = [process[p].row EXCEPT !.gateway = p, !.state = "running", !.old = FALSE]
        BY <2>1 DEF WritesRunning
      <3>2. QED
        BY <1>2, <3>1 DEF RowUpTo, RuntimeStates
    <2>2. CASE WritesSleeping(p)
      <3>1. context' =
              [process[p].row EXCEPT !.gateway = NoPid, !.state = "sleeping", !.old = FALSE]
        BY <2>2 DEF WritesSleeping
      <3>2. QED
        BY <1>2, <3>1 DEF RowUpTo, RuntimeStates
    <2>3. QED
      BY <1>1, <2>1, <2>2 DEF GatewayStep, Connect, ReadsRow, Bind, LosesApp, StopsReading
  <1>5. UNCHANGED <<call, worktree, lastPid>>
    BY DEF GatewayStep, Connect, ReadsRow, WritesRunning, Bind, LosesApp, StopsReading,
           WritesSleeping
  <1>6. QED
    BY <1>1, <1>3, <1>4, <1>5 DEF RuntimeUpTo

-----------------------------------------------------------------------------
(***************************************************************************)
(* The loop, the commands and the rest keep the types.                     *)
(***************************************************************************)

\* What the loop goes by is typed, also after it has read a row.
LEMMA LoopRows ==
  ASSUME NEW n \in Nat, NEW row \in RowUpTo(n), NEW state \in RuntimeStates
  PROVE  /\ Updated(row, state) \in RowUpTo(n) /\ Gist(row) \in RowUpTo(n)
         /\ [Updated(row, state) EXCEPT !.app = NoPid, !.gateway = NoPid] \in RowUpTo(n)
         /\ [row EXCEPT !.old = FALSE] \in RowUpTo(n)
         /\ [row EXCEPT !.old = TRUE] \in RowUpTo(n)
  <1>1. /\ Updated(row, state) \in RowUpTo(n)
        /\ [row EXCEPT !.old = FALSE] \in RowUpTo(n) /\ [row EXCEPT !.old = TRUE] \in RowUpTo(n)
    BY DEF Updated, RowUpTo
  <1>2. Gist(row) \in RowUpTo(n)
    <2>1. NewRow \in RowUpTo(n)
      BY EmptyRow
    <2> HIDE DEF NewRow
    <2>2. QED
      BY <2>1 DEF Gist, RowUpTo
  <1>3. ASSUME NEW r \in RowUpTo(n)
        PROVE  [r EXCEPT !.app = NoPid, !.gateway = NoPid] \in RowUpTo(n)
    BY DEF RowUpTo
  <1>4. QED
    BY <1>1, <1>2, <1>3

\* The loop's own record.
LEMMA LoopGoesTyped ==
  ASSUME NEW n \in Nat, OwnUpTo(n), NEW stage \in LoopStages, NEW row \in RowUpTo(n),
         LoopGoes(stage, row)
  PROVE  loop' \in [at : LoopStages, row : RowUpTo(n), listed : BoardStates]
  BY DEF OwnUpTo, LoopGoes, BoardStates

\* An idle loop is typed.
LEMMA IdleLoopTyped ==
  ASSUME NEW n \in Nat
  PROVE  IdleLoop \in [at : LoopStages, row : RowUpTo(n), listed : BoardStates]
  BY EmptyRow DEF IdleLoop, LoopStages, BoardStates

\* Where the steps of the loop go.
LEMMA LoopMoves ==
  ASSUME NEW n \in Nat, RuntimeUpTo(n), OwnUpTo(n), LoopStep \/ PollBoardFails
  PROVE  loop' \in [at : LoopStages, row : RowUpTo(n), listed : BoardStates]
  <1> USE DEF LoopStages
  <1>1. context \in RowUpTo(n) /\ loop.row \in RowUpTo(n) /\ NewRow \in RowUpTo(n)
    BY EmptyRow DEF RuntimeUpTo, OwnUpTo
  <1>2. CASE PollBoard
    <2>1. loop' = [IdleLoop EXCEPT !.at = "map", !.listed = boardState]
      BY <1>2 DEF PollBoard
    <2>2. QED
      BY <1>1, <2>1 DEF OwnUpTo, IdleLoop
  <1>3. CASE PollBoardFails \/ ProvisionGoal \/ Provisioned \/ NoContext \/ WriteMapped
    BY <1>1, <1>3, LoopGoesTyped
       DEF PollBoardFails, ProvisionGoal, Provisioned, NoContext, WriteMapped, LoopWrites
  <1>4. CASE ReadMapped
    <2>1. MappedState \in RuntimeStates \/ LoopGoes("list", NewRow)
      <3>1. context.state \in RuntimeStates /\ loop.listed \in BoardStates
        BY <1>1 DEF RowUpTo, OwnUpTo
      <3>2. QED
        BY <3>1 DEF MappedState, RuntimeStates, BoardStates
    <2>2. CASE LoopGoes("list", NewRow)
      BY <1>1, <2>2, LoopGoesTyped
    <2>3. CASE MappedState \in RuntimeStates /\ ~LoopGoes("list", NewRow)
      <3>1. Updated(context, MappedState) \in RowUpTo(n)
        BY <1>1, <2>3, LoopRows
      <3>2. LoopGoes("mapWrite", Updated(context, MappedState))
        BY <1>4, <2>3 DEF ReadMapped
      <3>3. QED
        BY <3>1, <3>2, LoopGoesTyped
    <2>4. QED
      BY <2>1, <2>2, <2>3
  <1>5. CASE ListContexts \/ Checkpoint
    <2>1. /\ [context EXCEPT !.old = FALSE] \in RowUpTo(n)
          /\ Gist(context) \in RowUpTo(n) /\ Gist(loop.row) \in RowUpTo(n)
      BY <1>1, LoopRows DEF RuntimeStates
    <2>2. \/ loop' = IdleLoop
          \/ LoopGoes("checkpoint", [context EXCEPT !.old = FALSE])
          \/ LoopGoes("reconcile", Gist(context)) \/ LoopGoes("reconcile", Gist(loop.row))
      BY <1>5 DEF ListContexts, Checkpoint, LoopWrites
    <2>3. QED
      BY <2>1, <2>2, IdleLoopTyped, LoopGoesTyped
  <1>6. CASE FindStale \/ WriteStale
    <2>1. /\ [Updated(context, "error") EXCEPT !.app = NoPid, !.gateway = NoPid] \in RowUpTo(n)
          /\ Gist(loop.row) \in RowUpTo(n)
      BY <1>1, LoopRows DEF RuntimeStates
    <2>2. \/ LoopGoes("stale",
                      [Updated(context, "error") EXCEPT !.app = NoPid, !.gateway = NoPid])
          \/ LoopGoes("reconcile", Gist(loop.row))
      BY <1>6 DEF FindStale, WriteStale, LoopWrites
    <2>3. QED
      BY <2>1, <2>2, LoopGoesTyped
  <1>7. CASE StopIfAlive \/ Stopped \/ StartIfDown \/ LeaveRunning \/ WriteHuman
    <2>1. \/ LoopGoes("stopping", loop.row) \/ LoopGoes("starting", loop.row)
          \/ LoopGoes("poll", NewRow) \/ loop' = IdleLoop
      BY <1>7 DEF StopIfAlive, Stopped, StartIfDown, LeaveRunning, WriteHuman, LoopWrites
    <2>2. QED
      BY <1>1, <2>1, IdleLoopTyped, LoopGoesTyped
  <1>8. CASE Started
    <2>1. Updated(context, "human_needed") \in RowUpTo(n)
      BY <1>1, LoopRows DEF RuntimeStates
    <2>2. LoopGoes("human", Updated(context, "human_needed")) \/ loop' = IdleLoop
      BY <1>8 DEF Started
    <2>3. QED
      BY <2>1, <2>2, IdleLoopTyped, LoopGoesTyped
  <1>9. QED
    BY <1>2, <1>3, <1>4, <1>5, <1>6, <1>7, <1>8 DEF LoopStep

\* The loop begins and ends calls, and writes rows that it has read.
LEMMA LoopTyped ==
  ASSUME NEW n \in Nat, RuntimeUpTo(n), OwnUpTo(n), LoopStep \/ PollBoardFails
  PROVE  RuntimeUpTo(n)' /\ OwnUpTo(n)'
  <1>1. /\ context \in RowUpTo(n) /\ loop.row \in RowUpTo(n)
        /\ call \in [Callers -> CallUpTo(n)] /\ worktree \in BOOLEAN
    BY DEF RuntimeUpTo, OwnUpTo
  <1>2. context' \in RowUpTo(n)
    <2>1. \/ context' = context \/ context' = loop.row
          \/ context' = [context EXCEPT !.state = "stopped"]
      BY DEF LoopStep, PollBoard, PollBoardFails, ProvisionGoal, Provisioned, ReadMapped,
             NoContext, WriteMapped, LoopWrites, ListContexts, Checkpoint, FindStale,
             WriteStale, StopIfAlive, Stopped, StartIfDown, LeaveRunning, Started, WriteHuman,
             runtimeVars
    <2>2. [context EXCEPT !.state = "stopped"] \in RowUpTo(n)
      BY <1>1 DEF RowUpTo, RuntimeStates
    <2>3. QED
      BY <1>1, <2>1, <2>2
  <1>3. call' \in [Callers -> CallUpTo(n)]
    <2>1. \/ call' = call \/ call' = [call EXCEPT ![Dispatcher] = NoCall]
          \/ Begins(Dispatcher, "probe") \/ Begins(Dispatcher, "stop")
      BY DEF LoopStep, PollBoard, PollBoardFails, ProvisionGoal, Provisioned, ReadMapped,
             NoContext, WriteMapped, LoopWrites, ListContexts, Checkpoint, FindStale,
             WriteStale, StopIfAlive, Stopped, StartIfDown, LeaveRunning, Started, WriteHuman,
             runtimeVars
    <2>2. {"probe", "stop"} \subseteq CallStages
      BY DEF CallStages
    <2>3. QED
      <3>1. Dispatcher \in Callers /\ Operator \in Callers
        BY SupervisorAssumption
      <3>2. ASSUME NEW a \in Callers, NEW stage \in CallStages
            PROVE  /\ [call EXCEPT ![a] = NoCall] \in [Callers -> CallUpTo(n)]
                   /\ [call EXCEPT ![a] = [NoCall EXCEPT !.at = stage]]
                        \in [Callers -> CallUpTo(n)]
        BY <1>1, CallGoesTyped
      <3>3. CASE call' = [call EXCEPT ![Dispatcher] = NoCall]
        BY <2>2, <3>1, <3>2, <3>3
      <3>4. CASE Begins(Dispatcher, "probe")
        BY <2>2, <3>1, <3>2, <3>4 DEF Begins
      <3>5. CASE Begins(Dispatcher, "stop")
        BY <2>2, <3>1, <3>2, <3>5 DEF Begins
      <3>6. QED
        BY <1>1, <2>1, <3>3, <3>4, <3>5
  <1>4. /\ worktree' \in BOOLEAN /\ disturbed' \in BOOLEAN /\ reverted' \in BOOLEAN
        /\ UNCHANGED <<process, lastPid, boardState, command>>
    BY <1>1 DEF history, Remembers, LoopStep, PollBoard,
           PollBoardFails, ProvisionGoal, Provisioned, ReadMapped,
           NoContext, WriteMapped, LoopWrites, ListContexts, Checkpoint, FindStale,
           WriteStale, StopIfAlive, Stopped, StartIfDown, LeaveRunning, Started, WriteHuman,
           runtimeVars, OwnUpTo
  <1>5. QED
    BY <1>2, <1>3, <1>4, LoopMoves DEF RuntimeUpTo, OwnUpTo

\* A command begins and ends calls, and writes a row that it has read.
LEMMA CommandTyped ==
  ASSUME NEW n \in Nat, RuntimeUpTo(n), OwnUpTo(n), left \in Left, GiveCommand \/ CommandStep
  PROVE  RuntimeUpTo(n)' /\ OwnUpTo(n)'
  <1> DEFINE Commanding == [at : CommandStages, kind : Commands, row : RowUpTo(n)]
  <1>1. /\ context \in RowUpTo(n) /\ command \in Commanding /\ NewRow \in RowUpTo(n)
        /\ call \in [Callers -> CallUpTo(n)] /\ worktree \in BOOLEAN
    BY EmptyRow DEF RuntimeUpTo, OwnUpTo
  <1>2. context' \in RowUpTo(n)
    <2>1. \/ context' = context \/ context' = command.row
          \/ context' = [context EXCEPT !.state = "stopped"]
      BY DEF GiveCommand, CommandStep, CheckpointCommand, CommandStopped, CommandStarted
    <2>2. [context EXCEPT !.state = "stopped"] \in RowUpTo(n)
      BY <1>1 DEF RowUpTo, RuntimeStates
    <2>3. QED
      BY <1>1, <2>1, <2>2
  <1>3. call' \in [Callers -> CallUpTo(n)]
    <2>1. \/ call' = call \/ Begins(Operator, "none")
          \/ Begins(Operator, "probe") \/ Begins(Operator, "stop")
      BY DEF GiveCommand, CommandStep, CheckpointCommand, CommandStopped, CommandStarted
    <2>2. {"probe", "stop", "none"} \subseteq CallStages
      BY DEF CallStages
    <2>3. QED
      <3>1. Dispatcher \in Callers /\ Operator \in Callers
        BY SupervisorAssumption
      <3>2. ASSUME NEW a \in Callers, NEW stage \in CallStages
            PROVE  [call EXCEPT ![a] = [NoCall EXCEPT !.at = stage]] \in [Callers -> CallUpTo(n)]
        BY <1>1, CallGoesTyped
      <3>3. QED
        BY <1>1, <2>1, <2>2, <3>1, <3>2 DEF Begins
  <1>4. command' \in Commanding
    <2>1. CASE GiveCommand
      <3>1. PICK kind \in left.commands :
              \/ command' = [at |-> "stopping", kind |-> kind, row |-> NewRow]
              \/ command' = [at |-> "checkpoint", kind |-> kind,
                             row |-> [context' EXCEPT !.old = FALSE]]
        BY <2>1 DEF GiveCommand
      <3>2. kind \in Commands /\ [context' EXCEPT !.old = FALSE] \in RowUpTo(n)
        BY <1>2 DEF Left, RowUpTo
      <3>3. PICK row \in RowUpTo(n), stage \in CommandStages :
              command' = [at |-> stage, kind |-> kind, row |-> row]
        BY <1>1, <3>1, <3>2 DEF CommandStages
      <3>4. QED
        BY <3>2, <3>3
    <2>2. CASE CommandStep
      <3>1. \/ CommandGoes("starting") \/ CommandGoes("stopping")
            \/ command' = IdleCommand
        BY <2>2 DEF CommandStep, CheckpointCommand, CommandStopped, CommandStarted
      <3>2. IdleCommand \in Commanding
        BY <1>1 DEF IdleCommand, CommandStages, Commands
      <3>3. \A stage \in CommandStages :
              [command EXCEPT !.at = stage, !.row = NewRow] \in Commanding
        BY <1>1
      <3>4. QED
        BY <3>1, <3>2, <3>3 DEF CommandGoes, CommandStages
    <2>3. QED
      BY <2>1, <2>2
  <1>5. /\ worktree' \in BOOLEAN /\ disturbed' \in BOOLEAN /\ reverted' \in BOOLEAN
        /\ UNCHANGED <<process, lastPid, boardState, loop>>
    BY <1>1 DEF GiveCommand, CommandStep, CheckpointCommand, CommandStopped, CommandStarted,
                history, Remembers, OwnUpTo
  <1>6. QED
    BY <1>2, <1>3, <1>4, <1>5 DEF RuntimeUpTo, OwnUpTo

\* Faults, time and the board.
LEMMA FaultsTyped ==
  ASSUME NEW n \in Nat, RuntimeUpTo(n), OwnUpTo(n),
         \/ \E a \in Callers : CallerDies(a) \/ CallGivesUp(a)
         \/ \E p \in Pids : ProcessDies(p) \/ PidTaken(p)
         \/ LoseWorktree \/ Age \/ MoveGoalOnBoard
  PROVE  RuntimeUpTo(n)' /\ OwnUpTo(n)'
  <1>1. /\ context \in RowUpTo(n) /\ process \in [Pids -> ProcessUpTo(n)]
        /\ call \in [Callers -> CallUpTo(n)] /\ worktree \in BOOLEAN /\ lastPid \in Pids
    BY DEF RuntimeUpTo
  <1>2. ASSUME NEW a \in Callers, CallerDies(a) PROVE RuntimeUpTo(n)' /\ OwnUpTo(n)'
    <2>1. call' \in [Callers -> CallUpTo(n)]
      BY <1>1, <1>2, CallGoesTyped DEF CallerDies, CallStages
    <2>2. command' \in [at : CommandStages, kind : Commands, row : RowUpTo(n)]
      BY <1>2, EmptyRow DEF CallerDies, OwnUpTo, IdleCommand, CommandStages, Commands
    <2>3. loop' \in [at : LoopStages, row : RowUpTo(n), listed : BoardStates]
      BY <1>2, IdleLoopTyped DEF CallerDies, OwnUpTo
    <2>4. /\ disturbed' \in BOOLEAN
          /\ UNCHANGED <<context, process, worktree, lastPid, boardState, reverted>>
      BY <1>2 DEF CallerDies, OwnUpTo, InCall
    <2>5. QED
      BY <2>1, <2>2, <2>3, <2>4 DEF RuntimeUpTo, OwnUpTo
  <1>3. ASSUME NEW a \in Callers, CallGivesUp(a) PROVE RuntimeUpTo(n)' /\ OwnUpTo(n)'
    <2>1. call' \in [Callers -> CallUpTo(n)]
      BY <1>1, <1>3, CallGoesTyped DEF CallGivesUp, CallGoes, CallStages
    <2>2. QED
      BY <1>3, <2>1 DEF CallGivesUp, RuntimeUpTo, OwnUpTo
  <1>4. ASSUME NEW p \in Pids, ProcessDies(p) \/ PidTaken(p)
        PROVE  RuntimeUpTo(n)' /\ OwnUpTo(n)'
    <2>1. NoProcess \in ProcessUpTo(n) /\ Program("foreign", "up", 0) \in ProcessUpTo(n)
      BY Programs, Bounds
    <2>2. process' \in [Pids -> ProcessUpTo(n)]
      BY <1>1, <1>4, <2>1 DEF ProcessDies, PidTaken
    <2>3. QED
      BY <1>4, <2>2 DEF ProcessDies, PidTaken, history, RuntimeUpTo, OwnUpTo
  <1>5. CASE LoseWorktree \/ Age
    <2>1. [context EXCEPT !.old = TRUE] \in RowUpTo(n)
      BY <1>1, LoopRows DEF RuntimeStates
    <2>2. context' \in RowUpTo(n) /\ worktree' \in BOOLEAN
      BY <1>1, <1>5, <2>1 DEF LoseWorktree, Age
    <2>3. QED
      BY <1>5, <2>2 DEF LoseWorktree, Age, ownVars, history, RuntimeUpTo, OwnUpTo
  <1>6. CASE MoveGoalOnBoard
    BY <1>6 DEF MoveGoalOnBoard, history, RuntimeUpTo, OwnUpTo
  <1>7. QED
    BY <1>2, <1>3, <1>4, <1>5, <1>6

\* The budget stays one, and only a start that begins lowers its starts.
LEMMA LeftTyped ==
  ASSUME left \in Left, [SupervisorNext]_supervisorVars
  PROVE  /\ left' \in Left
         /\ (\E a \in Callers : SupervisorCallStep(a) /\ Gate(a)) \/ left'.starts = left.starts
  <1>1. \/ left' = left
        \/ \E what \in {"faults", "moves", "accidents"} : Spend(what)
        \/ \E kind \in left.commands : left' = [left EXCEPT !.commands = @ \ {kind}]
        \/ \E a \in Callers : SupervisorCallStep(a) /\ Gate(a)
    <2>1. CASE LoopStep \/ PollBoardFails \/ GiveCommand \/ CommandStep
      BY <2>1 DEF LoopStep, PollBoard, PollBoardFails, ProvisionGoal, Provisioned, ReadMapped,
             NoContext, WriteMapped, LoopWrites, ListContexts, Checkpoint, FindStale,
             WriteStale, StopIfAlive, Stopped, StartIfDown, LeaveRunning, Started, WriteHuman,
             GiveCommand, CommandStep, CheckpointCommand, CommandStopped, CommandStarted,
             runtimeVars
    <2>2. ASSUME NEW a \in Callers, CallerDies(a) \/ CallGivesUp(a)
          PROVE  Spend("faults") \/ Spend("accidents")
      BY <2>2 DEF CallerDies, CallGivesUp
    <2>3. ASSUME NEW a \in Callers, SupervisorCallStep(a), ~Gate(a) PROVE left' = left
      BY <2>3 DEF SupervisorCallStep, CallStep, StartStep, StopStep, ReadRow, Probe, KillSeen,
             Exited, ExitTimesOut, SpawnApp, SpawnFails, RecordApp, SpawnGateway,
             RecordGateway, Answered, StartTimesOut, Undo, RecordError, ReadStopped,
             KillStopped, Clear, Writes, KillsPids
    <2>4. ASSUME NEW p \in Pids, SupervisorGatewayStep(p) \/ ProcessDies(p) \/ PidTaken(p)
          PROVE  left' = left \/ Spend("faults")
      BY <2>4 DEF SupervisorGatewayStep, GatewayStep, Connect, ReadsRow, WritesRunning, Bind,
             LosesApp, StopsReading, WritesSleeping, ProcessDies, PidTaken
    <2>5. CASE LoseWorktree \/ Age \/ MoveGoalOnBoard \/ UNCHANGED supervisorVars
      BY <2>5 DEF LoseWorktree, Age, MoveGoalOnBoard, supervisorVars, runtimeVars
    <2>6. QED
      BY <2>1, <2>2, <2>3, <2>4, <2>5 DEF SupervisorNext
  <1>2. CASE \E what \in {"faults", "moves", "accidents"} : Spend(what)
    BY <1>2 DEF Spend, Left
  <1>3. CASE \E kind \in left.commands : left' = [left EXCEPT !.commands = @ \ {kind}]
    BY <1>3 DEF Left
  <1>4. CASE \E a \in Callers : SupervisorCallStep(a) /\ Gate(a)
    <2>1. PICK a \in Callers : SupervisorCallStep(a) /\ Gate(a)
      BY <1>4
    <2>2. left' = left \/ Spend("starts")
      BY <2>1 DEF Gate
    <2>3. left' \in Left
      <3>1. left.starts \in 0..MaxStarts
        BY DEF Left
      <3>2. CASE Spend("starts")
        <4>1. left.starts - 1 \in 0..MaxStarts
          BY <3>1, <3>2, Bounds DEF Spend
        <4>2. [left EXCEPT !.starts = @ - 1] \in Left
          BY <4>1 DEF Left
        <4>3. QED
          BY <3>2, <4>2 DEF Spend
      <3>3. QED
        BY <2>2, <3>2
    <2>4. QED
      BY <1>4, <2>3
  <1>5. QED
    BY <1>1, <1>2, <1>3, <1>4

\* Every step keeps the types.
LEMMA TypesInductive == TypeInv /\ [SupervisorNext]_supervisorVars => TypeInv'
  <1> SUFFICES ASSUME TypeInv, [SupervisorNext]_supervisorVars PROVE TypeInv'
    OBVIOUS
  <1>1. left \in Left /\ left' \in Left
    BY LeftTyped DEF TypeInv
  <1>2. PICK n \in Nat : n = Begun
    <2>1. left.starts \in 0..MaxStarts
      BY <1>1 DEF Left
    <2>2. QED
      BY <2>1, Bounds DEF Begun
  <1>3. RuntimeUpTo(n) /\ OwnUpTo(n)
    BY <1>2 DEF TypeInv
  <1>4. ASSUME left'.starts = left.starts, RuntimeUpTo(n)', OwnUpTo(n)' PROVE TypeInv'
    <2>1. n = Begun'
      BY <1>2, <1>4 DEF Begun
    <2>2. QED
      BY <1>1, <1>4, <2>1 DEF TypeInv
  <1>5. ASSUME NEW a \in Callers, SupervisorCallStep(a) PROVE TypeInv'
    <2>1. OwnUpTo(n)'
      BY <1>3, <1>5 DEF SupervisorCallStep, Observes, Remembers, OwnUpTo
    <2>2. CASE Gate(a)
      <3>1. CASE left' = left /\ RuntimeUpTo(n)'
        BY <1>4, <2>1, <3>1
      <3>2. CASE /\ left.starts > 0 /\ left' = [left EXCEPT !.starts = @ - 1]
                 /\ RuntimeUpTo(n + 1)'
        <4>1. left'.starts = left.starts - 1 /\ left.starts \in 0..MaxStarts
          BY <1>1, <3>2 DEF Left
        <4>2. n + 1 = Begun'
          BY <1>2, <4>1, Bounds DEF Begun
        <4>3. OwnUpTo(n + 1)'
          BY <2>1, MoreStarts DEF OwnUpTo
        <4>4. QED
          BY <1>1, <3>2, <4>2, <4>3 DEF TypeInv
      <3>3. QED
        BY <1>1, <1>3, <2>2, <3>1, <3>2, GateTyped
    <2>3. CASE ~Gate(a)
      <3>1. left' = left
        BY <1>5, <2>3 DEF SupervisorCallStep, CallStep, StartStep, StopStep, ReadRow, Probe,
               KillSeen, Exited, ExitTimesOut, SpawnApp, SpawnFails, RecordApp, SpawnGateway,
               RecordGateway, Answered, StartTimesOut, Undo, RecordError, ReadStopped,
               KillStopped, Clear, Writes, KillsPids
      <3>2. RuntimeUpTo(n)'
        BY <1>3, <1>5, <2>3, OwnCallSteps, ProcessCallSteps
           DEF SupervisorCallStep, CallStep, StartStep, StopStep
      <3>3. QED
        BY <1>4, <2>1, <3>1, <3>2
    <2>4. QED
      BY <2>2, <2>3
  <1>6. CASE ~\E a \in Callers : SupervisorCallStep(a)
    <2>1. left'.starts = left.starts
      BY <1>1, <1>6, LeftTyped
    <2>2. ASSUME NEW p \in Pids, SupervisorGatewayStep(p)
          PROVE  RuntimeUpTo(n)' /\ OwnUpTo(n)'
      <3>1. RuntimeUpTo(n)'
        BY <1>3, <2>2, GatewayTyped DEF SupervisorGatewayStep
      <3>2. QED
        BY <1>3, <2>2, <3>1 DEF SupervisorGatewayStep, Remembers, OwnUpTo
    <2>3. CASE UNCHANGED supervisorVars
      BY <1>3, <1>4, <2>1, <2>3 DEF supervisorVars, runtimeVars, ownVars, history,
             RuntimeUpTo, OwnUpTo
    <2>4. CASE LoopStep \/ PollBoardFails
      BY <1>3, <1>4, <2>1, <2>4, LoopTyped
    <2>5. CASE GiveCommand \/ CommandStep
      BY <1>1, <1>3, <1>4, <2>1, <2>5, CommandTyped
    <2>6. CASE \/ \E a \in Callers : CallerDies(a) \/ CallGivesUp(a)
               \/ \E p \in Pids : ProcessDies(p) \/ PidTaken(p)
               \/ LoseWorktree \/ Age \/ MoveGoalOnBoard
      BY <1>3, <1>4, <2>1, <2>6, FaultsTyped
    <2>7. QED
      BY <1>4, <1>6, <2>1, <2>2, <2>3, <2>4, <2>5, <2>6 DEF SupervisorNext
  <1>7. QED
    BY <1>5, <1>6

\* At first there is no row and no process.
LEMMA InitTypes == SupervisorInit => TypeInv
  <1> SUFFICES ASSUME SupervisorInit PROVE TypeInv
    OBVIOUS
  <1>1. left \in Left
    BY RuntimeAssumption DEF SupervisorInit, RuntimeInit, Left
  <1>2. PICK n \in Nat : n = Begun
    <2>1. left.starts \in 0..MaxStarts
      BY <1>1 DEF Left
    <2>2. QED
      BY <2>1, Bounds DEF Begun
  <1>3. RuntimeUpTo(n)
    <2>1. NewRow \in RowUpTo(n)
      BY EmptyRow
    <2>2. NoProcess \in ProcessUpTo(n)
      BY Programs, Bounds DEF GatewayStages
    <2>3. NoCall \in CallUpTo(n)
      BY NewCalls DEF CallStages
    <2>4. MaxPid \in Pids
      BY RuntimeAssumption DEF Pids
    <2>5. QED
      BY <2>1, <2>2, <2>3, <2>4 DEF SupervisorInit, RuntimeInit, RuntimeUpTo
  <1>4. OwnUpTo(n)
    BY EmptyRow, IdleLoopTyped
       DEF SupervisorInit, OwnUpTo, IdleCommand, BoardStates, CommandStages, Commands
  <1>5. QED
    BY <1>1, <1>2, <1>3, <1>4 DEF TypeInv

\* The types hold in every reachable state.
LEMMA TypesInvariant == SupervisorInit /\ [][SupervisorNext]_supervisorVars => []TypeInv
  BY InitTypes, TypesInductive, PTL

\* What is typed up to the starts that have been made has the types of the model.
LEMMA TypesImply == TypeInv => SupervisorTypeOK
  <1> SUFFICES ASSUME TypeInv PROVE SupervisorTypeOK
    OBVIOUS
  <1>1. left.starts \in 0..MaxStarts
    BY DEF TypeInv, Left
  <1>2. PICK n \in Nat : n = Begun /\ n <= MaxStarts
    BY <1>1, Bounds DEF Begun
  <1>3. RowUpTo(n) \subseteq Row
    BY <1>2, Bounds DEF RowUpTo, Row
  <1>4. ProcessUpTo(n) \subseteq Process /\ CallUpTo(n) \subseteq Call
    BY <1>3 DEF ProcessUpTo, Process, CallUpTo, Call
  <1>5. RuntimeUpTo(n) /\ OwnUpTo(n) /\ left \in Left
    BY <1>2 DEF TypeInv
  <1>6. RuntimeTypeOK
    BY <1>3, <1>4, <1>5 DEF RuntimeUpTo, RuntimeTypeOK, Left
  <1>7. QED
    BY <1>3, <1>5, <1>6 DEF OwnUpTo, SupervisorTypeOK

-----------------------------------------------------------------------------
(***************************************************************************)
(* What the steps do to the processes that run: most end some or leave     *)
(* them, and the rows that say which ones there are still do.              *)
(***************************************************************************)
Ebbs ==
  \A p \in Pids :
    process'[p].kind \in {"app", "gateway"} => process'[p].kind = process[p].kind

\* What names all app-servers, or all gateways, still does.
LEMMA EbbCovers ==
  ASSUME Ebbs, NEW x
  PROVE  (OnlyApp(x) => OnlyApp(x)') /\ (OnlyGateway(x) => OnlyGateway(x)')
  BY DEF Ebbs, OnlyApp, OnlyGateway

\* When there are no processes, every row names them.
LEMMA QuietCovers ==
  ASSUME Quiet, NEW x
  PROVE  OnlyApp(x) /\ OnlyGateway(x)
  BY Bounds DEF Quiet, OnlyApp, OnlyGateway

\* A caller is one or the other.
LEMMA TwoCallers == Dispatcher \in Callers /\ Operator \in Callers /\ Dispatcher # Operator
  BY SupervisorAssumption

\* The app-server that runs while a gateway does is the one in the row.
LEMMA AppKnown ==
  ASSUME CallKnows, D.at \in CallStages, NEW p \in Pids, process[p].kind = "gateway"
  PROVE  OnlyApp(context.app)
  <1>1. ~OnlyGateway(NoPid)
    BY Bounds DEF OnlyGateway
  <1>2. D.at \notin {"spawn", "clear", "recordError", "record", "port", "undo"}
    BY <1>1 DEF CallKnows, Quiet
  <1>3. D.at \in Outside \cup Ending \cup {"recordGateway", "http"}
    BY <1>2 DEF CallStages, Outside, Ending
  <1>4. QED
    BY <1>3 DEF CallKnows, Covers

\* Steps that end processes and leave the call keep what a call knows, as long as the
\* row still names the processes that it named.
LEMMA EbbKnows ==
  ASSUME CallKnows, Ebbs, call' = call,
         OnlyApp(context.app) => OnlyApp(context.app)',
         OnlyGateway(context.gateway) => OnlyGateway(context.gateway)'
  PROVE  CallKnows'
  <1>1. \A x : (OnlyApp(x) => OnlyApp(x)') /\ (OnlyGateway(x) => OnlyGateway(x)')
    BY EbbCovers
  <1>2. QED
    BY <1>1 DEF CallKnows, Covers, Quiet, D, OnlyApp, OnlyGateway

\* What steps that only end processes keep of the gateways.
LEMMA EbbGateways ==
  ASSUME GatewayKnows, Ebbs,
         \A p \in Pids : process'[p].kind = "gateway"
                           /\ process'[p].stage \in {"writing", "sleeping"} =>
           process'[p].stage = process[p].stage /\ process'[p].row = process[p].row
  PROVE  GatewayKnows'
  BY DEF GatewayKnows, Ebbs, OnlyApp, OnlyGateway

-----------------------------------------------------------------------------
(***************************************************************************)
(* The loop: it writes a row only outside a call, and then the row that it *)
(* has read still names all processes.                                     *)
(***************************************************************************)
Calm == TypeInv /\ Undisturbed

\* What the types say of the parts that the proofs speak of.
LEMMA CalmTypes ==
  ASSUME TypeInv
  PROVE  /\ D.at \in CallStages /\ D.holds \in BOOLEAN /\ loop.at \in LoopStages
         /\ call = [a \in Callers |-> call[a]] /\ process = [p \in Pids |-> process[p]]
         /\ \E n : /\ context \in RowUpTo(n) /\ loop.row \in RowUpTo(n)
                   /\ \A a \in Callers : call[a] \in CallUpTo(n)
                   /\ \A p \in Pids : process[p] \in ProcessUpTo(n)
  <1>1. PICK n : n = Begun
    OBVIOUS
  <1>2. RuntimeUpTo(n) /\ OwnUpTo(n)
    BY <1>1 DEF TypeInv
  <1>3. call[Dispatcher] \in CallUpTo(n)
    BY <1>2, TwoCallers DEF RuntimeUpTo
  <1>4. D.at \in CallStages /\ D.holds \in BOOLEAN
    BY <1>3 DEF CallUpTo, D
  <1>5. QED
    BY <1>2, <1>4 DEF RuntimeUpTo, OwnUpTo

\* Steps of the loop that neither write the row nor touch a call.
LEMMA LoopLooks ==
  ASSUME Calm, ~disturbed',
         \/ PollBoard \/ PollBoardFails \/ ReadMapped \/ NoContext \/ ListContexts \/ FindStale
         \/ LeaveRunning
  PROVE  Undisturbed'
  <1>1. UNCHANGED <<context, process, call, command>>
    BY DEF PollBoard, PollBoardFails, ReadMapped, NoContext, ListContexts, FindStale,
           LeaveRunning, runtimeVars
  <1>2. D.at = "none"
    BY DEF Calm, Undisturbed, LoopKnows, PollBoard, PollBoardFails, ReadMapped, NoContext,
           ListContexts, FindStale, LeaveRunning, LoopAt
  <1>3. Covers(context)
    BY <1>2 DEF Calm, Undisturbed, CallKnows, Outside
  <1>4. PICK n : context \in RowUpTo(n)
    BY CalmTypes DEF Calm
  <1>5. loop'.at # "stale" /\ (loop'.at \in Rewriting => Covers(loop'.row))
    <2>1. CASE ListContexts
      <3>1. LET row == [context EXCEPT !.old = FALSE]
            IN  row.app = context.app /\ row.gateway = context.gateway
        BY <1>4 DEF RowUpTo
      <3>2. Covers([context EXCEPT !.old = FALSE])
        BY <1>3, <3>1 DEF Covers
      <3>3. \/ loop' = IdleLoop
            \/ LoopGoes("checkpoint", [context EXCEPT !.old = FALSE])
            \/ LoopGoes("reconcile", Gist(context))
        BY <2>1 DEF ListContexts
      <3>4. QED
        <4>1. CASE loop' = IdleLoop
          BY <4>1 DEF IdleLoop, Rewriting
        <4>2. CASE LoopGoes("checkpoint", [context EXCEPT !.old = FALSE])
          <5>1. /\ loop'.at = "checkpoint"
                /\ loop'.row = [context EXCEPT !.old = FALSE]
            BY <4>2 DEF LoopGoes
          <5>2. QED
            BY <3>2, <5>1
        <4>3. CASE LoopGoes("reconcile", Gist(context))
          BY <4>3 DEF LoopGoes, Rewriting
        <4>4. QED
          BY <3>3, <4>1, <4>2, <4>3
    <2>2. CASE ReadMapped
      <3>1. ASSUME NEW state PROVE Covers(Updated(context, state))
        BY <1>3, <1>4 DEF RowUpTo, Updated, Covers
      <3>2. QED
        BY <2>2, <3>1 DEF ReadMapped, LoopGoes, Rewriting
    <2>3. CASE PollBoard \/ PollBoardFails \/ NoContext \/ LeaveRunning
      <3>1. loop'.at \in {"map", "list", "poll"}
        <4>1. CASE PollBoard
          BY <4>1 DEF PollBoard, IdleLoop
        <4>2. CASE PollBoardFails \/ NoContext
          BY <4>2 DEF PollBoardFails, NoContext, LoopGoes
        <4>3. CASE LeaveRunning
          BY <4>3 DEF LeaveRunning, IdleLoop
        <4>4. QED
          BY <2>3, <4>1, <4>2, <4>3
      <3>2. QED
        BY <3>1 DEF Rewriting
    <2>4. QED
      BY <2>1, <2>2, <2>3 DEF FindStale
  <1>6. Covers(loop'.row) => Covers(loop.row)'
    BY <1>1 DEF Covers, OnlyApp, OnlyGateway
  <1>7. CallKnows' /\ GatewayKnows'
    BY <1>1 DEF Calm, Undisturbed, CallKnows, GatewayKnows, Covers, Quiet, D, OnlyApp,
                OnlyGateway
  <1>8. QED
    BY <1>1, <1>2, <1>5, <1>6, <1>7 DEF Calm, Undisturbed, LoopKnows, D

\* Steps of the loop that begin a call, or end one that is over.
LEMMA LoopCalls ==
  ASSUME Calm,
         \/ ProvisionGoal \/ StopIfAlive \/ StartIfDown
         \/ Provisioned \/ Stopped \/ Started
  PROVE  Undisturbed'
  <1>1. D.at \in Outside /\ Covers(context)
    <2>1. D.at \in Outside
      BY DEF Calm, Undisturbed, LoopKnows, ProvisionGoal, StopIfAlive, StartIfDown, Provisioned,
             Stopped, Started, LoopAt, CallEnded, D, Outside
    <2>2. QED
      BY <2>1 DEF Calm, Undisturbed, CallKnows
  <1>2. PICK n : context \in RowUpTo(n)
    BY CalmTypes DEF Calm
  <1>3. /\ UNCHANGED <<process, command>>
        /\ context'.app = context.app /\ context'.gateway = context.gateway
    BY <1>2 DEF ProvisionGoal, StopIfAlive, StartIfDown, Provisioned, Stopped, Started, RowUpTo
  <1>4. /\ call'[Operator] = call[Operator]
        /\ call'[Dispatcher].at \in {"none", "probe", "stop"} /\ ~call'[Dispatcher].holds
        /\ loop'.at \in {"provisioning", "stopping", "starting"} \/ call'[Dispatcher].at = "none"
    <2>1. ASSUME NEW stage, Begins(Dispatcher, stage)
          PROVE  /\ call'[Operator] = call[Operator]
                 /\ call'[Dispatcher].at = stage /\ ~call'[Dispatcher].holds
      <3>1. call = [a \in Callers |-> call[a]]
        BY CalmTypes DEF Calm
      <3>2. QED
        BY <2>1, <3>1, TwoCallers DEF Begins, NoCall
    <2>2. ASSUME call' = [call EXCEPT ![Dispatcher] = NoCall]
          PROVE  /\ call'[Operator] = call[Operator]
                 /\ call'[Dispatcher].at = "none" /\ ~call'[Dispatcher].holds
      <3>1. call = [a \in Callers |-> call[a]]
        BY CalmTypes DEF Calm
      <3>2. QED
        BY <2>2, <3>1, TwoCallers DEF NoCall
    <2>3. CASE ProvisionGoal \/ StartIfDown
      BY <2>1, <2>3 DEF ProvisionGoal, StartIfDown, LoopGoes
    <2>4. CASE StopIfAlive
      <3>1. D.at = "none"
        BY <2>4 DEF StopIfAlive, Calm, Undisturbed, LoopKnows, LoopAt
      <3>2. ~D.holds
        BY <3>1, CalmTypes DEF Calm, Undisturbed, CallKnows
      <3>3. QED
        BY <2>1, <2>4, <3>1, <3>2 DEF StopIfAlive, LoopGoes, D
    <2>5. CASE Provisioned \/ Stopped \/ Started
      BY <2>2, <2>5 DEF Provisioned, Stopped, Started
    <2>6. QED
      BY <2>3, <2>4, <2>5
  <1>5. CallKnows'
    <2>1. Covers(context)'
      BY <1>1, <1>3 DEF Covers, OnlyApp, OnlyGateway
    <2>2. D'.at \in {"none", "probe", "stop"} /\ ~D'.holds
      BY <1>4 DEF D
    <2>3. QED
      BY <2>1, <2>2 DEF CallKnows, Outside, Ending
  <1>6. loop'.at # "stale" /\ (loop'.at \in Rewriting => Covers(loop'.row))
    <2>1. CASE Started
      <3>1. Covers(Updated(context, "human_needed"))
        BY <1>1, <1>2 DEF RowUpTo, Updated, Covers
      <3>2. QED
        BY <2>1, <3>1 DEF Started, LoopGoes, IdleLoop, Rewriting
    <2>2. QED
      BY <2>1 DEF ProvisionGoal, StopIfAlive, StartIfDown, Provisioned, Stopped, LoopGoes,
                  IdleLoop, Rewriting
  <1>7. LoopKnows'
    BY <1>3, <1>4, <1>6 DEF LoopKnows, Covers, OnlyApp, OnlyGateway, D
  <1>8. GatewayKnows'
    BY <1>3 DEF Calm, Undisturbed, GatewayKnows, OnlyApp, OnlyGateway
  <1>9. QED
    BY <1>3, <1>4, <1>5, <1>6, <1>7, <1>8 DEF Calm, Undisturbed

\* Steps of the loop that write back the row it has read.
LEMMA LoopRewrites ==
  ASSUME Calm, WriteMapped \/ Checkpoint \/ WriteStale \/ WriteHuman
  PROVE  Undisturbed'
  <1>1. /\ loop.at \in Rewriting /\ context' = loop.row
        /\ UNCHANGED <<process, call, command>>
    BY DEF Calm, Undisturbed, WriteMapped, Checkpoint, WriteStale, WriteHuman, LoopWrites,
           LoopAt, Rewriting
  <1>2. D.at = "none" /\ Covers(loop.row)
    BY <1>1 DEF Calm, Undisturbed, LoopKnows, Rewriting
  <1>3. ~D.holds
    BY <1>2 DEF Calm, Undisturbed, CallKnows
  <1>4. CallKnows'
    <2>1. Covers(context)'
      BY <1>1, <1>2 DEF Covers, OnlyApp, OnlyGateway
    <2>2. D'.at = "none" /\ ~D'.holds
      BY <1>1, <1>2, <1>3 DEF D
    <2>3. QED
      BY <2>1, <2>2 DEF CallKnows, Outside, Ending
  <1>5. loop'.at \in {"list", "reconcile", "poll"}
    BY <1>1 DEF WriteMapped, Checkpoint, WriteStale, WriteHuman, LoopWrites, LoopGoes
  <1>6. GatewayKnows' /\ LoopKnows'
    BY <1>1, <1>2, <1>5 DEF Calm, Undisturbed, GatewayKnows, LoopKnows, Rewriting, OnlyApp,
                            OnlyGateway, D
  <1>7. QED
    BY <1>1, <1>4, <1>5, <1>6 DEF Calm, Undisturbed

-----------------------------------------------------------------------------
(***************************************************************************)
(* The calls: only the dispatcher is in one, and the loop waits for it.    *)
(***************************************************************************)

\* The operator is in no call, so that a step of a call is one of the dispatcher's.
LEMMA OnlyDispatcher ==
  ASSUME Calm, NEW a \in Callers, CallStep(a)
  PROVE  a = Dispatcher /\ D.at # "none"
  <1>1. call[a].at # "none"
    BY DEF CallStep, StartStep, StopStep, ReadRow, Probe, Gate, KillSeen, Exited, ExitTimesOut,
           SpawnApp, SpawnFails, RecordApp, SpawnGateway, RecordGateway, Answered,
           StartTimesOut, Undo, RecordError, ReadStopped, KillStopped, Clear, Writes, CallAt,
           Updates
  <1>2. QED
    BY <1>1, SupervisorAssumption DEF Calm, Undisturbed, D

\* What a step of the dispatcher's call must show.
LEMMA CallKeeps ==
  ASSUME Calm, D.at # "none", CallKnows', GatewayKnows',
         call'[Operator] = call[Operator], UNCHANGED <<loop, command>>
  PROVE  Undisturbed'
  <1>1. loop.at \in {"provisioning", "stopping", "starting"}
    BY DEF Calm, Undisturbed, LoopKnows
  <1>2. LoopKnows'
    BY <1>1 DEF LoopKnows, Rewriting
  <1>3. QED
    BY <1>2 DEF Calm, Undisturbed

\* Steps of the call that change no process and not which processes the row names.
LEMMA CallLooks ==
  ASSUME Calm, UNCHANGED <<loop, command>>,
         LET a == Dispatcher
         IN  \/ ReadRow(a) \/ Probe(a) \/ Gate(a) \/ Exited(a) \/ ExitTimesOut(a)
             \/ SpawnFails(a) \/ Answered(a) \/ StartTimesOut(a) \/ ReadStopped(a)
  PROVE  Undisturbed'
  <1> USE TwoCallers DEF CallAt, CallGoes
  <1>1. /\ call = [a \in Callers |-> call[a]] /\ process' = process
        /\ context'.app = context.app /\ context'.gateway = context.gateway
    <2>1. PICK n : context \in RowUpTo(n)
      BY CalmTypes DEF Calm
    <2>2. QED
      BY <2>1, CalmTypes DEF Calm, ReadRow, Probe, Gate, Exited, ExitTimesOut, SpawnFails,
                             Answered, StartTimesOut, ReadStopped, RowUpTo
  <1>2. PICK n : D \in CallUpTo(n)
    BY CalmTypes DEF Calm, D
  <1>3. CallKnows
    BY DEF Calm, Undisturbed
  <1>4. /\ Covers(context)' = Covers(context)
        /\ OnlyApp(context.app)' = OnlyApp(context.app)
        /\ OnlyGateway(context.gateway)' = OnlyGateway(context.gateway)
        /\ Quiet' = Quiet
    BY <1>1 DEF Covers, Quiet, OnlyApp, OnlyGateway
  <1>5. CallKnows'
    <2>1. CASE ReadRow(Dispatcher)
      <3>1. D' = [D EXCEPT !.holds = TRUE, !.row = context]
        BY <1>1, <2>1 DEF ReadRow, D
      <3>2. /\ D'.at = D.at /\ D'.app = D.app /\ D'.gateway = D.gateway /\ D'.seen = D.seen
            /\ D'.row = context
        BY <1>2, <3>1 DEF CallUpTo
      <3>3. D.at \in {"record", "recordGateway", "recordError", "clear"}
        BY <2>1 DEF ReadRow, Updates, D
      <3>4. QED
        BY <1>1, <1>3, <1>4, <3>2, <3>3 DEF CallKnows, Covers, Outside, Ending, OnlyApp, OnlyGateway
    <2>2. CASE Probe(Dispatcher) \/ ReadStopped(Dispatcher)
      <3>1. /\ D'.seen = context /\ D'.at \in {"done", "gate", "killStopped"}
            /\ D'.holds = D.holds /\ D.at \in Outside
        <4>1. CASE Probe(Dispatcher)
          <5>1. D' = [D EXCEPT !.seen = context, !.at = IF Healthy THEN "done" ELSE "gate"]
            BY <1>1, <4>1 DEF Probe, D
          <5>2. D.at = "probe"
            BY <4>1 DEF Probe, D
          <5>3. QED
            BY <1>2, <5>1, <5>2 DEF CallUpTo, Outside
        <4>2. CASE ReadStopped(Dispatcher)
          <5>1. D' = [D EXCEPT !.seen = context, !.at = "killStopped"]
            BY <1>1, <4>2 DEF ReadStopped, D
          <5>2. D.at = "stop"
            BY <4>2 DEF ReadStopped, D
          <5>3. QED
            BY <1>2, <5>1, <5>2 DEF CallUpTo, Outside
        <4>3. QED
          BY <2>2, <4>1, <4>2
      <3>2. Covers(context) /\ ~D.holds
        BY <1>2, <1>3, <3>1 DEF CallKnows, CallUpTo, Outside
      <3>3. QED
        BY <1>1, <1>4, <3>1, <3>2 DEF CallKnows, Covers, Outside, Ending, OnlyApp, OnlyGateway
    <2>3. CASE Gate(Dispatcher)
      <3>1. /\ D'.seen = D.seen /\ D'.at \in {"kill", "failed"}
            /\ D'.holds = D.holds /\ D.at = "gate"
        BY <1>1, <1>2, <2>3 DEF Gate, CallUpTo, D
      <3>2. QED
        BY <1>1, <1>2, <1>3, <1>4, <3>1
           DEF CallKnows, CallUpTo, Covers, Outside, Ending, OnlyApp, OnlyGateway
    <2>4. CASE Exited(Dispatcher)
      <3>1. /\ D'.at \in {"spawn", "clear"} /\ D'.holds = D.holds
            /\ D.at \in {"exit", "exitStopped"}
            /\ ~Alive(D.seen.gateway) /\ ~Alive(D.seen.app)
        BY <1>1, <1>2, <2>4 DEF Exited, CallUpTo, D
      <3>2. Covers(D.seen) /\ ~D.holds
        BY <1>2, <1>3, <3>1 DEF CallKnows, CallUpTo, Ending
      <3>3. Quiet
        BY <3>1, <3>2, Bounds DEF Covers, Quiet, OnlyApp, OnlyGateway, Alive
      <3>4. QED
        BY <1>4, <3>1, <3>2, <3>3 DEF CallKnows, Outside, Ending
    <2>5. CASE ExitTimesOut(Dispatcher) \/ Answered(Dispatcher)
      <3>1. /\ D'.at \in {"failed", "done"} /\ D'.holds = D.holds
            /\ D.at \in {"exit", "exitStopped", "http"}
        BY <1>1, <1>2, <2>5 DEF ExitTimesOut, Answered, CallUpTo, D
      <3>2. Covers(context) /\ ~D.holds
        BY <1>2, <1>3, <3>1 DEF CallKnows, CallUpTo, Ending, Covers
      <3>3. QED
        BY <1>4, <3>1, <3>2 DEF CallKnows, Outside, Ending
    <2>6. CASE SpawnFails(Dispatcher)
      <3>1. /\ D'.holds = D.holds /\ D'.app = D.app
            /\ \/ D.at = "spawn" /\ D'.at = "failed"
               \/ D.at = "port" /\ D'.at = "undo"
        BY <1>1, <1>2, <2>6 DEF SpawnFails, CallUpTo, D
      <3>2. ~D.holds
        BY <1>2, <1>3, <3>1 DEF CallKnows, CallUpTo
      <3>3. CASE D.at = "spawn" /\ D'.at = "failed"
        <4>1. Covers(context)
          BY <1>3, <3>3, QuietCovers DEF CallKnows, Covers
        <4>2. QED
          BY <1>4, <3>1, <3>2, <3>3, <4>1 DEF CallKnows, Outside, Ending
      <3>4. CASE D.at = "port" /\ D'.at = "undo"
        BY <1>1, <1>3, <3>1, <3>2, <3>4 DEF CallKnows, Outside, Ending, OnlyApp, OnlyGateway
      <3>5. QED
        BY <3>1, <3>3, <3>4
    <2>7. CASE StartTimesOut(Dispatcher)
      <3>1. /\ D'.holds = D.holds /\ D'.app = D.app /\ D'.at = "undo"
            /\ \/ D.at = "port"
               \/ D.at = "http" /\ ~IsKind(D.gateway, "gateway")
        BY <1>1, <1>2, <2>7 DEF StartTimesOut, CallUpTo, D
      <3>2. ~D.holds
        BY <1>2, <1>3, <3>1 DEF CallKnows, CallUpTo
      <3>3. OnlyApp(D.app) /\ OnlyGateway(NoPid)
        BY <1>3, <3>1, Bounds DEF CallKnows, IsKind, OnlyGateway
      <3>4. QED
        BY <1>1, <3>1, <3>2, <3>3 DEF CallKnows, Outside, Ending, OnlyApp, OnlyGateway
    <2>8. QED
      BY <2>1, <2>2, <2>3, <2>4, <2>5, <2>6, <2>7
  <1>6. GatewayKnows'
    BY <1>1 DEF Calm, Undisturbed, GatewayKnows, OnlyApp, OnlyGateway
  <1>7. call'[Operator] = call[Operator] /\ D.at # "none" /\ Ebbs
    BY <1>1 DEF ReadRow, Probe, Gate, Exited, ExitTimesOut, SpawnFails, Answered, StartTimesOut,
                ReadStopped, Updates, D, Ebbs
  <1>8. QED
    BY <1>5, <1>6, <1>7, CallKeeps

\* A signal makes no gateway write, and starts nothing.
LEMMA KillsEbb ==
  ASSUME TypeInv, NEW gateway, NEW app, NEW endpoint, process' = Kills(gateway, app, endpoint)
  PROVE  /\ Ebbs
         /\ \A p \in Pids : process'[p].kind = "gateway"
                              /\ process'[p].stage \in {"writing", "sleeping"} =>
              process'[p].stage = process[p].stage /\ process'[p].row = process[p].row
  <1>1. PICK n : \A p \in Pids : process[p] \in ProcessUpTo(n)
    BY CalmTypes
  <1>2. ASSUME NEW p \in Pids
        PROVE  \/ process'[p] = process[p] \/ process'[p] = NoProcess
               \/ process'[p] = [process[p] EXCEPT !.stage = "stopping"]
    <2>1. process[p] = [process[p] EXCEPT !.stage = @]
      BY <1>1 DEF ProcessUpTo
    <2>2. QED
      BY <2>1 DEF Kills, Terminated
  <1>3. NoProcess.kind = "none"
    BY DEF NoProcess, Program
  <1>4. ASSUME NEW p \in Pids
        PROVE  LET stopping == [process[p] EXCEPT !.stage = "stopping"]
               IN  stopping.kind = process[p].kind /\ stopping.stage = "stopping"
    BY <1>1 DEF ProcessUpTo
  <1>5. QED
    BY <1>2, <1>3, <1>4 DEF Ebbs

\* A signal that is not refused; one that is disturbs.
LEMMA CallKills ==
  ASSUME Calm, ~disturbed', UNCHANGED <<loop, command>>, Observes(Dispatcher),
         KillSeen(Dispatcher) \/ KillStopped(Dispatcher) \/ Undo(Dispatcher)
  PROVE  Undisturbed'
  <1> USE TwoCallers DEF CallAt, CallGoes
  <1>1. call = [a \in Callers |-> call[a]]
    BY CalmTypes DEF Calm
  <1>2. PICK n : D \in CallUpTo(n)
    BY CalmTypes DEF Calm, D
  <1>3. PICK gateway, app, endpoint, next : KillsPids(Dispatcher, gateway, app, endpoint, next)
    BY DEF KillSeen, KillStopped, Undo
  <1>4. Ebbs /\ GatewayKnows'
    BY <1>3, KillsEbb, EbbGateways DEF KillsPids, Calm, Undisturbed
  <1>5. /\ D'.at # "failed" /\ D'.holds = D.holds /\ D'.seen = D.seen /\ D'.app = D.app
        /\ context' = context /\ call'[Operator] = call[Operator]
    BY <1>1, <1>2, <1>3 DEF KillsPids, Observes, CallUpTo, D, KillSeen, KillStopped, Undo
  <1>6. CallKnows /\ ~D.holds /\ D.at \in {"kill", "killStopped", "undo"}
    BY <1>2 DEF Calm, Undisturbed, CallKnows, CallUpTo, D, KillSeen, KillStopped, Undo
  <1>7. CallKnows'
    <2>1. CASE KillSeen(Dispatcher) \/ KillStopped(Dispatcher)
      <3>1. D'.at \in {"exit", "exitStopped"} /\ D.at \in Ending
        BY <1>1, <1>2, <1>5, <2>1 DEF KillSeen, KillStopped, KillsPids, CallUpTo, D, Ending
      <3>2. Covers(context)' /\ Covers(D.seen)'
        BY <1>4, <1>5, <1>6, <3>1 DEF CallKnows, Covers, OnlyApp, OnlyGateway, Ebbs
      <3>3. QED
        BY <1>5, <1>6, <3>1, <3>2 DEF CallKnows, Outside, Ending
    <2>2. CASE Undo(Dispatcher)
      <3>1. /\ D.at = "undo" /\ D'.at = "recordError"
            /\ ~Refused(D.gateway, D.app, D.endpoint)
            /\ process' = Kills(D.gateway, D.app, D.endpoint)
        BY <1>1, <1>2, <1>5, <2>2 DEF Undo, KillsPids, CallUpTo, D
      <3>2. OnlyApp(D.app) /\ OnlyGateway(NoPid)
        BY <1>6, <3>1 DEF CallKnows
      <3>3. Quiet'
        <4>1. ASSUME NEW p \in Pids PROVE process'[p].kind \notin {"app", "gateway"}
          <5>1. process[p].kind # "gateway"
            BY <3>2, Bounds DEF OnlyGateway
          <5>2. ASSUME process[p].kind = "app" PROVE process'[p] = NoProcess
            <6>1. p = D.app
              BY <3>2, <5>2 DEF OnlyApp
            <6>2. IsApp(p, D.endpoint) /\ (Alive(D.gateway) => IsKind(D.gateway, "gateway"))
              BY <3>1, <5>2, <6>1, Bounds DEF Refused, Alive
            <6>3. process'[p] = Terminated(p)
              BY <3>1, <6>1, <6>2 DEF Kills
            <6>4. QED
              BY <5>2, <6>3 DEF Terminated
          <5>3. NoProcess.kind = "none"
            BY DEF NoProcess, Program
          <5>4. QED
            BY <1>4, <5>1, <5>2, <5>3 DEF Ebbs
        <4>2. QED
          BY <4>1 DEF Quiet, OnlyApp, OnlyGateway
      <3>4. QED
        BY <1>5, <1>6, <3>1, <3>3 DEF CallKnows, Outside, Ending
    <2>3. QED
      BY <2>1, <2>2
  <1>8. QED
    BY <1>4, <1>5, <1>6, <1>7, CallKeeps

\* A program that is started is the only one of its kind.
LEMMA CallSpawns ==
  ASSUME Calm, UNCHANGED <<loop, command>>, SpawnApp(Dispatcher) \/ SpawnGateway(Dispatcher)
  PROVE  Undisturbed'
  <1> USE TwoCallers DEF CallAt
  <1>1. /\ call = [a \in Callers |-> call[a]] /\ process = [p \in Pids |-> process[p]]
    BY CalmTypes DEF Calm
  <1>2. PICK n : D \in CallUpTo(n)
    BY CalmTypes DEF Calm, D
  <1>3. CallKnows /\ GatewayKnows
    BY DEF Calm, Undisturbed
  <1>4. CASE SpawnApp(Dispatcher)
    <2>1. PICK p \in Pids :
            /\ process' = [process EXCEPT ![p] = Program("app", "up", D.endpoint)]
            /\ call' = [call EXCEPT ![Dispatcher].app = p, ![Dispatcher].at = "record"]
      BY <1>4 DEF SpawnApp, D
    <2>2. D' = [D EXCEPT !.app = p, !.at = "record"] /\ call'[Operator] = call[Operator]
      BY <1>1, <2>1 DEF D
    <2>3. D.at = "spawn"
      BY <1>4 DEF SpawnApp, D
    <2>4. Quiet /\ ~D.holds /\ D.holds \in BOOLEAN
      BY <1>2, <1>3, <2>3 DEF CallKnows, CallUpTo
    <2>5. D'.at = "record" /\ D'.app = p /\ ~D'.holds
      BY <1>2, <2>2, <2>4 DEF CallUpTo
    <2>6. process'[p].kind = "app" /\ \A q \in Pids \ {p} : process'[q] = process[q]
      BY <1>1, <2>1 DEF Program
    <2>7. OnlyApp(D.app)' /\ OnlyGateway(NoPid)'
      BY <2>4, <2>5, <2>6, Bounds DEF Quiet, OnlyApp, OnlyGateway
    <2>8. CallKnows'
      BY <2>5, <2>7 DEF CallKnows, Outside, Ending
    <2>9. GatewayKnows'
      BY <2>7, Bounds DEF GatewayKnows, OnlyGateway
    <2>10. QED
      BY <2>2, <2>3, <2>8, <2>9, CallKeeps
  <1>5. CASE SpawnGateway(Dispatcher)
    <2>1. PICK p \in Pids :
            /\ process' = [process EXCEPT ![p] = Program("gateway", "booting", 0)]
            /\ call' = [call EXCEPT ![Dispatcher].gateway = p,
                                    ![Dispatcher].at = "recordGateway"]
      BY <1>5 DEF SpawnGateway, D
    <2>2. /\ D' = [D EXCEPT !.gateway = p, !.at = "recordGateway"]
          /\ call'[Operator] = call[Operator] /\ context' = context
      BY <1>1, <1>5, <2>1 DEF SpawnGateway, D
    <2>3. D.at = "port"
      BY <1>5 DEF SpawnGateway, D
    <2>4. /\ OnlyApp(D.app) /\ OnlyGateway(NoPid) /\ OnlyApp(context.app)
          /\ ~D.holds /\ D.holds \in BOOLEAN
      BY <1>2, <1>3, <2>3 DEF CallKnows, CallUpTo
    <2>5. D'.at = "recordGateway" /\ D'.app = D.app /\ D'.gateway = p /\ ~D'.holds
      BY <1>2, <2>2, <2>4 DEF CallUpTo
    <2>6. /\ process'[p].kind = "gateway" /\ process'[p].stage = "booting"
          /\ \A q \in Pids \ {p} : process'[q] = process[q]
      BY <1>1, <2>1 DEF Program
    <2>7. OnlyApp(D.app)' /\ OnlyApp(context.app)'
      BY <2>2, <2>4, <2>5, <2>6 DEF OnlyApp
    <2>8. OnlyGateway(D.gateway)'
      BY <2>4, <2>5, <2>6, Bounds DEF OnlyGateway
    <2>9. CallKnows'
      BY <2>5, <2>7, <2>8 DEF CallKnows, Outside, Ending
    <2>10. GatewayKnows'
      BY <2>4, <2>5, <2>6, <2>8, Bounds DEF GatewayKnows, OnlyGateway
    <2>11. QED
      BY <2>2, <2>3, <2>9, <2>10, CallKeeps
  <1>6. QED
    BY <1>4, <1>5

\* What the call writes into the row names the programs it has started.
LEMMA CallWrites ==
  ASSUME Calm, UNCHANGED <<loop, command>>,
         LET a == Dispatcher
         IN  RecordApp(a) \/ RecordGateway(a) \/ RecordError(a) \/ Clear(a)
  PROVE  Undisturbed'
  <1> USE TwoCallers DEF CallAt
  <1>1. call = [a \in Callers |-> call[a]]
    BY CalmTypes DEF Calm
  <1>2. PICK n : D \in CallUpTo(n) /\ D.row \in RowUpTo(n)
    <2>1. PICK n : D \in CallUpTo(n)
      BY CalmTypes DEF Calm, D
    <2>2. QED
      BY <2>1 DEF CallUpTo
  <1>3. CallKnows
    BY DEF Calm, Undisturbed
  <1>4. process' = process
    BY DEF RecordApp, RecordGateway, RecordError, Clear, Writes
  <1>5. ASSUME NEW stage, NEW row, NEW next, Writes(Dispatcher, stage, row, next)
        PROVE  /\ D.at = stage /\ D.holds /\ context' = [row EXCEPT !.old = FALSE]
               /\ D'.at = next /\ D'.holds = FALSE /\ D'.app = D.app /\ D'.gateway = D.gateway
               /\ call'[Operator] = call[Operator]
    <2>1. D' = [D EXCEPT !.at = next, !.holds = FALSE, !.row = NewRow]
      BY <1>1, <1>5 DEF Writes, D
    <2>2. QED
      BY <1>1, <1>2, <1>5, <2>1 DEF Writes, CallUpTo, D
  <1>6. CASE RecordApp(Dispatcher)
    <2>1. /\ D.at = "record" /\ D'.at = "port" /\ ~D'.holds /\ D'.app = D.app
          /\ context'.app = D.app /\ call'[Operator] = call[Operator]
      <3> DEFINE row == [D.row EXCEPT !.app = D.app, !.gateway = NoPid, !.endpoint = D.endpoint]
      <3>1. Writes(Dispatcher, "record", row, "port")
        BY <1>6 DEF RecordApp, D
      <3>2. row.app = D.app /\ [row EXCEPT !.old = FALSE].app = row.app
        BY <1>2 DEF RowUpTo
      <3>3. QED
        BY <1>5, <3>1, <3>2
    <2>2. OnlyApp(D.app)' /\ OnlyGateway(NoPid)' /\ OnlyApp(context.app)'
      BY <1>3, <1>4, <2>1 DEF CallKnows, OnlyApp, OnlyGateway
    <2>3. CallKnows'
      BY <2>1, <2>2 DEF CallKnows, Outside, Ending
    <2>4. GatewayKnows'
      BY <2>2, Bounds DEF GatewayKnows, OnlyGateway
    <2>5. QED
      BY <2>1, <2>3, <2>4, CallKeeps
  <1>7. CASE RecordGateway(Dispatcher)
    <2>1. /\ D.at = "recordGateway" /\ D.holds /\ D'.at = "http" /\ ~D'.holds
          /\ D'.app = D.app /\ D'.gateway = D.gateway
          /\ context'.app = D.row.app /\ context'.gateway = D.gateway
          /\ call'[Operator] = call[Operator]
      <3> DEFINE row == [D.row EXCEPT !.gateway = D.gateway]
      <3>1. Writes(Dispatcher, "recordGateway", row, "http")
        BY <1>7 DEF RecordGateway, D
      <3>2. LET written == [row EXCEPT !.old = FALSE]
            IN  written.app = D.row.app /\ written.gateway = D.gateway
        BY <1>2 DEF RowUpTo
      <3>3. QED
        BY <1>5, <3>1, <3>2
    <2>2. /\ OnlyApp(D.app)' /\ OnlyApp(context.app)'
          /\ OnlyGateway(D.gateway)' /\ OnlyGateway(context.gateway)'
      BY <1>3, <1>4, <2>1 DEF CallKnows, OnlyApp, OnlyGateway
    <2>3. CallKnows'
      BY <2>1, <2>2 DEF CallKnows, Outside, Ending
    <2>4. GatewayKnows'
      BY <1>4 DEF Calm, Undisturbed, GatewayKnows, OnlyApp, OnlyGateway
    <2>5. QED
      BY <2>1, <2>3, <2>4, CallKeeps
  <1>8. CASE RecordError(Dispatcher) \/ Clear(Dispatcher)
    <2>1. /\ D.at \in {"recordError", "clear"} /\ D'.at \in {"failed", "done"} /\ ~D'.holds
          /\ call'[Operator] = call[Operator]
      BY <1>5, <1>8 DEF RecordError, Clear
    <2>2. Quiet'
      BY <1>3, <1>4, <2>1 DEF CallKnows, Quiet, OnlyApp, OnlyGateway
    <2>3. Covers(context)' /\ GatewayKnows'
      BY <2>2, Bounds DEF Covers, Quiet, GatewayKnows, OnlyApp, OnlyGateway
    <2>4. CallKnows'
      BY <2>1, <2>3 DEF CallKnows, Outside, Ending
    <2>5. QED
      BY <2>1, <2>3, <2>4, CallKeeps
  <1>9. QED
    BY <1>6, <1>7, <1>8

\* A step of a call, with what it means for the history.
LEMMA CallsKeep ==
  ASSUME Calm, ~disturbed', NEW a \in Callers, SupervisorCallStep(a)
  PROVE  Undisturbed'
  <1>1. /\ a = Dispatcher /\ CallStep(Dispatcher) /\ Observes(Dispatcher)
        /\ UNCHANGED <<loop, command>>
    BY OnlyDispatcher DEF SupervisorCallStep
  <1>2. CASE LET b == Dispatcher
             IN  \/ ReadRow(b) \/ Probe(b) \/ Gate(b) \/ Exited(b) \/ ExitTimesOut(b)
                 \/ SpawnFails(b) \/ Answered(b) \/ StartTimesOut(b) \/ ReadStopped(b)
    BY <1>1, <1>2, CallLooks
  <1>3. CASE KillSeen(Dispatcher) \/ KillStopped(Dispatcher) \/ Undo(Dispatcher)
    BY <1>1, <1>3, CallKills
  <1>4. CASE SpawnApp(Dispatcher) \/ SpawnGateway(Dispatcher)
    BY <1>1, <1>4, CallSpawns
  <1>5. CASE LET b == Dispatcher
             IN  RecordApp(b) \/ RecordGateway(b) \/ RecordError(b) \/ Clear(b)
    BY <1>1, <1>5, CallWrites
  <1>6. QED
    BY <1>1, <1>2, <1>3, <1>4, <1>5 DEF CallStep, StartStep, StopStep

-----------------------------------------------------------------------------
(***************************************************************************)
(* The gateways, and what may happen at any time.                          *)
(***************************************************************************)

\* Steps that only end processes, under a loop and a call that rest.
LEMMA EbbKeeps ==
  ASSUME Calm, Ebbs, GatewayKnows', UNCHANGED <<call, loop, command>>,
         OnlyApp(context.app) => OnlyApp(context.app)',
         OnlyGateway(context.gateway) => OnlyGateway(context.gateway)'
  PROVE  Undisturbed'
  <1>1. CallKnows'
    BY EbbKnows DEF Calm, Undisturbed
  <1>2. Covers(loop.row) => Covers(loop.row)'
    BY DEF Ebbs, Covers, OnlyApp, OnlyGateway
  <1>3. LoopKnows'
    BY <1>2 DEF Calm, Undisturbed, LoopKnows, D
  <1>4. QED
    BY <1>1, <1>3 DEF Calm, Undisturbed

\* A gateway writes the row that it has read, and that names the app-server still.
LEMMA GatewayKeeps ==
  ASSUME Calm, NEW p \in Pids, SupervisorGatewayStep(p)
  PROVE  Undisturbed'
  <1>1. /\ process[p].kind = "gateway" /\ GatewayStep(p)
        /\ UNCHANGED <<call, loop, command>>
    BY DEF SupervisorGatewayStep, GatewayStep, Connect, ReadsRow, WritesRunning, Bind, LosesApp,
           StopsReading, WritesSleeping, GatewayAt, IsKind, ownVars
  <1>2. PICK n : process[p] \in ProcessUpTo(n) /\ context \in RowUpTo(n)
    BY CalmTypes DEF Calm
  <1>3. process[p].row \in RowUpTo(n)
    BY <1>2 DEF ProcessUpTo
  <1>4. /\ OnlyGateway(p) /\ OnlyApp(context.app)
        /\ process[p].stage \in {"writing", "sleeping"} => OnlyApp(process[p].row.app)
    BY <1>1, AppKnown, CalmTypes DEF Calm, Undisturbed, GatewayKnows
  <1>5. /\ \A q \in Pids \ {p} : process'[q] = process[q]
        /\ \/ process'[p].kind = "none" /\ context' = context
           \/ /\ process'[p].kind = "gateway" /\ context' = context
              /\ process'[p].stage \in {"connected", "listening", "stopping"}
           \/ /\ process'[p].kind = "gateway" /\ process'[p].row = context
              /\ context' = context
           \/ /\ process[p].stage = "writing" /\ process'[p].kind = "gateway"
              /\ process'[p].stage = "binding"
              /\ context'.app = process[p].row.app /\ context'.gateway = p
           \/ /\ process[p].stage = "sleeping" /\ process'[p].kind = "none"
              /\ context'.app = process[p].row.app /\ context'.gateway = NoPid
    <2>1. process = [q \in Pids |-> process[q]]
      BY CalmTypes DEF Calm
    <2>2. CASE Connect(p)
      BY <2>1, <2>2 DEF Connect, NoProcess, Program
    <2>3. CASE ReadsRow(p) \/ StopsReading(p)
      <3>1. /\ context' = context
            /\ \/ process' = [process EXCEPT ![p].stage = "writing", ![p].row = context]
               \/ process' = [process EXCEPT ![p].stage = "sleeping", ![p].row = context]
               \/ process' = [process EXCEPT ![p] = NoProcess]
        BY <2>3 DEF ReadsRow, StopsReading, Exits
      <3>2. \A stage \in {"writing", "sleeping"} :
              LET reading == [process[p] EXCEPT !.stage = stage, !.row = context]
              IN  reading.kind = "gateway" /\ reading.row = context
        BY <1>1, <1>2 DEF ProcessUpTo
      <3>3. NoProcess.kind = "none"
        BY DEF NoProcess, Program
      <3>4. QED
        BY <2>1, <3>1, <3>2, <3>3
    <2>4. CASE Bind(p) \/ LosesApp(p)
      <3>1. /\ context' = context
            /\ \/ process' = [process EXCEPT ![p].stage = "listening"]
               \/ process' = [process EXCEPT ![p].stage = "stopping"]
               \/ process' = [process EXCEPT ![p] = NoProcess]
        BY <2>4 DEF Bind, LosesApp, Exits
      <3>2. \A stage \in {"listening", "stopping"} :
              LET going == [process[p] EXCEPT !.stage = stage]
              IN  going.kind = "gateway" /\ going.stage = stage
        BY <1>1, <1>2 DEF ProcessUpTo
      <3>3. NoProcess.kind = "none"
        BY DEF NoProcess, Program
      <3>4. QED
        BY <2>1, <3>1, <3>2, <3>3
    <2>5. CASE WritesRunning(p)
      <3>1. /\ process' = [process EXCEPT ![p].stage = "binding", ![p].row = NewRow]
            /\ process[p].stage = "writing"
            /\ context' = [process[p].row EXCEPT !.gateway = p, !.state = "running",
                                                 !.old = FALSE]
        BY <2>5 DEF WritesRunning, GatewayAt
      <3>2. LET written == [process[p] EXCEPT !.stage = "binding", !.row = NewRow]
            IN  written.kind = "gateway" /\ written.stage = "binding"
        BY <1>1, <1>2 DEF ProcessUpTo
      <3>3. context'.app = process[p].row.app /\ context'.gateway = p
        BY <1>3, <3>1 DEF RowUpTo
      <3>4. QED
        BY <2>1, <3>1, <3>2, <3>3
    <2>6. CASE WritesSleeping(p)
      <3>1. /\ process' = [process EXCEPT ![p] = NoProcess] /\ process[p].stage = "sleeping"
            /\ context' = [process[p].row EXCEPT !.gateway = NoPid, !.state = "sleeping",
                                                 !.old = FALSE]
        BY <2>6 DEF WritesSleeping, GatewayAt, Exits
      <3>2. context'.app = process[p].row.app /\ context'.gateway = NoPid
        BY <1>3, <3>1 DEF RowUpTo
      <3>3. NoProcess.kind = "none"
        BY DEF NoProcess, Program
      <3>4. QED
        BY <2>1, <3>1, <3>2, <3>3
    <2>7. QED
      BY <1>1, <2>2, <2>3, <2>4, <2>5, <2>6 DEF GatewayStep
  <1>6. Ebbs
    <2>1. process'[p].kind \in {"none", "gateway"}
      BY <1>5
    <2>2. QED
      BY <1>1, <1>5, <2>1 DEF Ebbs
  <1>7. OnlyApp(context.app)' /\ (OnlyGateway(context.gateway) => OnlyGateway(context.gateway)')
    <2>1. \A x : (OnlyApp(x) => OnlyApp(x)') /\ (OnlyGateway(x) => OnlyGateway(x)')
      BY <1>6, EbbCovers
    <2>2. \/ context'.app = context.app /\ context'.gateway = context.gateway
          \/ process[p].stage = "writing" /\ context'.app = process[p].row.app
               /\ context'.gateway = p
          \/ process[p].stage = "sleeping" /\ context'.app = process[p].row.app
               /\ context'.gateway = NoPid /\ process'[p].kind = "none"
      BY <1>5
    <2>3. OnlyGateway(p)' /\ (process'[p].kind = "none" => OnlyGateway(NoPid)')
      BY <1>4, <2>1 DEF OnlyGateway
    <2>4. QED
      BY <1>4, <2>1, <2>2, <2>3 DEF OnlyApp, OnlyGateway
  <1>8. GatewayKnows'
    <2>1. SUFFICES ASSUME NEW q \in Pids, process'[q].kind = "gateway"
                   PROVE  /\ OnlyGateway(q)'
                          /\ process'[q].stage \in {"writing", "sleeping"} =>
                               OnlyApp(process[q].row.app)'
      BY DEF GatewayKnows
    <2>2. q = p /\ OnlyGateway(q)'
      BY <1>4, <1>6, <2>1 DEF OnlyGateway, Ebbs
    <2>3. ASSUME process'[q].stage \in {"writing", "sleeping"}
          PROVE  process'[q].row = context /\ context' = context
      BY <1>5, <2>1, <2>2, <2>3
    <2>4. QED
      BY <1>7, <2>2, <2>3 DEF OnlyApp
  <1>9. QED
    BY <1>1, <1>6, <1>7, <1>8, EbbKeeps

\* Faults, time and the board: what dies or is cut short leaves the row as it was.
LEMMA FaultsKeep ==
  ASSUME Calm, ~disturbed',
         \/ \E a \in Callers : CallerDies(a) \/ CallGivesUp(a)
         \/ \E p \in Pids : ProcessDies(p) \/ PidTaken(p)
         \/ LoseWorktree \/ Age \/ MoveGoalOnBoard
  PROVE  Undisturbed'
  <1>1. ASSUME NEW a \in Callers, CallerDies(a) PROVE Undisturbed'
    <2>1. a = Dispatcher /\ ~InCall(Dispatcher)
      BY <1>1, SupervisorAssumption DEF CallerDies, Calm, Undisturbed
    <2>2. D.at \in {"none", "done", "failed"}
      BY <2>1 DEF InCall, D
    <2>3. /\ call' = [call EXCEPT ![Dispatcher] = NoCall] /\ loop' = IdleLoop
          /\ UNCHANGED <<context, process, command>>
      BY <1>1, <2>1 DEF CallerDies
    <2>4. D' = NoCall /\ call'[Operator] = call[Operator]
      <3>1. call = [b \in Callers |-> call[b]]
        BY CalmTypes DEF Calm
      <3>2. QED
        BY <2>3, <3>1, TwoCallers DEF D
    <2>5. Covers(context)'
      BY <2>2, <2>3 DEF Calm, Undisturbed, CallKnows, Outside, Covers, OnlyApp, OnlyGateway
    <2>6. CallKnows'
      BY <2>4, <2>5 DEF CallKnows, NoCall, Outside, Ending
    <2>7. GatewayKnows' /\ LoopKnows'
      BY <2>3, <2>4 DEF Calm, Undisturbed, GatewayKnows, LoopKnows, IdleLoop, Rewriting, NoCall,
                        OnlyApp, OnlyGateway
    <2>8. QED
      BY <2>3, <2>4, <2>6, <2>7 DEF Calm, Undisturbed, IdleLoop
  <1>2. ASSUME NEW a \in Callers, CallGivesUp(a) PROVE Undisturbed'
    BY <1>2 DEF CallGivesUp
  <1>3. ASSUME NEW p \in Pids, ProcessDies(p) \/ PidTaken(p) PROVE Undisturbed'
    <2>1. /\ \/ process' = [process EXCEPT ![p] = NoProcess]
             \/ process' = [process EXCEPT ![p] = Program("foreign", "up", 0)]
          /\ UNCHANGED <<context, call, loop, command>>
      BY <1>3 DEF ProcessDies, PidTaken
    <2>2. /\ process'[p].kind \in {"none", "foreign"}
          /\ \A q \in Pids \ {p} : process'[q] = process[q]
      BY <2>1, CalmTypes DEF Calm, NoProcess, Program
    <2>3. Ebbs
      BY <2>2 DEF Ebbs
    <2>4. GatewayKnows'
      BY <2>2, <2>3, EbbGateways DEF Calm, Undisturbed
    <2>5. QED
      BY <2>1, <2>3, <2>4, EbbKeeps DEF Ebbs, OnlyApp, OnlyGateway
  <1>4. CASE LoseWorktree \/ Age \/ MoveGoalOnBoard
    <2>1. PICK n : context \in RowUpTo(n)
      BY CalmTypes DEF Calm
    <2>2. /\ UNCHANGED <<process, call, loop, command>>
          /\ context'.app = context.app /\ context'.gateway = context.gateway
      BY <1>4, <2>1 DEF LoseWorktree, Age, MoveGoalOnBoard, ownVars, RowUpTo
    <2>3. Ebbs /\ GatewayKnows'
      BY <2>2 DEF Ebbs, Calm, Undisturbed, GatewayKnows, OnlyApp, OnlyGateway
    <2>4. QED
      BY <2>2, <2>3, EbbKeeps DEF OnlyApp, OnlyGateway
  <1>5. QED
    BY <1>1, <1>2, <1>3, <1>4

-----------------------------------------------------------------------------
(***************************************************************************)
(* The whole supervisor.                                                   *)
(***************************************************************************)

\* What has disturbed the supervisor stays in the history.
LEMMA DisturbedStays ==
  ASSUME [SupervisorNext]_supervisorVars, disturbed PROVE disturbed'
  <1>1. CASE LoopStep \/ PollBoardFails
    BY <1>1 DEF LoopStep, PollBoard, PollBoardFails, ProvisionGoal, Provisioned, ReadMapped,
           NoContext, WriteMapped, LoopWrites, ListContexts, Checkpoint, FindStale,
           WriteStale, StopIfAlive, Stopped, StartIfDown, LeaveRunning, Started, WriteHuman,
           history
  <1>2. CASE GiveCommand \/ CommandStep
    BY <1>2 DEF GiveCommand, CommandStep, CheckpointCommand, CommandStopped, CommandStarted,
           history
  <1>3. ASSUME NEW a \in Callers, SupervisorCallStep(a) \/ CallerDies(a) \/ CallGivesUp(a)
        PROVE  disturbed'
    BY <1>3 DEF SupervisorCallStep, Observes, CallerDies, CallGivesUp
  <1>4. ASSUME NEW p \in Pids, SupervisorGatewayStep(p) \/ ProcessDies(p) \/ PidTaken(p)
        PROVE  disturbed'
    BY <1>4 DEF SupervisorGatewayStep, ProcessDies, PidTaken, history
  <1>5. CASE LoseWorktree \/ Age \/ MoveGoalOnBoard \/ UNCHANGED supervisorVars
    BY <1>5 DEF LoseWorktree, Age, MoveGoalOnBoard, ownVars, history, supervisorVars
  <1>6. QED
    BY <1>1, <1>2, <1>3, <1>4, <1>5 DEF SupervisorNext

\* An undisturbed supervisor stays one that knows its processes.
LEMMA WatchInductive ==
  TypeInv /\ WatchInv /\ [SupervisorNext]_supervisorVars => WatchInv'
  <1> SUFFICES ASSUME TypeInv, WatchInv, [SupervisorNext]_supervisorVars, ~disturbed'
               PROVE  Undisturbed'
    BY DEF WatchInv
  <1>1. Calm
    BY DisturbedStays DEF WatchInv, Calm
  <1>2. CASE LoopStep \/ PollBoardFails
    BY <1>1, <1>2, LoopLooks, LoopCalls, LoopRewrites DEF LoopStep
  <1>3. CASE GiveCommand \/ CommandStep
    BY <1>1, <1>3 DEF GiveCommand, CommandStep, CheckpointCommand, CommandStopped,
                      CommandStarted, Calm, Undisturbed
  <1>4. ASSUME NEW a \in Callers, SupervisorCallStep(a) PROVE Undisturbed'
    BY <1>1, <1>4, CallsKeep
  <1>5. ASSUME NEW p \in Pids, SupervisorGatewayStep(p) PROVE Undisturbed'
    BY <1>1, <1>5, GatewayKeeps
  <1>6. CASE \/ \E a \in Callers : CallerDies(a) \/ CallGivesUp(a)
             \/ \E p \in Pids : ProcessDies(p) \/ PidTaken(p)
             \/ LoseWorktree \/ Age \/ MoveGoalOnBoard
    BY <1>1, <1>6, FaultsKeep
  <1>7. CASE UNCHANGED supervisorVars
    BY <1>1, <1>7 DEF supervisorVars, runtimeVars, ownVars, Calm, Undisturbed, CallKnows,
           GatewayKnows, LoopKnows, Covers, Quiet, OnlyApp, OnlyGateway, D
  <1>8. QED
    BY <1>2, <1>3, <1>4, <1>5, <1>6, <1>7 DEF SupervisorNext

\* At first nothing runs.
LEMMA InitWatch == SupervisorInit => WatchInv
  <1> SUFFICES ASSUME SupervisorInit PROVE Undisturbed
    BY DEF WatchInv
  <1>1. /\ D = NoCall /\ call[Operator] = NoCall /\ loop = IdleLoop /\ command = IdleCommand
        /\ \A p \in Pids : process[p].kind = "none"
    BY TwoCallers DEF SupervisorInit, RuntimeInit, D, NoProcess, Program
  <1>2. CallKnows
    BY <1>1 DEF CallKnows, NoCall, Outside, Ending, Covers, OnlyApp, OnlyGateway
  <1>3. GatewayKnows /\ LoopKnows
    BY <1>1 DEF GatewayKnows, LoopKnows, NoCall, IdleLoop, Rewriting
  <1>4. QED
    BY <1>1, <1>2, <1>3 DEF Undisturbed, NoCall, IdleLoop, IdleCommand

\* A supervisor that knows its processes has lost sight of none.
LEMMA WatchedStays == TypeInv /\ WatchInv => NothingStrays
  <1> SUFFICES ASSUME TypeInv, Undisturbed, NEW p \in Pids,
                      process[p].kind \notin {"none", "foreign"}
               PROVE  \/ p \in {context.app, context.gateway}
                      \/ InCall(Dispatcher) /\ p \in {D.app, D.gateway}
    BY DEF WatchInv, NothingStrays, D
  <1>1. process[p].kind \in {"app", "gateway"}
    <2>1. PICK n : process[p] \in ProcessUpTo(n)
      BY CalmTypes
    <2>2. QED
      BY <2>1 DEF ProcessUpTo
  <1>2. CallKnows
    BY DEF Undisturbed
  <1>3. p # NoPid
    BY Bounds
  <1>4. CASE D.at \in Outside \cup Ending
    BY <1>1, <1>2, <1>4 DEF CallKnows, Covers, OnlyApp, OnlyGateway
  <1>5. CASE D.at \in {"spawn", "clear", "recordError"}
    BY <1>1, <1>2, <1>3, <1>5 DEF CallKnows, Quiet, OnlyApp, OnlyGateway
  <1>6. CASE D.at \in {"record", "port", "undo", "recordGateway", "http"}
    <2>1. InCall(Dispatcher)
      BY <1>6 DEF InCall, D
    <2>2. QED
      BY <1>1, <1>2, <1>3, <1>6, <2>1 DEF CallKnows, OnlyApp, OnlyGateway
  <1>7. D.at \in Outside \cup Ending
                   \cup {"spawn", "clear", "recordError", "record", "port", "undo",
                         "recordGateway", "http"}
    BY CalmTypes DEF CallStages, Outside, Ending
  <1>8. QED
    BY <1>4, <1>5, <1>6, <1>7

\* goal-runtime.ts, goal-gateway.ts and the goal loop of party.ts: everything that the
\* row, the calls, the processes, the loop and a command keep has its type, for any
\* number of process ids, starts, moves, faults and commands.
THEOREM SupervisorTypes == SupervisorSpec => []SupervisorTypeOK
  BY TypesInvariant, TypesImply, PTL DEF SupervisorSpec

\* The types and the knowledge of the processes, of any behaviour of the supervisor.
LEMMA SupervisorKnows ==
  SupervisorInit /\ [][SupervisorNext]_supervisorVars => [](TypeInv /\ WatchInv)
  BY InitTypes, InitWatch, TypesInductive, WatchInductive, PTL

\* startGoalRuntime, stopGoalRuntime and the gateway's start and stop: each writes the
\* whole row back that it has read before, and yet the row or the call in progress names
\* every app-server and gateway that runs, as long as the dispatcher works alone and
\* every start and stop is finished.
THEOREM NothingLost == SupervisorSpec => []NothingStrays
  BY SupervisorKnows, WatchedStays, PTL DEF SupervisorSpec

-----------------------------------------------------------------------------
(***************************************************************************)
(* The supervisor and the intake beside each other.                        *)
(***************************************************************************)

\* A step of the goal loop is one of the supervisor or one of the intake.
LEMMA LoopParts ==
  [Processes(SupervisorNext) \/ Intake(IntakeNext)]_loopVars =>
    [SupervisorNext]_supervisorVars /\ [IntakeNext]_intakeVars
  BY DEF Processes, Intake, loopVars

\* A behaviour of the goal loop is one of either part.
LEMMA LoopBehaves ==
  LoopSpec =>
    /\ SupervisorInit /\ [][SupervisorNext]_supervisorVars
    /\ IntakeInit /\ [][IntakeNext]_intakeVars
  <1>1. LoopInit => SupervisorInit /\ IntakeInit
    BY DEF LoopInit
  <1>2. QED
    BY <1>1, LoopParts, PTL DEF LoopSpec

\* The goal loop keeps the types of both of its parts.
THEOREM LoopTypes == LoopSpec => []LoopTypeOK
  <1>1. IntakeInit /\ [][IntakeNext]_intakeVars => []IntakeInv
    BY InitIntake, IntakeInductive, PTL
  <1>2. TypeInv /\ IntakeInv => LoopTypeOK
    BY TypesImply DEF IntakeInv, LoopTypeOK
  <1>3. QED
    BY <1>1, <1>2, LoopBehaves, TypesInvariant, PTL

\* Beside the intake, too, no process is lost sight of.
THEOREM LoopLosesNothing == LoopSpec => []NothingStrays
  BY LoopBehaves, SupervisorKnows, WatchedStays, PTL
=============================================================================
