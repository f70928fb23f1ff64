------------------------------ MODULE MCGoalLoop ------------------------------
(***************************************************************************)
(* The goal loop around its deliveries, in two parts that share no state:  *)
(* its processes (GoalSupervisor) and what it takes from GitHub and leaves *)
(* there (GoalIntake).  A behaviour is one of either; in it the other part *)
(* rests in a state in which its properties hold.                          *)
(***************************************************************************)
EXTENDS GoalSupervisor, GoalIntake

VARIABLE part

loopVars == <<part, supervisorVars, intakeVars>>

Budget(starts, commands, moves, faults, accidents) ==
  [starts |-> starts, commands |-> commands, moves |-> moves, faults |-> faults,
   accidents |-> accidents]

\* Without the operator there are more starts than moves, faults and accidents cost; and
\* a command that races the first start, with a goal that is moved meanwhile, or that is
\* itself cut short or finds no worktree.
LoopBudgets ==
  {Budget(4, {}, 1, 1, 0), Budget(4, {}, 0, 2, 0), Budget(4, {}, 0, 1, 1),
   Budget(1, {"stop"}, 1, 0, 0), Budget(1, {"start"}, 0, 0, 0), Budget(1, {"recover"}, 0, 0, 1)}

\* Events that come one after the other, and events that are all there when a
\* request fails, a poller dies or the goal is moved.
IntakeWorkload ==
  \/ published = {} /\ boardMoves = MaxBoardMoves /\ intakeFaults = IntakeFaults
  \/ published = GoalEvents /\ boardMoves = MaxBoardMoves /\ intakeFaults = 0
  \/ published = GoalEvents /\ boardMoves = 0 /\ intakeFaults = IntakeFaults

IntakeRests ==
  /\ published = {} /\ boardMoves = MaxBoardMoves /\ intakeFaults = IntakeFaults
  /\ board.state = "closed"

LoopInit ==
  /\ SupervisorInit /\ IntakeInit
  /\ \/ part = "processes" /\ IntakeRests
     \/ /\ part = "intake" /\ IntakeWorkload /\ board.state = "active"
        /\ left = CHOOSE b \in LoopBudgets : TRUE

Processes(A) == part = "processes" /\ A /\ UNCHANGED <<part, intakeVars>>
Intake(A) == part = "intake" /\ A /\ UNCHANGED <<part, supervisorVars>>

LoopSpec ==
  /\ LoopInit
  /\ [][Processes(SupervisorNext) \/ Intake(IntakeNext)]_loopVars
  /\ WF_loopVars(Processes(LoopStep)) /\ WF_loopVars(Processes(CommandStep))
  /\ \A a \in Callers : WF_loopVars(Processes(SupervisorCallStep(a)))
  /\ \A p \in Pids : WF_loopVars(Processes(SupervisorGatewayStep(p)))
  /\ \A q \in Pollers : WF_loopVars(Intake(PollStep(q)))
  /\ WF_loopVars(Intake(Lapse)) /\ WF_loopVars(Intake(Due)) /\ WF_loopVars(Intake(RouteContext))

\* The variables of both parts have their types.
LoopTypeOK == SupervisorTypeOK /\ IntakeTypeOK
=============================================================================
