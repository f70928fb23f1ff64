----------------------------- MODULE GoalRunner ------------------------------
(***************************************************************************)
(* The dispatcher process: the run loop of dispatcher/party.ts             *)
(* (runGoalLoop) and the event deliveries it starts                        *)
(* (dispatcher/goal-event-delivery.ts), together with the goal gateway,    *)
(* the app-server and the store they share.                                *)
(*                                                                         *)
(* With Continuous = FALSE the loop is `party run --once` repeated by a    *)
(* scheduler: an iteration waits for its delivery.  With Continuous = TRUE *)
(* it is the service's loop, which starts a delivery and goes on to the    *)
(* next iteration after the poll interval without waiting for it.          *)
(*                                                                         *)
(* A delivery is asynchronous code: an action is the code between two      *)
(* awaits, and the other parts of the process run only between actions.    *)
(***************************************************************************)
EXTENDS GoalGateway

CONSTANTS
  Continuous,          \* `party run` (TRUE) or `party run --once` (FALSE)
  Deliveries,          \* bound: deliveries in flight at once
  MaxFaults            \* bound: process deaths in a behaviour

ASSUME RunnerAssumption ==
  /\ Continuous \in BOOLEAN
  /\ MaxFaults \in Nat

VARIABLES
  loop,       \* where runGoalLoop is
  consumer,   \* the consumer name of this dispatcher process
  delivery,   \* one record per deliverOnce call
  faults      \* process deaths so far

runnerVars == <<loop, consumer, delivery, faults>>
vars == <<storeVars, serverVars, gatewayVars, runnerVars>>

LoopStages ==
  {"poll", "checkpoint", "inspect", "starting", "recover", "claim", "await"}

DeliveryStages ==
  {"idle", "connecting", "resumed", "started", "answered", "refused", "waiting"}

(***************************************************************************)
(* A deliverOnce call: the event row it claimed (attempts and client round *)
(* as they were then), the turn with that client id in the snapshot and    *)
(* its status there, the turn it follows, and whether its connection to    *)
(* the app-server is broken.                                               *)
(***************************************************************************)
Delivery ==
  [stage : DeliveryStages, event : Events \cup {NoTurn}, attempt : 0..MaxAttempts,
   round : 0..MaxAttempts, status : TurnStatus \cup {"none"},
   turn : Turns \cup {NoTurn}, lost : BOOLEAN]

IdleDelivery ==
  [stage |-> "idle", event |-> NoTurn, attempt |-> 0, round |-> 0,
   status |-> "none", turn |-> NoTurn, lost |-> FALSE]

TypeOK ==
  /\ StoreTypeOK /\ ServerTypeOK /\ GatewayTypeOK
  /\ loop \in LoopStages
  /\ consumer \in Consumers
  /\ delivery \in [Deliveries -> Delivery]
  /\ faults \in 0..MaxFaults

Init ==
  /\ StoreInit /\ ServerInit /\ GatewayInit
  /\ loop = "poll"
  /\ consumer \in Consumers
  /\ delivery = [d \in Deliveries |-> IdleDelivery]
  /\ faults = 0

\* Code of the process that must run before anything else of it does: the
\* write of an updateRuntime, the claim after a recovery, a catch block.
RunnerFree ==
  /\ reading["runner"] = NotReading
  /\ loop # "claim"
  /\ \A d \in Deliveries : delivery[d].stage # "refused"

-----------------------------------------------------------------------------
(***************************************************************************)
(* One iteration of runGoalLoop for this context.                          *)
(***************************************************************************)

\* The poller enqueues the events it observes, in any order and at any time.
Poll(e) ==
  /\ EnqueueEvent(e)
  /\ UNCHANGED <<serverVars, gatewayVars, runnerVars>>

\* store.updateRuntime(context.id, checkpoint(context.worktreePath))
Checkpoint ==
  /\ RunnerFree /\ loop = "poll"
  /\ BeginUpdate("runner")
  /\ loop' = "checkpoint"
  /\ UNCHANGED <<serverVars, gatewayVars, consumer, delivery, faults>>

CheckpointRecorded ==
  /\ loop = "checkpoint"
  /\ FinishUpdate("runner")
  /\ pendingOperation' = reading["runner"]
  /\ loop' = "inspect"
  /\ UNCHANGED <<event, serverVars, gatewayVars, consumer, delivery, faults>>

RuntimeHealthy ==
  /\ RunnerFree /\ loop = "inspect" /\ listening
  /\ loop' = "recover"
  /\ UNCHANGED <<storeVars, serverVars, gatewayVars, consumer, delivery, faults>>

Disconnected ==
  [d \in Deliveries |->
     IF delivery[d].stage = "idle" THEN delivery[d]
     ELSE [delivery[d] EXCEPT !.lost = TRUE]]

\* startGoalRuntime, first half: what is left of the runtime is killed.
KillRuntime ==
  /\ RunnerFree /\ loop = "inspect" /\ ~listening
  /\ loop' = "starting"
  /\ serving' = FALSE
  /\ turns' = LostTurns
  /\ delivery' = Disconnected
  /\ UNCHANGED <<storeVars, stream, listening, overlapped, gatewayVars, consumer,
                 faults>>

\* startGoalRuntime, second half: a new app-server and a new gateway.
StartRuntime ==
  /\ RunnerFree /\ loop = "starting"
  /\ loop' = "recover"
  /\ serving' = TRUE
  /\ GatewayStart(turns)
  /\ UNCHANGED <<event, reading, turns, stream, overlapped, consumer, delivery,
                 faults>>

StartRuntimeFails ==
  /\ RunnerFree /\ loop = "starting"
  /\ loop' = "poll"
  /\ UNCHANGED <<storeVars, serverVars, gatewayVars, consumer, delivery, faults>>

Recover ==
  /\ RunnerFree /\ loop = "recover"
  /\ \E d \in Deliveries : delivery[d].stage = "idle"
  /\ RecoverInterruptedEvents
  /\ loop' = "claim"
  /\ UNCHANGED <<serverVars, gatewayVars, consumer, delivery, faults>>

Claim(d, e) ==
  /\ loop = "claim" /\ delivery[d].stage = "idle"
  /\ ClaimNextOrdered(e, consumer)
  /\ delivery' = [delivery EXCEPT ![d] =
       [IdleDelivery EXCEPT !.stage = "connecting", !.event = e,
          !.attempt = event[e].attempts + 1, !.round = event[e].round]]
  /\ loop' = IF Continuous THEN "poll" ELSE "await"
  /\ UNCHANGED <<serverVars, gatewayVars, consumer, faults>>

Claimable ==
  /\ pendingOperation = NoOperation
  /\ \E e \in FirstOpen : event[e].state = "pending" /\ event[e].attempts < MaxAttempts

NothingToClaim ==
  /\ loop = "claim" /\ ~Claimable
  /\ loop' = "poll"
  /\ UNCHANGED <<storeVars, serverVars, gatewayVars, consumer, delivery, faults>>

-----------------------------------------------------------------------------
(***************************************************************************)
(* deliverOnce after its claim.                                            *)
(***************************************************************************)
Return(d) ==
  /\ delivery' = [delivery EXCEPT ![d] = IdleDelivery]
  /\ loop' = IF Continuous THEN loop ELSE "poll"

\* The finally block releases the turn it follows, or else the submission.
HeldBy(d) ==
  IF delivery[d].stage \in {"waiting", "refused"}
  THEN TurnOperation(delivery[d].turn) ELSE EventSubmit(delivery[d].event)

\* catch and finally: back to pending unless the event is someone else's.
Abort(d) ==
  /\ RequeueForReconciliation(delivery[d].event, consumer, HeldBy(d))
  /\ Return(d)
  /\ UNCHANGED <<serverVars, gatewayVars, consumer, faults>>

\* completeEventAndRelease throws, into the catch block, when not the owner.
CompleteOrAbort(d) ==
  \/ /\ CompleteEventAndRelease(delivery[d].event, consumer, HeldBy(d))
     /\ Return(d)
     /\ UNCHANGED <<serverVars, gatewayVars, consumer, faults>>
  \/ ~OwnedBy(delivery[d].event, consumer) /\ Abort(d)

\* connect and thread/resume: the snapshot is what the server knew when it
\* answered.
Resume(d) ==
  LET t == FindClientTurn(EventClient(delivery[d].event, delivery[d].round))
  IN  /\ delivery[d].stage = "connecting" /\ ~delivery[d].lost /\ serving
      /\ delivery' = [delivery EXCEPT ![d].stage = "resumed", ![d].turn = t,
           ![d].status = IF t = NoTurn THEN "none" ELSE turns[t].status]
      /\ UNCHANGED <<storeVars, serverVars, gatewayVars, loop, consumer, faults>>

Resumed(d, status) ==
  RunnerFree /\ delivery[d].stage = "resumed" /\ delivery[d].status = status

\* The snapshot shows a completed turn for this event: nothing to deliver.
Reconcile(d) ==
  Resumed(d, "completed") /\ CompleteOrAbort(d)

\* It shows a running turn: follow it, if the submission is still ours.
Join(d) ==
  /\ Resumed(d, "inProgress")
  /\ IF pendingOperation = EventSubmit(delivery[d].event)
       THEN /\ pendingOperation' = TurnOperation(delivery[d].turn)
            /\ delivery' = [delivery EXCEPT ![d].stage = "waiting"]
       ELSE /\ pendingOperation' = pendingOperation
            /\ delivery' = [delivery EXCEPT ![d].stage = "refused"]
  /\ UNCHANGED <<event, reading, serverVars, gatewayVars, loop, consumer, faults>>

\* It shows a turn that failed: setEventDeliveryClientId before a new turn.
RenewClientId(d) ==
  LET e == delivery[d].event
  IN  /\ Resumed(d, "interrupted")
      /\ IF OwnedBy(e, consumer)
           THEN /\ event' = [event EXCEPT ![e].round = delivery[d].attempt]
                /\ delivery' = [delivery EXCEPT ![d].round = delivery[d].attempt,
                                  ![d].status = "none", ![d].turn = NoTurn]
                /\ UNCHANGED <<pendingOperation, reading, serverVars, gatewayVars,
                               loop, consumer, faults>>
           ELSE Abort(d)

\* A slip: the id of the started turn is not kept.
StartTurnUnnamed(d) ==
  /\ delivery[d].stage = "resumed" /\ delivery[d].status = "none"
  /\ ~delivery[d].lost
  /\ AcceptTurn(EventClient(delivery[d].event, delivery[d].round))
  /\ delivery' = [delivery EXCEPT ![d].stage = "started"]
  /\ UNCHANGED <<storeVars, gatewayVars, loop, consumer, faults>>

\* turn/start reaches the server.
StartTurn(d) ==
  /\ delivery[d].stage = "resumed" /\ delivery[d].status = "none"
  /\ ~delivery[d].lost
  /\ AcceptTurn(EventClient(delivery[d].event, delivery[d].round))
  /\ delivery' = [delivery EXCEPT ![d].stage = "started", ![d].turn = Len(turns) + 1]
  /\ UNCHANGED <<storeVars, gatewayVars, loop, consumer, faults>>

\* Its answer arrives: updateRuntime(threadHasActivity) reads the row ...
TurnAnswered(d) ==
  /\ RunnerFree /\ delivery[d].stage = "started"
  /\ BeginUpdate("runner")
  /\ delivery' = [delivery EXCEPT ![d].stage = "answered"]
  /\ UNCHANGED <<serverVars, gatewayVars, loop, consumer, faults>>

\* ... and writes it; replaceOperation takes the operation over for the turn,
\* or throws if the operation is no longer this submission.
TurnRecorded(d) ==
  /\ delivery[d].stage = "answered"
  /\ FinishUpdate("runner")
  /\ IF reading["runner"] = EventSubmit(delivery[d].event)
       THEN /\ pendingOperation' = TurnOperation(delivery[d].turn)
            /\ delivery' = [delivery EXCEPT ![d].stage = "waiting"]
       ELSE /\ pendingOperation' = reading["runner"]
            /\ delivery' = [delivery EXCEPT ![d].stage = "refused"]
  /\ UNCHANGED <<event, serverVars, gatewayVars, loop, consumer, faults>>

Refused(d) ==
  delivery[d].stage = "refused" /\ Abort(d)

\* A slip: any terminal notification counts as success.
TurnOver(d) ==
  /\ RunnerFree /\ delivery[d].stage = "waiting"
  /\ turns[delivery[d].turn].status # "inProgress"
  /\ CompleteOrAbort(d)

TurnDone(d) ==
  /\ RunnerFree /\ delivery[d].stage = "waiting"
  /\ turns[delivery[d].turn].status = "completed"
  /\ CompleteOrAbort(d)

\* A request fails or its answer is lost, the connection breaks, the turn
\* ends otherwise, or waiting for it times out.
DeliveryFails(d) ==
  /\ RunnerFree
  /\ delivery[d].stage \in {"connecting", "resumed", "started", "waiting"}
  /\ delivery[d].stage = "resumed" => delivery[d].status = "none"
  /\ Abort(d)

-----------------------------------------------------------------------------
(***************************************************************************)
(* Crashes.  The dispatcher dies and is restarted under a new or the same  *)
(* consumer name; the gateway dies alone, or with the app-server.          *)
(***************************************************************************)
Fault == faults < MaxFaults /\ faults' = faults + 1

RunnerCrash ==
  /\ Fault
  /\ loop' = "poll"
  /\ consumer' \in Consumers
  /\ delivery' = [d \in Deliveries |-> IdleDelivery]
  /\ Abandon("runner")
  /\ UNCHANGED <<event, pendingOperation, serverVars, gatewayVars>>

RuntimeFails ==
  /\ Fault /\ listening
  /\ GatewayGone
  /\ \/ UNCHANGED <<serving, turns, delivery>>
     \/ serving' = FALSE /\ turns' = LostTurns /\ delivery' = Disconnected
  /\ UNCHANGED <<event, pendingOperation, overlapped, loop, consumer>>

TurnEnds(t) ==
  /\ \E status \in {"completed", "interrupted"} : EndTurn(t, status)
  /\ UNCHANGED <<storeVars, gatewayVars, runnerVars>>

LoopStep ==
  \/ Checkpoint \/ CheckpointRecorded
  \/ RuntimeHealthy \/ KillRuntime \/ StartRuntime \/ StartRuntimeFails
  \/ Recover
  \/ \E d \in Deliveries, e \in Events : Claim(d, e)
  \/ NothingToClaim

DeliveryStep(d) ==
  \/ Resume(d) \/ Reconcile(d) \/ Join(d) \/ RenewClientId(d) \/ StartTurn(d)
  \/ TurnAnswered(d) \/ TurnRecorded(d) \/ Refused(d)
  \/ TurnDone(d) \/ DeliveryFails(d)

Next ==
  \/ \E e \in Events : Poll(e)
  \/ LoopStep
  \/ \E d \in Deliveries : DeliveryStep(d)
  \/ \E t \in Turns : TurnEnds(t)
  \/ GatewayNext /\ UNCHANGED runnerVars
  \/ RunnerCrash
  \/ RuntimeFails

Spec == Init /\ [][Next]_vars

(***************************************************************************)
(* The scheduler: the loop and every delivery keep running (each await has *)
(* a timeout), the gateway handles what it receives, and the app-server    *)
(* ends every turn.                                                        *)
(***************************************************************************)
Fairness ==
  /\ WF_vars(LoopStep)
  /\ \A d \in Deliveries : WF_vars(DeliveryStep(d))
  /\ WF_vars(GatewayNext /\ UNCHANGED runnerVars)
  /\ \A t \in Turns : WF_vars(TurnEnds(t))

FairSpec == Spec /\ Fairness

-----------------------------------------------------------------------------
(***************************************************************************)
(* Properties.                                                             *)
(***************************************************************************)

\* A prompt is submitted at most once under one client message id, over
\* crashes, timeouts, lost answers and reconnects: a delivery that takes an
\* event up again finds the turn the earlier one started
\* (goal-event-delivery.ts, findClientTurn before startTurn).
OnePromptPerClientId ==
  \A s, t \in DOMAIN turns : turns[s].client = turns[t].client => s = t

\* An event is recorded as consumed only when a turn that was given its
\* prompt has completed, whichever delivery, after whichever failure,
\* records it (completeEventAndRelease in goal-context.ts).
ConsumedMeansTurnCompleted ==
  \A e \in Events : event[e].state = "consumed" =>
    \E t \in DOMAIN turns :
      turns[t].client.source = e /\ turns[t].status = "completed"

FeedStage(e) ==
  CASE event[e].state = "absent" -> "absent"
    [] event[e].state = "pending" -> "waiting"
    [] event[e].state = "delivering" -> "working"
    [] event[e].state = "consumed" -> "done"

Feed == INSTANCE EventFeed WITH
  stage <- [e \in Events |-> FeedStage(e)],
  place <- [e \in Events |-> event[e].sequence]

\* The store and the deliveries together work on one event at a time, the
\* earliest by source time, and never return to a consumed one
\* (claimNextOrdered, recoverInterruptedEvents): they implement EventFeed, as
\* long as Inputs = {}.  The `browser-submit` that a gateway's torn
\* updateRuntime writes back hides an interrupted event from the recovery, and
\* once that operation is finished another event can be claimed beside it.
ImplementsEventFeed == Feed!FeedSpec

\* An event does not stay in delivery for ever: its delivery ends, or the
\* next iteration of the loop takes back what a crashed one left behind
\* (recoverInterruptedEvents in goal-context.ts).
DeliveringResolves ==
  \A e \in Events :
    event[e].state = "delivering" ~> event[e].state \in {"pending", "consumed"}

\* dispatcher/README.md: "Automated delivery must coordinate with the browser
\* terminal so that only one Codex client owns the conversation at a time."
\* No turn is started while another one is running.
OneOwnerAtATime == ~overlapped

Idle ==
  /\ Running = {} /\ stream = <<>>
  /\ \A d \in Deliveries : delivery[d].stage = "idle"
  /\ \A i \in Inputs : input[i].stage \in {"new", "done"}

WakeUpDue ==
  \E e \in FirstOpen : event[e].state = "pending" /\ event[e].attempts < MaxAttempts

\* dispatcher/README.md: "Idle or sleeping contexts resume automatically."
\* When nothing runs and nobody is submitting, an event that can be claimed
\* (its attempts are below the bound) does not wait for ever.
IdleContextsResume == Idle /\ WakeUpDue ~> Delivering # {} \/ ~WakeUpDue
=============================================================================
