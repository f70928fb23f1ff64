----------------------------- MODULE GoalGateway -----------------------------
(***************************************************************************)
(* dispatcher/goal-gateway.ts: the process behind a goal's browser         *)
(* terminal.  It follows the turns of the conversation through the         *)
(* app-server's notifications, and turns browser input into a turn of its  *)
(* own, a steering message of the running turn, or a queued follow-up.     *)
(* Uploads, rendering, history and the HTTP checks are left out.           *)
(***************************************************************************)
EXTENDS AppServer

VARIABLES
  active,      \* #activeTurnId
  ended,       \* #terminalTurns
  followups,   \* #followups
  input,       \* per browser submission: how far #submit is, and its turn
  started      \* the turn whose turn/started notification is half handled

gatewayVars == <<active, ended, followups, input, started>>

InputStages == {"new", "queued", "claimed", "accepted", "answered", "done"}

GatewayTypeOK ==
  /\ active \in Turns \cup {NoTurn}
  /\ ended \subseteq Turns
  /\ followups \in Seq(Inputs)
  /\ input \in [Inputs -> [stage : InputStages, turn : Turns \cup {NoTurn}]]
  /\ started \in Turns \cup {NoTurn}

GatewayInit ==
  /\ active = NoTurn
  /\ ended = {}
  /\ followups = <<>>
  /\ input = [i \in Inputs |-> [stage |-> "new", turn |-> NoTurn]]
  /\ started = NoTurn

\* The gateway is one JavaScript process: between the two halves of an
\* updateRuntime nothing else of it runs.
GatewayFree == listening /\ reading["gateway"] = NotReading

Stage(i, stage) == input' = [input EXCEPT ![i].stage = stage]

-----------------------------------------------------------------------------
(***************************************************************************)
(* #submit, up to its first await.  With a turn active the input is queued *)
(* (mode followup) or steers that turn, which changes nothing here;        *)
(* otherwise it claims the context or is refused because it is busy.       *)
(***************************************************************************)
QueueFollowup(i) ==
  /\ GatewayFree /\ input[i].stage = "new" /\ active # NoTurn
  /\ followups' = Append(followups, i)
  /\ Stage(i, "queued")
  /\ UNCHANGED <<storeVars, serverVars, active, ended, started>>

Steer(i) ==
  /\ GatewayFree /\ input[i].stage = "new" /\ active # NoTurn
  /\ Stage(i, "done")
  /\ UNCHANGED <<storeVars, serverVars, active, ended, followups, started>>

Submit(i) ==
  /\ GatewayFree /\ input[i].stage = "new" /\ active = NoTurn
  /\ IF pendingOperation = NoOperation
       THEN pendingOperation' = BrowserSubmit(i) /\ Stage(i, "claimed")
       ELSE pendingOperation' = pendingOperation /\ Stage(i, "done")
  /\ UNCHANGED <<event, reading, serverVars, active, ended, followups, started>>

\* turn/start reaches the server, which answers with the turn it created.
SubmitAccepted(i) ==
  /\ listening /\ input[i].stage = "claimed"
  /\ AcceptTurn(BrowserClient(i))
  /\ input' = [input EXCEPT ![i] = [stage |-> "accepted", turn |-> Len(turns) + 1]]
  /\ UNCHANGED <<storeVars, active, ended, followups, started>>

\* The request fails or times out, before or after the server accepted it.
SubmitFails(i) ==
  /\ GatewayFree /\ input[i].stage \in {"claimed", "accepted"}
  /\ pendingOperation' = Finished(pendingOperation, BrowserSubmit(i))
  /\ Stage(i, "done")
  /\ UNCHANGED <<event, reading, serverVars, active, ended, followups, started>>

\* The answer arrives: updateRuntime(threadHasActivity) reads the row.
SubmitAnswered(i) ==
  /\ GatewayFree /\ input[i].stage = "accepted"
  /\ BeginUpdate("gateway")
  /\ Stage(i, "answered")
  /\ UNCHANGED <<serverVars, active, ended, followups, started>>

\* It writes the row; the claim becomes the turn, or is released if the turn
\* has already ended.
SubmitRecorded(i) ==
  LET t == input[i].turn
      over == t \in ended
      written == reading["gateway"]
  IN  /\ listening /\ input[i].stage = "answered"
      /\ FinishUpdate("gateway")
      /\ pendingOperation' =
           IF written # BrowserSubmit(i) THEN written
           ELSE IF over THEN NoOperation ELSE TurnOperation(t)
      /\ active' = IF over THEN active ELSE t
      /\ Stage(i, "done")
      /\ UNCHANGED <<event, serverVars, ended, followups, started>>

-----------------------------------------------------------------------------
(***************************************************************************)
(* #onNotification, one notification at a time in the order they were sent.*)
(* turn/started makes the turn active and runs updateRuntime, then claims  *)
(* the operation for the turn if nothing holds it.                         *)
(***************************************************************************)
TurnStarted ==
  /\ GatewayFree /\ stream # <<>> /\ Head(stream).method = "turn/started"
  /\ active' = Head(stream).turn
  /\ started' = Head(stream).turn
  /\ stream' = Tail(stream)
  /\ BeginUpdate("gateway")
  /\ UNCHANGED <<turns, serving, listening, overlapped, ended, followups, input>>

TurnStartedRecorded ==
  /\ listening /\ started # NoTurn
  /\ FinishUpdate("gateway")
  /\ pendingOperation' =
       IF reading["gateway"] = NoOperation
       THEN TurnOperation(started) ELSE reading["gateway"]
  /\ started' = NoTurn
  /\ UNCHANGED <<event, serverVars, active, ended, followups, input>>

\* turn/completed of the active turn (or of any turn when none is active)
\* releases the operation and submits the next follow-up.
TurnCompleted ==
  LET t == Head(stream).turn
  IN  /\ GatewayFree /\ stream # <<>> /\ Head(stream).method = "turn/completed"
      /\ stream' = Tail(stream)
      /\ ended' = ended \cup {t}
      /\ IF active \in {NoTurn, t}
           THEN /\ active' = NoTurn
                /\ pendingOperation' = Finished(pendingOperation, TurnOperation(t))
                /\ IF followups # <<>>
                     THEN /\ followups' = Tail(followups)
                          /\ Stage(Head(followups), "new")
                     ELSE UNCHANGED <<followups, input>>
           ELSE UNCHANGED <<active, pendingOperation, followups, input>>
      /\ UNCHANGED <<event, reading, turns, serving, listening, overlapped, started>>

-----------------------------------------------------------------------------
\* The process ends: its memory and the requests in it are gone.
GatewayGone ==
  /\ listening' = FALSE
  /\ stream' = <<>>
  /\ active' = NoTurn
  /\ ended' = {}
  /\ followups' = <<>>
  /\ input' = [i \in Inputs |->
                 IF input[i].stage = "new" THEN input[i]
                 ELSE [input[i] EXCEPT !.stage = "done"]]
  /\ started' = NoTurn
  /\ Abandon("gateway")

(***************************************************************************)
(* start: the new process resumes the thread and overwrites                *)
(* pending_operation with the turn the snapshot says is running, or NULL.  *)
(***************************************************************************)
GatewayStart(snapshot) ==
  LET t == ActiveTurnFromSnapshot(snapshot)
  IN  /\ listening' = TRUE
      /\ active' = t
      /\ pendingOperation' = IF t = NoTurn THEN NoOperation ELSE TurnOperation(t)
      /\ UNCHANGED <<ended, followups, input, started>>

GatewayNext ==
  \/ \E i \in Inputs :
       \/ QueueFollowup(i) \/ Steer(i) \/ Submit(i)
       \/ SubmitAccepted(i) \/ SubmitFails(i)
       \/ SubmitAnswered(i) \/ SubmitRecorded(i)
  \/ TurnStarted \/ TurnStartedRecorded \/ TurnCompleted
=============================================================================
