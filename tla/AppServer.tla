------------------------------ MODULE AppServer ------------------------------
(***************************************************************************)
(* The Codex app-server of one goal context, an external program, as       *)
(* dispatcher/app-server-client.ts uses it: it runs turns of one thread,   *)
(* answers thread/resume with the turns it knows and turn/start with a new *)
(* turn, and sends turn/started and turn/completed notifications to every  *)
(* connection.  The stream of notifications to the goal gateway is a       *)
(* queue; automated deliveries look at the turn itself, because the client *)
(* buffers notifications from before it subscribes.                        *)
(*                                                                         *)
(* Nothing in the client or the dispatcher keeps the server from being     *)
(* asked to start a turn while another one runs, so neither does this      *)
(* module.                                                                 *)
(***************************************************************************)
EXTENDS GoalContextStore, Sequences

VARIABLES
  turns,      \* turns of the thread, in the order they were started
  stream,     \* notifications sent to the gateway and not handled yet
  serving,    \* the server process is running
  listening,  \* the gateway is running and connected to it
  overlapped  \* history: some turn was started while another was running

serverVars == <<turns, stream, serving, listening, overlapped>>

\* The client message id of a turn: an event in some recovery round, or a
\* browser submission.
EventClient(e, round) == [source |-> e, round |-> round]
BrowserClient(i) == [source |-> i, round |-> 0]
Clients ==
  {EventClient(e, r) : e \in Events, r \in 0..MaxAttempts}
    \cup {BrowserClient(i) : i \in Inputs}

TurnStatus == {"inProgress", "completed", "interrupted"}
Turn == [client : Clients, status : TurnStatus]

Notification == [method : {"turn/started", "turn/completed"}, turn : Turns]

ServerTypeOK ==
  /\ turns \in Seq(Turn) /\ Len(turns) <= MaxTurns
  /\ stream \in Seq(Notification)
  /\ serving \in BOOLEAN /\ listening \in BOOLEAN
  /\ overlapped \in BOOLEAN

ServerInit ==
  /\ turns = <<>>
  /\ stream = <<>>
  /\ serving = TRUE /\ listening = TRUE
  /\ overlapped = FALSE

Running == {t \in DOMAIN turns : turns[t].status = "inProgress"}

Notified(method, t) ==
  IF listening THEN Append(stream, [method |-> method, turn |-> t]) ELSE stream

\* The server accepts turn/start and answers with the turn it created.
AcceptTurn(client) ==
  /\ serving
  /\ Len(turns) < MaxTurns
  /\ turns' = Append(turns, [client |-> client, status |-> "inProgress"])
  /\ stream' = Notified("turn/started", Len(turns) + 1)
  /\ overlapped' = (overlapped \/ Running # {})
  /\ UNCHANGED <<serving, listening>>

\* A turn reaches a terminal status.
EndTurn(t, status) ==
  /\ t \in Running
  /\ turns' = [turns EXCEPT ![t].status = status]
  /\ stream' = Notified("turn/completed", t)
  /\ UNCHANGED <<serving, listening, overlapped>>

\* The server process ends: the turns it was running are interrupted.
LostTurns ==
  [t \in DOMAIN turns |->
     IF t \in Running THEN [turns[t] EXCEPT !.status = "interrupted"] ELSE turns[t]]

\* A slip: turns that have ended are not looked at.
FindRunningClientTurn(client) ==
  LET found == {t \in Running : turns[t].client = client}
  IN  IF found = {} THEN NoTurn ELSE Min(found)

(***************************************************************************)
(* findClientTurn: the first turn of the snapshot whose user message has   *)
(* this client id, or NoTurn.                                              *)
(***************************************************************************)
FindClientTurn(client) ==
  LET found == {t \in DOMAIN turns : turns[t].client = client}
  IN  IF found = {} THEN NoTurn ELSE Min(found)

\* activeTurnFromSnapshot: the last turn in progress, or NoTurn.
ActiveTurnFromSnapshot(snapshot) ==
  LET active == {t \in DOMAIN snapshot : snapshot[t].status = "inProgress"}
  IN  IF active = {} THEN NoTurn ELSE Max(active)
=============================================================================
