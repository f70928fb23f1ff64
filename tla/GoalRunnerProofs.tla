-------------------------- MODULE GoalRunnerProofs ---------------------------
(***************************************************************************)
(* Theorems about GoalRunner, for any events, source times, submissions,   *)
(* consumer names, deliveries and bounds.                                  *)
(***************************************************************************)
EXTENDS GoalRunner, ExtremaLemmas, SequenceTheorems

-----------------------------------------------------------------------------
(***************************************************************************)
(* The invariants the types rest on.                                       *)
(***************************************************************************)

\* There is a greatest sequence number, so that NextSequence is one more.
SequencesBounded == \E b \in Nat : \A e \in Events : event[e].sequence <= b

\* The delivery knows a turn: it has started one, or its snapshot shows one.
KnowsTurn(row) ==
  \/ row.stage \in {"started", "answered", "waiting", "refused"}
  \/ row.status # "none"

\* A delivery under way has an event.  A turn it knows is one that was given
\* the prompt of this event, and if it believes the turn completed, it is.
Follows(row, conversation) ==
  /\ row.stage # "idle" => row.event \in Events
  /\ KnowsTurn(row) =>
       /\ row.stage # "idle"
       /\ row.turn \in DOMAIN conversation
       /\ conversation[row.turn].client.source = row.event
       /\ row.status = "completed" => conversation[row.turn].status = "completed"

FollowsItsTurn == \A d \in Deliveries : Follows(delivery[d], turns)

\* A submission that the server has accepted knows its turn.
SubmissionHasTurn ==
  \A i \in Inputs : input[i].stage \in {"accepted", "answered"} => input[i].turn \in Turns

TypeInv == TypeOK /\ SequencesBounded /\ FollowsItsTurn /\ SubmissionHasTurn

-----------------------------------------------------------------------------
(***************************************************************************)
(* The operations on the store keep its rows well typed.                   *)
(***************************************************************************)

\* A new row gets the number after the greatest.
LEMMA NextSequenceIsNext ==
  ASSUME StoreTypeOK, SequencesBounded
  PROVE  NextSequence \in Nat /\ \A e \in Rows : event[e].sequence < NextSequence
  <1> DEFINE S == {0} \cup {event[e].sequence : e \in Rows}
  <1>1. S \in SUBSET Nat /\ S # {}
    BY DEF StoreTypeOK, EventRow, Rows
  <1>2. PICK b \in Nat : \A e \in Events : event[e].sequence <= b
    BY DEF SequencesBounded
  <1>3. \A x \in S : x <= b
    BY <1>2 DEF Rows
  <1>4. Max(S) \in S /\ \A x \in S : x <= Max(S)
    BY <1>1, <1>3, MaxOfNats
  <1>5. Max(S) \in Nat /\ \A e \in Rows : event[e].sequence <= Max(S)
    BY <1>1, <1>4
  <1> HIDE DEF S
  <1>6. NextSequence = Max(S) + 1
    BY DEF NextSequence, S
  <1>7. \A e \in Rows : event[e].sequence \in Nat
    BY DEF StoreTypeOK, EventRow, Rows
  <1>8. QED
    BY <1>5, <1>6, <1>7

\* What each operation does to a row keeps the row's type.
LEMMA EventRowType ==
  ASSUME NEW row \in EventRow
  PROVE  /\ \A n \in Nat :
              [row EXCEPT !.state = "pending", !.sequence = n] \in EventRow
         /\ \A c \in Consumers : row.attempts < MaxAttempts =>
              [row EXCEPT !.state = "delivering", !.consumer = c, !.attempts = @ + 1]
                \in EventRow
         /\ [row EXCEPT !.state = "consumed"] \in EventRow
         /\ [row EXCEPT !.state = "pending", !.consumer = NoConsumer] \in EventRow
         /\ \A n \in 0..MaxAttempts : [row EXCEPT !.round = n] \in EventRow
  <1> USE DEF EventRow, EventStates
  <1>1. \A n \in Nat : [row EXCEPT !.state = "pending", !.sequence = n] \in EventRow
    OBVIOUS
  <1>2. ASSUME NEW c \in Consumers, row.attempts < MaxAttempts
        PROVE  [row EXCEPT !.state = "delivering", !.consumer = c, !.attempts = @ + 1]
                 \in EventRow
    <2>1. row.attempts + 1 \in 0..MaxAttempts
      BY <1>2, StoreAssumption
    <2>2. QED
      BY <2>1
  <1>3. [row EXCEPT !.state = "consumed"] \in EventRow
    OBVIOUS
  <1>4. [row EXCEPT !.state = "pending", !.consumer = NoConsumer] \in EventRow
    OBVIOUS
  <1>5. \A n \in 0..MaxAttempts : [row EXCEPT !.round = n] \in EventRow
    OBVIOUS
  <1>6. QED
    BY <1>1, <1>2, <1>3, <1>4, <1>5

\* Writing one row of the table.
LEMMA RowWritten ==
  ASSUME StoreTypeOK, NEW e, NEW row, e \in Events => row \in EventRow,
         event' = [event EXCEPT ![e] = row]
  PROVE  event' \in [Events -> EventRow]
  BY DEF StoreTypeOK

\* The values that pending_operation is given.
LEMMA OperationTypes ==
  /\ NoOperation \in Operations
  /\ \A e \in Events : EventSubmit(e) \in Operations
  /\ \A t \in Turns : TurnOperation(t) \in Operations
  /\ \A i \in Inputs : BrowserSubmit(i) \in Operations
  BY DEF Operations

\* Releasing an operation clears it or leaves it alone.
LEMMA ReleasedTypes ==
  ASSUME StoreTypeOK, NEW e, NEW expected
  PROVE  /\ Finished(ReleasedBy(e), expected) \in Operations
         /\ Finished(pendingOperation, expected) \in Operations
  BY OperationTypes DEF Finished, ReleasedBy, StoreTypeOK

\* enqueueEvent keeps the types, and the sequence numbers stay bounded.
LEMMA EnqueueTypes ==
  ASSUME StoreTypeOK, SequencesBounded, NEW e \in Events, EnqueueEvent(e)
  PROVE  StoreTypeOK' /\ SequencesBounded'
  <1>1. NextSequence \in Nat
    BY NextSequenceIsNext
  <1>2. event' = [event EXCEPT ![e] =
          [event[e] EXCEPT !.state = "pending", !.sequence = NextSequence]]
    BY DEF EnqueueEvent
  <1>3. StoreTypeOK'
    <2>1. event' \in [Events -> EventRow]
      BY <1>1, <1>2, EventRowType, RowWritten DEF StoreTypeOK
    <2>2. QED
      BY <2>1 DEF EnqueueEvent, StoreTypeOK
  <1>4. PICK b \in Nat : \A f \in Events : event[f].sequence <= b
    BY DEF SequencesBounded
  <1>5. \A f \in Events : event'[f].sequence <= b + NextSequence
    <2> SUFFICES ASSUME NEW f \in Events PROVE event'[f].sequence <= b + NextSequence
      OBVIOUS
    <2>1. event[f] \in EventRow /\ event[f].sequence \in Nat /\ event[f].sequence <= b
      BY <1>4 DEF StoreTypeOK, EventRow
    <2>2. event'[f].sequence \in {event[f].sequence, NextSequence}
      BY <1>2, <2>1 DEF StoreTypeOK, EventRow
    <2>3. QED
      BY <1>1, <1>4, <2>1, <2>2
  <1>6. b + NextSequence \in Nat
    BY <1>1, <1>4
  <1>7. QED
    BY <1>3, <1>5, <1>6 DEF SequencesBounded

\* The rows after an operation that leaves their sequence numbers alone.
LEMMA SequencesStay ==
  ASSUME SequencesBounded, \A e \in Events : event'[e].sequence = event[e].sequence
  PROVE  SequencesBounded'
  BY DEF SequencesBounded

\* claimNextOrdered keeps the types.
LEMMA ClaimTypes ==
  ASSUME StoreTypeOK, SequencesBounded, NEW e \in Events, NEW c \in Consumers,
         ClaimNextOrdered(e, c)
  PROVE  StoreTypeOK' /\ SequencesBounded'
  <1>1. event' = [event EXCEPT ![e] =
          [event[e] EXCEPT !.state = "delivering", !.consumer = c, !.attempts = @ + 1]]
    BY DEF ClaimNextOrdered
  <1>2. event' \in [Events -> EventRow]
    <2>1. event[e] \in EventRow /\ event[e].attempts < MaxAttempts
      BY DEF StoreTypeOK, ClaimNextOrdered
    <2>2. QED
      BY <1>1, <2>1, EventRowType, RowWritten
  <1>3. StoreTypeOK'
    BY <1>2, OperationTypes DEF ClaimNextOrdered, StoreTypeOK
  <1>4. QED
    BY <1>1, <1>3, SequencesStay DEF StoreTypeOK, EventRow

\* completeEventAndRelease keeps the types.
LEMMA CompleteTypes ==
  ASSUME StoreTypeOK, SequencesBounded, NEW e, NEW c, NEW expected,
         CompleteEventAndRelease(e, c, expected)
  PROVE  StoreTypeOK' /\ SequencesBounded'
  <1>1. event' = [event EXCEPT ![e] = [event[e] EXCEPT !.state = "consumed"]]
    BY DEF CompleteEventAndRelease
  <1>2. StoreTypeOK'
    <2>1. e \in Events => [event[e] EXCEPT !.state = "consumed"] \in EventRow
      BY EventRowType DEF StoreTypeOK
    <2>2. event' \in [Events -> EventRow]
      BY <1>1, <2>1, RowWritten
    <2>3. QED
      BY <2>2, ReleasedTypes DEF CompleteEventAndRelease, StoreTypeOK
  <1>3. QED
    BY <1>1, <1>2, SequencesStay DEF StoreTypeOK, EventRow

\* requeueDeliveringForReconciliation keeps the types.
LEMMA RequeueTypes ==
  ASSUME StoreTypeOK, SequencesBounded, NEW e, NEW c, NEW expected,
         RequeueForReconciliation(e, c, expected)
  PROVE  StoreTypeOK' /\ SequencesBounded'
  <1>1. CASE OwnedBy(e, c)
    <2>1. event' = [event EXCEPT ![e] =
            [event[e] EXCEPT !.state = "pending", !.consumer = NoConsumer]]
      BY <1>1 DEF RequeueForReconciliation
    <2>2. StoreTypeOK'
      <3>1. e \in Events =>
              [event[e] EXCEPT !.state = "pending", !.consumer = NoConsumer] \in EventRow
        BY EventRowType DEF StoreTypeOK
      <3>2. event' \in [Events -> EventRow]
        BY <2>1, <3>1, RowWritten
      <3>3. QED
        BY <1>1, <3>2, ReleasedTypes DEF RequeueForReconciliation, StoreTypeOK
    <2>3. QED
      BY <2>1, <2>2, SequencesStay DEF StoreTypeOK, EventRow
  <1>2. CASE ~OwnedBy(e, c)
    BY <1>2, ReleasedTypes, SequencesStay DEF RequeueForReconciliation, StoreTypeOK
  <1>3. QED
    BY <1>1, <1>2

\* recoverInterruptedEvents keeps the types.
LEMMA RecoverTypes ==
  ASSUME StoreTypeOK, SequencesBounded, RecoverInterruptedEvents
  PROVE  StoreTypeOK' /\ SequencesBounded'
  <1> DEFINE Back(e) == [event[e] EXCEPT !.state = "pending", !.consumer = NoConsumer]
  <1>1. \A e \in Events : event[e] \in EventRow /\ Back(e) \in EventRow
                          /\ Back(e).sequence = event[e].sequence
    BY ZenonT(40), EventRowType DEF StoreTypeOK, EventRow
  <1>2. \/ event' = [e \in Events |-> IF e \in Delivering THEN Back(e) ELSE event[e]]
        \/ event' = event
    BY DEF RecoverInterruptedEvents
  <1>3. event' \in [Events -> EventRow]
        /\ \A e \in Events : event'[e].sequence = event[e].sequence
    <2> HIDE DEF Back
    <2>1. QED
      BY <1>1, <1>2 DEF StoreTypeOK
  <1>4. pendingOperation' \in Operations /\ reading' = reading
    BY OperationTypes DEF RecoverInterruptedEvents, StoreTypeOK
  <1>5. QED
    BY <1>3, <1>4, SequencesStay DEF StoreTypeOK

\* The halves of updateRuntime keep the types.
LEMMA UpdateTypes ==
  ASSUME StoreTypeOK, NEW p \in Processes
  PROVE  /\ BeginUpdate(p) => StoreTypeOK'
         /\ FinishUpdate(p) \/ Abandon(p) =>
              reading' \in [Processes -> Operations \cup {NotReading}]
         /\ FinishUpdate(p) => reading[p] \in Operations
  BY DEF BeginUpdate, FinishUpdate, Abandon, StoreTypeOK

-----------------------------------------------------------------------------
(***************************************************************************)
(* The turns of the app-server.                                            *)
(***************************************************************************)

\* Turns are kept, with their client ids, and a completed one stays completed.
TurnsGoOn ==
  /\ DOMAIN turns \subseteq DOMAIN turns'
  /\ \A t \in DOMAIN turns :
       /\ turns'[t].client = turns[t].client
       /\ turns[t].status = "completed" => turns'[t].status = "completed"

\* A turn that exists has a number within the bound.
LEMMA TurnNumbers ==
  ASSUME ServerTypeOK
  PROVE  /\ Len(turns) \in Nat /\ DOMAIN turns = 1..Len(turns)
         /\ DOMAIN turns \subseteq Turns
         /\ NoTurn \notin DOMAIN turns
         /\ \A t \in DOMAIN turns : turns[t] \in Turn
  <1>1. Len(turns) \in Nat /\ DOMAIN turns = 1..Len(turns) /\ Len(turns) <= MaxTurns
    BY LenProperties DEF ServerTypeOK
  <1>2. \A t \in DOMAIN turns : turns[t] \in Turn
    BY <1>1, ElementOfSeq DEF ServerTypeOK
  <1>3. QED
    BY <1>1, <1>2, StoreAssumption DEF Turns, NoTurn

\* A notification about a turn goes to the stream, or nowhere.
LEMMA NotifiedType ==
  ASSUME ServerTypeOK, NEW method \in {"turn/started", "turn/completed"}, NEW t \in Turns
  PROVE  Notified(method, t) \in Seq(Notification)
  <1>1. [method |-> method, turn |-> t] \in Notification
    BY DEF Notification
  <1>2. QED
    BY <1>1, AppendProperties DEF Notified, ServerTypeOK

\* turn/start adds one turn, with the client id it was given.
LEMMA AcceptTypes ==
  ASSUME ServerTypeOK, NEW client \in Clients, AcceptTurn(client)
  PROVE  /\ ServerTypeOK' /\ TurnsGoOn
         /\ Len(turns) + 1 \in Turns
         /\ DOMAIN turns' = DOMAIN turns \cup {Len(turns) + 1}
         /\ Len(turns) + 1 \notin DOMAIN turns
         /\ turns'[Len(turns) + 1].client = client
         /\ turns'[Len(turns) + 1].status = "inProgress"
  <1> DEFINE new == [client |-> client, status |-> "inProgress"]
  <1>1. new \in Turn /\ turns \in Seq(Turn) /\ turns' = Append(turns, new)
    BY DEF Turn, TurnStatus, ServerTypeOK, AcceptTurn
  <1>2. /\ turns' \in Seq(Turn) /\ Len(turns') = Len(turns) + 1
        /\ \A t \in 1..Len(turns) : turns'[t] = turns[t]
        /\ turns'[Len(turns) + 1] = new
    BY <1>1, AppendProperties
  <1>3. /\ Len(turns) \in Nat /\ DOMAIN turns = 1..Len(turns)
        /\ DOMAIN turns' = 1..(Len(turns) + 1)
    BY <1>1, <1>2, LenProperties
  <1>4. Len(turns) + 1 \in Turns /\ Len(turns') <= MaxTurns
    BY <1>2, <1>3, StoreAssumption DEF Turns, AcceptTurn
  <1>5. stream' \in Seq(Notification)
    BY <1>4, NotifiedType DEF AcceptTurn
  <1>6. ServerTypeOK'
    BY <1>2, <1>4, <1>5 DEF AcceptTurn, ServerTypeOK
  <1>7. TurnsGoOn
    BY <1>2, <1>3 DEF TurnsGoOn
  <1>8. QED
    BY <1>2, <1>3, <1>4, <1>6, <1>7

\* A turn that ends keeps its client id; the others are as they were.
LEMMA EndTypes ==
  ASSUME ServerTypeOK, NEW t, NEW status \in {"completed", "interrupted"}, EndTurn(t, status)
  PROVE  ServerTypeOK' /\ TurnsGoOn /\ DOMAIN turns' = DOMAIN turns
  <1>1. t \in DOMAIN turns /\ turns[t].status = "inProgress"
    BY DEF EndTurn, Running
  <1>2. t \in Turns /\ t \in 1..Len(turns) /\ turns[t] \in Turn
    BY <1>1, TurnNumbers
  <1> DEFINE over == [turns[t] EXCEPT !.status = status]
  <1>3. over \in Turn /\ over.client = turns[t].client
    BY <1>2 DEF Turn, TurnStatus
  <1>4. turns' = [turns EXCEPT ![t] = over]
    BY DEF EndTurn
  <1>5. /\ turns' \in Seq(Turn) /\ Len(turns') = Len(turns)
        /\ \A s \in 1..Len(turns) : turns'[s] = IF s = t THEN over ELSE turns[s]
    BY <1>2, <1>3, <1>4, ExceptSeq DEF ServerTypeOK
  <1>6. stream' \in Seq(Notification)
    BY <1>2, NotifiedType DEF EndTurn
  <1>7. ServerTypeOK'
    BY <1>5, <1>6 DEF EndTurn, ServerTypeOK
  <1>8. DOMAIN turns = 1..Len(turns) /\ DOMAIN turns' = 1..Len(turns)
    BY <1>5, <1>4, TurnNumbers
  <1>9. QED
    BY <1>1, <1>3, <1>5, <1>7, <1>8 DEF TurnsGoOn

\* When the server process ends, running turns are interrupted.
LEMMA LostTypes ==
  ASSUME ServerTypeOK, turns' = LostTurns
  PROVE  /\ turns' \in Seq(Turn) /\ Len(turns') = Len(turns)
         /\ TurnsGoOn /\ DOMAIN turns' = DOMAIN turns
  <1>1. Len(turns) \in Nat /\ DOMAIN turns = 1..Len(turns)
    BY TurnNumbers
  <1>2. ASSUME NEW t \in 1..Len(turns)
        PROVE  /\ turns'[t] \in Turn /\ turns'[t].client = turns[t].client
               /\ turns[t].status = "completed" => turns'[t].status = "completed"
    <2>1. turns[t] \in Turn
      BY <1>1, TurnNumbers
    <2>2. \/ turns'[t] = turns[t]
          \/ /\ turns'[t] = [turns[t] EXCEPT !.status = "interrupted"]
             /\ t \in Running
      BY <1>1 DEF LostTurns
    <2>3. t \in Running => turns[t].status = "inProgress"
      BY DEF Running
    <2>4. QED
      BY <2>1, <2>2, <2>3 DEF Turn, TurnStatus
  <1>3. turns' \in [1..Len(turns) -> Turn]
    BY <1>1, <1>2 DEF LostTurns
  <1>4. turns' \in Seq(Turn) /\ Len(turns') = Len(turns) /\ DOMAIN turns' = 1..Len(turns)
    BY <1>1, <1>3
  <1>5. QED
    BY <1>1, <1>2, <1>4 DEF TurnsGoOn

\* findClientTurn gives the first turn with the client id, if there is one.
LEMMA FindsTurn ==
  ASSUME ServerTypeOK, NEW client
  PROVE  \/ /\ FindClientTurn(client) = NoTurn
            /\ \A t \in DOMAIN turns : turns[t].client # client
         \/ /\ FindClientTurn(client) \in DOMAIN turns
            /\ turns[FindClientTurn(client)].client = client
  <1> DEFINE found == {t \in DOMAIN turns : turns[t].client = client}
  <1>1. CASE found = {}
    BY <1>1 DEF FindClientTurn
  <1>2. CASE found # {}
    <2>1. found \in SUBSET Nat
      BY TurnNumbers
    <2>2. Min(found) \in found
      BY <1>2, <2>1, MinOfNats
    <2>3. QED
      BY <1>2, <2>2 DEF FindClientTurn
  <1>3. QED
    BY <1>1, <1>2

\* activeTurnFromSnapshot gives a turn that exists, or none.
LEMMA ActiveTurnType ==
  ASSUME ServerTypeOK
  PROVE  ActiveTurnFromSnapshot(turns) \in Turns \cup {NoTurn}
  <1> DEFINE running == {t \in DOMAIN turns : turns[t].status = "inProgress"}
  <1>1. CASE running = {}
    BY <1>1 DEF ActiveTurnFromSnapshot
  <1>2. CASE running # {}
    <2>1. running \in SUBSET Nat /\ Len(turns) \in Nat /\ \A t \in running : t <= Len(turns)
      BY TurnNumbers
    <2>2. Max(running) \in running
      BY <1>2, <2>1, MaxOfNats
    <2>3. QED
      BY <1>2, <2>2, TurnNumbers DEF ActiveTurnFromSnapshot
  <1>3. QED
    BY <1>1, <1>2

-----------------------------------------------------------------------------
(***************************************************************************)
(* The gateway.                                                            *)
(***************************************************************************)

\* The rows of the gateway's submissions.
InputRow == [stage : InputStages, turn : Turns \cup {NoTurn}]

\* A submission that moves to another stage keeps its turn.
LEMMA StageTypes ==
  ASSUME GatewayTypeOK, SubmissionHasTurn, NEW i \in Inputs, NEW stage \in InputStages,
         Stage(i, stage), stage = "answered" => input[i].stage = "accepted",
         stage # "accepted"
  PROVE  input' \in [Inputs -> InputRow] /\ SubmissionHasTurn'
  <1>1. input \in [Inputs -> InputRow]
    BY DEF GatewayTypeOK, InputRow
  <1>2. input' = [input EXCEPT ![i] = [input[i] EXCEPT !.stage = stage]]
    BY DEF Stage
  <1>3. [input[i] EXCEPT !.stage = stage] \in InputRow
    BY <1>1 DEF InputRow
  <1>4. input' \in [Inputs -> InputRow]
    BY <1>1, <1>2, <1>3
  <1>5. ASSUME NEW j \in Inputs, input'[j].stage \in {"accepted", "answered"}
        PROVE  input'[j].turn \in Turns
    <2>1. input[j].stage \in {"accepted", "answered"} /\ input'[j].turn = input[j].turn
      BY <1>1, <1>2, <1>5 DEF InputRow
    <2>2. QED
      BY <2>1 DEF SubmissionHasTurn
  <1>6. QED
    BY <1>4, <1>5 DEF SubmissionHasTurn

\* What a delivery knows stays true as the conversation goes on.
LEMMA FollowsOn ==
  ASSUME TurnsGoOn, NEW row, Follows(row, turns)
  PROVE  Follows(row, turns')
  BY DEF Follows, TurnsGoOn

\* A step that leaves the deliveries alone and goes on with the turns.
LEMMA FollowsStays ==
  ASSUME FollowsItsTurn, TurnsGoOn, delivery' = delivery
  PROVE  FollowsItsTurn'
  BY FollowsOn DEF FollowsItsTurn

\* Every step of the gateway keeps the types.
LEMMA GatewayTypes ==
  ASSUME TypeInv, GatewayNext, UNCHANGED runnerVars
  PROVE  TypeInv'
  <1> USE DEF TypeInv, TypeOK
  <1> DEFINE Others == UNCHANGED <<event, delivery, loop, consumer, faults>>
  <1>1. ASSUME Others, StoreTypeOK', ServerTypeOK', GatewayTypeOK', SubmissionHasTurn',
               TurnsGoOn
        PROVE  TypeInv'
    <2>1. SequencesBounded'
      BY <1>1 DEF SequencesBounded
    <2>2. QED
      BY <1>1, <2>1, FollowsStays
  <1>2. ASSUME UNCHANGED turns PROVE TurnsGoOn
    BY <1>2 DEF TurnsGoOn
  <1>3. UNCHANGED <<delivery, loop, consumer, faults>>
    BY DEF runnerVars
  <1>4. ASSUME NEW i \in Inputs, QueueFollowup(i) PROVE TypeInv'
    <2>1. followups' \in Seq(Inputs)
      BY <1>4, AppendProperties DEF QueueFollowup, GatewayTypeOK
    <2>2. input' \in [Inputs -> InputRow] /\ SubmissionHasTurn'
      BY <1>4, StageTypes DEF QueueFollowup, InputStages
    <2>3. QED
      BY <1>1, <1>2, <1>3, <1>4, <2>1, <2>2
      DEF QueueFollowup, storeVars, serverVars, StoreTypeOK, ServerTypeOK, GatewayTypeOK,
          InputRow
  <1>5. ASSUME NEW i \in Inputs, Steer(i) PROVE TypeInv'
    <2>1. input' \in [Inputs -> InputRow] /\ SubmissionHasTurn'
      BY <1>5, StageTypes DEF Steer, InputStages
    <2>2. QED
      BY <1>1, <1>2, <1>3, <1>5, <2>1
      DEF Steer, storeVars, serverVars, StoreTypeOK, ServerTypeOK, GatewayTypeOK, InputRow
  <1>6. ASSUME NEW i \in Inputs, Submit(i) PROVE TypeInv'
    <2>1. input' \in [Inputs -> InputRow] /\ SubmissionHasTurn'
      BY <1>6, StageTypes DEF Submit, InputStages
    <2>2. pendingOperation' \in Operations
      BY <1>6, OperationTypes DEF Submit, StoreTypeOK
    <2>3. QED
      BY <1>1, <1>2, <1>3, <1>6, <2>1, <2>2
      DEF Submit, serverVars, StoreTypeOK, ServerTypeOK, GatewayTypeOK, InputRow
  <1>7. ASSUME NEW i \in Inputs, SubmitAccepted(i) PROVE TypeInv'
    <2>1. BrowserClient(i) \in Clients
      BY DEF Clients
    <2>2. ServerTypeOK' /\ TurnsGoOn /\ Len(turns) + 1 \in Turns
      BY <1>7, <2>1, AcceptTypes DEF SubmitAccepted
    <2>3. [stage |-> "accepted", turn |-> Len(turns) + 1] \in InputRow
      BY <2>2 DEF InputRow, InputStages
    <2>4. input' \in [Inputs -> InputRow] /\ SubmissionHasTurn'
      BY <1>7, <2>2, <2>3
      DEF SubmitAccepted, GatewayTypeOK, InputRow, SubmissionHasTurn
    <2>5. QED
      BY <1>1, <1>3, <1>7, <2>2, <2>4
      DEF SubmitAccepted, storeVars, StoreTypeOK, GatewayTypeOK, InputRow
  <1>8. ASSUME NEW i \in Inputs, SubmitFails(i) PROVE TypeInv'
    <2>1. input' \in [Inputs -> InputRow] /\ SubmissionHasTurn'
      BY <1>8, StageTypes DEF SubmitFails, InputStages
    <2>2. pendingOperation' \in Operations
      BY <1>8, ReleasedTypes DEF SubmitFails
    <2>3. QED
      BY <1>1, <1>2, <1>3, <1>8, <2>1, <2>2
      DEF SubmitFails, serverVars, StoreTypeOK, ServerTypeOK, GatewayTypeOK, InputRow
  <1>9. ASSUME NEW i \in Inputs, SubmitAnswered(i) PROVE TypeInv'
    <2>1. input' \in [Inputs -> InputRow] /\ SubmissionHasTurn'
      BY <1>9, StageTypes DEF SubmitAnswered, InputStages
    <2>2. StoreTypeOK' /\ event' = event
      BY <1>9, UpdateTypes DEF SubmitAnswered, Processes, BeginUpdate
    <2>3. QED
      BY <1>1, <1>2, <1>3, <1>9, <2>1, <2>2
      DEF SubmitAnswered, serverVars, ServerTypeOK, GatewayTypeOK, InputRow
  <1>10. ASSUME NEW i \in Inputs, SubmitRecorded(i) PROVE TypeInv'
    <2>1. input' \in [Inputs -> InputRow] /\ SubmissionHasTurn'
      BY <1>10, StageTypes DEF SubmitRecorded, InputStages
    <2>2. input[i].turn \in Turns
      BY <1>10 DEF SubmitRecorded, SubmissionHasTurn
    <2>3. /\ reading' \in [Processes -> Operations \cup {NotReading}]
          /\ reading["gateway"] \in Operations
      BY <1>10, UpdateTypes DEF SubmitRecorded, Processes
    <2>4. pendingOperation' \in Operations
      BY <1>10, <2>2, <2>3, OperationTypes DEF SubmitRecorded
    <2>5. active' \in Turns \cup {NoTurn}
      BY <1>10, <2>2 DEF SubmitRecorded, GatewayTypeOK
    <2>6. QED
      BY <1>1, <1>2, <1>3, <1>10, <2>1, <2>3, <2>4, <2>5
      DEF SubmitRecorded, serverVars, StoreTypeOK, ServerTypeOK, GatewayTypeOK, InputRow
  <1>11. ASSUME stream # <<>>
         PROVE  Head(stream) \in Notification /\ Tail(stream) \in Seq(Notification)
    BY <1>11, HeadTailProperties DEF ServerTypeOK
  <1>12. ASSUME TurnStarted PROVE TypeInv'
    <2>1. Head(stream).turn \in Turns /\ Tail(stream) \in Seq(Notification)
      BY <1>11, <1>12 DEF TurnStarted, Notification
    <2>2. StoreTypeOK' /\ event' = event
      BY <1>12, UpdateTypes DEF TurnStarted, Processes, BeginUpdate
    <2>3. SubmissionHasTurn'
      BY <1>12 DEF TurnStarted, SubmissionHasTurn
    <2>4. QED
      BY <1>1, <1>2, <1>3, <1>12, <2>1, <2>2, <2>3
      DEF TurnStarted, ServerTypeOK, GatewayTypeOK
  <1>13. ASSUME TurnStartedRecorded PROVE TypeInv'
    <2>1. /\ reading' \in [Processes -> Operations \cup {NotReading}]
          /\ reading["gateway"] \in Operations
      BY <1>13, UpdateTypes DEF TurnStartedRecorded, Processes
    <2>2. pendingOperation' \in Operations
      BY <1>13, <2>1, OperationTypes DEF TurnStartedRecorded, GatewayTypeOK
    <2>3. SubmissionHasTurn'
      BY <1>13 DEF TurnStartedRecorded, SubmissionHasTurn
    <2>4. QED
      BY <1>1, <1>2, <1>3, <1>13, <2>1, <2>2, <2>3
      DEF TurnStartedRecorded, serverVars, StoreTypeOK, ServerTypeOK, GatewayTypeOK
  <1>14. ASSUME TurnCompleted PROVE TypeInv'
    <2> DEFINE t == Head(stream).turn
    <2>1. t \in Turns /\ stream' \in Seq(Notification)
      BY <1>11, <1>14 DEF TurnCompleted, Notification
    <2>2. active' \in Turns \cup {NoTurn} /\ ended' \subseteq Turns
      BY <1>14, <2>1 DEF TurnCompleted, GatewayTypeOK
    <2>3. pendingOperation' \in Operations
      BY <1>14, ReleasedTypes DEF TurnCompleted, StoreTypeOK
    <2>4. /\ followups' \in Seq(Inputs) /\ input' \in [Inputs -> InputRow]
          /\ SubmissionHasTurn'
      <3>1. CASE active \in {NoTurn, t} /\ followups # <<>>
        <4>1. Head(followups) \in Inputs /\ Tail(followups) \in Seq(Inputs)
          BY <3>1, HeadTailProperties DEF GatewayTypeOK
        <4>2. followups' = Tail(followups) /\ Stage(Head(followups), "new")
          BY <1>14, <3>1 DEF TurnCompleted
        <4>3. QED
          BY <4>1, <4>2, StageTypes DEF InputStages
      <3>2. CASE ~(active \in {NoTurn, t} /\ followups # <<>>)
        <4>1. UNCHANGED <<followups, input>>
          BY <1>14, <3>2 DEF TurnCompleted
        <4>2. QED
          BY <4>1 DEF GatewayTypeOK, InputRow, SubmissionHasTurn
      <3>3. QED
        BY <3>1, <3>2
    <2>5. QED
      BY <1>1, <1>2, <1>3, <1>14, <2>1, <2>2, <2>3, <2>4
      DEF TurnCompleted, StoreTypeOK, ServerTypeOK, GatewayTypeOK, InputRow
  <1>15. QED
    BY <1>4, <1>5, <1>6, <1>7, <1>8, <1>9, <1>10, <1>12, <1>13, <1>14 DEF GatewayNext

-----------------------------------------------------------------------------
(***************************************************************************)
(* The loop and its deliveries.                                            *)
(***************************************************************************)

\* Writing the record of one delivery.
LEMMA DeliveryWritten ==
  ASSUME TypeInv, TurnsGoOn, NEW d \in Deliveries, NEW row \in Delivery,
         delivery' = [delivery EXCEPT ![d] = row], Follows(row, turns')
  PROVE  delivery' \in [Deliveries -> Delivery] /\ FollowsItsTurn'
  <1>1. delivery \in [Deliveries -> Delivery]
    BY DEF TypeInv, TypeOK
  <1>2. \A f \in Deliveries : Follows(delivery[f], turns')
    BY FollowsOn DEF TypeInv, FollowsItsTurn
  <1>3. \A f \in Deliveries : delivery'[f] = IF f = d THEN row ELSE delivery[f]
    BY <1>1
  <1>4. QED
    BY <1>1, <1>2, <1>3 DEF FollowsItsTurn

\* A delivery that is not under way.
LEMMA IdleType ==
  IdleDelivery \in Delivery /\ \A conversation : Follows(IdleDelivery, conversation)
  BY StoreAssumption
  DEF IdleDelivery, Delivery, DeliveryStages, TurnStatus, Follows, KnowsTurn

\* The other records a delivery can have, by the step that writes them.
LEMMA DeliveryRowTypes ==
  ASSUME NEW row \in Delivery
  PROVE  /\ \A stage \in DeliveryStages : [row EXCEPT !.stage = stage] \in Delivery
         /\ [row EXCEPT !.lost = TRUE] \in Delivery
         /\ \A t \in Turns \cup {NoTurn}, status \in TurnStatus \cup {"none"} :
              [row EXCEPT !.stage = "resumed", !.turn = t, !.status = status] \in Delivery
         /\ \A t \in Turns :
              [row EXCEPT !.stage = "started", !.turn = t] \in Delivery
         /\ \A r \in 0..MaxAttempts :
              [row EXCEPT !.round = r, !.status = "none", !.turn = NoTurn] \in Delivery
  BY DEF Delivery, DeliveryStages

\* Losing the connection changes nothing a delivery knows.
LEMMA DisconnectedType ==
  ASSUME TypeInv, TurnsGoOn, delivery' = Disconnected
  PROVE  delivery' \in [Deliveries -> Delivery] /\ FollowsItsTurn'
  <1>1. ASSUME NEW d \in Deliveries
        PROVE  delivery'[d] \in Delivery /\ Follows(delivery'[d], turns')
    <2>1. delivery[d] \in Delivery /\ Follows(delivery[d], turns')
      BY FollowsOn DEF TypeInv, TypeOK, FollowsItsTurn
    <2>2. delivery'[d] = delivery[d] \/ delivery'[d] = [delivery[d] EXCEPT !.lost = TRUE]
      BY DEF Disconnected
    <2>3. [delivery[d] EXCEPT !.lost = TRUE] \in Delivery
      BY <2>1, DeliveryRowTypes
    <2>4. Follows([delivery[d] EXCEPT !.lost = TRUE], turns')
      BY <2>1 DEF Delivery, Follows, KnowsTurn
    <2>5. QED
      BY <2>1, <2>2, <2>3, <2>4
  <1>2. QED
    BY <1>1 DEF Disconnected, FollowsItsTurn

\* A step that ends the delivery keeps the types if it keeps the store's.
LEMMA ReturnTypes ==
  ASSUME TypeInv, NEW d \in Deliveries, Return(d), StoreTypeOK', SequencesBounded',
         UNCHANGED <<serverVars, gatewayVars, consumer, faults>>
  PROVE  TypeInv'
  <1> USE DEF TypeInv, TypeOK
  <1>1. TurnsGoOn
    BY DEF TurnsGoOn, serverVars
  <1>2. delivery' \in [Deliveries -> Delivery] /\ FollowsItsTurn'
    BY <1>1, IdleType, DeliveryWritten DEF Return
  <1>3. loop' \in LoopStages
    BY DEF Return, LoopStages
  <1>4. QED
    BY <1>2, <1>3
    DEF serverVars, gatewayVars, ServerTypeOK, GatewayTypeOK, SubmissionHasTurn

\* A delivery that gives its event back.
LEMMA AbortTypes ==
  ASSUME TypeInv, NEW d \in Deliveries, Abort(d)
  PROVE  TypeInv'
  <1>1. StoreTypeOK' /\ SequencesBounded'
    BY RequeueTypes DEF Abort, TypeInv, TypeOK
  <1>2. QED
    BY <1>1, ReturnTypes DEF Abort

\* A delivery that completes its event, or finds that it is not its own.
LEMMA CompleteOrAbortTypes ==
  ASSUME TypeInv, NEW d \in Deliveries, CompleteOrAbort(d)
  PROVE  TypeInv'
  <1>1. CASE Abort(d)
    BY <1>1, AbortTypes
  <1>2. CASE ~Abort(d)
    <2>1. /\ CompleteEventAndRelease(delivery[d].event, consumer, HeldBy(d))
          /\ Return(d)
          /\ UNCHANGED <<serverVars, gatewayVars, consumer, faults>>
      BY <1>2 DEF CompleteOrAbort
    <2>2. StoreTypeOK' /\ SequencesBounded'
      BY <2>1, CompleteTypes DEF TypeInv, TypeOK
    <2>3. QED
      BY <2>1, <2>2, ReturnTypes
  <1>3. QED
    BY <1>1, <1>2

\* A step that leaves the conversation, the gateway and the deliveries alone.
LEMMA LoopMoves ==
  ASSUME TypeInv, StoreTypeOK', SequencesBounded', loop' \in LoopStages,
         UNCHANGED <<serverVars, gatewayVars, consumer, delivery, faults>>
  PROVE  TypeInv'
  <1>1. FollowsItsTurn' /\ SubmissionHasTurn'
    BY FollowsStays DEF TypeInv, TurnsGoOn, SubmissionHasTurn, serverVars, gatewayVars
  <1>2. QED
    BY <1>1 DEF TypeInv, TypeOK, serverVars, gatewayVars, ServerTypeOK, GatewayTypeOK

\* Every step of the run loop keeps the types.
LEMMA LoopTypes ==
  ASSUME TypeInv, LoopStep
  PROVE  TypeInv'
  <1> USE DEF TypeInv, TypeOK
  <1>1. ASSUME UNCHANGED event PROVE SequencesBounded'
    BY <1>1 DEF SequencesBounded
  <1>2. CASE Checkpoint
    <2>1. StoreTypeOK' /\ event' = event
      BY <1>2, UpdateTypes DEF Checkpoint, Processes, BeginUpdate
    <2>2. loop' \in LoopStages
      BY <1>2 DEF Checkpoint, LoopStages
    <2>3. QED
      BY <1>1, <1>2, <2>1, <2>2, LoopMoves DEF Checkpoint
  <1>3. CASE CheckpointRecorded
    <2>1. /\ reading' \in [Processes -> Operations \cup {NotReading}]
          /\ reading["runner"] \in Operations
      BY <1>3, UpdateTypes DEF CheckpointRecorded, Processes
    <2>2. StoreTypeOK' /\ loop' \in LoopStages
      BY <1>3, <2>1 DEF CheckpointRecorded, StoreTypeOK, LoopStages
    <2>3. QED
      BY <1>1, <1>3, <2>2, LoopMoves DEF CheckpointRecorded
  <1>4. CASE RuntimeHealthy \/ StartRuntimeFails \/ NothingToClaim
    <2>1. /\ UNCHANGED storeVars /\ loop' \in LoopStages
          /\ UNCHANGED <<serverVars, gatewayVars, consumer, delivery, faults>>
      BY <1>4 DEF RuntimeHealthy, StartRuntimeFails, NothingToClaim, LoopStages
    <2>2. StoreTypeOK' /\ event' = event
      BY <2>1 DEF storeVars, StoreTypeOK
    <2>3. QED
      BY <1>1, <2>1, <2>2, LoopMoves
  <1>5. CASE KillRuntime
    <2>1. turns' = LostTurns /\ delivery' = Disconnected
      BY <1>5 DEF KillRuntime
    <2>2. turns' \in Seq(Turn) /\ Len(turns') = Len(turns) /\ TurnsGoOn
      BY <2>1, LostTypes
    <2>3. delivery' \in [Deliveries -> Delivery] /\ FollowsItsTurn'
      BY <2>1, <2>2, DisconnectedType
    <2>4. StoreTypeOK' /\ GatewayTypeOK' /\ SubmissionHasTurn' /\ event' = event
      BY <1>5 DEF KillRuntime, storeVars, gatewayVars, StoreTypeOK, GatewayTypeOK,
                  SubmissionHasTurn
    <2>5. ServerTypeOK' /\ loop' \in LoopStages
      BY <1>5, <2>2 DEF KillRuntime, ServerTypeOK, LoopStages
    <2>6. QED
      BY <1>1, <1>5, <2>3, <2>4, <2>5 DEF KillRuntime
  <1>6. CASE StartRuntime
    <2>1. /\ active' \in Turns \cup {NoTurn}
          /\ pendingOperation' \in Operations
          /\ UNCHANGED <<ended, followups, input, started>>
          /\ listening' \in BOOLEAN
      BY <1>6, ActiveTurnType, OperationTypes DEF StartRuntime, GatewayStart
    <2>2. StoreTypeOK' /\ GatewayTypeOK' /\ SubmissionHasTurn' /\ event' = event
      BY <1>6, <2>1 DEF StartRuntime, StoreTypeOK, GatewayTypeOK, SubmissionHasTurn
    <2>3. ServerTypeOK' /\ loop' \in LoopStages
      BY <1>6, <2>1 DEF StartRuntime, ServerTypeOK, LoopStages
    <2>4. FollowsItsTurn'
      BY <1>6, FollowsStays DEF StartRuntime, TurnsGoOn
    <2>5. QED
      BY <1>1, <1>6, <2>2, <2>3, <2>4 DEF StartRuntime
  <1>7. CASE Recover
    <2>1. StoreTypeOK' /\ SequencesBounded'
      BY <1>7, RecoverTypes DEF Recover
    <2>2. QED
      BY <1>7, <2>1, LoopMoves DEF Recover, LoopStages
  <1>8. ASSUME NEW d \in Deliveries, NEW e \in Events, Claim(d, e) PROVE TypeInv'
    <2>1. StoreTypeOK' /\ SequencesBounded'
      BY <1>8, ClaimTypes DEF Claim
    <2> DEFINE row == [IdleDelivery EXCEPT !.stage = "connecting", !.event = e,
                         !.attempt = event[e].attempts + 1, !.round = event[e].round]
    <2>2. /\ event[e].attempts + 1 \in 0..MaxAttempts
          /\ event[e].round \in 0..MaxAttempts
      BY <1>8, StoreAssumption DEF Claim, ClaimNextOrdered, StoreTypeOK, EventRow
    <2>3. row \in Delivery /\ Follows(row, turns')
      BY <2>2 DEF IdleDelivery, Delivery, DeliveryStages, TurnStatus, Follows, KnowsTurn
    <2>4. TurnsGoOn
      BY <1>8 DEF Claim, serverVars, TurnsGoOn
    <2>5. delivery' = [delivery EXCEPT ![d] = row]
      BY <1>8 DEF Claim
    <2>6. delivery' \in [Deliveries -> Delivery] /\ FollowsItsTurn'
      <3> HIDE DEF row, TypeInv, TypeOK
      <3>1. QED
        BY <2>3, <2>4, <2>5, DeliveryWritten
    <2>7. loop' \in LoopStages
      BY <1>8 DEF Claim, LoopStages
    <2>8. QED
      BY <1>8, <2>1, <2>6, <2>7
      DEF Claim, serverVars, gatewayVars, ServerTypeOK, GatewayTypeOK, SubmissionHasTurn
  <1>9. QED
    BY <1>2, <1>3, <1>4, <1>5, <1>6, <1>7, <1>8 DEF LoopStep

\* A delivery that goes on, its record kept well typed.
LEMMA DeliveryMoves ==
  ASSUME TypeInv, NEW d \in Deliveries, NEW row \in Delivery,
         delivery' = [delivery EXCEPT ![d] = row], Follows(row, turns'),
         TurnsGoOn, ServerTypeOK', StoreTypeOK', SequencesBounded',
         UNCHANGED <<gatewayVars, loop, consumer, faults>>
  PROVE  TypeInv'
  <1>1. delivery' \in [Deliveries -> Delivery] /\ FollowsItsTurn'
    BY DeliveryWritten
  <1>2. QED
    BY <1>1 DEF TypeInv, TypeOK, gatewayVars, GatewayTypeOK, SubmissionHasTurn

\* Every step of a delivery keeps the types.
LEMMA DeliveryTypes ==
  ASSUME TypeInv, NEW d \in Deliveries, DeliveryStep(d)
  PROVE  TypeInv'
  <1> DEFINE row == delivery[d]
  <1>1. /\ row \in Delivery /\ Follows(row, turns)
        /\ delivery \in [Deliveries -> Delivery]
        /\ ServerTypeOK /\ StoreTypeOK /\ GatewayTypeOK /\ SequencesBounded
    BY DEF TypeInv, TypeOK, FollowsItsTurn
  <1>2. ASSUME UNCHANGED event PROVE SequencesBounded'
    BY <1>1, <1>2 DEF SequencesBounded
  <1>3. ASSUME UNCHANGED serverVars PROVE ServerTypeOK' /\ TurnsGoOn
    BY <1>1, <1>3 DEF serverVars, ServerTypeOK, TurnsGoOn
  <1>4. \A stage \in DeliveryStages :
          KnowsTurn(row) /\ row.stage # "idle" /\ stage # "idle" =>
            /\ [row EXCEPT !.stage = stage] \in Delivery
            /\ Follows([row EXCEPT !.stage = stage], turns)
    BY ZenonT(40), <1>1, DeliveryRowTypes DEF Delivery, Follows, KnowsTurn
  <1>5. CASE Resume(d)
    <2> DEFINE t == FindClientTurn(EventClient(row.event, row.round))
               status == IF t = NoTurn THEN "none" ELSE turns[t].status
               next == [row EXCEPT !.stage = "resumed", !.turn = t, !.status = status]
    <2>1. delivery' = [delivery EXCEPT ![d] = next]
      BY <1>1, <1>5 DEF Resume, Delivery
    <2>2. \/ t = NoTurn
          \/ t \in DOMAIN turns /\ turns[t].client = EventClient(row.event, row.round)
      BY <1>1, FindsTurn
    <2>3. t \in Turns \cup {NoTurn} /\ status \in TurnStatus \cup {"none"}
      BY <1>1, <2>2, TurnNumbers DEF Turn
    <2>4. next \in Delivery
      BY <1>1, <2>3, DeliveryRowTypes
    <2>5. /\ next.event = row.event /\ next.turn = t /\ next.status = status
          /\ next.stage = "resumed"
      BY <1>1 DEF Delivery
    <2>6. row.event \in Events
      BY <1>1, <1>5 DEF Follows, Resume
    <2>7. Follows(next, turns)
      <3>1. CASE t = NoTurn
        BY <2>5, <2>6, <3>1 DEF Follows, KnowsTurn
      <3>2. CASE t # NoTurn
        <4>1. /\ t \in DOMAIN turns /\ turns[t].client.source = row.event
              /\ status = turns[t].status
          BY <2>2, <3>2 DEF EventClient
        <4> HIDE DEF t, status, next, row
        <4>2. QED
          BY <2>5, <2>6, <4>1 DEF Follows, KnowsTurn
      <3>3. QED
        BY <3>1, <3>2
    <2> HIDE DEF next
    <2>8. QED
      BY <1>1, <1>2, <1>3, <1>5, <2>1, <2>4, <2>7, DeliveryMoves
      DEF Resume, storeVars, serverVars, StoreTypeOK
  <1>6. CASE Join(d) \/ TurnRecorded(d)
    <2>1. KnowsTurn(row) /\ row.stage # "idle" /\ row.turn \in Turns
      BY <1>1, <1>6, TurnNumbers DEF Join, Resumed, TurnRecorded, KnowsTurn, Follows
    <2>2. PICK stage \in {"waiting", "refused"} :
            delivery' = [delivery EXCEPT ![d] = [row EXCEPT !.stage = stage]]
      BY <1>6 DEF Join, TurnRecorded
    <2>3. StoreTypeOK' /\ event' = event
      <3>1. TurnOperation(row.turn) \in Operations
        BY <2>1, OperationTypes
      <3>2. CASE Join(d)
        BY <1>1, <3>1, <3>2 DEF Join, StoreTypeOK
      <3>3. CASE TurnRecorded(d)
        <4>1. /\ reading' \in [Processes -> Operations \cup {NotReading}]
              /\ reading["runner"] \in Operations
          BY <1>1, <3>3, UpdateTypes DEF TurnRecorded, Processes
        <4>2. QED
          BY <1>1, <3>1, <3>3, <4>1 DEF TurnRecorded, StoreTypeOK
      <3>4. QED
        BY <1>6, <3>2, <3>3
    <2>4. UNCHANGED <<serverVars, gatewayVars, loop, consumer, faults>>
      BY <1>6 DEF Join, TurnRecorded
    <2>5. [row EXCEPT !.stage = stage] \in Delivery
          /\ Follows([row EXCEPT !.stage = stage], turns)
      BY <1>4, <2>1 DEF DeliveryStages
    <2>6. turns' = turns
      BY <2>4 DEF serverVars
    <2>7. QED
      BY <1>2, <1>3, <2>2, <2>3, <2>4, <2>5, <2>6, DeliveryMoves
  <1>7. CASE Reconcile(d) \/ TurnDone(d)
    BY <1>7, CompleteOrAbortTypes DEF Reconcile, TurnDone
  <1>8. CASE RenewClientId(d)
    <2>1. CASE OwnedBy(row.event, consumer)
      <3> DEFINE next == [row EXCEPT !.round = row.attempt, !.status = "none",
                            !.turn = NoTurn]
                 renewed == [event[row.event] EXCEPT !.round = row.attempt]
      <3>1. delivery' = [delivery EXCEPT ![d] = next]
        BY <1>1, <1>8, <2>1 DEF RenewClientId, Delivery
      <3>2. row.attempt \in 0..MaxAttempts /\ row.stage = "resumed"
        BY <1>1, <1>8 DEF Delivery, RenewClientId, Resumed
      <3>3. next \in Delivery
        BY <1>1, <3>2, DeliveryRowTypes
      <3>4. Follows(next, turns)
        BY <1>1, <3>2 DEF Follows, KnowsTurn, Delivery
      <3>5. row.event \in Events /\ event[row.event] \in EventRow
        BY <1>1, <3>2 DEF Follows, StoreTypeOK
      <3>6. renewed \in EventRow /\ renewed.sequence = event[row.event].sequence
        BY <3>2, <3>5, EventRowType DEF EventRow
      <3>7. event' = [event EXCEPT ![row.event] = renewed]
        BY <1>8, <2>1 DEF RenewClientId
      <3> HIDE DEF next, renewed
      <3>8. event' \in [Events -> EventRow]
        BY <1>1, <3>6, <3>7, RowWritten
      <3>9. SequencesBounded'
        BY <1>1, <3>5, <3>6, <3>7, SequencesStay DEF StoreTypeOK
      <3>10. /\ UNCHANGED <<pendingOperation, reading, serverVars, gatewayVars, loop>>
             /\ UNCHANGED <<consumer, faults>>
        BY <1>8, <2>1 DEF RenewClientId
      <3>11. StoreTypeOK'
        BY <1>1, <3>8, <3>10 DEF StoreTypeOK
      <3>12. turns' = turns
        BY <3>10 DEF serverVars
      <3>13. QED
        BY <1>3, <3>1, <3>3, <3>4, <3>9, <3>10, <3>11, <3>12, DeliveryMoves
    <2>2. CASE ~OwnedBy(row.event, consumer)
      BY <1>8, <2>2, AbortTypes DEF RenewClientId
    <2>3. QED
      BY <2>1, <2>2
  <1>9. CASE StartTurn(d)
    <2> DEFINE client == EventClient(row.event, row.round)
               next == [row EXCEPT !.stage = "started", !.turn = Len(turns) + 1]
    <2>1. row.event \in Events /\ row.round \in 0..MaxAttempts
      BY <1>1, <1>9 DEF Follows, StartTurn, Delivery
    <2>2. client \in Clients
      BY <2>1 DEF Clients
    <2>3. /\ ServerTypeOK' /\ TurnsGoOn
          /\ Len(turns) + 1 \in Turns
          /\ Len(turns) + 1 \in DOMAIN turns'
          /\ turns'[Len(turns) + 1].client = client
      BY <1>1, <1>9, <2>2, AcceptTypes DEF StartTurn
    <2>4. delivery' = [delivery EXCEPT ![d] = next]
      BY <1>1, <1>9 DEF StartTurn, Delivery
    <2>5. next \in Delivery
      BY <1>1, <2>3, DeliveryRowTypes
    <2>6. /\ next.event = row.event /\ next.turn = Len(turns) + 1 /\ next.status = "none"
          /\ next.stage = "started"
      BY <1>1, <1>9 DEF Delivery, StartTurn
    <2>7. turns'[Len(turns) + 1].client.source = row.event
      BY <2>3 DEF EventClient
    <2> HIDE DEF next, client, row
    <2>8. Follows(next, turns')
      BY <2>1, <2>3, <2>6, <2>7 DEF Follows, KnowsTurn
    <2>9. QED
      BY <1>1, <1>2, <1>9, <2>3, <2>4, <2>5, <2>8, DeliveryMoves
      DEF StartTurn, storeVars, StoreTypeOK
  <1>10. CASE TurnAnswered(d)
    <2>1. KnowsTurn(row) /\ row.stage # "idle"
      BY <1>10 DEF TurnAnswered, KnowsTurn
    <2>2. StoreTypeOK' /\ event' = event
      BY <1>1, <1>10, UpdateTypes DEF TurnAnswered, Processes, BeginUpdate
    <2>3. [row EXCEPT !.stage = "answered"] \in Delivery
          /\ Follows([row EXCEPT !.stage = "answered"], turns)
      BY <1>4, <2>1 DEF DeliveryStages
    <2>4. delivery' = [delivery EXCEPT ![d] = [row EXCEPT !.stage = "answered"]]
          /\ UNCHANGED <<serverVars, gatewayVars, loop, consumer, faults>>
      BY <1>10 DEF TurnAnswered
    <2>5. turns' = turns
      BY <2>4 DEF serverVars
    <2>6. QED
      BY <1>2, <1>3, <2>2, <2>3, <2>4, <2>5, DeliveryMoves
  <1>11. CASE Refused(d) \/ DeliveryFails(d)
    BY <1>11, AbortTypes DEF Refused, DeliveryFails
  <1>12. QED
    BY <1>5, <1>6, <1>7, <1>8, <1>9, <1>10, <1>11 DEF DeliveryStep

\* Every step keeps the types.
LEMMA StepTypes ==
  ASSUME TypeInv, [Next]_vars
  PROVE  TypeInv'
  <1> USE DEF TypeInv, TypeOK
  <1>1. ASSUME NEW e \in Events, Poll(e) PROVE TypeInv'
    <2>1. StoreTypeOK' /\ SequencesBounded'
      BY <1>1, EnqueueTypes DEF Poll
    <2>2. QED
      BY <1>1, <2>1, LoopMoves DEF Poll, runnerVars
  <1>2. ASSUME NEW t \in Turns, TurnEnds(t) PROVE TypeInv'
    <2>1. ServerTypeOK' /\ TurnsGoOn
      BY <1>2, EndTypes DEF TurnEnds
    <2>2. FollowsItsTurn'
      BY <1>2, <2>1, FollowsStays DEF TurnEnds, runnerVars
    <2>3. StoreTypeOK' /\ GatewayTypeOK' /\ SubmissionHasTurn' /\ SequencesBounded'
      BY <1>2 DEF TurnEnds, storeVars, gatewayVars, StoreTypeOK, GatewayTypeOK,
                  SubmissionHasTurn, SequencesBounded
    <2>4. QED
      BY <1>2, <2>1, <2>2, <2>3 DEF TurnEnds, runnerVars
  <1>3. ASSUME RunnerCrash PROVE TypeInv'
    <2>1. StoreTypeOK' /\ SequencesBounded'
      BY <1>3, UpdateTypes DEF RunnerCrash, Processes, StoreTypeOK, SequencesBounded
    <2>2. delivery' \in [Deliveries -> Delivery] /\ FollowsItsTurn'
      BY <1>3, IdleType DEF RunnerCrash, FollowsItsTurn
    <2>3. faults' \in 0..MaxFaults /\ loop' \in LoopStages /\ consumer' \in Consumers
      BY <1>3, RunnerAssumption DEF RunnerCrash, Fault, LoopStages
    <2>4. ServerTypeOK' /\ GatewayTypeOK' /\ SubmissionHasTurn'
      BY <1>3 DEF RunnerCrash, serverVars, gatewayVars, ServerTypeOK, GatewayTypeOK,
                  SubmissionHasTurn
    <2>5. QED
      BY <2>1, <2>2, <2>3, <2>4
  <1>4. ASSUME RuntimeFails PROVE TypeInv'
    <2>1. GatewayGone /\ UNCHANGED <<event, pendingOperation, overlapped, loop, consumer>>
      BY <1>4 DEF RuntimeFails
    <2>2. /\ turns' \in Seq(Turn) /\ Len(turns') <= MaxTurns /\ TurnsGoOn
          /\ delivery' \in {delivery, Disconnected} /\ serving' \in BOOLEAN
      <3>1. CASE UNCHANGED <<serving, turns, delivery>>
        BY <3>1 DEF ServerTypeOK, TurnsGoOn
      <3>2. CASE serving' = FALSE /\ turns' = LostTurns /\ delivery' = Disconnected
        BY <3>2, LostTypes DEF ServerTypeOK
      <3>3. QED
        BY <1>4, <3>1, <3>2 DEF RuntimeFails
    <2>3. delivery' \in [Deliveries -> Delivery] /\ FollowsItsTurn'
      BY <2>2, FollowsStays, DisconnectedType
    <2>4. StoreTypeOK' /\ SequencesBounded'
      BY <2>1, UpdateTypes DEF GatewayGone, Processes, StoreTypeOK, SequencesBounded
    <2>5. ServerTypeOK'
      BY <2>1, <2>2, EmptySeq DEF GatewayGone, ServerTypeOK
    <2>6. input' \in [Inputs -> InputRow] /\ SubmissionHasTurn'
      <3>1. ASSUME NEW i \in Inputs
            PROVE  /\ input'[i] \in InputRow
                   /\ input'[i].stage \notin {"accepted", "answered"}
        <4>1. input[i] \in InputRow
          BY DEF GatewayTypeOK, InputRow
        <4>2. input'[i] = IF input[i].stage = "new" THEN input[i]
                          ELSE [input[i] EXCEPT !.stage = "done"]
          BY <2>1 DEF GatewayGone
        <4>3. QED
          BY <4>1, <4>2 DEF InputRow, InputStages
      <3>2. QED
        BY <2>1, <3>1 DEF GatewayGone, SubmissionHasTurn
    <2>7. GatewayTypeOK'
      BY <2>1, <2>6, EmptySeq DEF GatewayGone, GatewayTypeOK, InputRow
    <2>8. faults' \in 0..MaxFaults
      BY <1>4, RunnerAssumption DEF RuntimeFails, Fault
    <2>9. QED
      BY <2>1, <2>3, <2>4, <2>5, <2>6, <2>7, <2>8
  <1>5. ASSUME UNCHANGED vars PROVE TypeInv'
    <2>1. StoreTypeOK' /\ SequencesBounded' /\ loop' \in LoopStages
      BY <1>5 DEF vars, storeVars, runnerVars, StoreTypeOK, SequencesBounded
    <2>2. QED
      BY <1>5, <2>1, LoopMoves DEF vars, runnerVars
  <1>6. QED
    BY <1>1, <1>2, <1>3, <1>4, <1>5, LoopTypes, DeliveryTypes, GatewayTypes DEF Next

\* The types hold at the start.
LEMMA InitTypes == Init => TypeInv
  <1> SUFFICES ASSUME Init PROVE TypeInv
    OBVIOUS
  <1> USE DEF Init
  <1>1. StoreTypeOK
    BY StoreAssumption, OperationTypes
    DEF StoreInit, StoreTypeOK, NoRow, EventRow, EventStates
  <1>2. SequencesBounded
    <2>1. \A e \in Events : event[e].sequence <= 0
      BY DEF StoreInit, NoRow
    <2>2. QED
      BY <2>1 DEF SequencesBounded
  <1>3. ServerTypeOK
    <2>1. /\ <<>> \in Seq(Turn) /\ <<>> \in Seq(Notification)
          /\ Len(<<>>) = 0 /\ 0 <= MaxTurns
      BY StoreAssumption, EmptySeq
    <2>2. QED
      BY <2>1 DEF ServerInit, ServerTypeOK
  <1>4. GatewayTypeOK /\ SubmissionHasTurn
    BY EmptySeq DEF GatewayInit, GatewayTypeOK, InputStages, SubmissionHasTurn
  <1>5. delivery \in [Deliveries -> Delivery] /\ FollowsItsTurn
    BY IdleType DEF FollowsItsTurn
  <1>6. QED
    BY <1>1, <1>2, <1>3, <1>4, <1>5, RunnerAssumption DEF TypeInv, TypeOK, LoopStages

\* Every variable of the dispatcher, its store, the gateway and the app-server
\* has its type.  The values that are read back and used later, such as the
\* turn a delivery or a submission waits for, are there when they are used.
THEOREM RunnerTypes == Spec => []TypeOK
  <1>1. TypeInv /\ [Next]_vars => TypeInv'
    BY StepTypes
  <1>2. TypeInv => TypeOK
    BY DEF TypeInv
  <1>3. QED
    BY <1>1, <1>2, InitTypes, PTL DEF Spec

-----------------------------------------------------------------------------
(***************************************************************************)
(* Consumed events.                                                        *)
(***************************************************************************)

\* Every step goes on with the conversation.
LEMMA StepGoesOn ==
  ASSUME TypeInv, [Next]_vars
  PROVE  TurnsGoOn
  <1>1. ServerTypeOK /\ FollowsItsTurn
    BY DEF TypeInv, TypeOK
  <1>2. ASSUME UNCHANGED turns PROVE TurnsGoOn
    BY <1>2 DEF TurnsGoOn
  <1>3. ASSUME turns' = LostTurns PROVE TurnsGoOn
    BY <1>1, <1>3, LostTypes
  <1>4. ASSUME NEW t \in Turns, TurnEnds(t) PROVE TurnsGoOn
    BY <1>1, <1>4, EndTypes DEF TurnEnds
  <1>5. ASSUME LoopStep PROVE TurnsGoOn
    BY <1>2, <1>3, <1>5
    DEF LoopStep, Checkpoint, CheckpointRecorded, RuntimeHealthy, KillRuntime, StartRuntime,
        StartRuntimeFails, Recover, Claim, NothingToClaim, serverVars
  <1>6. ASSUME NEW d \in Deliveries, DeliveryStep(d) PROVE TurnsGoOn
    <2>1. CASE StartTurn(d)
      <3>1. delivery[d].event \in Events /\ delivery[d].round \in 0..MaxAttempts
        BY <2>1 DEF TypeInv, TypeOK, FollowsItsTurn, Follows, StartTurn, Delivery
      <3>2. EventClient(delivery[d].event, delivery[d].round) \in Clients
        BY <3>1 DEF Clients
      <3>3. QED
        BY <1>1, <2>1, <3>2, AcceptTypes DEF StartTurn
    <2>2. CASE ~StartTurn(d)
      BY <1>2, <1>6, <2>2
      DEF DeliveryStep, Resume, Reconcile, Join, RenewClientId, TurnAnswered, TurnRecorded,
          Refused, TurnDone, DeliveryFails, CompleteOrAbort, Abort, serverVars
    <2>3. QED
      BY <2>1, <2>2
  <1>7. ASSUME GatewayNext PROVE TurnsGoOn
    <2>1. ASSUME NEW i \in Inputs, SubmitAccepted(i) PROVE TurnsGoOn
      <3>1. BrowserClient(i) \in Clients
        BY DEF Clients
      <3>2. QED
        BY <1>1, <2>1, <3>1, AcceptTypes DEF SubmitAccepted
    <2>2. QED
      BY <1>2, <1>7, <2>1
      DEF GatewayNext, QueueFollowup, Steer, Submit, SubmitFails, SubmitAnswered,
          SubmitRecorded, TurnStarted, TurnStartedRecorded, TurnCompleted, serverVars
  <1>8. QED
    BY <1>2, <1>3, <1>4, <1>5, <1>6, <1>7
    DEF Next, Poll, RunnerCrash, RuntimeFails, vars, serverVars

\* A delivery that gives its event back, and one that consumes it: the turn it
\* knows has completed.
GivesBack(d) ==
  RequeueForReconciliation(delivery[d].event, consumer, HeldBy(d)) /\ Return(d)

Consumes(d) ==
  /\ CompleteEventAndRelease(delivery[d].event, consumer, HeldBy(d))
  /\ Return(d)
  /\ delivery[d].turn \in DOMAIN turns
  /\ turns[delivery[d].turn].client.source = delivery[d].event
  /\ turns[delivery[d].turn].status = "completed"

\* A delivery that gives its event the round of this attempt.
Renews(d) ==
  /\ delivery[d].stage = "resumed" /\ delivery[d].status = "interrupted"
  /\ OwnedBy(delivery[d].event, consumer)
  /\ event' = [event EXCEPT ![delivery[d].event] =
                 [event[delivery[d].event] EXCEPT !.round = delivery[d].attempt]]

\* These are all the ways a step of a delivery writes to the events.
LEMMA DeliveryWrites ==
  ASSUME TypeInv, NEW d \in Deliveries, DeliveryStep(d)
  PROVE  event' = event \/ GivesBack(d) \/ Consumes(d) \/ Renews(d)
  <1>1. Follows(delivery[d], turns)
    BY DEF TypeInv, FollowsItsTurn
  <1>2. Abort(d) => GivesBack(d)
    BY DEF Abort, GivesBack
  <1>3. CASE Reconcile(d)
    <2>1. CASE Abort(d)
      BY <1>2, <2>1
    <2>2. CASE ~Abort(d)
      <3>1. CompleteEventAndRelease(delivery[d].event, consumer, HeldBy(d)) /\ Return(d)
        BY <1>3, <2>2 DEF Reconcile, CompleteOrAbort
      <3>2. delivery[d].status = "completed"
        BY <1>3 DEF Reconcile, Resumed
      <3>3. QED
        BY <1>1, <3>1, <3>2 DEF Consumes, Follows, KnowsTurn
    <2>3. QED
      BY <2>1, <2>2
  <1>4. CASE TurnDone(d)
    <2>1. CASE Abort(d)
      BY <1>2, <2>1
    <2>2. CASE ~Abort(d)
      <3>1. CompleteEventAndRelease(delivery[d].event, consumer, HeldBy(d)) /\ Return(d)
        BY <1>4, <2>2 DEF TurnDone, CompleteOrAbort
      <3>2. delivery[d].stage = "waiting" /\ turns[delivery[d].turn].status = "completed"
        BY <1>4 DEF TurnDone
      <3>3. QED
        BY <1>1, <3>1, <3>2 DEF Consumes, Follows, KnowsTurn
    <2>3. QED
      BY <2>1, <2>2
  <1>5. CASE RenewClientId(d)
    BY <1>2, <1>5 DEF RenewClientId, Renews, Resumed
  <1>6. CASE ~(Reconcile(d) \/ TurnDone(d) \/ RenewClientId(d))
    BY <1>2, <1>6
    DEF DeliveryStep, Resume, Join, StartTurn, TurnAnswered, TurnRecorded, Refused,
        DeliveryFails, storeVars, BeginUpdate, FinishUpdate
  <1>7. QED
    BY <1>3, <1>4, <1>5, <1>6

\* And these are all the ways any step does.
LEMMA StepWrites ==
  ASSUME TypeInv, [Next]_vars
  PROVE  \/ event' = event
         \/ \E e \in Events : Poll(e)
         \/ Recover
         \/ \E d \in Deliveries, e \in Events : Claim(d, e)
         \/ \E d \in Deliveries : GivesBack(d) \/ Consumes(d) \/ Renews(d)
  <1>1. ASSUME LoopStep
        PROVE  event' = event \/ Recover \/ \E d \in Deliveries, e \in Events : Claim(d, e)
    BY <1>1
    DEF LoopStep, Checkpoint, CheckpointRecorded, RuntimeHealthy, KillRuntime, StartRuntime,
        StartRuntimeFails, NothingToClaim, storeVars, BeginUpdate
  <1>2. GatewayNext => event' = event
    BY DEF GatewayNext, QueueFollowup, Steer, Submit, SubmitAccepted, SubmitFails,
           SubmitAnswered, SubmitRecorded, TurnStarted, TurnStartedRecorded, TurnCompleted,
           storeVars, BeginUpdate
  <1>3. QED
    BY <1>1, <1>2, DeliveryWrites
    DEF Next, TurnEnds, RunnerCrash, RuntimeFails, vars, storeVars

\* A step that consumes an event has a completed turn for it.
LEMMA ConsumedOnlyThen ==
  ASSUME TypeInv, [Next]_vars, NEW e \in Events,
         event[e].state # "consumed", event'[e].state = "consumed"
  PROVE  \E t \in DOMAIN turns :
           turns[t].client.source = e /\ turns[t].status = "completed"
  <1> USE DEF TypeInv, TypeOK, StoreTypeOK
  <1>1. event \in [Events -> EventRow] /\ event[e] \in EventRow
    OBVIOUS
  <1>2. ASSUME NEW f \in Events, Poll(f) PROVE FALSE
    BY <1>1, <1>2 DEF Poll, EnqueueEvent, EventRow
  <1>3. ASSUME Recover PROVE FALSE
    <2>1. \/ event'[e] = event[e]
          \/ event'[e] = [event[e] EXCEPT !.state = "pending", !.consumer = NoConsumer]
      BY <1>3 DEF Recover, RecoverInterruptedEvents
    <2>2. [event[e] EXCEPT !.state = "pending", !.consumer = NoConsumer].state = "pending"
      BY <1>1 DEF EventRow
    <2>3. QED
      BY <2>1, <2>2
  <1>4. ASSUME NEW d \in Deliveries, NEW f \in Events, Claim(d, f) PROVE FALSE
    BY <1>1, <1>4 DEF Claim, ClaimNextOrdered, EventRow
  <1>5. ASSUME NEW d \in Deliveries, GivesBack(d) \/ Renews(d) PROVE FALSE
    BY <1>1, <1>5 DEF GivesBack, Renews, RequeueForReconciliation, EventRow
  <1>6. ASSUME NEW d \in Deliveries, Consumes(d) PROVE e = delivery[d].event
    BY <1>1, <1>6 DEF Consumes, CompleteEventAndRelease
  <1>7. PICK d \in Deliveries : Consumes(d)
    BY <1>2, <1>3, <1>4, <1>5, StepWrites
  <1>8. QED
    BY <1>6, <1>7 DEF Consumes

\* Whatever fails, an event is consumed only after a turn that was given its
\* prompt has completed.
THEOREM ConsumedCorrect == Spec => []ConsumedMeansTurnCompleted
  <1> DEFINE Inv == TypeInv /\ ConsumedMeansTurnCompleted
  <1>1. Init => Inv
    BY InitTypes DEF Init, StoreInit, NoRow, ConsumedMeansTurnCompleted
  <1>2. Inv /\ [Next]_vars => Inv'
    <2> SUFFICES ASSUME Inv, [Next]_vars PROVE Inv'
      OBVIOUS
    <2>1. TypeInv' /\ TurnsGoOn
      BY StepTypes, StepGoesOn
    <2>2. ASSUME NEW e \in Events, event'[e].state = "consumed"
          PROVE  \E t \in DOMAIN turns' :
                   turns'[t].client.source = e /\ turns'[t].status = "completed"
      <3>1. PICK t \in DOMAIN turns :
              turns[t].client.source = e /\ turns[t].status = "completed"
        BY <2>2, ConsumedOnlyThen DEF ConsumedMeansTurnCompleted
      <3>2. QED
        BY <2>1, <3>1 DEF TurnsGoOn
    <2>3. QED
      BY <2>1, <2>2 DEF ConsumedMeansTurnCompleted
  <1>3. QED
    BY <1>1, <1>2, PTL DEF Spec

-----------------------------------------------------------------------------
(***************************************************************************)
(* One prompt per client message id: the gateway's submissions.            *)
(***************************************************************************)

\* The conversation is as it was, except for how its turns end.
SameClients ==
  /\ DOMAIN turns' = DOMAIN turns
  /\ \A t \in DOMAIN turns : turns'[t].client = turns[t].client

\* A queued follow-up is in the queue once, and has not been submitted.
FollowupsQueued ==
  /\ \A k \in DOMAIN followups : input[followups[k]].stage = "queued"
  /\ \A k, l \in DOMAIN followups : followups[k] = followups[l] => k = l

\* A submission with a turn has been accepted by the server, and is over or
\* waits for the answer.
Sent == {"accepted", "answered", "done"}

SubmittedOnce ==
  \A t \in DOMAIN turns, i \in Inputs :
    turns[t].client = BrowserClient(i) => input[i].stage \in Sent

SubmissionInv == FollowupsQueued /\ SubmittedOnce

\* The turns a step adds: none, the delivery's or the submission's.
LEMMA StepTurns ==
  ASSUME TypeInv, [Next]_vars
  PROVE  \/ SameClients
         \/ \E d \in Deliveries : StartTurn(d)
         \/ \E i \in Inputs : SubmitAccepted(i)
  <1>1. ServerTypeOK
    BY DEF TypeInv, TypeOK
  <1>2. UNCHANGED turns => SameClients
    BY DEF SameClients
  <1>3. turns' = LostTurns => SameClients
    BY <1>1, LostTypes DEF SameClients, TurnsGoOn
  <1>4. ASSUME NEW t \in Turns, TurnEnds(t) PROVE SameClients
    BY <1>1, <1>4, EndTypes DEF TurnEnds, SameClients, TurnsGoOn
  <1>5. LoopStep => SameClients
    BY <1>2, <1>3
    DEF LoopStep, Checkpoint, CheckpointRecorded, RuntimeHealthy, KillRuntime, StartRuntime,
        StartRuntimeFails, Recover, Claim, NothingToClaim, serverVars
  <1>6. ASSUME NEW d \in Deliveries, DeliveryStep(d) PROVE SameClients \/ StartTurn(d)
    BY <1>2, <1>6
    DEF DeliveryStep, Resume, Reconcile, Join, RenewClientId, TurnAnswered, TurnRecorded,
        Refused, TurnDone, DeliveryFails, CompleteOrAbort, Abort, serverVars
  <1>7. GatewayNext => SameClients \/ \E i \in Inputs : SubmitAccepted(i)
    BY <1>2
    DEF GatewayNext, QueueFollowup, Steer, Submit, SubmitFails, SubmitAnswered,
        SubmitRecorded, TurnStarted, TurnStartedRecorded, TurnCompleted, serverVars
  <1>8. QED
    BY <1>2, <1>3, <1>4, <1>5, <1>6, <1>7
    DEF Next, Poll, RunnerCrash, RuntimeFails, vars, serverVars

\* What a turn's client id says of it when a step adds that turn.
LEMMA AddedTurn ==
  ASSUME TypeInv, NEW client \in Clients, AcceptTurn(client)
  PROVE  /\ DOMAIN turns' = DOMAIN turns \cup {Len(turns) + 1}
         /\ Len(turns) + 1 \notin DOMAIN turns
         /\ turns'[Len(turns) + 1].client = client
         /\ \A t \in DOMAIN turns : turns'[t].client = turns[t].client
  BY AcceptTypes DEF TypeInv, TypeOK, TurnsGoOn

\* The delivery that starts a turn has an event in one of its rounds.
LEMMA StartedClient ==
  ASSUME TypeInv, NEW d \in Deliveries, StartTurn(d)
  PROVE  /\ delivery[d].event \in Events /\ delivery[d].round \in 0..MaxAttempts
         /\ EventClient(delivery[d].event, delivery[d].round) \in Clients
  <1>1. delivery[d].event \in Events /\ delivery[d].round \in 0..MaxAttempts
    BY DEF TypeInv, TypeOK, FollowsItsTurn, Follows, StartTurn, Delivery
  <1>2. QED
    BY <1>1 DEF Clients

\* A step that moves one submission to another stage, which it was not queued
\* for, keeps the queue of follow-ups.
LEMMA QueueKept ==
  ASSUME TypeInv, FollowupsQueued, NEW i \in Inputs, input[i].stage # "queued",
         \A j \in Inputs \ {i} : input'[j] = input[j], followups' = followups
  PROVE  FollowupsQueued'
  <1>1. \A k \in DOMAIN followups : followups[k] \in Inputs
    BY LenProperties DEF TypeInv, TypeOK, GatewayTypeOK
  <1>2. QED
    BY <1>1 DEF FollowupsQueued

\* A step that moves no submission out of the stages it has been sent in.
LEMMA SentStays ==
  ASSUME SubmittedOnce, SameClients,
         \A i \in Inputs : input[i].stage \in Sent => input'[i].stage \in Sent
  PROVE  SubmittedOnce'
  BY DEF SubmittedOnce, SameClients

\* Every step of the gateway keeps the submissions apart.
LEMMA GatewaySubmits ==
  ASSUME TypeInv, SubmissionInv, GatewayNext
  PROVE  SubmissionInv'
  <1>1. input \in [Inputs -> InputRow] /\ followups \in Seq(Inputs)
    BY DEF TypeInv, TypeOK, GatewayTypeOK, InputRow
  <1>2. \A i \in Inputs : input[i] \in InputRow
    BY <1>1
  <1>3. UNCHANGED serverVars => SameClients
    BY DEF serverVars, SameClients
  <1>4. ASSUME NEW i \in Inputs, NEW stage \in InputStages, Stage(i, stage)
        PROVE  /\ input'[i].stage = stage
               /\ \A j \in Inputs \ {i} : input'[j] = input[j]
    BY <1>1, <1>4 DEF Stage, InputRow
  <1>5. ASSUME NEW i \in Inputs, QueueFollowup(i) PROVE SubmissionInv'
    <2>1. input[i].stage = "new" /\ input'[i].stage = "queued" /\ SameClients
          /\ \A j \in Inputs \ {i} : input'[j] = input[j]
      BY <1>3, <1>4, <1>5 DEF QueueFollowup, InputStages
    <2>2. SubmittedOnce'
      BY <2>1, SentStays DEF SubmissionInv, Sent
    <2>3. /\ Len(followups) \in Nat /\ DOMAIN followups = 1..Len(followups)
          /\ DOMAIN followups' = 1..(Len(followups) + 1)
          /\ \A k \in 1..Len(followups) : /\ followups[k] \in Inputs
                                          /\ followups'[k] = followups[k]
          /\ followups'[Len(followups) + 1] = i
      BY <1>1, <1>5, AppendProperties, LenProperties DEF QueueFollowup
    <2>4. \A k \in 1..Len(followups) : followups[k] # i
      BY <2>1, <2>3 DEF SubmissionInv, FollowupsQueued
    <2>5. FollowupsQueued'
      BY <2>1, <2>3, <2>4 DEF SubmissionInv, FollowupsQueued
    <2>6. QED
      BY <2>2, <2>5 DEF SubmissionInv
  <1>6. ASSUME NEW i \in Inputs, Steer(i) \/ Submit(i) PROVE SubmissionInv'
    <2>1. PICK stage \in {"claimed", "done"} : Stage(i, stage)
      BY <1>6 DEF Steer, Submit
    <2>2. input[i].stage = "new" /\ SameClients /\ followups' = followups
      BY <1>3, <1>6 DEF Steer, Submit, serverVars, SameClients
    <2>3. \A j \in Inputs \ {i} : input'[j] = input[j]
      BY <1>4, <2>1 DEF InputStages
    <2>4. QED
      BY <2>2, <2>3, QueueKept, SentStays DEF SubmissionInv, Sent
  <1>7. ASSUME NEW i \in Inputs, SubmitAccepted(i) PROVE SubmissionInv'
    <2>1. BrowserClient(i) \in Clients /\ AcceptTurn(BrowserClient(i))
      BY <1>7 DEF Clients, SubmitAccepted
    <2>2. /\ DOMAIN turns' = DOMAIN turns \cup {Len(turns) + 1}
          /\ turns'[Len(turns) + 1].client = BrowserClient(i)
          /\ \A t \in DOMAIN turns : turns'[t].client = turns[t].client
      BY <2>1, AddedTurn
    <2>3. /\ input[i].stage = "claimed" /\ input'[i].stage = "accepted"
          /\ \A j \in Inputs \ {i} : input'[j] = input[j]
          /\ followups' = followups
      BY <1>1, <1>7 DEF SubmitAccepted
    <2>4. SubmittedOnce'
      BY <2>2, <2>3 DEF SubmissionInv, SubmittedOnce, Sent, BrowserClient
    <2>5. QED
      BY <2>3, <2>4, QueueKept DEF SubmissionInv
  <1>8. ASSUME NEW i \in Inputs, SubmitFails(i) \/ SubmitAnswered(i) \/ SubmitRecorded(i)
        PROVE  SubmissionInv'
    <2>1. PICK stage \in {"answered", "done"} : Stage(i, stage)
      BY <1>8 DEF SubmitFails, SubmitAnswered, SubmitRecorded
    <2>2. input[i].stage # "queued" /\ SameClients /\ followups' = followups
      BY <1>3, <1>8 DEF SubmitFails, SubmitAnswered, SubmitRecorded, serverVars, SameClients
    <2>3. input'[i].stage \in Sent /\ \A j \in Inputs \ {i} : input'[j] = input[j]
      BY <1>4, <2>1 DEF InputStages, Sent
    <2>4. QED
      BY <2>2, <2>3, QueueKept, SentStays DEF SubmissionInv, Sent
  <1>9. ASSUME TurnStarted \/ TurnStartedRecorded PROVE SubmissionInv'
    BY <1>9 DEF TurnStarted, TurnStartedRecorded, serverVars, SubmissionInv,
                FollowupsQueued, SubmittedOnce
  <1>10. ASSUME TurnCompleted PROVE SubmissionInv'
    <2>1. SameClients
      BY <1>10 DEF TurnCompleted, SameClients
    <2>2. CASE UNCHANGED <<followups, input>>
      BY <2>1, <2>2, SentStays DEF SubmissionInv, FollowupsQueued
    <2>3. CASE /\ followups # <<>> /\ followups' = Tail(followups)
               /\ Stage(Head(followups), "new")
      <3>1. /\ Head(followups) \in Inputs /\ Head(followups) = followups[1]
            /\ Len(followups) \in Nat \ {0} /\ DOMAIN followups = 1..Len(followups)
            /\ DOMAIN followups' = 1..(Len(followups) - 1)
            /\ \A k \in 1..(Len(followups) - 1) : followups'[k] = followups[k + 1]
            /\ \A k \in DOMAIN followups : followups[k] \in Inputs
        BY <1>1, <2>3, HeadTailProperties, LenProperties, EmptySeq
      <3>2. /\ input'[followups[1]].stage = "new"
            /\ \A j \in Inputs \ {followups[1]} : input'[j] = input[j]
        BY <1>4, <2>3, <3>1 DEF InputStages
      <3>3. input[followups[1]].stage = "queued"
        BY <3>1 DEF SubmissionInv, FollowupsQueued
      <3>4. SubmittedOnce'
        BY <2>1, <3>2, <3>3, SentStays DEF SubmissionInv, Sent
      <3>5. FollowupsQueued'
        <4>1. ASSUME NEW k \in DOMAIN followups'
              PROVE  /\ k + 1 \in DOMAIN followups /\ k + 1 # 1 /\ 1 \in DOMAIN followups
                     /\ followups'[k] = followups[k + 1]
          BY <3>1
        <4>2. \A k \in DOMAIN followups' : input'[followups'[k]].stage = "queued"
          BY <3>1, <3>2, <4>1 DEF SubmissionInv, FollowupsQueued
        <4>3. ASSUME NEW k \in DOMAIN followups', NEW l \in DOMAIN followups',
                     followups'[k] = followups'[l]
              PROVE  k = l
          <5>1. k + 1 = l + 1
            BY <4>1, <4>3 DEF SubmissionInv, FollowupsQueued
          <5>2. k \in Nat /\ l \in Nat
            BY <3>1
          <5>3. QED
            BY <5>1, <5>2
        <4>4. QED
          BY <4>2, <4>3 DEF FollowupsQueued
      <3>6. QED
        BY <3>4, <3>5 DEF SubmissionInv
    <2>4. QED
      BY <1>10, <2>2, <2>3 DEF TurnCompleted
  <1>11. QED
    BY <1>5, <1>6, <1>7, <1>8, <1>9, <1>10 DEF GatewayNext

\* So does every other step.
LEMMA StepSubmits ==
  ASSUME TypeInv, SubmissionInv, [Next]_vars
  PROVE  SubmissionInv'
  <1>1. CASE GatewayNext
    BY <1>1, GatewaySubmits
  <1>2. CASE UNCHANGED <<followups, input>>
    <2>1. FollowupsQueued'
      BY <1>2 DEF SubmissionInv, FollowupsQueued
    <2>2. CASE SameClients
      BY <1>2, <2>1, <2>2, SentStays DEF SubmissionInv
    <2>3. ASSUME NEW d \in Deliveries, StartTurn(d) PROVE SubmittedOnce'
      <3> DEFINE client == EventClient(delivery[d].event, delivery[d].round)
      <3>1. delivery[d].event \in Events /\ client \in Clients /\ AcceptTurn(client)
        BY <2>3, StartedClient DEF StartTurn
      <3>2. /\ DOMAIN turns' = DOMAIN turns \cup {Len(turns) + 1}
            /\ turns'[Len(turns) + 1].client = client
            /\ \A t \in DOMAIN turns : turns'[t].client = turns[t].client
        BY <3>1, AddedTurn
      <3>3. \A i \in Inputs : client # BrowserClient(i)
        BY <3>1, StoreAssumption DEF EventClient, BrowserClient
      <3> HIDE DEF client
      <3>4. QED
        BY <1>2, <3>2, <3>3 DEF SubmissionInv, SubmittedOnce
    <2>4. ASSUME NEW i \in Inputs, SubmitAccepted(i) PROVE SubmissionInv'
      BY <2>4, GatewaySubmits DEF GatewayNext
    <2>5. QED
      BY <2>1, <2>2, <2>3, <2>4, StepTurns DEF SubmissionInv
  <1>3. CASE RuntimeFails
    <2>1. GatewayGone /\ SameClients
      <3>1. ServerTypeOK
        BY DEF TypeInv, TypeOK
      <3>2. GatewayGone /\ (turns' = turns \/ turns' = LostTurns)
        BY <1>3 DEF RuntimeFails
      <3>3. QED
        BY <3>1, <3>2, LostTypes DEF SameClients, TurnsGoOn
    <2>2. followups' = <<>> /\ FollowupsQueued'
      BY <2>1 DEF GatewayGone, FollowupsQueued
    <2>3. ASSUME NEW i \in Inputs, input[i].stage \in Sent PROVE input'[i].stage \in Sent
      <3>1. input[i] \in InputRow
        BY DEF TypeInv, TypeOK, GatewayTypeOK, InputRow
      <3>2. input'[i] = [input[i] EXCEPT !.stage = "done"]
        BY <2>1, <2>3 DEF GatewayGone, Sent
      <3>3. QED
        BY <3>1, <3>2 DEF InputRow, Sent
    <2>4. QED
      BY <2>1, <2>2, <2>3, SentStays DEF SubmissionInv
  <1>4. ~GatewayNext /\ ~RuntimeFails => UNCHANGED <<followups, input>>
    <2>1. LoopStep => UNCHANGED <<followups, input>>
      BY DEF LoopStep, Checkpoint, CheckpointRecorded, RuntimeHealthy, KillRuntime,
             StartRuntime, StartRuntimeFails, Recover, Claim, NothingToClaim, GatewayStart,
             gatewayVars
    <2>2. ASSUME NEW d \in Deliveries, DeliveryStep(d) PROVE UNCHANGED <<followups, input>>
      BY <2>2
      DEF DeliveryStep, Resume, Reconcile, Join, RenewClientId, StartTurn, TurnAnswered,
          TurnRecorded, Refused, TurnDone, DeliveryFails, CompleteOrAbort, Abort, gatewayVars
    <2>3. QED
      BY <2>1, <2>2 DEF Next, Poll, TurnEnds, RunnerCrash, vars, gatewayVars
  <1>5. QED
    BY <1>1, <1>2, <1>3, <1>4

-----------------------------------------------------------------------------
(***************************************************************************)
(* One prompt per client message id: the deliveries of `party run --once`. *)
(***************************************************************************)
Busy(d) == delivery[d].stage # "idle"

\* The loop waits for its delivery, so there is one at a time.
OneDelivery ==
  /\ \A d \in Deliveries : Busy(d) => loop = "await"
  /\ \A d, f \in Deliveries : Busy(d) /\ Busy(f) => d = f

\* The snapshot has been taken and showed a turn, or is still to be taken.
MayHaveTurn(row) ==
  row.stage = "connecting" \/ (row.stage = "resumed" /\ row.status # "none")

\* A delivery under way holds its event, in the attempt and round it knows of
\* (rows: goal_events, name: the consumer).  Its attempt is a later one than its
\* round until it renews the client id; and when it is about to start a turn,
\* the conversation has none with that client id.
Consistent(row, rows, name, conversation) ==
  row.stage # "idle" =>
    /\ rows[row.event].state = "delivering" /\ rows[row.event].consumer = name
    /\ rows[row.event].attempts = row.attempt
    /\ rows[row.event].round = row.round
    /\ MayHaveTurn(row) => row.round < row.attempt
    /\ row.stage = "resumed" /\ row.status = "none" =>
         \A t \in DOMAIN conversation :
           conversation[t].client # EventClient(row.event, row.round)

DeliveriesConsistent ==
  \A d \in Deliveries : Consistent(delivery[d], event, consumer, turns)

\* No turn is in a later round than its event, and no event in a later round
\* than its last attempt.
RoundsGrow ==
  \A e \in Events :
    /\ event[e].round <= event[e].attempts
    /\ \A t \in DOMAIN turns :
         turns[t].client.source = e => turns[t].client.round <= event[e].round

OnceInv ==
  /\ TypeInv /\ SubmissionInv
  /\ OneDelivery /\ DeliveriesConsistent /\ RoundsGrow
  /\ OnePromptPerClientId

\* What a turn's client id tells does not change when no turn is added.
LEMMA ClientsKept ==
  ASSUME OnceInv, SameClients
  PROVE  /\ OnePromptPerClientId'
         /\ \A row, rows, name :
              Consistent(row, rows, name, turns) => Consistent(row, rows, name, turns')
         /\ \A e \in Events, t \in DOMAIN turns' :
              turns'[t].client.source = e => turns'[t].client.round <= event[e].round
  BY DEF OnceInv, OnePromptPerClientId, SameClients, Consistent, RoundsGrow

\* A step that changes no round or attempt count.
LEMMA RoundsKept ==
  ASSUME OnceInv, SameClients,
         \A e \in Events : /\ event'[e].round = event[e].round
                           /\ event'[e].attempts = event[e].attempts
  PROVE  RoundsGrow'
  BY ClientsKept DEF OnceInv, RoundsGrow

\* A step after which no delivery is under way.
LEMMA AllIdle ==
  ASSUME \A d \in Deliveries : delivery'[d].stage = "idle"
  PROVE  OneDelivery' /\ DeliveriesConsistent'
  BY DEF OneDelivery, Busy, DeliveriesConsistent, Consistent

\* A step that leaves events and deliveries alone, except for connections.
LEMMA NothingMoves ==
  ASSUME OnceInv, SameClients, UNCHANGED <<event, consumer>>,
         delivery' = delivery \/ delivery' = Disconnected,
         loop' = loop \/ loop # "await"
  PROVE  /\ OneDelivery' /\ DeliveriesConsistent' /\ RoundsGrow'
         /\ OnePromptPerClientId'
  <1>1. ASSUME NEW d \in Deliveries
        PROVE  /\ delivery'[d].stage = delivery[d].stage
               /\ delivery'[d].event = delivery[d].event
               /\ delivery'[d].attempt = delivery[d].attempt
               /\ delivery'[d].round = delivery[d].round
               /\ delivery'[d].status = delivery[d].status
    <2>1. delivery[d] \in Delivery
      BY DEF OnceInv, TypeInv, TypeOK
    <2>2. delivery'[d] = delivery[d] \/ delivery'[d] = [delivery[d] EXCEPT !.lost = TRUE]
      BY DEF Disconnected
    <2>3. QED
      BY <2>1, <2>2 DEF Delivery
  <1>2. OneDelivery'
    BY <1>1 DEF OnceInv, OneDelivery, Busy
  <1>3. \A d \in Deliveries : Consistent(delivery[d], event, consumer, turns')
    BY ClientsKept DEF OnceInv, DeliveriesConsistent
  <1>4. DeliveriesConsistent'
    BY <1>1, <1>3 DEF DeliveriesConsistent, Consistent, MayHaveTurn
  <1>5. QED
    BY <1>2, <1>4, RoundsKept, ClientsKept

\* A delivery under way that moves on and stays consistent, the others idle.
LEMMA OneMoves ==
  ASSUME OnceInv, NEW d \in Deliveries, Busy(d), NEW row,
         delivery' = [delivery EXCEPT ![d] = row], loop' = loop,
         Consistent(row, event', consumer', turns')
  PROVE  OneDelivery' /\ DeliveriesConsistent'
  <1>1. delivery \in [Deliveries -> Delivery]
    BY DEF OnceInv, TypeInv, TypeOK
  <1>2. \A f \in Deliveries \ {d} : delivery'[f] = delivery[f] /\ delivery[f].stage = "idle"
    BY <1>1 DEF OnceInv, OneDelivery, Busy
  <1>3. delivery'[d] = row /\ loop' = "await"
    BY <1>1 DEF OnceInv, OneDelivery
  <1>4. QED
    BY <1>2, <1>3 DEF OneDelivery, Busy, DeliveriesConsistent, Consistent

\* What the proof of a step has to show besides the types and submissions.
OnceRest == OneDelivery /\ DeliveriesConsistent /\ RoundsGrow /\ OnePromptPerClientId

\* The rows of the events are rows.
LEMMA OnceRows ==
  ASSUME OnceInv
  PROVE  /\ event \in [Events -> EventRow]
         /\ delivery \in [Deliveries -> Delivery]
         /\ \A d \in Deliveries : Busy(d) =>
              /\ delivery[d].event \in Events
              /\ event[delivery[d].event] \in EventRow
              /\ Consistent(delivery[d], event, consumer, turns)
  BY DEF OnceInv, TypeInv, TypeOK, StoreTypeOK, FollowsItsTurn, Follows, Busy,
         DeliveriesConsistent

\* enqueueEvent is about a row that no delivery holds.
LEMMA PollOnce ==
  ASSUME OnceInv, NEW e \in Events, Poll(e)
  PROVE  OnceRest'
  <1>1. /\ UNCHANGED <<turns, delivery, loop, consumer>> /\ SameClients
        /\ event[e].state = "absent"
        /\ event' = [event EXCEPT ![e] =
             [event[e] EXCEPT !.state = "pending", !.sequence = NextSequence]]
    BY DEF Poll, EnqueueEvent, serverVars, runnerVars, SameClients
  <1>2. /\ \A f \in Events : /\ event'[f].round = event[f].round
                             /\ event'[f].attempts = event[f].attempts
        /\ \A f \in Events \ {e} : event'[f] = event[f]
    BY <1>1, OnceRows DEF EventRow
  <1>3. DeliveriesConsistent'
    <2>1. ASSUME NEW d \in Deliveries, Busy(d) PROVE event'[delivery[d].event]
                                                       = event[delivery[d].event]
      <3>1. delivery[d].event \in Events \ {e}
        BY <1>1, <2>1, OnceRows DEF Consistent, Busy
      <3>2. QED
        BY <1>2, <3>1
    <2>2. QED
      BY <1>1, <2>1 DEF OnceInv, DeliveriesConsistent, Consistent, Busy
  <1>4. OneDelivery'
    BY <1>1 DEF OnceInv, OneDelivery, Busy
  <1>5. QED
    BY <1>1, <1>2, <1>3, <1>4, RoundsKept, ClientsKept DEF OnceRest

\* recoverInterruptedEvents runs when no delivery is under way.
LEMMA RecoverOnce ==
  ASSUME OnceInv, Recover
  PROVE  OnceRest'
  <1>1. SameClients /\ delivery' = delivery /\ loop = "recover"
    BY DEF Recover, serverVars, SameClients
  <1>2. \A d \in Deliveries : delivery'[d].stage = "idle"
    BY <1>1 DEF OnceInv, OneDelivery, Busy
  <1>3. \A e \in Events : /\ event'[e].round = event[e].round
                          /\ event'[e].attempts = event[e].attempts
    <2>1. ASSUME NEW f \in Events
          PROVE  event'[f] \in {event[f], [event[f] EXCEPT !.state = "pending",
                                                         !.consumer = NoConsumer]}
      BY OnceRows DEF Recover, RecoverInterruptedEvents
    <2>2. QED
      BY ZenonT(40), <2>1, OnceRows DEF EventRow
  <1>4. QED
    BY <1>1, <1>2, <1>3, AllIdle, RoundsKept, ClientsKept DEF OnceRest

\* A claim begins a new attempt, in the round of an earlier one.
LEMMA ClaimOnce ==
  ASSUME Continuous = FALSE, OnceInv, NEW d \in Deliveries, NEW e \in Events, Claim(d, e)
  PROVE  OnceRest'
  <1> DEFINE row == [IdleDelivery EXCEPT !.stage = "connecting", !.event = e,
                       !.attempt = event[e].attempts + 1, !.round = event[e].round]
  <1>1. /\ SameClients /\ UNCHANGED <<turns, consumer>>
        /\ loop = "claim" /\ loop' = "await"
        /\ delivery' = [delivery EXCEPT ![d] = row]
        /\ event' = [event EXCEPT ![e] =
             [event[e] EXCEPT !.state = "delivering", !.consumer = consumer,
                              !.attempts = @ + 1]]
    BY DEF Claim, ClaimNextOrdered, serverVars, SameClients
  <1>2. /\ event[e] \in EventRow /\ event[e].round \in Nat /\ event[e].attempts \in Nat
        /\ event[e].round <= event[e].attempts
    BY OnceRows, StoreAssumption DEF EventRow, OnceInv, RoundsGrow
  <1>3. /\ event'[e].state = "delivering" /\ event'[e].consumer = consumer
        /\ event'[e].attempts = event[e].attempts + 1
        /\ event'[e].round = event[e].round
        /\ \A f \in Events \ {e} : event'[f] = event[f]
    BY <1>1, <1>2, OnceRows DEF EventRow
  <1>4. /\ row.stage = "connecting" /\ row.event = e /\ row.status = "none"
        /\ row.attempt = event[e].attempts + 1 /\ row.round = event[e].round
    BY DEF IdleDelivery
  <1>5. delivery'[d] = row
        /\ \A f \in Deliveries \ {d} : delivery'[f].stage = "idle"
    BY <1>1, OnceRows DEF OnceInv, OneDelivery, Busy
  <1> HIDE DEF row
  <1>6. Consistent(row, event', consumer', turns')
    BY <1>1, <1>2, <1>3, <1>4 DEF Consistent, MayHaveTurn
  <1>7. OneDelivery' /\ DeliveriesConsistent'
    BY <1>1, <1>4, <1>5, <1>6 DEF OneDelivery, Busy, DeliveriesConsistent, Consistent
  <1>8. RoundsGrow'
    <2>1. ASSUME NEW f \in Events PROVE event'[f].round <= event'[f].attempts
      BY <1>2, <1>3 DEF OnceInv, RoundsGrow
    <2>2. ASSUME NEW f \in Events PROVE event'[f].round = event[f].round
      BY <1>3
    <2>3. QED
      BY <1>1, <2>1, <2>2, ClientsKept DEF RoundsGrow
  <1>9. QED
    BY <1>1, <1>7, <1>8, ClientsKept DEF OnceRest

\* A delivery that returns leaves none under way.
LEMMA ReturnOnce ==
  ASSUME Continuous = FALSE, OnceInv, NEW d \in Deliveries, Busy(d), Return(d), SameClients,
         GivesBack(d) \/ Consumes(d)
  PROVE  OnceRest'
  <1>1. \A f \in Deliveries : delivery'[f].stage = "idle"
    BY OnceRows DEF Return, IdleDelivery, OnceInv, OneDelivery, Busy
  <1>2. \A e \in Events : /\ event'[e].round = event[e].round
                          /\ event'[e].attempts = event[e].attempts
    <2> DEFINE e == delivery[d].event
    <2>1. e \in Events /\ event[e] \in EventRow /\ event \in [Events -> EventRow]
      BY OnceRows
    <2>2. \/ event' = event
          \/ event' = [event EXCEPT ![e] =
                        [event[e] EXCEPT !.state = "pending", !.consumer = NoConsumer]]
          \/ event' = [event EXCEPT ![e] = [event[e] EXCEPT !.state = "consumed"]]
      BY DEF GivesBack, Consumes, RequeueForReconciliation, CompleteEventAndRelease
    <2>3. ASSUME NEW f \in Events
          PROVE  event'[f] \in {event[f], [event[f] EXCEPT !.state = "pending",
                                                         !.consumer = NoConsumer],
                                [event[f] EXCEPT !.state = "consumed"]}
      BY <2>1, <2>2
    <2>4. QED
      BY ZenonT(40), <2>1, <2>3 DEF EventRow
  <1>3. QED
    BY <1>1, <1>2, AllIdle, RoundsKept, ClientsKept DEF OnceRest

\* A step within a delivery that writes no event and starts no turn.
LEMMA MovesOnce ==
  ASSUME OnceInv, NEW d \in Deliveries, Busy(d), NEW row,
         delivery' = [delivery EXCEPT ![d] = row],
         UNCHANGED <<event, consumer, turns, loop>>,
         Consistent(row, event, consumer, turns)
  PROVE  OnceRest'
  <1>1. SameClients
    BY DEF SameClients
  <1>2. QED
    BY <1>1, OneMoves, RoundsKept, ClientsKept DEF OnceRest

\* An event that gets the round of the attempt under way: a new client id.
LEMMA RenewOnce ==
  ASSUME OnceInv, NEW d \in Deliveries, Renews(d), RenewClientId(d)
  PROVE  OnceRest'
  <1> DEFINE row == delivery[d]
             e == row.event
             next == [row EXCEPT !.round = row.attempt, !.status = "none", !.turn = NoTurn]
  <1>1. /\ Busy(d) /\ e \in Events /\ event[e] \in EventRow /\ row \in Delivery
        /\ row.stage = "resumed" /\ row.status = "interrupted"
        /\ Consistent(row, event, consumer, turns)
    BY OnceRows DEF Renews, Busy
  <1>2. row.round < row.attempt /\ event[e].attempts = row.attempt
        /\ event[e].round = row.round
        /\ row.round \in Nat /\ row.attempt \in Nat
    BY <1>1, StoreAssumption DEF Consistent, MayHaveTurn, Delivery
  <1>3. /\ event' = [event EXCEPT ![e] = [event[e] EXCEPT !.round = row.attempt]]
        /\ delivery' = [delivery EXCEPT ![d] = next]
        /\ UNCHANGED <<turns, loop, consumer>> /\ SameClients
    BY <1>1 DEF Renews, RenewClientId, serverVars, Delivery, SameClients
  <1>4. /\ next.stage = "resumed" /\ next.status = "none" /\ next.event = e
        /\ next.attempt = row.attempt /\ next.round = row.attempt
    BY <1>1 DEF Delivery
  <1>5. /\ event'[e].state = event[e].state /\ event'[e].consumer = event[e].consumer
        /\ event'[e].attempts = row.attempt /\ event'[e].round = row.attempt
        /\ \A f \in Events \ {e} : event'[f] = event[f]
    BY <1>1, <1>2, <1>3, OnceRows DEF EventRow
  <1> HIDE DEF next
  <1>6. ASSUME NEW t \in DOMAIN turns, turns[t].client.source = e
        PROVE  turns[t].client.round <= row.round
    BY <1>1, <1>2, <1>6 DEF OnceInv, RoundsGrow
  <1>7. ASSUME NEW t \in DOMAIN turns PROVE turns[t].client # EventClient(e, row.attempt)
    BY <1>2, <1>6 DEF EventClient
  <1>8. Consistent(next, event', consumer', turns')
    BY <1>1, <1>3, <1>4, <1>5, <1>7 DEF Consistent, MayHaveTurn
  <1>9. ASSUME NEW t \in DOMAIN turns, turns[t].client.source = e
        PROVE  turns[t].client.round <= row.attempt
    <2>1. turns[t].client.round \in Nat
      <3>1. turns[t] \in Turn
        BY TurnNumbers DEF OnceInv, TypeInv, TypeOK
      <3>2. QED
        BY <3>1, StoreAssumption DEF Turn, Clients, EventClient, BrowserClient
    <2>2. QED
      BY <1>2, <1>6, <1>9, <2>1
  <1>10. RoundsGrow'
    BY <1>2, <1>3, <1>5, <1>9 DEF OnceInv, RoundsGrow
  <1>11. QED
    BY <1>1, <1>3, <1>8, <1>10, OneMoves, ClientsKept DEF OnceRest

\* A delivery starts a turn only under a client id that no turn has.
LEMMA StartOnce ==
  ASSUME OnceInv, NEW d \in Deliveries, StartTurn(d)
  PROVE  OnceRest'
  <1> DEFINE row == delivery[d]
             client == EventClient(row.event, row.round)
             n == Len(turns) + 1
             next == [row EXCEPT !.stage = "started", !.turn = n]
  <1>1. /\ Busy(d) /\ row.event \in Events /\ row \in Delivery
        /\ row.stage = "resumed" /\ row.status = "none"
        /\ Consistent(row, event, consumer, turns)
    BY OnceRows DEF StartTurn, Busy
  <1>2. /\ DOMAIN turns' = DOMAIN turns \cup {n}
        /\ n \notin DOMAIN turns
        /\ turns'[n].client = client
        /\ \A t \in DOMAIN turns : turns'[t].client = turns[t].client
    BY StartedClient, AddedTurn DEF StartTurn, OnceInv
  <1>3. delivery' = [delivery EXCEPT ![d] = next]
        /\ UNCHANGED <<event, consumer, loop>>
    BY <1>1, OnceRows DEF StartTurn, storeVars, Delivery
  <1>4. next.stage = "started" /\ next.status = "none" /\ next.event = row.event
        /\ next.attempt = row.attempt /\ next.round = row.round
    BY <1>1 DEF Delivery
  <1>5. client.source = row.event /\ client.round = row.round
    BY DEF EventClient
  <1>6. \A t \in DOMAIN turns : turns[t].client # client
    BY <1>1 DEF Consistent
  <1> HIDE DEF next, client, n
  <1>7. OnePromptPerClientId'
    BY <1>2, <1>6 DEF OnceInv, OnePromptPerClientId
  <1>8. Consistent(next, event', consumer', turns')
    BY <1>1, <1>3, <1>4 DEF Consistent, MayHaveTurn
  <1>9. RoundsGrow'
    <2>1. event[row.event].round = row.round /\ row.round \in Nat
      BY <1>1, StoreAssumption DEF Consistent, Delivery
    <2>2. QED
      BY <1>2, <1>3, <1>5, <2>1 DEF OnceInv, RoundsGrow
  <1>10. QED
    BY <1>1, <1>3, <1>7, <1>8, <1>9, OneMoves DEF OnceRest

\* A submission's turn has the submission's client id, which is no event's.
LEMMA AcceptedOnce ==
  ASSUME OnceInv, NEW i \in Inputs, SubmitAccepted(i), UNCHANGED runnerVars
  PROVE  OnceRest'
  <1> DEFINE client == BrowserClient(i)
             n == Len(turns) + 1
  <1>1. client \in Clients /\ AcceptTurn(client) /\ client.source = i /\ i \notin Events
    BY StoreAssumption DEF Clients, SubmitAccepted, BrowserClient
  <1>2. /\ DOMAIN turns' = DOMAIN turns \cup {n}
        /\ n \notin DOMAIN turns
        /\ turns'[n].client = client
        /\ \A t \in DOMAIN turns : turns'[t].client = turns[t].client
    BY <1>1, AddedTurn DEF OnceInv
  <1>3. \A t \in DOMAIN turns : turns[t].client # client
    BY DEF SubmitAccepted, OnceInv, SubmissionInv, SubmittedOnce, Sent
  <1>4. UNCHANGED <<event, delivery, loop, consumer>>
    BY DEF SubmitAccepted, storeVars, runnerVars
  <1>5. ASSUME NEW d \in Deliveries, Busy(d)
        PROVE  client # EventClient(delivery[d].event, delivery[d].round)
    BY <1>1, <1>5, OnceRows DEF EventClient
  <1> HIDE DEF client, n
  <1>6. OnePromptPerClientId'
    BY <1>2, <1>3 DEF OnceInv, OnePromptPerClientId
  <1>7. DeliveriesConsistent'
    BY <1>2, <1>4, <1>5 DEF OnceInv, DeliveriesConsistent, Consistent, Busy
  <1>8. OneDelivery' /\ RoundsGrow'
    BY <1>1, <1>2, <1>4 DEF OnceInv, OneDelivery, Busy, RoundsGrow
  <1>9. QED
    BY <1>6, <1>7, <1>8 DEF OnceRest

\* Every step of a delivery.
LEMMA DeliveryOnce ==
  ASSUME Continuous = FALSE, OnceInv, NEW d \in Deliveries, DeliveryStep(d)
  PROVE  OnceRest'
  <1> DEFINE row == delivery[d]
  <1>1. Busy(d) /\ row \in Delivery /\ Consistent(row, event, consumer, turns)
    <2>1. Busy(d)
      BY DEF DeliveryStep, Resume, Reconcile, Join, RenewClientId, StartTurn, TurnAnswered,
             TurnRecorded, Refused, TurnDone, DeliveryFails, Resumed, Busy
    <2>2. QED
      BY <2>1, OnceRows
  <1>2. UNCHANGED serverVars => SameClients
    BY DEF serverVars, SameClients
  <1>3. Abort(d) => OnceRest'
    BY <1>1, <1>2, ReturnOnce DEF Abort, GivesBack
  <1>4. CASE Reconcile(d) \/ TurnDone(d)
    <2>1. Abort(d) \/ Consumes(d)
      <3>1. Follows(row, turns)
        BY DEF OnceInv, TypeInv, FollowsItsTurn
      <3>2. \/ row.status = "completed"
            \/ row.stage = "waiting" /\ turns[row.turn].status = "completed"
        BY <1>4 DEF Reconcile, Resumed, TurnDone
      <3>3. QED
        BY <1>4, <3>1, <3>2
        DEF Reconcile, TurnDone, CompleteOrAbort, Consumes, Follows, KnowsTurn
    <2>2. ASSUME Consumes(d) PROVE OnceRest'
      <3>1. UNCHANGED serverVars
        BY <1>4 DEF Reconcile, TurnDone, CompleteOrAbort, Abort
      <3>2. QED
        BY <1>1, <1>2, <2>2, <3>1, ReturnOnce DEF Consumes
    <2>3. QED
      BY <1>3, <2>1, <2>2
  <1>5. CASE Resume(d)
    <2> DEFINE client == EventClient(row.event, row.round)
               t == FindClientTurn(client)
               status == IF t = NoTurn THEN "none" ELSE turns[t].status
               next == [row EXCEPT !.stage = "resumed", !.turn = t, !.status = status]
    <2>1. /\ delivery' = [delivery EXCEPT ![d] = next]
          /\ UNCHANGED <<event, consumer, turns, loop>> /\ row.stage = "connecting"
      BY <1>1, <1>5, OnceRows DEF Resume, Delivery, storeVars, serverVars
    <2>2. ServerTypeOK
      BY DEF OnceInv, TypeInv, TypeOK
    <2>3. t = NoTurn => \A s \in DOMAIN turns : turns[s].client # client
      BY <2>2, FindsTurn, TurnNumbers
    <2>4. t # NoTurn => status # "none"
      <3>1. t # NoTurn => t \in DOMAIN turns
        BY <2>2, FindsTurn
      <3>2. QED
        BY <2>2, <3>1, TurnNumbers DEF Turn, TurnStatus
    <2>5. /\ next.event = row.event /\ next.stage = "resumed" /\ next.status = status
          /\ next.attempt = row.attempt /\ next.round = row.round
      BY <1>1 DEF Delivery
    <2>6. status = "none" => \A s \in DOMAIN turns : turns[s].client # client
      BY <2>3, <2>4
    <2> HIDE DEF next, status, t
    <2>7. Consistent(next, event, consumer, turns)
      BY <1>1, <2>1, <2>5, <2>6 DEF Consistent, MayHaveTurn
    <2>8. QED
      BY <1>1, <2>1, <2>7, MovesOnce
  <1>6. CASE Join(d) \/ TurnAnswered(d) \/ TurnRecorded(d)
    <2>1. PICK stage \in {"waiting", "refused", "answered"} :
            delivery' = [delivery EXCEPT ![d] = [row EXCEPT !.stage = stage]]
      BY <1>6 DEF Join, TurnAnswered, TurnRecorded
    <2>2. UNCHANGED <<event, consumer, turns, loop>>
      BY <1>6 DEF Join, TurnAnswered, TurnRecorded, BeginUpdate, serverVars
    <2> DEFINE next == [row EXCEPT !.stage = stage]
    <2>3. /\ next.event = row.event /\ next.stage = stage /\ next.status = row.status
          /\ next.attempt = row.attempt /\ next.round = row.round
      BY <1>1 DEF Delivery
    <2> HIDE DEF next
    <2>4. Consistent(next, event, consumer, turns)
      BY <1>1, <2>3 DEF Consistent, MayHaveTurn, Busy
    <2>5. QED
      BY <1>1, <2>1, <2>2, <2>4, MovesOnce DEF next
  <1>7. CASE RenewClientId(d)
    BY <1>3, <1>7, RenewOnce DEF RenewClientId, Renews, Resumed
  <1>8. CASE StartTurn(d)
    BY <1>8, StartOnce
  <1>9. CASE Refused(d) \/ DeliveryFails(d)
    BY <1>3, <1>9 DEF Refused, DeliveryFails
  <1>10. QED
    BY <1>4, <1>5, <1>6, <1>7, <1>8, <1>9 DEF DeliveryStep

\* Every step of the loop.
LEMMA LoopOnce ==
  ASSUME Continuous = FALSE, OnceInv, LoopStep
  PROVE  OnceRest'
  <1>1. CASE Recover
    BY <1>1, RecoverOnce
  <1>2. ASSUME NEW d \in Deliveries, NEW e \in Events, Claim(d, e) PROVE OnceRest'
    BY <1>2, ClaimOnce
  <1>3. ASSUME ~Recover, ~\E d \in Deliveries, e \in Events : Claim(d, e)
        PROVE  OnceRest'
    <2>1. UNCHANGED <<event, consumer>> /\ loop # "await"
          /\ (delivery' = delivery \/ delivery' = Disconnected)
          /\ (turns' = turns \/ turns' = LostTurns)
      BY <1>3
      DEF LoopStep, Checkpoint, CheckpointRecorded, RuntimeHealthy, KillRuntime,
          StartRuntime, StartRuntimeFails, NothingToClaim, storeVars, serverVars, BeginUpdate
    <2>2. SameClients
      BY <2>1, LostTypes DEF SameClients, TurnsGoOn, OnceInv, TypeInv, TypeOK
    <2>3. QED
      BY <2>1, <2>2, NothingMoves DEF OnceRest
  <1>4. QED
    BY <1>1, <1>2, <1>3

\* Every step.
LEMMA StepOnce ==
  ASSUME Continuous = FALSE, OnceInv, [Next]_vars
  PROVE  OnceInv'
  <1>1. TypeInv' /\ SubmissionInv'
    BY StepTypes, StepSubmits DEF OnceInv
  <1>2. UNCHANGED turns => SameClients
    BY DEF SameClients
  <1>3. ASSUME GatewayNext, UNCHANGED runnerVars PROVE OnceRest'
    <2>1. ASSUME ~\E i \in Inputs : SubmitAccepted(i)
          PROVE  SameClients /\ event' = event
      BY <1>2, <1>3, <2>1
      DEF GatewayNext, QueueFollowup, Steer, Submit, SubmitFails, SubmitAnswered,
          SubmitRecorded, TurnStarted, TurnStartedRecorded, TurnCompleted, serverVars,
          storeVars, BeginUpdate
    <2>2. QED
      BY <1>3, <2>1, AcceptedOnce, NothingMoves DEF runnerVars, OnceRest
  <1>4. ASSUME NEW t \in Turns, TurnEnds(t) PROVE OnceRest'
    <2>1. SameClients
      BY <1>4, EndTypes DEF TurnEnds, SameClients, TurnsGoOn, OnceInv, TypeInv, TypeOK
    <2>2. QED
      BY <1>4, <2>1, NothingMoves DEF TurnEnds, storeVars, runnerVars, OnceRest
  <1>5. ASSUME RunnerCrash PROVE OnceRest'
    <2>1. SameClients /\ event' = event
      BY <1>5 DEF RunnerCrash, serverVars, SameClients
    <2>2. \A d \in Deliveries : delivery'[d].stage = "idle"
      BY <1>5 DEF RunnerCrash, IdleDelivery
    <2>3. QED
      BY <2>1, <2>2, AllIdle, RoundsKept, ClientsKept DEF OnceRest
  <1>6. ASSUME RuntimeFails PROVE OnceRest'
    <2>1. UNCHANGED <<event, consumer, loop>>
          /\ (delivery' = delivery \/ delivery' = Disconnected)
          /\ (turns' = turns \/ turns' = LostTurns)
      BY <1>6 DEF RuntimeFails
    <2>2. SameClients
      BY <2>1, LostTypes DEF SameClients, TurnsGoOn, OnceInv, TypeInv, TypeOK
    <2>3. QED
      BY <2>1, <2>2, NothingMoves DEF OnceRest
  <1>7. ASSUME UNCHANGED vars PROVE OnceRest'
    BY <1>2, <1>7, NothingMoves DEF vars, storeVars, serverVars, runnerVars, OnceRest
  <1>8. OnceRest'
    BY <1>3, <1>4, <1>5, <1>6, <1>7, PollOnce, LoopOnce, DeliveryOnce DEF Next
  <1>9. QED
    BY <1>1, <1>8 DEF OnceInv, OnceRest

\* With `party run --once` no prompt is submitted twice under one client
\* message id, whatever crashes, answers late, or is lost.
THEOREM OncePerClientId ==
  ASSUME Continuous = FALSE
  PROVE  Spec => []OnePromptPerClientId
  <1>1. Init => OnceInv
    <2> SUFFICES ASSUME Init PROVE OnceInv
      OBVIOUS
    <2> USE DEF Init
    <2>1. TypeInv
      BY InitTypes
    <2>2. turns = <<>> /\ DOMAIN turns = {} /\ followups = <<>> /\ DOMAIN followups = {}
      BY DEF ServerInit, GatewayInit
    <2>3. SubmissionInv /\ OnePromptPerClientId
      BY <2>2 DEF SubmissionInv, FollowupsQueued, SubmittedOnce, OnePromptPerClientId
    <2>4. OneDelivery /\ DeliveriesConsistent
      BY DEF IdleDelivery, OneDelivery, Busy, DeliveriesConsistent, Consistent
    <2>5. RoundsGrow
      BY <2>2 DEF StoreInit, NoRow, RoundsGrow
    <2>6. QED
      BY <2>1, <2>3, <2>4, <2>5 DEF OnceInv
  <1>2. OnceInv /\ [Next]_vars => OnceInv'
    BY StepOnce
  <1>3. OnceInv => OnePromptPerClientId
    BY DEF OnceInv
  <1>4. QED
    BY <1>1, <1>2, <1>3, PTL DEF Spec

-----------------------------------------------------------------------------
(***************************************************************************)
(* The deliveries implement EventFeed, as long as nobody submits in the    *)
(* browser: a browser submission whose write-back of pending_operation is  *)
(* torn hides a delivering event from recoverInterruptedEvents, and the    *)
(* loop then claims a second one.                                          *)
(***************************************************************************)

\* One event is delivering at a time, and none after the recovery that
\* precedes a claim.
AtMostOneDelivering == \A e, f \in Delivering : e = f
ClaimsOne == loop = "claim" => Delivering = {}

\* An event that has not been discovered has no place in line.
AbsentUnplaced == \A e \in Events : event[e].state = "absent" => event[e].sequence = 0

FeedInv == TypeInv /\ AtMostOneDelivering /\ ClaimsOne /\ AbsentUnplaced

\* The stage that EventFeed sees of a row, state by state.
StagesAgree ==
  \A e \in Events :
    /\ event[e].state \in EventStates
    /\ event[e].state = "absent" => FeedStage(e) = "absent"
    /\ event[e].state = "pending" => FeedStage(e) = "waiting"
    /\ event[e].state = "delivering" => FeedStage(e) = "working"
    /\ event[e].state = "consumed" => FeedStage(e) = "done"

\* Every row has the stage that belongs to its state.
LEMMA StagesShown == TypeInv => StagesAgree
  BY DEF TypeInv, TypeOK, StoreTypeOK, EventRow, EventStates, FeedStage, StagesAgree

\* The same after a step.
LEMMA StagesShownNext == TypeInv' => StagesAgree'
  BY DEF TypeInv, TypeOK, StoreTypeOK, EventRow, EventStates, FeedStage, StagesAgree

\* What the recovery needs to know of the operation: without browser
\* submissions it is never the claim of one.
LEMMA NoBrowserClaim ==
  ASSUME Inputs = {}, TypeInv
  PROVE  pendingOperation.kind # "browser-submit"
  BY DEF TypeInv, TypeOK, StoreTypeOK, Operations, NoOperation, EventSubmit, TurnOperation

\* The loop comes to its claim by a recovery, and leaves it when it claims.
LEMMA ClaimAfterRecovery ==
  ASSUME [Next]_vars, loop' = "claim"
  PROVE  /\ loop = "claim" \/ Recover
         /\ ~\E d \in Deliveries, e \in Events : Claim(d, e)
  <1>1. ASSUME LoopStep PROVE Recover
    BY <1>1
    DEF LoopStep, Checkpoint, CheckpointRecorded, RuntimeHealthy, KillRuntime, StartRuntime,
        StartRuntimeFails, Claim, NothingToClaim
  <1>2. ASSUME NEW d \in Deliveries, DeliveryStep(d) PROVE loop = "claim"
    BY <1>2
    DEF DeliveryStep, Resume, Reconcile, Join, RenewClientId, StartTurn, TurnAnswered,
        TurnRecorded, Refused, TurnDone, DeliveryFails, CompleteOrAbort, Abort, Return
  <1>3. ~\E d \in Deliveries, e \in Events : Claim(d, e)
    BY DEF Claim
  <1>4. QED
    BY <1>1, <1>2, <1>3
    DEF Next, Poll, TurnEnds, RunnerCrash, RuntimeFails, vars, runnerVars

\* What a step does to the rows, in the terms of EventFeed: nothing, or one
\* row moves and the others stay.
RowMoves(e, from, to) ==
  /\ event[e].state = from /\ event'[e].state = to
  /\ event'[e].sequence = event[e].sequence
  /\ \A f \in Events \ {e} : event'[f].state = event[f].state
                             /\ event'[f].sequence = event[f].sequence

RowsStay ==
  \A e \in Events : event'[e].state = event[e].state
                    /\ event'[e].sequence = event[e].sequence

RowArrives(e) ==
  /\ event[e].state = "absent" /\ event'[e].state = "pending"
  /\ event'[e].sequence \in Nat
  /\ \A f \in Events : event[f].sequence < event'[e].sequence
  /\ \A f \in Events \ {e} : event'[f] = event[f]

RowTakenUp(e) ==
  /\ loop = "claim" /\ loop' # "claim"
  /\ RowMoves(e, "pending", "delivering")
  /\ Delivering = {}
  /\ \A f \in Events \ {e} : event[f].state = "pending" => Precedes(e, f)

\* Every step does one of these.
LEMMA StepRows ==
  ASSUME Inputs = {}, FeedInv, [Next]_vars
  PROVE  \/ RowsStay
         \/ \E e \in Events : RowArrives(e) \/ RowTakenUp(e)
         \/ \E e \in Events : RowMoves(e, "delivering", "pending")
                              \/ RowMoves(e, "delivering", "consumed")
  <1>1. event \in [Events -> EventRow]
    BY DEF FeedInv, TypeInv, TypeOK, StoreTypeOK
  <1>2. ASSUME event' = event PROVE RowsStay
    BY <1>2 DEF RowsStay
  <1>3. ASSUME NEW e \in Events, Poll(e) PROVE RowArrives(e)
    <2>1. /\ event[e].state = "absent"
          /\ event' = [event EXCEPT ![e] =
               [event[e] EXCEPT !.state = "pending", !.sequence = NextSequence]]
      BY <1>3 DEF Poll, EnqueueEvent
    <2>2. NextSequence \in Nat /\ \A f \in Rows : event[f].sequence < NextSequence
      BY NextSequenceIsNext DEF FeedInv, TypeInv, TypeOK
    <2>3. NextSequence >= 1
      <3>1. {0} \cup {event[f].sequence : f \in Rows} \in SUBSET Nat
        BY <1>1 DEF EventRow, Rows
      <3>2. PICK b \in Nat : \A f \in Events : event[f].sequence <= b
        BY DEF FeedInv, TypeInv, SequencesBounded
      <3>3. \A x \in {0} \cup {event[f].sequence : f \in Rows} : x <= b
        BY <3>2 DEF Rows
      <3> DEFINE S == {0} \cup {event[f].sequence : f \in Rows}
      <3>4. 0 \in S /\ Max(S) \in Nat /\ 0 <= Max(S)
        BY <3>1, <3>3, MaxOfNats
      <3> HIDE DEF S
      <3>5. NextSequence = Max(S) + 1
        BY DEF NextSequence, S
      <3>6. QED
        BY <3>4, <3>5
    <2>4. \A f \in Events : event[f].sequence < NextSequence
      BY <2>2, <2>3 DEF Rows, FeedInv, AbsentUnplaced
    <2>5. event'[e].state = "pending" /\ event'[e].sequence = NextSequence
          /\ \A f \in Events \ {e} : event'[f] = event[f]
      BY <1>1, <2>1 DEF EventRow
    <2>6. QED
      BY <2>1, <2>2, <2>4, <2>5 DEF RowArrives
  <1>4. ASSUME Recover
        PROVE  RowsStay \/ \E e \in Events : RowMoves(e, "delivering", "pending")
    <2>1. CASE Delivering = {}
      BY <1>2, <1>4, <2>1 DEF Recover, RecoverInterruptedEvents
    <2>2. CASE Delivering # {}
      <3>1. PICK e \in Events : e \in Delivering /\ \A f \in Delivering : f = e
        BY <2>2 DEF FeedInv, AtMostOneDelivering, Delivering
      <3>2. event' = [f \in Events |->
                        IF f \in Delivering
                        THEN [event[f] EXCEPT !.state = "pending", !.consumer = NoConsumer]
                        ELSE event[f]]
        BY <1>4, <2>2, NoBrowserClaim DEF Recover, RecoverInterruptedEvents, FeedInv
      <3>3. \A f \in Events \ {e} : event'[f] = event[f]
        BY <3>1, <3>2
      <3>4. event'[e] = [event[e] EXCEPT !.state = "pending", !.consumer = NoConsumer]
        BY <3>1, <3>2
      <3>5. event[e] \in EventRow /\ event[e].state = "delivering"
        BY <1>1, <3>1 DEF Delivering
      <3>6. QED
        BY <3>3, <3>4, <3>5 DEF RowMoves, EventRow
    <2>3. QED
      BY <2>1, <2>2
  <1>5. ASSUME NEW d \in Deliveries, NEW e \in Events, Claim(d, e) PROVE RowTakenUp(e)
    <2>1. /\ loop = "claim" /\ loop' # "claim"
          /\ e \in FirstOpen /\ event[e].state = "pending"
          /\ event' = [event EXCEPT ![e] =
               [event[e] EXCEPT !.state = "delivering", !.consumer = consumer,
                                !.attempts = @ + 1]]
      BY <1>5 DEF Claim, ClaimNextOrdered
    <2>2. \A f \in Events \ {e} : event[f].state = "pending" => Precedes(e, f)
      BY <2>1 DEF FirstOpen, Rows
    <2>3. RowMoves(e, "pending", "delivering")
      BY <1>1, <2>1 DEF RowMoves, EventRow
    <2>4. QED
      BY <2>1, <2>2, <2>3 DEF RowTakenUp, FeedInv, ClaimsOne
  <1>6. ASSUME NEW d \in Deliveries, GivesBack(d)
        PROVE  RowsStay \/ \E e \in Events : RowMoves(e, "delivering", "pending")
    <2> DEFINE e == delivery[d].event
    <2>1. CASE OwnedBy(e, consumer)
      <3>1. event' = [event EXCEPT ![e] =
              [event[e] EXCEPT !.state = "pending", !.consumer = NoConsumer]]
        BY <1>6, <2>1 DEF GivesBack, RequeueForReconciliation
      <3>2. CASE e \in Events
        <4>1. event[e] \in EventRow /\ event[e].state = "delivering"
          BY <1>1, <2>1, <3>2 DEF OwnedBy
        <4>2. RowMoves(e, "delivering", "pending")
          BY <1>1, <3>1, <3>2, <4>1 DEF RowMoves, EventRow
        <4>3. QED
          BY <3>2, <4>2
      <3>3. CASE e \notin Events
        BY <1>1, <1>2, <3>1, <3>3
      <3>4. QED
        BY <3>2, <3>3
    <2>2. CASE ~OwnedBy(e, consumer)
      BY <1>2, <1>6, <2>2 DEF GivesBack, RequeueForReconciliation
    <2>3. QED
      BY <2>1, <2>2
  <1>7. ASSUME NEW d \in Deliveries, Consumes(d)
        PROVE  RowsStay \/ \E e \in Events : RowMoves(e, "delivering", "consumed")
    <2> DEFINE e == delivery[d].event
    <2>1. event' = [event EXCEPT ![e] = [event[e] EXCEPT !.state = "consumed"]]
          /\ event[e].state = "delivering"
      BY <1>7 DEF Consumes, CompleteEventAndRelease, OwnedBy
    <2>2. CASE e \in Events
      <3>1. event[e] \in EventRow
        BY <1>1, <2>2
      <3>2. RowMoves(e, "delivering", "consumed")
        BY <1>1, <2>1, <2>2, <3>1 DEF RowMoves, EventRow
      <3>3. QED
        BY <2>2, <3>2
    <2>3. CASE e \notin Events
      BY <1>1, <1>2, <2>1, <2>3
    <2>4. QED
      BY <2>2, <2>3
  <1>8. ASSUME NEW d \in Deliveries, Renews(d) PROVE RowsStay
    <2>1. event' = [event EXCEPT ![delivery[d].event] =
                      [event[delivery[d].event] EXCEPT !.round = delivery[d].attempt]]
      BY <1>8 DEF Renews
    <2>2. ASSUME NEW f \in Events
          PROVE  event'[f] \in {event[f], [event[f] EXCEPT !.round = delivery[d].attempt]}
      BY <1>1, <2>1
    <2>3. QED
      BY <1>1, <2>2 DEF RowsStay, EventRow
  <1>9. QED
    BY <1>2, <1>3, <1>4, <1>5, <1>6, <1>7, <1>8, StepWrites DEF FeedInv

\* No step makes a second event delivering, or brings the loop to a claim
\* while one is.
LEMMA StepKeepsFeed ==
  ASSUME Inputs = {}, FeedInv, [Next]_vars
  PROVE  FeedInv'
  <1> USE DEF AtMostOneDelivering, Delivering
  <1>1. TypeInv'
    BY StepTypes DEF FeedInv
  <1>2. AtMostOneDelivering'
    <2>1. CASE RowsStay
      BY <2>1 DEF RowsStay, FeedInv
    <2>2. ASSUME NEW e \in Events, RowArrives(e) PROVE AtMostOneDelivering'
      BY <2>2 DEF RowArrives, FeedInv
    <2>3. ASSUME NEW e \in Events, RowTakenUp(e) PROVE AtMostOneDelivering'
      BY <2>3 DEF RowTakenUp, RowMoves
    <2>4. ASSUME NEW e \in Events,
                 RowMoves(e, "delivering", "pending") \/ RowMoves(e, "delivering", "consumed")
          PROVE  AtMostOneDelivering'
      BY <2>4 DEF RowMoves, FeedInv
    <2>5. QED
      BY <2>1, <2>2, <2>3, <2>4, StepRows
  <1>3. ClaimsOne'
    <2> SUFFICES ASSUME loop' = "claim" PROVE Delivering' = {}
      BY DEF ClaimsOne
    <2>1. CASE Recover
      <3>1. event \in [Events -> EventRow]
        BY DEF FeedInv, TypeInv, TypeOK, StoreTypeOK
      <3>2. CASE Delivering = {}
        BY <2>1, <3>2 DEF Recover, RecoverInterruptedEvents
      <3>3. CASE Delivering # {}
        <4>1. event' = [f \in Events |->
                          IF f \in Delivering
                          THEN [event[f] EXCEPT !.state = "pending", !.consumer = NoConsumer]
                          ELSE event[f]]
          BY <2>1, <3>3, NoBrowserClaim DEF Recover, RecoverInterruptedEvents, FeedInv
        <4>2. ASSUME NEW f \in Events PROVE event'[f].state # "delivering"
          BY <3>1, <4>1 DEF EventRow
        <4>3. QED
          BY <4>2
      <3>4. QED
        BY <3>2, <3>3
    <2>2. CASE ~Recover
      <3>1. loop = "claim" /\ Delivering = {}
        BY <2>2, ClaimAfterRecovery DEF FeedInv, ClaimsOne
      <3>2. CASE RowsStay
        BY <3>1, <3>2 DEF RowsStay
      <3>3. ASSUME NEW e \in Events, RowArrives(e) PROVE Delivering' = {}
        BY <3>1, <3>3 DEF RowArrives
      <3>4. ASSUME NEW e \in Events, RowTakenUp(e) PROVE FALSE
        BY <3>4 DEF RowTakenUp
      <3>5. ASSUME NEW e \in Events,
                   RowMoves(e, "delivering", "pending")
                     \/ RowMoves(e, "delivering", "consumed")
            PROVE  FALSE
        BY <3>1, <3>5 DEF RowMoves
      <3>6. QED
        BY <3>2, <3>3, <3>4, <3>5, StepRows
    <2>3. QED
      BY <2>1, <2>2
  <1>4. AbsentUnplaced'
    <2>1. \A e \in Events : event[e].state = "absent" => event[e].sequence = 0
      BY DEF FeedInv, AbsentUnplaced
    <2>2. ASSUME NEW f \in Events, event'[f].state = "absent" PROVE event'[f].sequence = 0
      <3>1. CASE RowsStay
        BY <2>1, <2>2, <3>1 DEF RowsStay
      <3>2. ASSUME NEW e \in Events, RowArrives(e) PROVE event'[f].sequence = 0
        BY <2>1, <2>2, <3>2 DEF RowArrives
      <3>3. ASSUME NEW e \in Events,
                   RowTakenUp(e) \/ RowMoves(e, "delivering", "pending")
                     \/ RowMoves(e, "delivering", "consumed")
            PROVE  event'[f].sequence = 0
        BY <2>1, <2>2, <3>3 DEF RowMoves, RowTakenUp
      <3>4. QED
        BY <3>1, <3>2, <3>3, StepRows
    <2>3. QED
      BY <2>2 DEF AbsentUnplaced
  <1>5. QED
    BY <1>1, <1>2, <1>3, <1>4 DEF FeedInv

\* Every step is a step of EventFeed, or leaves what it shows alone.
LEMMA StepFeeds ==
  ASSUME Inputs = {}, FeedInv, FeedInv', [Next]_vars
  PROVE  [Feed!FeedNext]_(Feed!feedVars)
  <1>1. StagesAgree /\ StagesAgree' /\ event \in [Events -> EventRow]
        /\ event' \in [Events -> EventRow]
    BY StagesShown, StagesShownNext DEF FeedInv, TypeInv, TypeOK, StoreTypeOK
  <1>2. \A f \in Events : event'[f].state = event[f].state
                          => FeedStage(f)' = FeedStage(f)
    BY DEF FeedStage
  <1>3. CASE RowsStay
    BY <1>2, <1>3 DEF RowsStay, Feed!feedVars
  <1>4. ASSUME NEW e \in Events, RowArrives(e) PROVE Feed!FeedNext
    <2>1. Feed!Arrive(e)
      <3>1. FeedStage(e) = "absent" /\ FeedStage(e)' = "waiting"
        BY <1>1, <1>4 DEF RowArrives, StagesAgree
      <3>2. \A f \in Events \ {e} : FeedStage(f)' = FeedStage(f)
        BY <1>2, <1>4 DEF RowArrives
      <3>3. [f \in Events |-> event'[f].sequence] \in [Events -> Nat]
        BY <1>1 DEF EventRow
      <3>4. \A f \in Events \ {e} : event'[f].sequence = event[f].sequence
                                    /\ event[f].sequence < event'[e].sequence
        BY <1>4 DEF RowArrives
      <3>5. QED
        BY <3>1, <3>2, <3>3, <3>4 DEF Feed!Arrive
    <2>2. QED
      BY <2>1 DEF Feed!FeedNext
  <1>5. ASSUME NEW e \in Events, RowTakenUp(e) PROVE Feed!FeedNext
    <2>1. FeedStage(e) = "waiting" /\ FeedStage(e)' = "working"
      BY <1>1, <1>5 DEF RowTakenUp, RowMoves, StagesAgree
    <2>2. \A f \in Events \ {e} :
            /\ FeedStage(f)' = FeedStage(f)
            /\ FeedStage(f) # "working"
            /\ FeedStage(f) = "waiting" => Precedes(e, f)
      <3> SUFFICES ASSUME NEW f \in Events \ {e}
                   PROVE  /\ FeedStage(f)' = FeedStage(f)
                          /\ FeedStage(f) # "working"
                          /\ FeedStage(f) = "waiting" => Precedes(e, f)
        OBVIOUS
      <3>1. event[f].state \in EventStates \ {"delivering"}
        BY <1>1, <1>5 DEF RowTakenUp, Delivering, StagesAgree
      <3>2. FeedStage(f) # "working"
        BY <1>1, <3>1 DEF StagesAgree, EventStates
      <3>3. FeedStage(f) = "waiting" => event[f].state = "pending"
        BY <1>1, <3>1 DEF StagesAgree, EventStates
      <3>4. QED
        BY <1>2, <1>5, <3>2, <3>3 DEF RowTakenUp, RowMoves
    <2>3. \A f \in Events : event'[f].sequence = event[f].sequence
      BY <1>5 DEF RowTakenUp, RowMoves
    <2>4. Feed!TakeUp(e)
      BY <2>1, <2>2, <2>3 DEF Feed!TakeUp, Feed!Before, Precedes
    <2>5. QED
      BY <2>4 DEF Feed!FeedNext
  <1>6. ASSUME NEW e \in Events, NEW to \in {"pending", "consumed"},
               RowMoves(e, "delivering", to)
        PROVE  Feed!FeedNext
    <2>1. FeedStage(e) = "working"
      BY <1>1, <1>6 DEF RowMoves, StagesAgree
    <2>2. \A f \in Events \ {e} : FeedStage(f)' = FeedStage(f)
      BY <1>2, <1>6 DEF RowMoves
    <2>3. \A f \in Events : event'[f].sequence = event[f].sequence
      BY <1>6 DEF RowMoves
    <2>4. CASE to = "pending"
      <3>1. FeedStage(e)' = "waiting"
        BY <1>1, <1>6, <2>4 DEF RowMoves, StagesAgree
      <3>2. Feed!GiveUp(e)
        BY <2>1, <2>2, <2>3, <3>1 DEF Feed!GiveUp
      <3>3. QED
        BY <3>2 DEF Feed!FeedNext
    <2>5. CASE to = "consumed"
      <3>1. FeedStage(e)' = "done"
        BY <1>1, <1>6, <2>5 DEF RowMoves, StagesAgree
      <3>2. Feed!Finish(e)
        BY <2>1, <2>2, <2>3, <3>1 DEF Feed!Finish
      <3>3. QED
        BY <3>2 DEF Feed!FeedNext
    <2>6. QED
      BY <2>4, <2>5
  <1>7. QED
    BY <1>3, <1>4, <1>5, <1>6, StepRows

\* Without browser submissions, the store and the deliveries implement
\* EventFeed, whatever fails: one event at a time, the earliest that is not
\* done, and a consumed event is never taken up again.
THEOREM FeedImplemented ==
  ASSUME Inputs = {}
  PROVE  Spec => ImplementsEventFeed
  <1>1. Init => FeedInv /\ Feed!FeedInit
    <2> SUFFICES ASSUME Init PROVE FeedInv /\ Feed!FeedInit
      OBVIOUS
    <2>1. event = [e \in Events |-> NoRow] /\ loop = "poll" /\ TypeInv
      BY InitTypes DEF Init, StoreInit
    <2>2. \A e \in Events : FeedStage(e) = "absent" /\ event[e].sequence = 0
      BY <2>1 DEF NoRow, FeedStage
    <2>3. AtMostOneDelivering /\ ClaimsOne /\ AbsentUnplaced
      BY <2>1 DEF AtMostOneDelivering, Delivering, ClaimsOne, AbsentUnplaced, NoRow
    <2>4. QED
      BY <2>1, <2>2, <2>3 DEF FeedInv, Feed!FeedInit
  <1>2. FeedInv /\ [Next]_vars => FeedInv'
    BY StepKeepsFeed
  <1>3. FeedInv /\ FeedInv' /\ [Next]_vars => [Feed!FeedNext]_(Feed!feedVars)
    BY StepFeeds
  <1>4. QED
    BY <1>1, <1>2, <1>3, PTL DEF Spec, ImplementsEventFeed, Feed!FeedSpec

\* A step leaves what has been consumed.
ConsumedStays == \A e \in Events : event[e].state = "consumed" => event'[e].state = "consumed"

\* goal-context.ts, with browser submissions as well: an event that is consumed stays
\* consumed; nothing enqueues, recovers, claims or gives it back again.
THEOREM ConsumedIsFinal == Spec => [][ConsumedStays]_vars
  <1>1. TypeInv /\ [Next]_vars => [ConsumedStays]_vars
    <2> SUFFICES ASSUME TypeInv, [Next]_vars, NEW e \in Events, event[e].state = "consumed"
                 PROVE  event'[e].state = "consumed"
      BY DEF ConsumedStays
    <2>1. event \in [Events -> EventRow] /\ event[e] \in EventRow
      BY DEF TypeInv, TypeOK, StoreTypeOK
    <2>2. ASSUME NEW f \in Events, Poll(f) PROVE event'[e] = event[e]
      BY <2>1, <2>2 DEF Poll, EnqueueEvent
    <2>3. ASSUME Recover PROVE event'[e] = event[e]
      BY <2>1, <2>3 DEF Recover, RecoverInterruptedEvents, Delivering
    <2>4. ASSUME NEW d \in Deliveries, NEW f \in Events, Claim(d, f)
          PROVE  event'[e] = event[e]
      BY <2>1, <2>4 DEF Claim, ClaimNextOrdered
    <2>5. ASSUME NEW d \in Deliveries, GivesBack(d) \/ Consumes(d) \/ Renews(d)
          PROVE  event'[e] = event[e]
      <3>1. e = delivery[d].event => ~OwnedBy(delivery[d].event, consumer)
        BY DEF OwnedBy
      <3>2. QED
        BY <2>1, <2>5, <3>1
        DEF GivesBack, Consumes, Renews, RequeueForReconciliation, CompleteEventAndRelease
    <2>6. QED
      BY <2>2, <2>3, <2>4, <2>5, StepWrites
  <1>2. Init => TypeInv
    BY InitTypes
  <1>3. TypeInv /\ [Next]_vars => TypeInv'
    BY StepTypes
  <1>4. QED
    BY <1>1, <1>2, <1>3, PTL DEF Spec
=============================================================================
