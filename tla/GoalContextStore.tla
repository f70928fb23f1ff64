-------------------------- MODULE GoalContextStore --------------------------
(***************************************************************************)
(* The rows of dispatcher/goal-context.ts that event delivery works on:    *)
(* the goal_events of one goal context and the pending_operation column of *)
(* its goal_contexts row.  Each operator below is one SQLite transaction   *)
(* (BEGIN IMMEDIATE ... COMMIT) or one autocommitted UPDATE; the processes *)
(* that share the database interleave between them.                        *)
(*                                                                         *)
(* updateRuntime is different: it reads the row in one statement and       *)
(* writes EVERY column back in another, outside a transaction.  It is      *)
(* split into BeginUpdate (the read) and FinishUpdate (the write), so that *)
(* another process may commit between the two.                             *)
(***************************************************************************)
EXTENDS Naturals, FiniteSets, FiniteSetsExt

CONSTANTS
  Events,       \* source events (the UNIQUE source_id)
  Inputs,       \* browser submissions, POST .../input
  SourceTime,   \* source_time of each event
  Consumers,    \* consumer names, `goal-runner:<pid>` by default
  NoConsumer,   \* SQL NULL in the consumer column
  MaxTurns,     \* bound: turns the app-server runs in a behaviour
  MaxAttempts   \* bound: claims of one event in a behaviour

ASSUME StoreAssumption ==
  /\ SourceTime \in [Events -> Nat]
  /\ NoConsumer \notin Consumers
  /\ MaxTurns \in Nat /\ MaxAttempts \in Nat
  /\ Events \cap Inputs = {}

VARIABLES
  event,             \* goal_events, one row per event ("absent": no row)
  pendingOperation,  \* goal_contexts.pending_operation
  reading            \* per process: the pending_operation an unfinished
                     \* updateRuntime has read and is about to write back

storeVars == <<event, pendingOperation, reading>>

Processes == {"runner", "gateway"}

Turns == 1..MaxTurns
NoTurn == 0

(***************************************************************************)
(* The values of pending_operation: NULL, `event-submit:<event id>`,       *)
(* `turn:<turn id>` and `browser-submit:<uuid>`.                           *)
(***************************************************************************)
NoOperation == [kind |-> "none", id |-> NoTurn]
EventSubmit(e) == [kind |-> "event-submit", id |-> e]
TurnOperation(t) == [kind |-> "turn", id |-> t]
BrowserSubmit(i) == [kind |-> "browser-submit", id |-> i]

Operations ==
  {NoOperation} \cup {EventSubmit(e) : e \in Events}
    \cup {TurnOperation(t) : t \in Turns} \cup {BrowserSubmit(i) : i \in Inputs}

NotReading == [kind |-> "not reading", id |-> NoTurn]

(***************************************************************************)
(* A goal_events row.  `round` stands for delivery_client_id: 0 is the     *)
(* source id itself and n > 0 is `<source id>:recovery:<n>`.  The store's  *)
(* failed state is left out: failEvent and requeueEvent have no caller.    *)
(***************************************************************************)
EventStates == {"absent", "pending", "delivering", "consumed"}

EventRow ==
  [state : EventStates, consumer : Consumers \cup {NoConsumer},
   attempts : 0..MaxAttempts, round : 0..MaxAttempts, sequence : Nat]

NoRow ==
  [state |-> "absent", consumer |-> NoConsumer,
   attempts |-> 0, round |-> 0, sequence |-> 0]

StoreTypeOK ==
  /\ event \in [Events -> EventRow]
  /\ pendingOperation \in Operations
  /\ reading \in [Processes -> Operations \cup {NotReading}]

StoreInit ==
  /\ event = [e \in Events |-> NoRow]
  /\ pendingOperation = NoOperation
  /\ reading = [p \in Processes |-> NotReading]

-----------------------------------------------------------------------------
Rows == {e \in Events : event[e].state # "absent"}
Delivering == {e \in Events : event[e].state = "delivering"}

\* A slip: ORDER BY sequence, the order of discovery.
DiscoveredBefore(e, f) == event[e].sequence < event[f].sequence

\* ORDER BY source_time, sequence (the sequence is already unique).
Precedes(e, f) ==
  \/ SourceTime[e] < SourceTime[f]
  \/ SourceTime[e] = SourceTime[f] /\ event[e].sequence < event[f].sequence

\* The first row that is not consumed, as a set of at most one event.
FirstOpen ==
  LET open == {e \in Rows : event[e].state # "consumed"}
  IN  {e \in open : \A f \in open \ {e} : Precedes(e, f)}

\* COALESCE(MAX(sequence), 0) + 1
NextSequence == Max({0} \cup {event[e].sequence : e \in Rows}) + 1

(***************************************************************************)
(* enqueueEvent.  A second observation of the same source id returns the   *)
(* existing row and changes nothing.                                       *)
(***************************************************************************)
EnqueueEvent(e) ==
  /\ event[e].state = "absent"
  /\ event' = [event EXCEPT ![e].state = "pending", ![e].sequence = NextSequence]
  /\ UNCHANGED <<pendingOperation, reading>>

\* claimNextOrdered, when it returns an event.
ClaimNextOrdered(e, consumer) ==
  /\ pendingOperation = NoOperation
  /\ e \in FirstOpen
  /\ event[e].state = "pending"
  /\ event[e].attempts < MaxAttempts
  /\ event' = [event EXCEPT ![e].state = "delivering", ![e].consumer = consumer,
                            ![e].attempts = @ + 1]
  /\ pendingOperation' = EventSubmit(e)
  /\ UNCHANGED reading

\* `pending_operation = 'event-submit:<id>' OR pending_operation LIKE 'turn:%'`
ReleasedBy(e) ==
  IF pendingOperation = EventSubmit(e) \/ pendingOperation.kind = "turn"
  THEN NoOperation ELSE pendingOperation

OwnedBy(e, consumer) ==
  event[e].state = "delivering" /\ event[e].consumer = consumer

\* finishOperation, applied to the value op of the column.
Finished(op, expected) == IF op = expected THEN NoOperation ELSE op

\* completeEventAndRelease followed by the caller's finishOperation(expected).
CompleteEventAndRelease(e, consumer, expected) ==
  /\ OwnedBy(e, consumer)
  /\ event' = [event EXCEPT ![e].state = "consumed"]
  /\ pendingOperation' = Finished(ReleasedBy(e), expected)
  /\ UNCHANGED reading

(***************************************************************************)
(* requeueDeliveringForReconciliation followed by the caller's             *)
(* finishOperation(expected).  It throws, and only finishOperation takes   *)
(* effect, when the event is not delivering for this consumer.             *)
(***************************************************************************)
RequeueForReconciliation(e, consumer, expected) ==
  /\ IF OwnedBy(e, consumer)
       THEN /\ event' = [event EXCEPT ![e].state = "pending",
                                      ![e].consumer = NoConsumer]
            /\ pendingOperation' = Finished(ReleasedBy(e), expected)
       ELSE /\ event' = event
            /\ pendingOperation' = Finished(pendingOperation, expected)
  /\ UNCHANGED reading

\* A slip: only an interrupted submission is recovered, not a started turn.
RecoverSubmissionsOnly ==
  /\ IF Delivering # {} /\ pendingOperation.kind \in {"none", "event-submit"}
       THEN /\ event' = [e \in Events |->
                 IF e \in Delivering
                 THEN [event[e] EXCEPT !.state = "pending", !.consumer = NoConsumer]
                 ELSE event[e]]
            /\ pendingOperation' = NoOperation
       ELSE UNCHANGED <<event, pendingOperation>>
  /\ UNCHANGED reading

(***************************************************************************)
(* recoverInterruptedEvents: unless a browser submission is pending, every *)
(* delivering event goes back to pending and the operation is cleared.     *)
(***************************************************************************)
RecoverInterruptedEvents ==
  /\ IF Delivering # {} /\ pendingOperation.kind # "browser-submit"
       THEN /\ event' = [e \in Events |->
                 IF e \in Delivering
                 THEN [event[e] EXCEPT !.state = "pending", !.consumer = NoConsumer]
                 ELSE event[e]]
            /\ pendingOperation' = NoOperation
       ELSE UNCHANGED <<event, pendingOperation>>
  /\ UNCHANGED reading

-----------------------------------------------------------------------------
(***************************************************************************)
(* updateRuntime by process p, in two statements.  FinishUpdate gives the  *)
(* value the column holds after the write, for the caller to build on.     *)
(***************************************************************************)
BeginUpdate(p) ==
  /\ reading[p] = NotReading
  /\ reading' = [reading EXCEPT ![p] = pendingOperation]
  /\ UNCHANGED <<event, pendingOperation>>

FinishUpdate(p) ==
  /\ reading[p] # NotReading
  /\ reading' = [reading EXCEPT ![p] = NotReading]

Abandon(p) == reading' = [reading EXCEPT ![p] = NotReading]
=============================================================================
