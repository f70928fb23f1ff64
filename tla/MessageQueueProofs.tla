------------------------- MODULE MessageQueueProofs -------------------------
(***************************************************************************)
(* Theorems about MessageQueue, for any messages, consumers, reports,      *)
(* lease duration, staleness of the clock and bounds.                      *)
(***************************************************************************)
EXTENDS MessageQueue, TLAPS

\* Closing the open attempt keeps the attempts of a message well typed.
LEMMA FinishedType ==
  ASSUME NEW rows \in [Numbers -> AttemptRow],
         NEW outcome \in {"receipted", "failed", "lease_expired"}
  PROVE  Finished(rows, outcome) \in [Numbers -> AttemptRow]
  BY DEF Finished, AttemptRow

\* So does every update of a message row that an operation makes.
LEMMA RowType ==
  ASSUME NEW row \in MessageRow, NEW state \in States, NEW time \in Nat
  PROVE  /\ [row EXCEPT !.state = state] \in MessageRow
         /\ [row EXCEPT !.expiry = time] \in MessageRow
         /\ Released(row, state) \in MessageRow
         /\ Requeued(row, time) \in MessageRow
  BY DEF Released, Requeued, MessageRow, Owners, States

\* What Released and Requeued leave in the columns the invariants look at.
LEMMA RowFields ==
  ASSUME NEW row \in MessageRow, NEW state \in States, NEW time \in Nat
  PROVE  /\ Released(row, state).attemptCount = row.attemptCount
         /\ Released(row, state).state = state
         /\ Released(row, state).owner = NoConsumer
         /\ Released(row, state).expiry = 0
         /\ Requeued(row, time).attemptCount = row.attemptCount
         /\ Requeued(row, time).state = "queued"
         /\ Requeued(row, time).owner = NoConsumer
         /\ Requeued(row, time).expiry = 0
  BY DEF Released, Requeued, MessageRow

\* A claim below the bound has the number of a new attempt.
LEMMA ClaimNumber ==
  ASSUME NEW row \in MessageRow, row.attemptCount < MaxAttempts
  PROVE  AttemptNumber(row) = row.attemptCount + 1 /\ AttemptNumber(row) \in Numbers
  BY QueueAssumption DEF AttemptNumber, MessageRow, Numbers

\* The row of a claimed message is well typed ...
LEMMA ClaimedRowType ==
  ASSUME NEW row \in MessageRow, NEW number \in Numbers, NEW c \in Consumers,
         NEW time \in Nat
  PROVE  [row EXCEPT !.state = "leased", !.attemptCount = number,
                     !.owner = c, !.expiry = time] \in MessageRow
  <1>1. number \in 0..MaxAttempts
    BY QueueAssumption DEF Numbers
  <1>2. QED
    BY <1>1 DEF MessageRow, Owners, States

\* ... and so is the row of a new one.
LEMMA EnqueuedRowType ==
  ASSUME NEW at \in Nat, NEW time \in Nat
  PROVE  [NoMessage EXCEPT !.state = "queued", !.createdAt = at, !.availableAt = time]
           \in MessageRow
  <1>1. NoMessage \in MessageRow
    BY QueueAssumption DEF NoMessage, MessageRow, Owners, States
  <1>2. \A row \in MessageRow :
          [row EXCEPT !.state = "queued", !.createdAt = at, !.availableAt = time]
            \in MessageRow
    BY DEF MessageRow, States
  <1>3. QED
    BY <1>1, <1>2

\* The two updates of #requeueExpiredLeases keep the tables well typed.
LEMMA ExpiryType ==
  ASSUME TypeOK, NEW at \in Nat
  PROVE  /\ MessagesAfterExpiry(at) \in [Messages -> MessageRow]
         /\ AttemptsAfterExpiry(at) \in [Messages -> [Numbers -> AttemptRow]]
  <1>1. \A m \in Messages : Requeued(message[m], at) \in MessageRow
    BY RowType DEF TypeOK, States
  <1>2. \A m \in Messages : Finished(attempt[m], "lease_expired") \in [Numbers -> AttemptRow]
    BY FinishedType DEF TypeOK
  <1>3. QED
    BY <1>1, <1>2 DEF MessagesAfterExpiry, AttemptsAfterExpiry, TypeOK

\* Times an operation reads are natural numbers, and past.
LEMMA ReadTimesNat == \A at \in ReadTimes : at \in Nat /\ at <= now
  BY QueueAssumption DEF ReadTimes

(***************************************************************************)
(* A step of the queue whose time was read at any time before, in or out   *)
(* of the bounds of Next, that may also record several workers at once.    *)
(* The invariants are inductive for these steps, so they hold for whatever *)
(* composes the operations.                                                *)
(***************************************************************************)
WorkerTable == [Agents -> [availability : WorkerAvailabilities, observedAt : Nat]]

WorkersRecorded ==
  /\ worker' \in WorkerTable
  /\ UNCHANGED <<message, attempt, receipts, interruption, escalation, alive, now>>

QueueStep ==
  \/ \E m \in Messages, at \in Nat :
       /\ at <= now
       /\ \/ \E c \in Consumers : ConsumerStep(m, c, at)
          \/ RecipientStep(m, at) \/ OperatorStep(m, at)
  \/ \E at \in Nat : at <= now /\ RequeueExpired(at)
  \/ \E k \in Topics : CreateEscalation(k)
  \/ \E k \in Reports \cup Topics : ResolveEscalation(k)
  \/ WorkersRecorded
  \/ \E c \in Consumers : Crash(c)
  \/ Tick

\* Every step of the specification is one.
LEMMA NextIsQueueStep == TypeOK /\ [Next]_vars => [QueueStep]_vars
  <1> SUFFICES ASSUME TypeOK, [Next]_vars PROVE [QueueStep]_vars
    OBVIOUS
  <1>1. now \in Nat
    BY DEF TypeOK, Times
  <1>2. ASSUME RequeueExpiredLeases \/ \E at \in ReadTimes : ClaimNothing(at)
        PROVE  QueueStep
    BY <1>1, <1>2, ReadTimesNat DEF QueueStep, RequeueExpiredLeases, ClaimNothing
  <1>3. ASSUME NEW a \in Agents, NEW v \in Observable, NEW at \in 0..MaxTime,
               SetWorkerAvailability(a, v, at)
        PROVE  QueueStep
    <2>1. v \in WorkerAvailabilities /\ at \in Nat /\ worker \in WorkerTable
      BY QueueAssumption DEF TypeOK, WorkerTable
    <2>2. WorkersRecorded
      BY <1>3, <2>1 DEF SetWorkerAvailability, WorkersRecorded, WorkerTable
    <2>3. QED
      BY <2>2 DEF QueueStep
  <1>4. QED
    BY <1>2, <1>3, ReadTimesNat DEF Next, QueueStep

\* Every step keeps the types: one case per operation.
LEMMA TypesInductive == TypeOK /\ [QueueStep]_vars => TypeOK'
  <1> SUFFICES ASSUME TypeOK, [QueueStep]_vars PROVE TypeOK'
    OBVIOUS
  <1> USE QueueAssumption
  <1>1. ASSUME NEW m \in Messages, NEW c \in Consumers, NEW at \in Nat,
               NEW allowed \in ClaimOptions, ClaimNext(m, c, at, allowed)
        PROVE  TypeOK'
    <2> DEFINE rows == MessagesAfterExpiry(at)
               ledger == AttemptsAfterExpiry(at)
               number == AttemptNumber(rows[m])
    <2>1. /\ rows \in [Messages -> MessageRow]
          /\ ledger \in [Messages -> [Numbers -> AttemptRow]]
          /\ number \in Numbers
      BY <1>1, ExpiryType, ClaimNumber DEF ClaimNext
    <2>2. message' = [rows EXCEPT ![m] =
            [rows[m] EXCEPT !.state = "leased", !.attemptCount = number,
                            !.owner = c, !.expiry = at + LeaseMs]]
      BY <1>1 DEF ClaimNext
    <2>3. attempt' = [ledger EXCEPT ![m] =
            [ledger[m] EXCEPT ![number] = [consumer |-> c, outcome |-> "open"]]]
      BY <1>1 DEF ClaimNext
    <2> HIDE DEF rows, ledger, number
    <2>4. message' \in [Messages -> MessageRow]
      <3>1. at + LeaseMs \in Nat
        OBVIOUS
      <3>2. [rows[m] EXCEPT !.state = "leased", !.attemptCount = number,
                            !.owner = c, !.expiry = at + LeaseMs] \in MessageRow
        BY <2>1, <3>1, ClaimedRowType
      <3>3. QED
        BY <2>1, <2>2, <3>2
    <2>5. attempt' \in [Messages -> [Numbers -> AttemptRow]]
      BY <2>1, <2>3 DEF AttemptRow, Owners
    <2>6. QED
      BY <1>1, <2>4, <2>5 DEF ClaimNext, TypeOK
  <1>2. ASSUME NEW m \in Messages, NEW c \in Consumers, NEW at \in Nat,
               RenewLease(m, c, at)
        PROVE  TypeOK'
    <2>1. at + LeaseMs \in Nat
      OBVIOUS
    <2>2. [message[m] EXCEPT !.expiry = at + LeaseMs] \in MessageRow
      BY <2>1, RowType DEF TypeOK, States
    <2>3. QED
      BY <1>2, <2>2 DEF TypeOK, RenewLease
  <1>3. ASSUME NEW m \in Messages, NEW state \in States,
               message' = [message EXCEPT ![m] = [message[m] EXCEPT !.state = state]],
               UNCHANGED <<attempt, receipts, interruption, escalation, worker, alive, now>>
        PROVE  TypeOK'
    <2>1. [message[m] EXCEPT !.state = state] \in MessageRow
      BY RowType DEF TypeOK
    <2>2. QED
      BY <1>3, <2>1 DEF TypeOK
  <1>4. ASSUME NEW m \in Messages, NEW c \in Consumers, NEW at \in Nat,
               Fail(m, c, at)
        PROVE  TypeOK'
    <2>1. Released(message[m], "failed") \in MessageRow
      BY RowType DEF TypeOK, States
    <2>2. Finished(attempt[m], "failed") \in [Numbers -> AttemptRow]
      BY FinishedType DEF TypeOK
    <2>3. QED
      BY <1>4, <2>1, <2>2 DEF TypeOK, Fail
  <1>5. ASSUME NEW m \in Messages, RecordReceipt(m)
        PROVE  TypeOK'
    <2>1. Released(message[m], "receipted") \in MessageRow
      BY RowType DEF TypeOK, States
    <2>2. Finished(attempt[m], "receipted") \in [Numbers -> AttemptRow]
      BY FinishedType DEF TypeOK
    <2>3. QED
      BY <1>5, <2>1, <2>2 DEF TypeOK, RecordReceipt
  <1>6. ASSUME NEW m \in Messages, NEW k \in Reports, ReportEscalated(k, m)
        PROVE  TypeOK'
    <2>1. Interruption(m, "escalated") \in InterruptionRow
      BY DEF TypeOK, MessageRow, Interruption, InterruptionRow
    <2>2. Released(message[m], "failed") \in MessageRow
      BY RowType DEF TypeOK, States
    <2>3. QED
      BY <1>6, <2>1, <2>2 DEF TypeOK, ReportEscalated
  <1>7. ASSUME NEW m \in Messages, NEW k \in Reports, NEW at \in Nat,
               NEW delay \in Delays, ReportRetrySafe(k, m, at, delay)
        PROVE  TypeOK'
    <2>1. Interruption(m, "retry_safe") \in InterruptionRow
      BY DEF TypeOK, MessageRow, Interruption, InterruptionRow
    <2>2. at + delay \in Nat
      OBVIOUS
    <2>3. Requeued(message[m], at + delay) \in MessageRow
      BY <2>2, RowType DEF TypeOK, States
    <2>4. QED
      BY <1>7, <2>1, <2>3 DEF TypeOK, ReportRetrySafe
  <1>8. ASSUME NEW m \in Messages, NEW at \in Nat, NEW delay \in Delays,
               Enqueue(m, at, delay)
        PROVE  TypeOK'
    <2>1. at \in Nat /\ at + delay \in Nat
      OBVIOUS
    <2>2. QED
      BY <1>8, <2>1, EnqueuedRowType DEF TypeOK, Enqueue
  <1>9. ASSUME NEW m \in Messages, NEW at \in Nat, NEW delay \in Delays,
               Retry(m, at, delay)
        PROVE  TypeOK'
    <2>1. at + delay \in Nat
      OBVIOUS
    <2>2. Requeued(message[m], at + delay) \in MessageRow
      BY <2>1, RowType DEF TypeOK, States
    <2>3. QED
      BY <1>9, <2>2 DEF TypeOK, Retry
  <1>10. ASSUME NEW at \in Nat, RequeueExpired(at)
         PROVE  TypeOK'
    BY <1>10, ExpiryType DEF TypeOK, RequeueExpired
  <1>11. ASSUME NEW k \in Reports \cup Topics,
                CreateEscalation(k) \/ ResolveEscalation(k)
         PROVE  TypeOK'
    BY <1>11 DEF TypeOK, CreateEscalation, ResolveEscalation
  <1>12. CASE WorkersRecorded
    BY <1>12 DEF TypeOK, WorkersRecorded, WorkerTable
  <1>13. CASE (\E c \in Consumers : Crash(c)) \/ Tick \/ UNCHANGED vars
    BY <1>13 DEF TypeOK, Crash, Tick, vars, tables, Times
  <1>14. CASE QueueStep
    <2>1. ASSUME NEW m \in Messages, NEW at \in Nat, NEW c \in Consumers,
                 ConsumerStep(m, c, at)
          PROVE  TypeOK'
      <3>1. CASE BeginDelivery(m, c, at)
        BY <3>1, <1>3 DEF BeginDelivery, States
      <3>2. QED
        BY <2>1, <3>1, <1>1, <1>2, <1>4 DEF ConsumerStep
    <2>2. ASSUME NEW m \in Messages, NEW at \in Nat, RecipientStep(m, at)
          PROVE  TypeOK'
      <3>1. CASE Acknowledge(m)
        BY <3>1, <1>3 DEF Acknowledge, States
      <3>2. CASE Complete(m)
        BY <3>2, <1>3 DEF Complete, States
      <3>3. QED
        BY <2>2, <3>1, <3>2, <1>5, <1>6, <1>7 DEF RecipientStep
    <2>3. ASSUME NEW m \in Messages, NEW at \in Nat, OperatorStep(m, at)
          PROVE  TypeOK'
      <3>1. CASE Cancel(m)
        BY <3>1, <1>3 DEF Cancel, States
      <3>2. QED
        BY <2>3, <3>1, <1>8, <1>9 DEF OperatorStep
    <2>4. QED
      BY <1>14, <2>1, <2>2, <2>3, <1>10, <1>11, <1>12, <1>13 DEF QueueStep
  <1>15. QED
    BY <1>13, <1>14

\* The tables of a new queue.
LEMMA QueueStarts ==
  Init => TypeOK /\ AttemptLedger /\ AcceptedOnReceipt /\ NotReplayedBlindly /\ OneReportPerTurn
  <1> SUFFICES ASSUME Init
               PROVE  TypeOK /\ AttemptLedger /\ AcceptedOnReceipt
                      /\ NotReplayedBlindly /\ OneReportPerTurn
    OBVIOUS
  <1>1. TypeOK
    BY QueueAssumption DEF Init, TypeOK, NoMessage, MessageRow, NoAttempt, AttemptRow,
       Owners, Times, WorkerAvailabilities
  <1>2. AttemptLedger
    BY QueueAssumption
    DEF Init, AttemptLedger, LedgerOf, NoMessage, NoAttempt, InFlight, Numbers
  <1>3. AcceptedOnReceipt
    BY DEF Init, AcceptedOnReceipt, State, NoMessage, Accepted
  <1>4. NotReplayedBlindly /\ OneReportPerTurn
    BY DEF Init, NotReplayedBlindly, OneReportPerTurn, Settled, Reported, NoInterruption,
           NoAttempt
  <1>5. QED
    BY <1>1, <1>2, <1>3, <1>4

\* Every row of every table has the type of its table, and the clock stays
\* within its bound.
THEOREM TypeCorrect == Spec => []TypeOK
  <1>1. TypeOK /\ [Next]_vars => TypeOK'
    BY NextIsQueueStep, TypesInductive
  <1>2. QED
    BY <1>1, QueueStarts, PTL DEF Spec

-----------------------------------------------------------------------------
(***************************************************************************)
(* The attempt ledger: what each kind of update does to the rows of one    *)
(* message.                                                                *)
(***************************************************************************)

\* Closing the open attempt together with the lease keeps the ledger.
LEMMA LedgerClosed ==
  ASSUME NEW row \in MessageRow, NEW rows \in [Numbers -> AttemptRow],
         LedgerOf(row, rows),
         NEW state \in States \ InFlight, NEW time \in Nat,
         NEW outcome \in {"receipted", "failed", "lease_expired"}
  PROVE  /\ LedgerOf(Released(row, state), Finished(rows, outcome))
         /\ LedgerOf(Requeued(row, time), Finished(rows, outcome))
  <1> DEFINE closed == Finished(rows, outcome)
  <1>1. \A n \in Numbers :
          /\ closed[n].outcome = "none" <=> rows[n].outcome = "none"
          /\ closed[n].outcome # "open"
    BY DEF Finished, AttemptRow
  <1>2. ASSUME NEW new \in MessageRow, new.attemptCount = row.attemptCount,
               new.state \in States \ InFlight, new.owner = NoConsumer, new.expiry = 0
        PROVE  LedgerOf(new, closed)
    BY <1>1, <1>2 DEF LedgerOf, States, InFlight
  <1>3. "queued" \in States \ InFlight
    BY DEF States, InFlight
  <1>4. LedgerOf(Released(row, state), closed)
    BY <1>2, RowType, RowFields
  <1>5. LedgerOf(Requeued(row, time), closed)
    BY <1>2, <1>3, RowType, RowFields
  <1>6. QED
    BY <1>4, <1>5

\* So does any update of a message without a lease that gives it none.
LEMMA LedgerQuiet ==
  ASSUME NEW row \in MessageRow, NEW rows \in [Numbers -> AttemptRow],
         LedgerOf(row, rows), row.state \notin InFlight,
         NEW state \in States \ InFlight, NEW time \in Nat
  PROVE  /\ LedgerOf([row EXCEPT !.state = state], rows)
         /\ LedgerOf(Released(row, state), rows)
         /\ LedgerOf(Requeued(row, time), rows)
  <1>1. ASSUME NEW new \in MessageRow, new.attemptCount = row.attemptCount,
               new.state \in States \ InFlight, new.owner = NoConsumer, new.expiry = 0
        PROVE  LedgerOf(new, rows)
    BY <1>1 DEF LedgerOf, States, InFlight
  <1>2. row.owner = NoConsumer /\ row.expiry = 0
    BY DEF LedgerOf
  <1>3. "queued" \in States \ InFlight
    BY DEF States, InFlight
  <1>4. LedgerOf([row EXCEPT !.state = state], rows)
    BY <1>1, <1>2, RowType DEF MessageRow
  <1>5. LedgerOf(Released(row, state), rows)
    BY <1>1, RowType, RowFields
  <1>6. LedgerOf(Requeued(row, time), rows)
    BY <1>1, <1>3, RowType, RowFields
  <1>7. QED
    BY <1>4, <1>5, <1>6

\* And any update that leaves the lease with its owner.
LEMMA LedgerHeld ==
  ASSUME NEW row \in MessageRow, NEW rows \in [Numbers -> AttemptRow],
         LedgerOf(row, rows), row.state \in InFlight, NEW time \in Nat
  PROVE  /\ LedgerOf([row EXCEPT !.expiry = time], rows)
         /\ LedgerOf([row EXCEPT !.state = "delivering"], rows)
  BY DEF LedgerOf, MessageRow, InFlight, States

\* And a claim of a queued message.
LEMMA LedgerClaimed ==
  ASSUME NEW row \in MessageRow, NEW rows \in [Numbers -> AttemptRow],
         LedgerOf(row, rows), row.state = "queued",
         row.attemptCount + 1 \in Numbers, NEW c \in Consumers, NEW time \in Nat
  PROVE  LedgerOf([row EXCEPT !.state = "leased", !.attemptCount = row.attemptCount + 1,
                              !.owner = c, !.expiry = time],
                  [rows EXCEPT ![row.attemptCount + 1] =
                     [consumer |-> c, outcome |-> "open"]])
  BY QueueAssumption DEF LedgerOf, MessageRow, InFlight, States, Numbers

\* Requeueing expired leases keeps the ledger of every message.
LEMMA LedgerExpiry ==
  ASSUME TypeOK, AttemptLedger, NEW at \in Nat, NEW m \in Messages
  PROVE  LedgerOf(MessagesAfterExpiry(at)[m], AttemptsAfterExpiry(at)[m])
  <1>1. /\ message[m] \in MessageRow
        /\ attempt[m] \in [Numbers -> AttemptRow]
        /\ LedgerOf(message[m], attempt[m])
        /\ "queued" \in States \ InFlight
    BY DEF TypeOK, AttemptLedger, States, InFlight
  <1>2. LedgerOf(Requeued(message[m], at), Finished(attempt[m], "lease_expired"))
    BY <1>1, LedgerClosed
  <1>3. QED
    BY <1>1, <1>2 DEF MessagesAfterExpiry, AttemptsAfterExpiry, AttemptLedger

\* An operation on one message only has to keep that message's ledger.
LEMMA LedgerOfOne ==
  ASSUME TypeOK, AttemptLedger, NEW m \in Messages, NEW row,
         message' = [message EXCEPT ![m] = row], attempt' = attempt,
         LedgerOf(row, attempt[m])
  PROVE  AttemptLedger'
  BY DEF TypeOK, AttemptLedger

\* Every step of the queue keeps the ledger: one case per operation.
LEMMA LedgerInductive == TypeOK /\ AttemptLedger /\ [QueueStep]_vars => AttemptLedger'
  <1> SUFFICES ASSUME TypeOK, AttemptLedger, [QueueStep]_vars PROVE AttemptLedger'
    OBVIOUS
  <1>1. \A m \in Messages :
          /\ message[m] \in MessageRow
          /\ attempt[m] \in [Numbers -> AttemptRow]
          /\ LedgerOf(message[m], attempt[m])
    BY DEF TypeOK, AttemptLedger
  <1>2. \A at \in Nat :
          /\ at \in Nat /\ at + LeaseMs \in Nat
          /\ \A delay \in Delays : at + delay \in Nat
    BY QueueAssumption
  <1>3. {"queued", "receipted", "acknowledged", "completed", "failed", "cancelled"}
          \subseteq States \ InFlight
    BY DEF States, InFlight
  <1>4. ASSUME NEW m \in Messages, NEW c \in Consumers, NEW at \in Nat,
               NEW allowed \in ClaimOptions, ClaimNext(m, c, at, allowed)
        PROVE  AttemptLedger'
    <2> DEFINE row == MessagesAfterExpiry(at)[m]
               rows == AttemptsAfterExpiry(at)[m]
               number == AttemptNumber(row)
               claimed == [row EXCEPT !.state = "leased", !.attemptCount = number,
                                      !.owner = c, !.expiry = at + LeaseMs]
               opened == [rows EXCEPT ![number] = [consumer |-> c, outcome |-> "open"]]
    <2>1. /\ row \in MessageRow /\ rows \in [Numbers -> AttemptRow]
          /\ LedgerOf(row, rows)
      BY <1>2, ExpiryType, LedgerExpiry
    <2>2. row.state = "queued" /\ number \in Numbers /\ number = row.attemptCount + 1
      BY <1>4, <2>1, ClaimNumber DEF ClaimNext, Claimable
    <2>3. LedgerOf(claimed, opened)
      BY <1>2, <2>1, <2>2, LedgerClaimed
    <2>4. /\ message' = [MessagesAfterExpiry(at) EXCEPT ![m] = claimed]
          /\ attempt' = [AttemptsAfterExpiry(at) EXCEPT ![m] = opened]
      BY <1>4 DEF ClaimNext
    <2>5. /\ message' = [x \in Messages |->
               IF x = m THEN claimed ELSE MessagesAfterExpiry(at)[x]]
          /\ attempt' = [x \in Messages |->
               IF x = m THEN opened ELSE AttemptsAfterExpiry(at)[x]]
      BY <2>4 DEF MessagesAfterExpiry, AttemptsAfterExpiry
    <2> HIDE DEF claimed, opened
    <2>6. \A x \in Messages : LedgerOf(message'[x], attempt'[x])
      BY <1>2, <2>3, <2>5, LedgerExpiry
    <2>7. QED
      BY <2>6 DEF AttemptLedger
  <1>5. ASSUME NEW m \in Messages, NEW c \in Consumers, NEW at \in Nat,
               RenewLease(m, c, at)
        PROVE  AttemptLedger'
    <2>1. LedgerOf([message[m] EXCEPT !.expiry = at + LeaseMs], attempt[m])
      BY <1>1, <1>2, <1>5, LedgerHeld DEF RenewLease, OwnedInFlight, State
    <2>2. QED
      BY <1>5, <2>1, LedgerOfOne DEF RenewLease
  <1>6. ASSUME NEW m \in Messages, NEW c \in Consumers, NEW at \in Nat,
               BeginDelivery(m, c, at)
        PROVE  AttemptLedger'
    <2>1. message[m].state \in InFlight /\ at \in Nat
      BY <1>2, <1>6 DEF BeginDelivery, OwnedInFlight, State, InFlight
    <2>2. LedgerOf([message[m] EXCEPT !.state = "delivering"], attempt[m])
      BY <1>1, <2>1, LedgerHeld
    <2>3. QED
      BY <1>6, <2>2, LedgerOfOne DEF BeginDelivery
  <1>7. ASSUME NEW m \in Messages, NEW c \in Consumers, NEW at \in Nat,
               Fail(m, c, at)
        PROVE  AttemptLedger'
    <2>1. LedgerOf(Released(message[m], "failed"), Finished(attempt[m], "failed"))
      BY <1>1, <1>3, LedgerClosed
    <2>2. /\ message' = [message EXCEPT ![m] = Released(message[m], "failed")]
          /\ attempt' = [attempt EXCEPT ![m] = Finished(attempt[m], "failed")]
      BY <1>7 DEF Fail
    <2>3. QED
      BY <2>1, <2>2 DEF TypeOK, AttemptLedger
  <1>8. ASSUME NEW m \in Messages, RecordReceipt(m)
        PROVE  AttemptLedger'
    <2>1. LedgerOf(Released(message[m], "receipted"), Finished(attempt[m], "receipted"))
      BY <1>1, <1>3, LedgerClosed
    <2>2. /\ message' = [message EXCEPT ![m] = Released(message[m], "receipted")]
          /\ attempt' = [attempt EXCEPT ![m] = Finished(attempt[m], "receipted")]
      BY <1>8 DEF RecordReceipt
    <2>3. QED
      BY <2>1, <2>2 DEF TypeOK, AttemptLedger
  <1>9. ASSUME NEW m \in Messages, NEW state \in States \ InFlight,
               State(m) \notin InFlight, attempt' = attempt,
               \/ message' = [message EXCEPT ![m] = [message[m] EXCEPT !.state = state]]
               \/ message' = [message EXCEPT ![m] = Released(message[m], state)]
               \/ \E time \in Nat :
                    message' = [message EXCEPT ![m] = Requeued(message[m], time)]
        PROVE  AttemptLedger'
    <2>1. LedgerOf([message[m] EXCEPT !.state = state], attempt[m])
      BY <1>1, <1>9, LedgerQuiet, 0 \in Nat DEF State
    <2>2. LedgerOf(Released(message[m], state), attempt[m])
      BY <1>1, <1>9, LedgerQuiet, 0 \in Nat DEF State
    <2>3. \A time \in Nat : LedgerOf(Requeued(message[m], time), attempt[m])
      BY <1>1, <1>9, LedgerQuiet DEF State
    <2>4. QED
      BY <1>9, <2>1, <2>2, <2>3, LedgerOfOne
  <1>10. ASSUME NEW m \in Messages, NEW at \in Nat, NEW delay \in Delays,
                Enqueue(m, at, delay)
         PROVE  AttemptLedger'
    <2> DEFINE row == [NoMessage EXCEPT !.state = "queued", !.createdAt = at,
                                        !.availableAt = at + delay]
    <2>1. /\ row.state = "queued" /\ row.attemptCount = 0
          /\ row.owner = NoConsumer /\ row.expiry = 0
      BY DEF NoMessage
    <2>2. message[m].state = "absent" /\ message[m].attemptCount = 0
      BY <1>1, <1>10 DEF Enqueue, State, LedgerOf
    <2> HIDE DEF row
    <2>3. LedgerOf(row, attempt[m])
      BY <1>1, <2>1, <2>2 DEF LedgerOf, InFlight
    <2>4. QED
      BY <1>10, <2>3, LedgerOfOne DEF Enqueue, row
  <1>11. ASSUME NEW at \in Nat, RequeueExpired(at)
         PROVE  AttemptLedger'
    BY <1>11, LedgerExpiry DEF RequeueExpired, AttemptLedger
  <1>12. CASE message' = message /\ attempt' = attempt
    BY <1>12 DEF AttemptLedger
  <1>13. CASE QueueStep
    <2>1. ASSUME NEW m \in Messages, NEW at \in Nat, NEW c \in Consumers,
                 ConsumerStep(m, c, at)
          PROVE  AttemptLedger'
      BY <2>1, <1>4, <1>5, <1>6, <1>7 DEF ConsumerStep
    <2>2. ASSUME NEW m \in Messages, NEW at \in Nat, RecipientStep(m, at)
          PROVE  AttemptLedger'
      <3>1. CASE Acknowledge(m) \/ Complete(m)
        BY <3>1, <1>3, <1>9 DEF Acknowledge, Complete, InFlight
      <3>2. CASE \E k \in Reports : ReportEscalated(k, m)
        BY <3>2, <1>3, <1>9 DEF ReportEscalated, InFlight
      <3>3. CASE \E k \in Reports, delay \in Delays : ReportRetrySafe(k, m, at, delay)
        BY <3>3, <1>2, <1>3, <1>9 DEF ReportRetrySafe, InFlight
      <3>4. QED
        BY <2>2, <3>1, <3>2, <3>3, <1>8 DEF RecipientStep
    <2>3. ASSUME NEW m \in Messages, NEW at \in Nat, OperatorStep(m, at)
          PROVE  AttemptLedger'
      <3>1. CASE Cancel(m)
        BY <3>1, <1>3, <1>9 DEF Cancel, InFlight
      <3>2. CASE \E delay \in Delays : Retry(m, at, delay)
        BY <3>2, <1>2, <1>3, <1>9 DEF Retry, InFlight
      <3>3. QED
        BY <2>3, <3>1, <3>2, <1>10 DEF OperatorStep
    <2>4. QED
      BY <1>13, <2>1, <2>2, <2>3, <1>11, <1>12
      DEF QueueStep, CreateEscalation, ResolveEscalation, WorkersRecorded, Crash, Tick, tables
  <1>14. QED
    BY <1>12, <1>13 DEF vars

\* The attempt ledger of every message is right in every reachable state.
THEOREM LedgerCorrect == Spec => []AttemptLedger
  BY QueueStarts, TypeCorrect, NextIsQueueStep, LedgerInductive, PTL DEF Spec

-----------------------------------------------------------------------------
(***************************************************************************)
(* Receipts.                                                               *)
(***************************************************************************)
\* Every step keeps the receipts of accepted messages: one case per operation.
LEMMA AcceptedInductive ==
  TypeOK /\ AttemptLedger /\ AcceptedOnReceipt /\ [QueueStep]_vars => AcceptedOnReceipt'
  <1> SUFFICES ASSUME TypeOK, AttemptLedger, AcceptedOnReceipt, [QueueStep]_vars
               PROVE  AcceptedOnReceipt'
    OBVIOUS
  <1>1. message \in [Messages -> MessageRow] /\ attempt \in [Messages -> [Numbers -> AttemptRow]]
    BY DEF TypeOK
  <1>2. ASSUME receipts' = receipts,
               \A x \in Messages :
                 \/ message'[x] = message[x] /\ attempt'[x] = attempt[x]
                 \/ message'[x].state \notin Accepted
        PROVE  AcceptedOnReceipt'
    BY <1>2 DEF AcceptedOnReceipt, State
  <1>3. ASSUME NEW m \in Messages, NEW c \in Consumers, NEW at \in Nat,
               NEW allowed \in ClaimOptions, ClaimNext(m, c, at, allowed)
        PROVE  AcceptedOnReceipt'
    <2>1. \A x \in Messages :
            \/ MessagesAfterExpiry(at)[x] = message[x] /\ AttemptsAfterExpiry(at)[x] = attempt[x]
            \/ MessagesAfterExpiry(at)[x].state = "queued"
      BY <1>1, RowFields
      DEF MessagesAfterExpiry, AttemptsAfterExpiry, States
    <2>2. \A x \in Messages \ {m} :
            /\ message'[x] = MessagesAfterExpiry(at)[x]
            /\ attempt'[x] = AttemptsAfterExpiry(at)[x]
      BY <1>3 DEF ClaimNext, MessagesAfterExpiry, AttemptsAfterExpiry
    <2>3. MessagesAfterExpiry(at) \in [Messages -> MessageRow]
      BY ExpiryType
    <2>4. message'[m].state = "leased"
      BY <1>3, <2>3 DEF ClaimNext, MessageRow
    <2>5. QED
      BY <1>2, <1>3, <2>1, <2>2, <2>4 DEF ClaimNext, Accepted
  <1>4. ASSUME NEW m \in Messages, NEW c \in Consumers, NEW at \in Nat,
               ConsumerStep(m, c, at)
        PROVE  AcceptedOnReceipt'
    <2>1. CASE RenewLease(m, c, at)
      BY <1>1, <1>2, <2>1 DEF RenewLease, OwnedInFlight, State, InFlight, Accepted, MessageRow
    <2>2. CASE BeginDelivery(m, c, at)
      BY <1>1, <1>2, <2>2 DEF BeginDelivery, Accepted, MessageRow
    <2>3. CASE Fail(m, c, at)
      BY <1>1, <1>2, <2>3 DEF Fail, Released, Accepted, MessageRow
    <2>4. QED
      BY <1>4, <2>1, <2>2, <2>3, <1>3 DEF ConsumerStep
  <1>5. ASSUME NEW m \in Messages, RecordReceipt(m)
        PROVE  AcceptedOnReceipt'
    <2>1. /\ message[m].attemptCount \in Numbers
          /\ attempt[m][message[m].attemptCount].outcome = "open"
      BY <1>1, <1>5, QueueAssumption
      DEF RecordReceipt, State, AttemptLedger, LedgerOf, InFlight, MessageRow, Numbers
    <2>2. LastReceipted(Released(message[m], "receipted"), Finished(attempt[m], "receipted"))
      BY <1>1, <2>1 DEF LastReceipted, Released, Finished, MessageRow, AttemptRow
    <2>3. /\ message' = [message EXCEPT ![m] = Released(message[m], "receipted")]
          /\ attempt' = [attempt EXCEPT ![m] = Finished(attempt[m], "receipted")]
          /\ receipts' = receipts \cup {m}
      BY <1>5 DEF RecordReceipt
    <2>4. QED
      BY <1>1, <2>2, <2>3 DEF AcceptedOnReceipt, State
  <1>6. ASSUME NEW m \in Messages, Acknowledge(m) \/ Complete(m)
        PROVE  AcceptedOnReceipt'
    <2>1. /\ message'[m].attemptCount = message[m].attemptCount
          /\ \A x \in Messages \ {m} : message'[x] = message[x]
          /\ attempt' = attempt /\ receipts' = receipts
      BY <1>1, <1>6 DEF Acknowledge, Complete, MessageRow
    <2>2. m \in receipts /\ LastReceipted(message[m], attempt[m])
      BY <1>6 DEF Acknowledge, Complete, AcceptedOnReceipt, State, Accepted
    <2>3. QED
      BY <2>1, <2>2 DEF AcceptedOnReceipt, LastReceipted, State
  <1>7. ASSUME NEW m \in Messages, NEW at \in Nat, RecipientStep(m, at)
        PROVE  AcceptedOnReceipt'
    <2>1. CASE \E k \in Reports : ReportEscalated(k, m)
      BY <1>1, <1>2, <2>1 DEF ReportEscalated, Released, Accepted, MessageRow
    <2>2. CASE \E k \in Reports, delay \in Delays : ReportRetrySafe(k, m, at, delay)
      BY <1>1, <1>2, <2>2 DEF ReportRetrySafe, Requeued, Released, Accepted, MessageRow
    <2>3. QED
      BY <1>5, <1>6, <1>7, <2>1, <2>2 DEF RecipientStep
  <1>8. ASSUME NEW m \in Messages, NEW at \in Nat, OperatorStep(m, at)
        PROVE  AcceptedOnReceipt'
    <2>1. CASE \E delay \in Delays : Enqueue(m, at, delay)
      BY <1>1, <1>2, <2>1 DEF Enqueue, NoMessage, Accepted
    <2>2. CASE \E delay \in Delays : Retry(m, at, delay)
      BY <1>1, <1>2, <2>2 DEF Retry, Requeued, Released, Accepted, MessageRow
    <2>3. CASE Cancel(m)
      BY <1>1, <1>2, <2>3 DEF Cancel, Accepted, MessageRow
    <2>4. QED
      BY <1>8, <2>1, <2>2, <2>3 DEF OperatorStep
  <1>9. ASSUME NEW at \in Nat, RequeueExpired(at)
         PROVE  AcceptedOnReceipt'
    BY <1>1, <1>2, <1>9, RowFields
    DEF RequeueExpired, MessagesAfterExpiry, AttemptsAfterExpiry, States, Accepted
  <1>10. CASE message' = message /\ attempt' = attempt /\ receipts' = receipts
    BY <1>2, <1>10
  <1>11. QED
    BY <1>4, <1>7, <1>8, <1>9, <1>10
    DEF QueueStep, CreateEscalation, ResolveEscalation, WorkersRecorded, Crash, Tick,
        tables, vars

\* A message counts as accepted only on the receipt of its last attempt.
THEOREM AcceptedCorrect == Spec => []AcceptedOnReceipt
  BY QueueStarts, TypeCorrect, LedgerCorrect, NextIsQueueStep, AcceptedInductive, PTL DEF Spec

-----------------------------------------------------------------------------
(***************************************************************************)
(* Interruption reports.  A step that reports nothing settles nothing: the *)
(* settled attempts of every message stay the same.  A report settles the  *)
(* last attempt, and it alone.                                             *)
(***************************************************************************)
SameSettled ==
  \A m \in Messages, n \in Numbers :
    Settled(message[m], attempt[m], n)' <=> Settled(message[m], attempt[m], n)

\* A consumer's operation settles nothing: the attempt it opens, renews or
\* fails was not accepted.
LEMMA SettledByConsumer ==
  ASSUME TypeOK, AttemptLedger, NEW m \in Messages, NEW c \in Consumers,
         NEW at \in Nat, ConsumerStep(m, c, at)
  PROVE  SameSettled
  <1>1. message \in [Messages -> MessageRow] /\ attempt \in [Messages -> [Numbers -> AttemptRow]]
    BY DEF TypeOK
  <1>2. \A x \in Messages, n \in Numbers :
          Settled(MessagesAfterExpiry(at)[x], AttemptsAfterExpiry(at)[x], n)
            <=> Settled(message[x], attempt[x], n)
    BY <1>1, RowFields
    DEF MessagesAfterExpiry, AttemptsAfterExpiry, Expired, State, Settled, Finished,
        AttemptRow, States, InFlight, Accepted
  <1>3. ASSUME NEW allowed \in ClaimOptions, ClaimNext(m, c, at, allowed)
        PROVE  SameSettled
    <2> DEFINE row == MessagesAfterExpiry(at)[m]
               rows == AttemptsAfterExpiry(at)[m]
               number == AttemptNumber(row)
    <2>1. /\ MessagesAfterExpiry(at) \in [Messages -> MessageRow]
          /\ AttemptsAfterExpiry(at) \in [Messages -> [Numbers -> AttemptRow]]
          /\ LedgerOf(row, rows)
      BY ExpiryType, LedgerExpiry
    <2>2. row.state = "queued" /\ number \in Numbers /\ number = row.attemptCount + 1
      BY <1>3, <2>1, ClaimNumber DEF ClaimNext, Claimable
    <2>3. rows[number].outcome = "none"
      BY <2>1, <2>2 DEF LedgerOf, MessageRow
    <2>4. /\ message'[m].state = "leased"
          /\ attempt'[m] = [rows EXCEPT ![number] = [consumer |-> c, outcome |-> "open"]]
          /\ \A x \in Messages \ {m} : /\ message'[x] = MessagesAfterExpiry(at)[x]
                                       /\ attempt'[x] = AttemptsAfterExpiry(at)[x]
      BY <1>3, <2>1 DEF ClaimNext, MessageRow
    <2>5. \A n \in Numbers :
            Settled(message'[m], attempt'[m], n) <=> Settled(row, rows, n)
      BY <2>1, <2>2, <2>3, <2>4 DEF Settled, Accepted
    <2>6. QED
      BY <1>2, <2>4, <2>5 DEF SameSettled
  <1>4. CASE RenewLease(m, c, at)
    BY <1>1, <1>4 DEF RenewLease, SameSettled, Settled, MessageRow
  <1>5. CASE BeginDelivery(m, c, at)
    BY <1>1, <1>5
    DEF BeginDelivery, OwnedInFlight, State, SameSettled, Settled, MessageRow, Accepted
  <1>6. CASE Fail(m, c, at)
    BY <1>1, <1>6
    DEF Fail, OwnedInFlight, State, SameSettled, Settled, Released, Finished,
        MessageRow, AttemptRow, InFlight, Accepted
  <1>7. QED
    BY <1>3, <1>4, <1>5, <1>6 DEF ConsumerStep

\* Neither does the receipt, acknowledgement or completion of a message.
LEMMA SettledByRecipient ==
  ASSUME TypeOK, AttemptLedger, NEW m \in Messages,
         RecordReceipt(m) \/ Acknowledge(m) \/ Complete(m)
  PROVE  SameSettled
  <1>1. message \in [Messages -> MessageRow] /\ attempt \in [Messages -> [Numbers -> AttemptRow]]
    BY DEF TypeOK
  <1>2. CASE RecordReceipt(m)
    <2>1. \A n \in Numbers : attempt[m][n].outcome = "open" <=> n = message[m].attemptCount
      BY <1>2 DEF RecordReceipt, State, AttemptLedger, LedgerOf, InFlight
    <2>2. /\ message' = [message EXCEPT ![m] = Released(message[m], "receipted")]
          /\ attempt' = [attempt EXCEPT ![m] = Finished(attempt[m], "receipted")]
          /\ message[m].state = "delivering"
      BY <1>2 DEF RecordReceipt, State
    <2>3. \A n \in Numbers :
            Settled(Released(message[m], "receipted"), Finished(attempt[m], "receipted"), n)
              <=> Settled(message[m], attempt[m], n)
      BY <1>1, <2>1, <2>2
      DEF Settled, Released, Finished, MessageRow, AttemptRow, Accepted
    <2>4. QED
      BY <1>1, <2>2, <2>3 DEF SameSettled
  <1>3. CASE Acknowledge(m)
    BY <1>1, <1>3 DEF Acknowledge, State, SameSettled, Settled, MessageRow, Accepted
  <1>4. CASE Complete(m)
    BY <1>1, <1>4 DEF Complete, State, SameSettled, Settled, MessageRow, Accepted
  <1>5. QED
    BY <1>2, <1>3, <1>4

\* Neither does a new message, a retry or a cancellation: what it takes from
\* was queued, failed or absent, and not accepted.
LEMMA SettledByOperator ==
  ASSUME TypeOK, AttemptLedger, NEW m \in Messages, NEW at \in Nat,
         OperatorStep(m, at)
  PROVE  SameSettled
  <1>1. message \in [Messages -> MessageRow] /\ attempt \in [Messages -> [Numbers -> AttemptRow]]
    BY DEF TypeOK
  <1>2. ASSUME NEW delay \in Delays, Enqueue(m, at, delay)
        PROVE  SameSettled
    <2>1. \A n \in Numbers : attempt[m][n].outcome = "none"
      BY <1>2, QueueAssumption DEF Enqueue, State, AttemptLedger, LedgerOf, Numbers
    <2>2. QED
      BY <1>1, <1>2, <2>1 DEF Enqueue, SameSettled, Settled
  <1>3. ASSUME NEW delay \in Delays, Retry(m, at, delay)
        PROVE  SameSettled
    BY <1>1, <1>3
    DEF Retry, State, SameSettled, Settled, Requeued, Released, MessageRow, Accepted
  <1>4. CASE Cancel(m)
    BY <1>1, <1>4 DEF Cancel, State, SameSettled, Settled, MessageRow, Accepted
  <1>5. QED
    BY <1>2, <1>3, <1>4 DEF OperatorStep

\* Neither does an expired lease, whose attempt nobody accepted.
LEMMA SettledByExpiry ==
  ASSUME TypeOK, NEW at \in Nat, RequeueExpired(at)
  PROVE  SameSettled
  BY RowFields
  DEF TypeOK, RequeueExpired, MessagesAfterExpiry, AttemptsAfterExpiry, Expired, State,
      SameSettled, Settled, Finished, AttemptRow, States, InFlight, Accepted

\* So reports stay right in a step that settles nothing and reports nothing.
LEMMA ReportsUnchanged ==
  ASSUME NotReplayedBlindly, OneReportPerTurn, SameSettled, interruption' = interruption,
         \A k \in Reports : escalation[k] # "absent" => escalation'[k] # "absent"
  PROVE  NotReplayedBlindly' /\ OneReportPerTurn'
  BY DEF NotReplayedBlindly, OneReportPerTurn, SameSettled, Settled, Reported

\* A new report about an accepted message that ends its acceptance keeps the
\* reports right: it names the attempt it settles, and none other does.
LEMMA ReportAdded ==
  ASSUME TypeOK, AcceptedOnReceipt, NotReplayedBlindly, OneReportPerTurn,
         NEW m \in Messages, NEW k \in Reports, NEW row \in MessageRow,
         NEW disposition \in {"retry_safe", "escalated"},
         interruption[k] = NoInterruption, State(m) \in {"receipted", "acknowledged"},
         message' = [message EXCEPT ![m] = row],
         row.state \notin Accepted, row.attemptCount = message[m].attemptCount,
         attempt' = attempt,
         interruption' = [interruption EXCEPT ![k] = Interruption(m, disposition)],
         \A j \in Reports : escalation[j] # "absent" => escalation'[j] # "absent",
         disposition = "escalated" => escalation'[k] # "absent"
  PROVE  NotReplayedBlindly' /\ OneReportPerTurn'
  <1> DEFINE last == message[m].attemptCount
  <1>1. /\ message \in [Messages -> MessageRow]
        /\ interruption \in [Reports -> InterruptionRow \cup {NoInterruption}]
    BY DEF TypeOK
  <1>2. last \in Numbers /\ attempt[m][last].outcome = "receipted"
    BY DEF AcceptedOnReceipt, LastReceipted, State, Accepted
  <1>3. \A x \in Messages, n \in Numbers :
          Settled(message[x], attempt[x], n)'
            <=> Settled(message[x], attempt[x], n) \/ (x = m /\ n = last)
    BY <1>1, <1>2 DEF Settled
  <1>4. /\ Interruption(m, disposition) # NoInterruption
        /\ Interruption(m, disposition).message = m
        /\ Interruption(m, disposition).number = last
        /\ Interruption(m, disposition).disposition = disposition
    <2>1. Interruption(m, disposition).disposition # NoInterruption.disposition
      BY DEF Interruption, NoInterruption
    <2>2. QED
      BY <2>1 DEF Interruption
  <1>5. \A j \in Reports, x \in Messages, n \in 0..MaxAttempts :
          Reported(j, x, n)' <=> Reported(j, x, n) \/ (j = k /\ x = m /\ n = last)
    BY <1>1, <1>4 DEF Reported
  <1>6. ~Settled(message[m], attempt[m], last)
    BY DEF Settled, State, Accepted
  <1>7. Numbers \subseteq 0..MaxAttempts
    BY QueueAssumption DEF Numbers
  <1>8. \A j \in Reports : ~Reported(j, m, last)
    BY <1>2, <1>6, <1>7 DEF OneReportPerTurn
  <1>9. NotReplayedBlindly'
    BY <1>3, <1>5, <1>7 DEF NotReplayedBlindly
  <1>10. ASSUME NEW j \in Reports, NEW x \in Messages, NEW n \in 0..MaxAttempts,
                Reported(j, x, n)'
         PROVE  /\ n \in Numbers /\ Settled(message[x], attempt[x], n)'
                /\ \A i \in Reports : Reported(i, x, n)' => i = j
    <2>1. CASE x = m /\ n = last
      BY <1>2, <1>3, <1>5, <1>8, <1>10, <2>1
    <2>2. CASE ~(x = m /\ n = last)
      BY <1>3, <1>5, <1>10, <2>2 DEF OneReportPerTurn
    <2>3. QED
      BY <2>1, <2>2
  <1>11. \A j \in Reports : interruption'[j].disposition = "escalated" => escalation'[j] # "absent"
    BY <1>1, <1>4 DEF OneReportPerTurn
  <1>12. QED
    BY <1>9, <1>10, <1>11 DEF OneReportPerTurn

\* Every step keeps the reports right: one case per group of operations.
LEMMA ReportsInductive ==
  /\ TypeOK /\ AttemptLedger /\ AcceptedOnReceipt
  /\ NotReplayedBlindly /\ OneReportPerTurn /\ [QueueStep]_vars
  => NotReplayedBlindly' /\ OneReportPerTurn'
  <1> DEFINE Kept == NotReplayedBlindly' /\ OneReportPerTurn'
  <1> SUFFICES ASSUME TypeOK, AttemptLedger, AcceptedOnReceipt,
                      NotReplayedBlindly, OneReportPerTurn, [QueueStep]_vars
               PROVE  Kept
    OBVIOUS
  <1>1. ASSUME NEW m \in Messages, NEW c \in Consumers, NEW at \in Nat,
               ConsumerStep(m, c, at)
        PROVE  Kept
    <2>1. interruption' = interruption /\ escalation' = escalation
      BY <1>1 DEF ConsumerStep, ClaimNext, RenewLease, BeginDelivery, Fail
    <2>2. QED
      BY <1>1, <2>1, SettledByConsumer, ReportsUnchanged
  <1>2. ASSUME NEW m \in Messages, NEW k \in Reports, ReportEscalated(k, m)
        PROVE  Kept
    <2>1. /\ Released(message[m], "failed") \in MessageRow
          /\ Released(message[m], "failed").state \notin Accepted
          /\ Released(message[m], "failed").attemptCount = message[m].attemptCount
      BY ZenonT(40), RowType, RowFields, 0 \in Nat DEF TypeOK, States, Accepted
    <2>2. /\ \A j \in Reports : escalation[j] # "absent" => escalation'[j] # "absent"
          /\ escalation'[k] # "absent"
      BY <1>2 DEF ReportEscalated, TypeOK
    <2>3. QED
      BY <1>2, <2>1, <2>2, ReportAdded DEF ReportEscalated
  <1>3. ASSUME NEW m \in Messages, NEW k \in Reports, NEW at \in Nat,
               NEW delay \in Delays, ReportRetrySafe(k, m, at, delay)
        PROVE  Kept
    <2>1. at + delay \in Nat
      BY QueueAssumption
    <2>2. /\ Requeued(message[m], at + delay) \in MessageRow
          /\ Requeued(message[m], at + delay).state \notin Accepted
          /\ Requeued(message[m], at + delay).attemptCount = message[m].attemptCount
      <3>1. message[m] \in MessageRow /\ "queued" \in States
        BY DEF TypeOK, States
      <3>2. QED
        BY <2>1, <3>1, RowType, RowFields DEF Accepted
    <2>3. QED
      BY <1>3, <2>2, ReportAdded DEF ReportRetrySafe
  <1>4. ASSUME NEW m \in Messages, NEW at \in Nat, RecipientStep(m, at)
        PROVE  Kept
    <2>1. CASE RecordReceipt(m) \/ Acknowledge(m) \/ Complete(m)
      <3>1. interruption' = interruption /\ escalation' = escalation
        BY <2>1 DEF RecordReceipt, Acknowledge, Complete
      <3>2. QED
        BY <2>1, <3>1, SettledByRecipient, ReportsUnchanged
    <2>2. QED
      BY <1>2, <1>3, <1>4, <2>1 DEF RecipientStep
  <1>5. ASSUME NEW m \in Messages, NEW at \in Nat, OperatorStep(m, at)
        PROVE  Kept
    <2>1. interruption' = interruption /\ escalation' = escalation
      BY <1>5 DEF OperatorStep, Enqueue, Retry, Cancel
    <2>2. QED
      BY <1>5, <2>1, SettledByOperator, ReportsUnchanged
  <1>6. ASSUME NEW at \in Nat, RequeueExpired(at)
        PROVE  Kept
    <2>1. interruption' = interruption /\ escalation' = escalation
      BY <1>6 DEF RequeueExpired
    <2>2. QED
      BY <1>6, <2>1, SettledByExpiry, ReportsUnchanged
  <1>7. ASSUME message' = message, attempt' = attempt, interruption' = interruption,
               \A k \in Reports : escalation[k] # "absent" => escalation'[k] # "absent"
        PROVE  Kept
    BY <1>7, ReportsUnchanged DEF SameSettled, Settled
  <1>8. ASSUME NEW k \in Reports \cup Topics, CreateEscalation(k) \/ ResolveEscalation(k)
        PROVE  Kept
    BY <1>7, <1>8 DEF CreateEscalation, ResolveEscalation, TypeOK
  <1>9. QED
    BY <1>1, <1>4, <1>5, <1>6, <1>7, <1>8
    DEF QueueStep, WorkersRecorded, Crash, Tick, tables, vars

\* Every accepted attempt that is over has a report, and one only.
THEOREM ReportsCorrect == Spec => [](NotReplayedBlindly /\ OneReportPerTurn)
  BY QueueStarts, TypeCorrect, LedgerCorrect, AcceptedCorrect, NextIsQueueStep,
     ReportsInductive, PTL DEF Spec

\* In particular no turn has two reports.
THEOREM OneReport == Spec => []OneReportPerTurn
  BY ReportsCorrect, PTL

-----------------------------------------------------------------------------
(***************************************************************************)
(* The queue implements DeliveryContract: each of its operations is a step *)
(* of the contract or changes nothing the contract speaks of.              *)
(***************************************************************************)
\* The contract's step, or one it does not see.
Permitted == [Contract!ContractNext]_(Contract!contractVars)

\* What an update of message m leaves alone.
OthersKept(m) ==
  \A x \in Messages \ {m} : message'[x] = message[x]

\* The phase of a message is that of its state.
LEMMA PhaseOfState ==
  ASSUME NEW m \in Messages
  PROVE  /\ State(m) = "absent" => Phase(m) = "absent"
         /\ State(m) = "queued" => Phase(m) = "waiting"
         /\ State(m) \in InFlight => Phase(m) = "held"
         /\ State(m) \in {"receipted", "acknowledged"} => Phase(m) = "accepted"
         /\ State(m) = "completed" => Phase(m) = "done"
         /\ State(m) = "failed" => Phase(m) = "stopped"
         /\ State(m) = "cancelled" => Phase(m) = "dropped"
  BY DEF Phase, InFlight

\* The same of the next state.
LEMMA NextPhaseOfState ==
  ASSUME NEW m \in Messages
  PROVE  /\ message'[m].state = "queued" => Phase(m)' = "waiting"
         /\ message'[m].state \in InFlight => Phase(m)' = "held"
         /\ message'[m].state \in {"receipted", "acknowledged"} => Phase(m)' = "accepted"
         /\ message'[m].state = "completed" => Phase(m)' = "done"
         /\ message'[m].state = "failed" => Phase(m)' = "stopped"
         /\ message'[m].state = "cancelled" => Phase(m)' = "dropped"
  BY DEF Phase, InFlight, State

\* A message whose row stays the same keeps its phase.
LEMMA SamePhase ==
  ASSUME NEW m \in Messages, message'[m] = message[m]
  PROVE  Phase(m)' = Phase(m)
  BY DEF Phase, State

\* An operation that lets go of m and leaves it in phase p moves it there.
LEMMA MoveStep ==
  ASSUME NEW m \in Messages, NEW p, OthersKept(m), Phase(m)' = p,
         message'[m].owner = NoConsumer, message'[m].expiry = 0, now' = now
  PROVE  Contract!Move(m, p)
  <1>1. \A x \in Messages \ {m} : Phase(x)' = Phase(x)
    BY SamePhase DEF OthersKept
  <1>2. QED
    BY <1>1 DEF Contract!Move, OthersKept

\* An operation that keeps phase, holder and deadline is not seen.
LEMMA Unseen ==
  ASSUME NEW m \in Messages, OthersKept(m), Phase(m)' = Phase(m),
         message'[m].owner = message[m].owner,
         message'[m].expiry = message[m].expiry, now' = now
  PROVE  Permitted
  <1>1. \A x \in Messages : Phase(x)' = Phase(x)
    BY SamePhase DEF OthersKept
  <1>2. QED
    BY <1>1 DEF Permitted, Contract!contractVars, OthersKept

\* The leases that had run out when an operation read the clock have run
\* out when it commits: Lapse and Take ask for no more.
LEMMA ExpiredRunOut ==
  ASSUME TypeOK, NEW at \in Nat, at <= now
  PROVE  Contract!RunOut(Expired(at)) /\ Expired(at) \in SUBSET Messages
  <1>1. \A m \in Expired(at) : Phase(m) = "held" /\ message[m].expiry <= now
    BY PhaseOfState DEF Expired, TypeOK, MessageRow, Times
  <1>2. QED
    BY <1>1 DEF Contract!RunOut, Expired

\* What expiry makes of the phase, the holder and the deadline of a message.
LEMMA ExpiredFields ==
  ASSUME TypeOK, NEW at \in Nat, NEW m \in Messages
  PROVE  /\ m \in Expired(at) => /\ MessagesAfterExpiry(at)[m].state = "queued"
                                 /\ MessagesAfterExpiry(at)[m].owner = NoConsumer
                                 /\ MessagesAfterExpiry(at)[m].expiry = 0
         /\ m \notin Expired(at) => MessagesAfterExpiry(at)[m] = message[m]
  BY RowFields DEF MessagesAfterExpiry, TypeOK, States

\* Requeueing what has expired is a Lapse.
LEMMA ExpiryLapses ==
  ASSUME TypeOK, NEW at \in Nat, at <= now, RequeueExpired(at)
  PROVE  Contract!Lapse(Expired(at))
  <1>1. Contract!RunOut(Expired(at))
    BY ExpiredRunOut
  <1>2. message' = MessagesAfterExpiry(at) /\ now' = now
    BY DEF RequeueExpired
  <1>3. \A x \in Messages :
          /\ Phase(x)' = IF x \in Expired(at) THEN "waiting" ELSE Phase(x)
          /\ message'[x].owner = IF x \in Expired(at) THEN NoConsumer ELSE message[x].owner
          /\ message'[x].expiry = IF x \in Expired(at) THEN 0 ELSE message[x].expiry
    BY <1>2, ExpiredFields, NextPhaseOfState, SamePhase
  <1>4. QED
    BY <1>1, <1>2, <1>3 DEF Contract!Lapse

\* A claim, with the expiry it starts with, is a Take.
LEMMA ClaimTakes ==
  ASSUME TypeOK, NEW m \in Messages, NEW c \in Consumers, NEW at \in Nat, at <= now,
         NEW allowed \in ClaimOptions, ClaimNext(m, c, at, allowed)
  PROVE  Contract!Take(Expired(at), m, c)
  <1> DEFINE rows == MessagesAfterExpiry(at)
  <1>1. at + LeaseMs \in Nat
    BY QueueAssumption
  <1>2. rows \in [Messages -> MessageRow]
    BY <1>1, ExpiryType
  <1>3. rows[m].state = "queued"
    BY DEF ClaimNext, Claimable
  <1>4. Phase(m) = "waiting" \/ m \in Expired(at)
    <2>1. CASE m \notin Expired(at)
      BY <1>1, <1>3, <2>1, ExpiredFields, PhaseOfState DEF State
    <2>2. QED
      BY <2>1
  <1>5. /\ message' = [rows EXCEPT ![m] =
             [rows[m] EXCEPT !.state = "leased", !.attemptCount = AttemptNumber(rows[m]),
                             !.owner = c, !.expiry = at + LeaseMs]]
        /\ now' = now
    BY DEF ClaimNext
  <1> HIDE DEF rows
  <1>6. /\ message'[m].state = "leased" /\ message'[m].owner = c
        /\ message'[m].expiry = at + LeaseMs
        /\ \A x \in Messages \ {m} : message'[x] = rows[x]
    BY <1>2, <1>5 DEF MessageRow
  <1>7. Phase(m)' = "held"
    BY <1>6, NextPhaseOfState DEF InFlight
  <1>8. \A x \in Messages \ {m} :
          /\ Phase(x)' = IF x \in Expired(at) THEN "waiting" ELSE Phase(x)
          /\ message'[x].owner = IF x \in Expired(at) THEN NoConsumer ELSE message[x].owner
          /\ message'[x].expiry = IF x \in Expired(at) THEN 0 ELSE message[x].expiry
    BY <1>1, <1>6, ExpiredFields, NextPhaseOfState, SamePhase DEF rows
  <1>9. \A x \in Messages : message'[x].expiry \in Nat
    BY <1>1, <1>2, <1>6 DEF MessageRow
  <1>10. Contract!RunOut(Expired(at))
    BY <1>1, ExpiredRunOut
  <1>11. QED
    BY <1>4, <1>5, <1>6, <1>7, <1>8, <1>9, <1>10 DEF Contract!Take

\* The consumer's other operations: renewing extends, failing refuses.
LEMMA ConsumerPermitted ==
  ASSUME TypeOK, NEW m \in Messages, NEW c \in Consumers, NEW at \in Nat, at <= now,
         ConsumerStep(m, c, at)
  PROVE  Permitted
  <1>1. message \in [Messages -> MessageRow]
    BY DEF TypeOK
  <1>2. ASSUME NEW allowed \in ClaimOptions, ClaimNext(m, c, at, allowed)
        PROVE  Permitted
    <2>1. Expired(at) \in SUBSET Messages
      BY DEF Expired
    <2>2. QED
      BY <1>2, <2>1, ClaimTakes DEF Permitted, Contract!ContractNext
  <1>3. CASE RenewLease(m, c, at)
    <2>1. at + LeaseMs \in Nat
      BY QueueAssumption
    <2>2. /\ OthersKept(m) /\ now' = now
          /\ message'[m].state = message[m].state
          /\ message'[m].owner = message[m].owner
          /\ message'[m].expiry = at + LeaseMs
          /\ State(m) \in InFlight
      BY <1>1, <1>3 DEF RenewLease, OwnedInFlight, OthersKept, MessageRow
    <2>3. Phase(m) = "held" /\ Phase(m)' = "held"
      BY <2>2, PhaseOfState, NextPhaseOfState DEF State
    <2>4. \A x \in Messages : Phase(x)' = Phase(x) /\ message'[x].expiry \in Nat
      BY <1>1, <2>1, <2>2, <2>3, SamePhase DEF OthersKept, MessageRow
    <2>5. Contract!Extend(m)
      BY <2>2, <2>3, <2>4 DEF Contract!Extend, OthersKept
    <2>6. QED
      BY <2>5 DEF Permitted, Contract!ContractNext
  <1>4. CASE BeginDelivery(m, c, at)
    <2>1. /\ OthersKept(m) /\ now' = now
          /\ message'[m].state = "delivering"
          /\ message'[m].owner = message[m].owner
          /\ message'[m].expiry = message[m].expiry
          /\ State(m) = "leased"
      BY <1>1, <1>4 DEF BeginDelivery, OwnedInFlight, OthersKept, MessageRow
    <2>2. QED
      BY <2>1, PhaseOfState, NextPhaseOfState, Unseen DEF InFlight
  <1>5. CASE Fail(m, c, at)
    <2>1. /\ OthersKept(m) /\ now' = now
          /\ message'[m].state = "failed"
          /\ message'[m].owner = NoConsumer /\ message'[m].expiry = 0
          /\ State(m) \in InFlight
      BY <1>1, <1>5 DEF Fail, Released, OwnedInFlight, OthersKept, MessageRow
    <2>2. Contract!Refuse(m)
      BY <2>1, PhaseOfState, NextPhaseOfState, MoveStep DEF Contract!Refuse
    <2>3. QED
      BY <2>2 DEF Permitted, Contract!ContractNext
  <1>6. QED
    BY <1>2, <1>3, <1>4, <1>5 DEF ConsumerStep

\* The recipient accepts, finishes or reports; acknowledging is not seen.
\* Only a message in flight has a holder and a deadline to let go of.
LEMMA RecipientPermitted ==
  ASSUME TypeOK, AttemptLedger, NEW m \in Messages, NEW at \in Nat, at <= now,
         RecipientStep(m, at)
  PROVE  Permitted
  <1>1. message \in [Messages -> MessageRow]
    BY DEF TypeOK
  <1>2. State(m) \notin InFlight => message[m].owner = NoConsumer /\ message[m].expiry = 0
    BY DEF AttemptLedger, LedgerOf, State
  <1>3. CASE RecordReceipt(m)
    <2>1. /\ OthersKept(m) /\ now' = now
          /\ message'[m].state = "receipted"
          /\ message'[m].owner = NoConsumer /\ message'[m].expiry = 0
          /\ State(m) \in InFlight
      BY <1>1, <1>3 DEF RecordReceipt, Released, OthersKept, MessageRow, InFlight
    <2>2. Contract!Accept(m)
      BY <2>1, PhaseOfState, NextPhaseOfState, MoveStep DEF Contract!Accept
    <2>3. QED
      BY <2>2 DEF Permitted, Contract!ContractNext
  <1>4. CASE Acknowledge(m)
    <2>1. /\ OthersKept(m) /\ now' = now
          /\ message'[m].state = "acknowledged"
          /\ message'[m].owner = message[m].owner
          /\ message'[m].expiry = message[m].expiry
          /\ State(m) = "receipted"
      BY <1>1, <1>4 DEF Acknowledge, OthersKept, MessageRow
    <2>2. QED
      BY <2>1, PhaseOfState, NextPhaseOfState, Unseen
  <1>5. CASE Complete(m)
    <2>1. /\ OthersKept(m) /\ now' = now
          /\ message'[m].state = "completed"
          /\ message'[m].owner = message[m].owner
          /\ message'[m].expiry = message[m].expiry
          /\ State(m) = "acknowledged"
      BY <1>1, <1>5 DEF Complete, OthersKept, MessageRow
    <2>2. message'[m].owner = NoConsumer /\ message'[m].expiry = 0
      BY <1>2, <2>1 DEF InFlight
    <2>3. Contract!Finish(m)
      BY <2>1, <2>2, PhaseOfState, NextPhaseOfState, MoveStep DEF Contract!Finish
    <2>4. QED
      BY <2>3 DEF Permitted, Contract!ContractNext
  <1>6. ASSUME NEW k \in Reports, ReportEscalated(k, m)
        PROVE  Permitted
    <2>1. /\ OthersKept(m) /\ now' = now
          /\ message'[m].state = "failed"
          /\ message'[m].owner = NoConsumer /\ message'[m].expiry = 0
          /\ State(m) \in {"receipted", "acknowledged"}
      BY <1>1, <1>6 DEF ReportEscalated, Released, OthersKept, MessageRow
    <2>2. Contract!Interrupt(m)
      BY <2>1, PhaseOfState, NextPhaseOfState, MoveStep DEF Contract!Interrupt
    <2>3. QED
      BY <2>2 DEF Permitted, Contract!ContractNext
  <1>7. ASSUME NEW k \in Reports, NEW delay \in Delays, ReportRetrySafe(k, m, at, delay)
        PROVE  Permitted
    <2>1. /\ OthersKept(m) /\ now' = now
          /\ message'[m].state = "queued"
          /\ message'[m].owner = NoConsumer /\ message'[m].expiry = 0
          /\ State(m) \in {"receipted", "acknowledged"}
      BY <1>1, <1>7 DEF ReportRetrySafe, Requeued, Released, OthersKept, MessageRow
    <2>2. Contract!Interrupt(m)
      BY <2>1, PhaseOfState, NextPhaseOfState, MoveStep DEF Contract!Interrupt
    <2>3. QED
      BY <2>2 DEF Permitted, Contract!ContractNext
  <1>8. QED
    BY <1>3, <1>4, <1>5, <1>6, <1>7 DEF RecipientStep

\* Enqueueing submits, retrying resumes, cancelling drops.
LEMMA OperatorPermitted ==
  ASSUME TypeOK, AttemptLedger, NEW m \in Messages, NEW at \in Nat, at <= now,
         OperatorStep(m, at)
  PROVE  Permitted
  <1>1. message \in [Messages -> MessageRow]
    BY DEF TypeOK
  <1>2. ASSUME NEW delay \in Delays, Enqueue(m, at, delay)
        PROVE  Permitted
    <2>1. /\ OthersKept(m) /\ now' = now
          /\ message'[m].state = "queued"
          /\ message'[m].owner = NoConsumer /\ message'[m].expiry = 0
          /\ State(m) = "absent"
      BY <1>1, <1>2 DEF Enqueue, NoMessage, OthersKept
    <2>2. Contract!Submit(m)
      BY <2>1, PhaseOfState, NextPhaseOfState, MoveStep DEF Contract!Submit
    <2>3. QED
      BY <2>2 DEF Permitted, Contract!ContractNext
  <1>3. ASSUME NEW delay \in Delays, Retry(m, at, delay)
        PROVE  Permitted
    <2>1. /\ OthersKept(m) /\ now' = now
          /\ message'[m].state = "queued"
          /\ message'[m].owner = NoConsumer /\ message'[m].expiry = 0
          /\ State(m) = "failed"
      BY <1>1, <1>3 DEF Retry, Requeued, Released, OthersKept, MessageRow
    <2>2. Contract!Resume(m)
      BY <2>1, PhaseOfState, NextPhaseOfState, MoveStep DEF Contract!Resume
    <2>3. QED
      BY <2>2 DEF Permitted, Contract!ContractNext
  <1>4. CASE Cancel(m)
    <2>1. /\ OthersKept(m) /\ now' = now
          /\ message'[m].state = "cancelled"
          /\ message'[m].owner = message[m].owner
          /\ message'[m].expiry = message[m].expiry
          /\ State(m) \in {"queued", "failed"}
      BY <1>1, <1>4 DEF Cancel, OthersKept, MessageRow
    <2>2. message'[m].owner = NoConsumer /\ message'[m].expiry = 0
      BY <2>1 DEF AttemptLedger, LedgerOf, State, InFlight
    <2>3. Contract!Drop(m)
      BY <2>1, <2>2, PhaseOfState, NextPhaseOfState, MoveStep DEF Contract!Drop
    <2>4. QED
      BY <2>3 DEF Permitted, Contract!ContractNext
  <1>5. QED
    BY <1>2, <1>3, <1>4 DEF OperatorStep

\* Every step of the queue is a step of the contract or one it does not see.
LEMMA StepPermitted == TypeOK /\ AttemptLedger /\ [QueueStep]_vars => Permitted
  <1> SUFFICES ASSUME TypeOK, AttemptLedger, [QueueStep]_vars PROVE Permitted
    OBVIOUS
  <1>1. ASSUME NEW at \in Nat, at <= now, RequeueExpired(at)
        PROVE  Permitted
    <2>1. Expired(at) \in SUBSET Messages
      BY DEF Expired
    <2>2. Contract!Lapse(Expired(at))
      BY <1>1, ExpiryLapses
    <2>3. \E S \in SUBSET Messages : Contract!Lapse(S)
      BY <2>1, <2>2 DEF Contract!Lapse
    <2>4. QED
      BY <2>3 DEF Permitted, Contract!ContractNext
  <1>2. CASE message' = message /\ now' = now
    <2>1. \A x \in Messages : Phase(x)' = Phase(x)
      BY <1>2, SamePhase
    <2>2. QED
      BY <1>2, <2>1 DEF Permitted, Contract!contractVars
  <1>3. CASE Tick
    <2>1. message' = message /\ now' = now + 1 /\ now \in Nat
      BY <1>3 DEF Tick, tables, TypeOK, Times
    <2>2. \A x \in Messages : Phase(x)' = Phase(x)
      BY <2>1, SamePhase
    <2>3. now' \in Nat /\ now < now'
      BY <2>1
    <2>4. Contract!Pass
      BY <2>1, <2>2, <2>3 DEF Contract!Pass
    <2>5. QED
      BY <2>4 DEF Permitted, Contract!ContractNext
  <1>4. QED
    BY <1>1, <1>2, <1>3, ConsumerPermitted, RecipientPermitted, OperatorPermitted
    DEF QueueStep, CreateEscalation, ResolveEscalation, WorkersRecorded, Crash, tables, vars

\* At the start no message is there.
LEMMA StartsEmpty == Init => Contract!ContractInit
  <1>1. Init => \A m \in Messages : Phase(m) = "absent"
    BY PhaseOfState DEF Init, NoMessage, State
  <1>2. QED
    BY <1>1 DEF Init, NoMessage, Contract!ContractInit

\* Whatever the interleaving, the crashes and the delay of the write lock,
\* the queue's transactions keep the delivery contract (queue.ts).
THEOREM QueueImplementsContract == Spec => KeepsContract
  <1>1. TypeOK /\ AttemptLedger /\ [Next]_vars
          => [Contract!ContractNext]_(Contract!contractVars)
    BY NextIsQueueStep, StepPermitted DEF Permitted
  <1>2. QED
    BY <1>1, StartsEmpty, TypeCorrect, LedgerCorrect, PTL
    DEF Spec, KeepsContract, Contract!ContractSpec
=============================================================================
