--------------------------- MODULE GoalIntakeProofs ---------------------------
(***************************************************************************)
(* Theorems about GoalIntake, for any pollers, events and bounds.          *)
(***************************************************************************)
EXTENDS GoalIntake, TLAPS

(***************************************************************************)
(* Why the count of failures keeps its bound: it is one more than a count  *)
(* that was read before a request failed.                                  *)
(***************************************************************************)
Failed(p) == poll[p].failure # "none"

CountsFailures ==
  /\ wait.count <= intakeFaults
  /\ \A p \in Pollers :
       /\ poll[p].prior <= intakeFaults
       /\ Failed(p) => poll[p].prior + 1 <= intakeFaults

(***************************************************************************)
(* What the exclusion rests on: a poller that writes, or is about to let   *)
(* go, and has not taken sixty seconds owns a lock that has not lapsed.    *)
(***************************************************************************)
Holds(p) == coordination.owner = p /\ ~coordination.lapsed

PunctualHolds ==
  \A p \in Pollers :
    (IsWriting(p) \/ PollAt(p, "release")) /\ ~poll[p].overran => Holds(p)

\* What a poller has still to record is on GitHub: nothing is taken back there.
TodoShown == \A p \in Pollers : poll[p].todo \subseteq published

IntakeInv == IntakeTypeOK /\ CountsFailures /\ PunctualHolds /\ TodoShown

USE IntakeAssumption DEF Nobody, Gone

\* The invariant holds at first: nobody polls and nothing is shown.
LEMMA InitIntake == IntakeInit => IntakeInv
  <1> SUFFICES ASSUME IntakeInit PROVE IntakeInv
    OBVIOUS
  <1> USE DEF IntakeInit, BoardItem, ContextStates
  <1>1. IdlePoll \in Poll
    BY DEF IdlePoll, Poll, PollStages
  <1>2. IntakeTypeOK
    <2>1. board \in BoardItem
      OBVIOUS
    <2>2. poll \in [Pollers -> Poll]
      BY <1>1
    <2>3. QED
      BY <2>1, <2>2 DEF IntakeTypeOK
  <1>3. CountsFailures
    BY DEF CountsFailures, Failed, IdlePoll
  <1>4. PunctualHolds
    BY DEF PunctualHolds, IsWriting, Writing, PollAt, IdlePoll
  <1>5. TodoShown
    BY DEF TodoShown, IdlePoll
  <1>6. QED
    BY <1>2, <1>3, <1>4, <1>5 DEF IntakeInv


(***************************************************************************)
(* What a step may do to one poll.  The cases below only say of an action  *)
(* which poll it makes of the poll of p, and which of these rules it is    *)
(* an instance of.                                                         *)
(***************************************************************************)
LEMMA BecomesType ==
  ASSUME poll \in [Pollers -> Poll], NEW p \in Pollers, NEW next \in Poll, PollBecomes(p, next)
  PROVE  /\ poll' \in [Pollers -> Poll]
         /\ poll'[p] = next
         /\ \A q \in Pollers \ {p} : poll'[q] = poll[q]
  BY DEF PollBecomes

Claims(next) == next.at \in Writing \cup {"release"}

\* A step that counts nothing keeps the counts.
LEMMA CountsKept ==
  ASSUME IntakeInv, NEW p \in Pollers, NEW next \in Poll, PollBecomes(p, next),
         next.prior = poll[p].prior, next.failure = poll[p].failure,
         UNCHANGED <<wait, intakeFaults>>
  PROVE  CountsFailures'
  <1>1. poll'[p] = next /\ \A q \in Pollers \ {p} : poll'[q] = poll[q]
    BY BecomesType DEF IntakeInv, IntakeTypeOK
  <1>2. QED
    BY <1>1 DEF IntakeInv, CountsFailures, Failed

\* A step that leaves the lock alone, and makes no poll claim it, keeps it held.
LEMMA HoldsKept ==
  ASSUME IntakeInv, NEW p \in Pollers, NEW next \in Poll, PollBecomes(p, next),
         Claims(next) /\ ~next.overran => Claims(poll[p]) /\ ~poll[p].overran,
         UNCHANGED coordination
  PROVE  PunctualHolds'
  <1>1. poll'[p] = next /\ \A q \in Pollers \ {p} : poll'[q] = poll[q]
    BY BecomesType DEF IntakeInv, IntakeTypeOK
  <1>2. QED
    BY <1>1 DEF IntakeInv, PunctualHolds, IsWriting, PollAt, Holds, Claims

\* A step that takes nothing to record but what GitHub shows keeps it shown.
LEMMA ShownKept ==
  ASSUME IntakeInv, NEW p \in Pollers, NEW next \in Poll, PollBecomes(p, next),
         next.todo \subseteq published, UNCHANGED published
  PROVE  TodoShown'
  <1>1. poll'[p] = next /\ \A q \in Pollers \ {p} : poll'[q] = poll[q]
    BY BecomesType DEF IntakeInv, IntakeTypeOK
  <1>2. QED
    BY <1>1 DEF IntakeInv, TodoShown

\* next is the poll r at another stage, whatever it has read.
Moved(r, next, stage) ==
  /\ next \in Poll /\ next.at = stage /\ next.todo \subseteq r.todo \cup published
  /\ next.prior = r.prior /\ next.failure = r.failure /\ next.overran = r.overran

\* A poll that moves on keeps what it counts and holds.
LEMMA Moves ==
  ASSUME NEW r \in Poll, NEW stage \in PollStages
  PROVE  /\ Moved(r, [r EXCEPT !.at = stage], stage)
         /\ \A item \in BoardItem : Moved(r, [r EXCEPT !.at = stage, !.listed = item], stage)
         /\ \A c \in ContextStates : Moved(r, [r EXCEPT !.at = stage, !.context = c], stage)
         /\ \A c \in ContextStates, then \in {"mapped", "events"} :
              Moved(r, [r EXCEPT !.at = stage, !.context = c, !.then = then], stage)
         /\ \A then \in {"mapped", "events"} :
              Moved(r, [r EXCEPT !.at = stage, !.then = then], stage)
         /\ \A todo \in SUBSET GoalEvents : todo \subseteq r.todo \cup published =>
              /\ Moved(r, [r EXCEPT !.at = stage, !.todo = todo], stage)
              /\ Moved(r, [r EXCEPT !.todo = todo], r.at)
  BY DEF Moved, Poll

PollsKept == poll \in [Pollers -> Poll] /\ CountsFailures /\ PunctualHolds /\ TodoShown

\* The same of a step that only moves a poll on.
LEMMA MovesOn ==
  ASSUME IntakeInv, NEW p \in Pollers, NEW next, NEW stage, PollBecomes(p, next),
         Moved(poll[p], next, stage), stage \in Writing \cup {"release"} => Claims(poll[p]),
         UNCHANGED <<wait, intakeFaults, coordination, published>>
  PROVE  PollsKept'
  <1>1. /\ next \in Poll /\ next.prior = poll[p].prior /\ next.failure = poll[p].failure
        /\ next.overran = poll[p].overran /\ (Claims(next) => Claims(poll[p]))
        /\ next.todo \subseteq published
    BY DEF Moved, Claims, IntakeInv, TodoShown
  <1>2. QED
    BY <1>1, CountsKept, HoldsKept, ShownKept, BecomesType DEF PollsKept, IntakeInv, IntakeTypeOK

\* So does one that goes on to the next thing it has to do.
LEMMA GoesOn ==
  ASSUME IntakeInv, NEW p \in Pollers, NEW stage \in PollStages, PollGoes(p, stage),
         stage \in Writing \cup {"release"} => Claims(poll[p]),
         UNCHANGED <<wait, intakeFaults, coordination, published>>
  PROVE  PollsKept'
  <1>1. Moved(poll[p], [poll[p] EXCEPT !.at = stage], stage)
    BY Moves DEF IntakeInv, IntakeTypeOK
  <1>2. QED
    BY <1>1, MovesOn DEF PollGoes

\* A poll is a record of its type.
LEMMA Fields ==
  ASSUME IntakeInv, NEW p \in Pollers
  PROVE  poll[p] \in Poll
  BY DEF IntakeInv, IntakeTypeOK

-----------------------------------------------------------------------------
\* Starting and ending a poll touches neither the lock nor the board.
LEMMA LoopSteps ==
  ASSUME IntakeInv, NEW p \in Pollers, BeginPoll(p) \/ EndPoll(p) PROVE IntakeInv'
  <1>1. CASE BeginPoll(p)
    <2> DEFINE next == [IdlePoll EXCEPT !.at = "listing", !.prior = wait.count]
    <2>1. /\ next \in Poll /\ next.at = "listing" /\ next.prior = wait.count
          /\ next.failure = "none"
      BY DEF IdlePoll, Poll, PollStages, BoardItem, ContextStates, IntakeInv, IntakeTypeOK
    <2>2. PollBecomes(p, next)
      BY <1>1 DEF BeginPoll
    <2> HIDE DEF next
    <2>3. /\ poll' \in [Pollers -> Poll] /\ poll'[p] = next
          /\ \A q \in Pollers \ {p} : poll'[q] = poll[q]
      BY <2>1, <2>2, BecomesType DEF IntakeInv, IntakeTypeOK
    <2>4. IntakeTypeOK'
      BY <1>1, <2>3 DEF BeginPoll, IntakeInv, IntakeTypeOK
    <2>5. CountsFailures'
      BY <1>1, <2>1, <2>3 DEF BeginPoll, IntakeInv, CountsFailures, Failed
    <2>6. PunctualHolds'
      BY <1>1, <2>1, <2>2, HoldsKept DEF BeginPoll, Claims, Writing
    <2>7. TodoShown'
      <3>1. next.todo = {}
        BY DEF next, IdlePoll
      <3>2. QED
        BY <1>1, <2>1, <2>2, <3>1, ShownKept DEF BeginPoll
    <2>8. QED
      BY <2>4, <2>5, <2>6, <2>7 DEF IntakeInv
  <1>2. CASE EndPoll(p)
    <2>1. /\ IdlePoll \in Poll /\ IdlePoll.at = "idle" /\ IdlePoll.prior = 0
          /\ IdlePoll.failure = "none"
      BY DEF IdlePoll, Poll, PollStages, BoardItem, ContextStates
    <2>2. PollBecomes(p, IdlePoll)
      BY <1>2 DEF EndPoll
    <2>3. /\ poll' \in [Pollers -> Poll] /\ poll'[p] = IdlePoll
          /\ \A q \in Pollers \ {p} : poll'[q] = poll[q]
      BY <2>1, <2>2, BecomesType DEF IntakeInv, IntakeTypeOK
    <2>4. /\ wait' \in [count : 0..IntakeFaults, due : BOOLEAN]
          /\ wait'.count <= intakeFaults
      <3>1. CASE poll[p].failure = "transient"
        <4>1. poll[p].prior \in Nat /\ poll[p].prior + 1 <= intakeFaults
          BY <3>1, Fields DEF IntakeInv, CountsFailures, Failed, Poll
        <4>2. QED
          BY <1>2, <3>1, <4>1 DEF EndPoll, NextWait, IntakeInv, IntakeTypeOK
      <3>2. CASE poll[p].failure # "transient"
        BY <1>2, <3>2 DEF EndPoll, NextWait, IntakeInv, IntakeTypeOK
      <3>3. QED
        BY <3>1, <3>2
    <2>5. IntakeTypeOK'
      BY <1>2, <2>3, <2>4 DEF EndPoll, IntakeInv, IntakeTypeOK
    <2>6. CountsFailures'
      BY <1>2, <2>1, <2>3, <2>4 DEF EndPoll, IntakeInv, IntakeTypeOK, CountsFailures, Failed
    <2>7. PunctualHolds'
      BY <1>2, <2>1, <2>2, HoldsKept DEF EndPoll, Claims, Writing
    <2>8. TodoShown'
      <3>1. IdlePoll.todo = {}
        BY DEF IdlePoll
      <3>2. QED
        BY <1>2, <2>1, <2>2, <3>1, ShownKept DEF EndPoll
    <2>9. QED
      BY <2>5, <2>6, <2>7, <2>8 DEF IntakeInv
  <1>3. QED
    BY <1>1, <1>2

\* Neither does reading, or recording an event.
LEMMA ReadSteps ==
  ASSUME IntakeInv, NEW p \in Pollers,
         \/ ListGoals(p) \/ GetContext(p) \/ SkipGoal(p) \/ ListEvents(p) \/ RecordEvent(p)
         \/ AllRecorded(p)
  PROVE  IntakeInv'
  <1> USE Fields
  <1> SUFFICES PollsKept' /\ (PollsKept' => IntakeTypeOK')
    BY DEF PollsKept, IntakeInv
  <1>1. CASE ListGoals(p)
    <2>1. Moved(poll[p], [poll[p] EXCEPT !.at = "goal", !.listed = board], "goal")
      BY Moves DEF PollStages, IntakeInv, IntakeTypeOK
    <2>2. PollsKept'
      BY <1>1, <2>1, MovesOn DEF ListGoals, Writing
    <2>3. QED
      BY <1>1, <2>2 DEF ListGoals, PollsKept, IntakeInv, IntakeTypeOK
  <1>2. CASE GetContext(p)
    <2>1. Moved(poll[p], [poll[p] EXCEPT !.at = "mapped", !.context = goalContext], "mapped")
      BY Moves DEF PollStages, IntakeInv, IntakeTypeOK
    <2>2. PollsKept'
      BY <1>2, <2>1, MovesOn DEF GetContext, Writing
    <2>3. QED
      BY <1>2, <2>2 DEF GetContext, PollsKept, IntakeInv, IntakeTypeOK
  <1>3. CASE SkipGoal(p) \/ AllRecorded(p)
    <2>1. PollsKept'
      BY <1>3, GoesOn DEF SkipGoal, AllRecorded, Writing, PollStages
    <2>2. QED
      BY <1>3, <2>1 DEF SkipGoal, AllRecorded, PollsKept, IntakeInv, IntakeTypeOK
  <1>4. CASE ListEvents(p)
    <2>1. published \in SUBSET GoalEvents
      BY DEF IntakeInv, IntakeTypeOK
    <2>2. Moved(poll[p], [poll[p] EXCEPT !.at = "recording", !.todo = published], "recording")
      BY <2>1, Moves DEF PollStages
    <2>3. PollsKept'
      BY <1>4, <2>2, MovesOn DEF ListEvents, Writing
    <2>4. QED
      BY <1>4, <2>3 DEF ListEvents, PollsKept, IntakeInv, IntakeTypeOK
  <1>5. CASE RecordEvent(p)
    <2>1. PICK e \in poll[p].todo :
            /\ goalEvents' = goalEvents \cup {e}
            /\ PollBecomes(p, [poll[p] EXCEPT !.todo = Rest(p, e)])
      BY <1>5 DEF RecordEvent
    <2>2. Rest(p, e) \in SUBSET GoalEvents
      BY DEF Rest, Poll
    <2>3. Moved(poll[p], [poll[p] EXCEPT !.todo = Rest(p, e)], poll[p].at)
      BY <2>2, Moves DEF PollStages, Rest
    <2>4. PollsKept'
      BY <1>5, <2>1, <2>3, MovesOn DEF RecordEvent, Writing, PollAt
    <2>5. e \in published
      BY DEF IntakeInv, TodoShown
    <2>6. QED
      BY <1>5, <2>1, <2>4, <2>5 DEF RecordEvent, PollsKept, IntakeInv, IntakeTypeOK
  <1>6. QED
    BY <1>1, <1>2, <1>3, <1>4, <1>5

\* Neither do provisioning, mapping the board and reading the fields.
LEMMA ContextSteps ==
  ASSUME IntakeInv, NEW p \in Pollers,
         Provision(p) \/ MapState(p) \/ ReadFields(p) \/ CreateFields(p)
  PROVE  IntakeInv'
  <1> USE Fields
  <1> SUFFICES PollsKept' /\ (PollsKept' => IntakeTypeOK')
    BY DEF PollsKept, IntakeInv
  <1>1. CASE Provision(p)
    <2>1. Moved(poll[p], [poll[p] EXCEPT !.at = "locking", !.context = "routed", !.then = "mapped"],
                "locking")
      BY Moves DEF PollStages, ContextStates
    <2>2. PollsKept'
      BY <1>1, <2>1, MovesOn DEF Provision, Writing
    <2>3. QED
      BY <1>1, <2>2 DEF Provision, ContextStates, PollsKept, IntakeInv, IntakeTypeOK
  <1>2. CASE MapState(p)
    <2> DEFINE stage == CASE poll[p].listed.state = "closed" -> "closing"
                          [] poll[p].listed.state = "active" /\ ~IsRecorded(p) -> "locking"
                          [] OTHER -> "events"
    <2>1. stage \in {"closing", "locking", "events"}
      OBVIOUS
    <2>2. PollBecomes(p, [poll[p] EXCEPT !.at = stage, !.then = "events"])
      BY <1>2 DEF MapState
    <2> HIDE DEF stage
    <2>3. stage \in PollStages /\ stage \notin Writing \cup {"release"}
      BY <2>1 DEF PollStages, Writing
    <2>4. Moved(poll[p], [poll[p] EXCEPT !.at = stage, !.then = "events"], stage)
      BY <2>3, Moves
    <2>5. PollsKept'
      BY <1>2, <2>2, <2>3, <2>4, MovesOn DEF MapState
    <2>6. QED
      BY <1>2, <2>5 DEF MapState, PollsKept, IntakeInv, IntakeTypeOK
  <1>3. CASE ReadFields(p) \/ CreateFields(p)
    <2>1. Claims(poll[p])
      BY <1>3 DEF ReadFields, CreateFields, PollAt, Claims, Writing
    <2>2. PollsKept'
      BY <1>3, <2>1, GoesOn DEF ReadFields, CreateFields, PollStages
    <2>3. QED
      BY <1>3, <2>2 DEF ReadFields, CreateFields, PollsKept, IntakeInv, IntakeTypeOK
  <1>4. QED
    BY <1>1, <1>2, <1>3

\* A write to the board is made by the poll that holds the lock.
LEMMA WriteSteps ==
  ASSUME IntakeInv, NEW p \in Pollers, WriteId(p) \/ WriteUrl(p) \/ WriteState(p)
  PROVE  IntakeInv'
  <1> USE DEF WriteId, WriteUrl, WriteState
  <1>1. Claims(poll[p])
    BY DEF PollAt, Claims, Writing
  <1>2. PollsKept'
    BY <1>1, GoesOn DEF PollStages
  <1>3. board' \in BoardItem
    BY DEF BoardItem, IntakeInv, IntakeTypeOK
  <1>4. QED
    BY <1>2, <1>3 DEF PollsKept, IntakeInv, IntakeTypeOK

-----------------------------------------------------------------------------
(***************************************************************************)
(* The steps that change the lock.                                         *)
(***************************************************************************)

\* A poller that gets the lock takes it from no punctual one: the lock was free
\* or had lapsed, and a punctual one holds a lock that has not.
LEMMA LockStep ==
  ASSUME IntakeInv, NEW p \in Pollers, TryLock(p) PROVE IntakeInv'
  <1>1. CASE LockIsFree
    <2> DEFINE next == [poll[p] EXCEPT !.at = "fields"]
    <2>1. /\ coordination' = [owner |-> p, lapsed |-> FALSE]
          /\ PollBecomes(p, next)
      BY <1>1 DEF TryLock, PollGoes
    <2>2. Moved(poll[p], next, "fields")
      BY Moves, Fields DEF PollStages
    <2> HIDE DEF next
    <2>3. /\ next \in Poll /\ next.prior = poll[p].prior /\ next.failure = poll[p].failure
          /\ next.todo \subseteq published
      BY <2>2 DEF Moved, IntakeInv, TodoShown
    <2>4. /\ poll' \in [Pollers -> Poll] /\ poll'[p] = next
          /\ \A q \in Pollers \ {p} : poll'[q] = poll[q]
      BY <2>1, <2>3, BecomesType DEF IntakeInv, IntakeTypeOK
    <2>5. CountsFailures' /\ TodoShown'
      BY <2>1, <2>3, CountsKept, ShownKept DEF TryLock
    <2>6. ASSUME NEW q \in Pollers, Claims(poll'[q]), ~poll'[q].overran
          PROVE  coordination'.owner = q /\ ~coordination'.lapsed
      <3>1. CASE q = p
        BY <2>1, <3>1
      <3>2. CASE q # p
        <4>1. coordination.owner = q /\ ~coordination.lapsed
          BY <2>4, <2>6, <3>2
             DEF Claims, IntakeInv, PunctualHolds, IsWriting, PollAt, Holds
        <4>2. QED
          BY <1>1, <4>1 DEF LockIsFree
      <3>3. QED
        BY <3>1, <3>2
    <2>7. PunctualHolds'
      BY <2>6 DEF PunctualHolds, IsWriting, PollAt, Holds, Claims
    <2>8. IntakeTypeOK'
      BY <2>1, <2>4 DEF TryLock, IntakeInv, IntakeTypeOK
    <2>9. QED
      BY <2>5, <2>7, <2>8 DEF IntakeInv
  <1>2. CASE ~LockIsFree
    <2>1. poll[p].then \in PollStages /\ poll[p].then \notin Writing \cup {"release"}
      BY Fields DEF Poll, PollStages, Writing
    <2>2. PollsKept'
      BY <1>2, <2>1, GoesOn DEF TryLock
    <2>3. QED
      BY <1>2, <2>2 DEF TryLock, PollsKept, IntakeInv, IntakeTypeOK
  <1>3. QED
    BY <1>1, <1>2

\* What a poller that claims the lock no more, or has lapsed, does to the row
\* when it is its own, is nothing to the others.
LEMMA OwnLock ==
  ASSUME IntakeInv, NEW p \in Pollers, NEW next \in Poll, PollBecomes(p, next),
         ~Claims(next) \/ next.overran,
         \A q \in Pollers \ {p} : Holds(q) => Holds(q)'
  PROVE  PunctualHolds'
  <1>1. poll'[p] = next /\ \A q \in Pollers \ {p} : poll'[q] = poll[q]
    BY BecomesType DEF IntakeInv, IntakeTypeOK
  <1>2. QED
    BY <1>1 DEF IntakeInv, PunctualHolds, IsWriting, PollAt, Claims

\* A release lets go of the lock the poll itself took, and of no other.
LEMMA ReleaseStep ==
  ASSUME IntakeInv, NEW p \in Pollers, EndRecord(p) PROVE IntakeInv'
  <1> DEFINE next == [poll[p] EXCEPT !.overran = FALSE,
                        !.at = IF poll[p].failure = "none" THEN poll[p].then ELSE "closing"]
  <1>1. /\ next \in Poll /\ next.prior = poll[p].prior /\ next.failure = poll[p].failure
        /\ next.todo = poll[p].todo /\ next.at \in {"mapped", "events", "closing"}
    BY Fields DEF Poll, PollStages
  <1>2. PollBecomes(p, next)
    BY DEF EndRecord
  <1> HIDE DEF next
  <1>3. poll' \in [Pollers -> Poll]
    BY <1>1, <1>2, BecomesType DEF IntakeInv, IntakeTypeOK
  <1>4. /\ coordination' \in [owner : Pollers \cup {Nobody, Gone}, lapsed : BOOLEAN]
        /\ \A q \in Pollers \ {p} : Holds(q) => Holds(q)'
    BY DEF EndRecord, Release, Holds, IntakeInv, IntakeTypeOK
  <1>5. PunctualHolds'
    BY <1>1, <1>2, <1>4, OwnLock DEF Claims, Writing
  <1>6. CountsFailures' /\ TodoShown'
    BY <1>1, <1>2, CountsKept, ShownKept DEF EndRecord, IntakeInv, TodoShown
  <1>7. IntakeTypeOK'
    BY <1>3, <1>4 DEF EndRecord, IntakeInv, IntakeTypeOK
  <1>8. QED
    BY <1>5, <1>6, <1>7 DEF IntakeInv

\* A poll that overruns its lease is not punctual from then on.
LEMMA OverrunStep ==
  ASSUME IntakeInv, NEW p \in Pollers, Overrun(p) PROVE IntakeInv'
  <1> DEFINE next == [poll[p] EXCEPT !.overran = TRUE]
  <1>1. /\ next \in Poll /\ next.prior = poll[p].prior /\ next.failure = poll[p].failure
        /\ next.todo = poll[p].todo /\ next.overran
    BY Fields DEF Poll
  <1>2. PollBecomes(p, next)
    BY DEF Overrun
  <1> HIDE DEF next
  <1>3. poll' \in [Pollers -> Poll]
    BY <1>1, <1>2, BecomesType DEF IntakeInv, IntakeTypeOK
  <1>4. /\ coordination' \in [owner : Pollers \cup {Nobody, Gone}, lapsed : BOOLEAN]
        /\ \A q \in Pollers \ {p} : Holds(q) => Holds(q)'
    BY DEF Overrun, Holds, IntakeInv, IntakeTypeOK
  <1>5. PunctualHolds'
    BY <1>1, <1>2, <1>4, OwnLock
  <1>6. CountsFailures' /\ TodoShown'
    BY <1>1, <1>2, CountsKept, ShownKept DEF Overrun, IntakeInv, TodoShown
  <1>7. IntakeTypeOK'
    BY <1>3, <1>4 DEF Overrun, IntakeInv, IntakeTypeOK
  <1>8. QED
    BY <1>5, <1>6, <1>7 DEF IntakeInv

-----------------------------------------------------------------------------
(***************************************************************************)
(* Failures.                                                               *)
(***************************************************************************)
LEMMA CountsFault ==
  ASSUME IntakeInv, NEW p \in Pollers, NEW next \in Poll, PollBecomes(p, next),
         next.prior = poll[p].prior \/ (next.prior = 0 /\ next.failure = "none"),
         IntakeFails, UNCHANGED wait
  PROVE  CountsFailures' /\ intakeFaults' \in 0..IntakeFaults
  <1>1. poll'[p] = next /\ \A q \in Pollers \ {p} : poll'[q] = poll[q]
    BY BecomesType DEF IntakeInv, IntakeTypeOK
  <1>2. /\ intakeFaults \in Nat /\ intakeFaults' = intakeFaults + 1
        /\ intakeFaults' \in 0..IntakeFaults
    BY DEF IntakeFails, IntakeInv, IntakeTypeOK
  <1>3. wait'.count <= intakeFaults'
    BY <1>2 DEF IntakeInv, IntakeTypeOK, CountsFailures
  <1>4. ASSUME NEW q \in Pollers
        PROVE  /\ poll'[q].prior <= intakeFaults'
               /\ poll'[q].failure # "none" => poll'[q].prior + 1 <= intakeFaults'
    <2>1. /\ poll[q].prior \in Nat /\ poll[q].prior <= intakeFaults
          /\ poll[p].prior \in Nat /\ poll[p].prior <= intakeFaults
      BY Fields DEF Poll, IntakeInv, CountsFailures
    <2>2. poll'[q].prior \in {poll[q].prior, poll[p].prior, 0}
      BY <1>1
    <2>3. QED
      BY <1>2, <2>1, <2>2
  <1>5. QED
    BY <1>2, <1>3, <1>4 DEF CountsFailures, Failed

\* A failed request ends the poll, after the release of its lock; a poller may die.
LEMMA FailureSteps ==
  ASSUME IntakeInv, NEW p \in Pollers, RequestFails(p) \/ ProvisionFails(p) \/ PollerDies(p)
  PROVE  IntakeInv'
  <1>1. CASE RequestFails(p)
    <2>1. PICK failure \in {"transient", "other"} :
            PollBecomes(p, [poll[p] EXCEPT !.failure = failure,
                              !.at = IF IsWriting(p) THEN "release" ELSE "closing"])
      BY <1>1 DEF RequestFails
    <2> DEFINE next == [poll[p] EXCEPT !.failure = failure,
                          !.at = IF IsWriting(p) THEN "release" ELSE "closing"]
    <2>2. /\ next \in Poll /\ next.prior = poll[p].prior /\ next.todo = poll[p].todo
          /\ next.overran = poll[p].overran /\ (Claims(next) => IsWriting(p))
      BY Fields DEF Poll, PollStages, Claims, Writing
    <2>3. PollBecomes(p, next)
      BY <2>1
    <2> HIDE DEF next
    <2>4. CountsFailures' /\ intakeFaults' \in 0..IntakeFaults
      BY <1>1, <2>2, <2>3, CountsFault DEF RequestFails
    <2>5. PunctualHolds'
      BY <1>1, <2>2, <2>3, HoldsKept DEF RequestFails, Claims, IsWriting
    <2>6. poll' \in [Pollers -> Poll] /\ TodoShown'
      BY <1>1, <2>2, <2>3, BecomesType, ShownKept
      DEF RequestFails, IntakeInv, IntakeTypeOK, TodoShown
    <2>7. IntakeTypeOK'
      BY <1>1, <2>4, <2>6 DEF RequestFails, IntakeInv, IntakeTypeOK
    <2>8. QED
      BY <2>4, <2>5, <2>6, <2>7 DEF IntakeInv
  <1>2. CASE ProvisionFails(p)
    <2> DEFINE next == [poll[p] EXCEPT !.at = "closing", !.failure = "other"]
    <2>1. /\ next \in Poll /\ next.prior = poll[p].prior /\ next.todo = poll[p].todo
          /\ ~Claims(next)
      BY Fields DEF Poll, PollStages, Claims, Writing
    <2>2. PollBecomes(p, next)
      BY <1>2 DEF ProvisionFails
    <2> HIDE DEF next
    <2>3. CountsFailures' /\ intakeFaults' \in 0..IntakeFaults
      BY <1>2, <2>1, <2>2, CountsFault DEF ProvisionFails
    <2>4. PunctualHolds'
      BY <1>2, <2>1, <2>2, HoldsKept DEF ProvisionFails
    <2>5. poll' \in [Pollers -> Poll] /\ TodoShown'
      BY <1>2, <2>1, <2>2, BecomesType, ShownKept
         DEF ProvisionFails, IntakeInv, IntakeTypeOK, TodoShown
    <2>6. IntakeTypeOK'
      BY <1>2, <2>3, <2>5 DEF ProvisionFails, ContextStates, IntakeInv, IntakeTypeOK
    <2>7. QED
      BY <2>3, <2>4, <2>5, <2>6 DEF IntakeInv
  <1>3. CASE PollerDies(p)
    <2>1. /\ IdlePoll \in Poll /\ IdlePoll.prior = 0 /\ IdlePoll.failure = "none"
          /\ IdlePoll.todo = {} /\ ~Claims(IdlePoll)
      BY DEF IdlePoll, Poll, PollStages, BoardItem, ContextStates, Claims, Writing
    <2>2. PollBecomes(p, IdlePoll)
      BY <1>3 DEF PollerDies
    <2>3. CountsFailures' /\ intakeFaults' \in 0..IntakeFaults
      BY <1>3, <2>1, <2>2, CountsFault DEF PollerDies
    <2>4. /\ coordination' \in [owner : Pollers \cup {Nobody, Gone}, lapsed : BOOLEAN]
          /\ \A q \in Pollers \ {p} : Holds(q) => Holds(q)'
      BY <1>3 DEF PollerDies, Holds, IntakeInv, IntakeTypeOK
    <2>5. PunctualHolds'
      BY <2>1, <2>2, <2>4, OwnLock
    <2>6. poll' \in [Pollers -> Poll] /\ TodoShown'
      BY <1>3, <2>1, <2>2, BecomesType, ShownKept DEF PollerDies, IntakeInv, IntakeTypeOK
    <2>7. IntakeTypeOK'
      BY <1>3, <2>3, <2>4, <2>6 DEF PollerDies, IntakeInv, IntakeTypeOK
    <2>8. QED
      BY <2>3, <2>5, <2>6, <2>7 DEF IntakeInv
  <1>4. QED
    BY <1>1, <1>2, <1>3

-----------------------------------------------------------------------------
(***************************************************************************)
(* Steps that are no poller's.                                             *)
(***************************************************************************)
LEMMA OtherSteps ==
  ASSUME IntakeInv,
         TimePasses \/ MoveGoal \/ (\E e \in GoalEvents : Publish(e)) \/ UNCHANGED intakeVars
  PROVE  IntakeInv'
  <1> USE DEF IntakeInv, IntakeTypeOK, CountsFailures, Failed, PunctualHolds, IsWriting, PollAt,
              Holds, TodoShown
  <1>1. CASE Lapse
    BY <1>1 DEF Lapse
  <1>2. CASE Due
    BY <1>2 DEF Due
  <1>3. CASE RouteContext
    BY <1>3 DEF RouteContext, ContextStates
  <1>4. CASE MoveGoal
    <2>1. board' \in BoardItem /\ boardMoves' \in 0..MaxBoardMoves
      BY <1>4 DEF MoveGoal, BoardItem
    <2>2. QED
      BY <1>4, <2>1 DEF MoveGoal
  <1>5. CASE \E e \in GoalEvents : Publish(e)
    BY <1>5 DEF Publish
  <1>6. CASE UNCHANGED intakeVars
    BY <1>6 DEF intakeVars
  <1>7. QED
    BY <1>1, <1>2, <1>3, <1>4, <1>5, <1>6 DEF TimePasses

\* Every step keeps the invariant.
LEMMA IntakeInductive == IntakeInv /\ [IntakeNext]_intakeVars => IntakeInv'
  <1> SUFFICES ASSUME IntakeInv, [IntakeNext]_intakeVars PROVE IntakeInv'
    OBVIOUS
  <1>1. ASSUME NEW p \in Pollers, PollStep(p) PROVE IntakeInv'
    BY <1>1, LoopSteps, ReadSteps, ContextSteps, WriteSteps, LockStep, ReleaseStep DEF PollStep
  <1>2. ASSUME NEW p \in Pollers,
               RequestFails(p) \/ ProvisionFails(p) \/ PollerDies(p) \/ Overrun(p)
        PROVE  IntakeInv'
    BY <1>2, FailureSteps, OverrunStep
  <1>3. QED
    BY <1>1, <1>2, OtherSteps DEF IntakeNext

\* It holds in every reachable state.
LEMMA IntakeInvariant == IntakeSpec => []IntakeInv
  BY InitIntake, IntakeInductive, PTL DEF IntakeSpec

-----------------------------------------------------------------------------
\* Everything the intake keeps has its type: the row of the lock, the count of a
\* wait and the polls, for any number of pollers, events, moves and failures.
THEOREM IntakeTypes == IntakeSpec => []IntakeTypeOK
  <1>1. IntakeInv => IntakeTypeOK
    BY DEF IntakeInv
  <1>2. QED
    BY <1>1, IntakeInvariant, PTL

\* withCoordinationLock: two pollers write the project's fields at once only if one
\* of them takes longer than the lock lasts.  Both would own the row otherwise.
THEOREM OneWriter == IntakeSpec => []OneWriterWithinLease
  <1>1. IntakeInv => OneWriterWithinLease
    BY DEF IntakeInv, PunctualHolds, Holds, OneWriterWithinLease
  <1>2. QED
    BY <1>1, IntakeInvariant, PTL
=============================================================================
