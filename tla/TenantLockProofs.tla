--------------------------- MODULE TenantLockProofs ---------------------------
(***************************************************************************)
(* Theorems about TenantLock, for any operations, any lease of at least    *)
(* two ticks and any bounds.                                               *)
(***************************************************************************)
EXTENDS TenantLock, TLAPS

(***************************************************************************)
(* What is known of the row r of one operation, whatever the blob says:    *)
(* which request may be under way in which phase, and what the loop, the   *)
(* callback and the outcome may be then.                                   *)
(***************************************************************************)
Opening == {"acquire", "record", "undo"}
Renewing == {"renew", "rewrite"}
Closing == {"unrecord", "release"}

Before(r) == r.phase \in {"idle", "acquiring"}

RowWorks(r) == r.execution = "running" /\ ~r.aborted

RequestFits(r) ==
  /\ r.call = "none" <=> r.reply = "none"
  /\ r.call \in Opening <=> r.phase = "acquiring"
  /\ r.call \in Renewing <=> r.loop = "renewing"
  /\ r.call \in Closing => r.phase \in {"closing", "aborting"} /\ r.loop \in {"ended", "failed"}
  /\ r.phase \in {"done", "crashed", "idle"} => r.call = "none"
  /\ r.reply = "error" => r.troubled

CallFits(r) ==
  /\ Before(r) => r.execution = "none" /\ r.loop = "none" /\ r.outcome = "none" /\ ~r.aborted
  /\ r.phase = "running" => r.loop \in {"waiting", "renewing", "failed"} /\ r.outcome = "none"
  /\ r.phase = "closing" => r.execution = "resolved" /\ r.outcome = "none"
  /\ r.phase = "aborting" => r.aborted /\ r.outcome = "none"
  /\ r.loop = "failed" => r.aborted
  /\ r.loop = "waiting" => r.phase = "running"
  /\ r.outcome = "succeeded" => r.phase = "done" /\ r.execution # "running"
  /\ r.execution = "running" => ~Before(r)
  /\ RowWorks(r) => r.phase = "running"
  /\ ~r.active /\ r.phase \in {"running", "closing", "aborting"} => r.loop \in {"ended", "failed"}

Local(r) == RequestFits(r) /\ CallFits(r)

(***************************************************************************)
(* What an answer tells its operation about the blob, and how long it is   *)
(* true: a lease that is not ours stays so unless we acquire or renew.     *)
(***************************************************************************)
KnowsLost(r, o) ==
  /\ r.phase = "idle" => holder # o
  /\ r.call = "acquire" /\ r.reply \in {"sent", "conflict"} => holder # o
  /\ r.call = "renew" /\ r.reply = "conflict" => holder # o
  /\ r.call \in {"undo", "release"} /\ r.reply \in {"ok", "conflict"} => holder # o
  /\ r.call \in {"record", "rewrite", "unrecord"} /\ r.reply = "conflict" => ~HasLease(o)
  /\ ~r.active /\ r.phase \in {"running", "closing", "aborting"} => ~HasLease(o)
  /\ r.phase = "done" => ~HasLease(o) \/ r.troubled

KnowsRecord(r, o) ==
  holder = o /\ (r.phase = "running" \/ (r.call = "record" /\ r.reply = "ok")) => record = o

(***************************************************************************)
(* Without lateness, a request is answered in the tick in which it was     *)
(* sent, so a lease that was just acquired or renewed is whole, and the    *)
(* timer of one that works fires before its lease ends.                    *)
(***************************************************************************)
Fresh(r, o) ==
  \/ r.call \in {"acquire", "renew"} /\ r.reply = "ok"
  \/ r.call \in {"record", "rewrite"}
  => holder = o /\ until = clock + Duration

InTime(r, o) ==
  RowWorks(r) =>
    /\ holder = o /\ clock < until
    /\ r.loop = "waiting" => clock <= r.due /\ r.due < until

Fine(r, o) ==
  /\ Local(r) /\ KnowsLost(r, o) /\ KnowsRecord(r, o)
  /\ ~late => Fresh(r, o) /\ InTime(r, o)

(***************************************************************************)
(* Who may still win: the owner of the lease, one whose release was        *)
(* granted on the way to success, and a winner.  Nobody becomes one of     *)
(* these after the lock was acquired, and of two that met one is not.      *)
(***************************************************************************)
MayWin(r, o) ==
  \/ holder = o
  \/ r.call = "release" /\ r.reply = "ok" /\ r.phase = "closing"
  \/ r.outcome = "succeeded"

OneMayWin ==
  \A o, p \in Operations :
    {o, p} \in met =>
      /\ ~Before(op[o])
      /\ MayWin(op[o], o) /\ MayWin(op[p], p) => o = p

LockInv == TypeOK /\ (\A o \in Operations : Fine(op[o], o)) /\ OneMayWin

USE LockAssumption

\* The invariant holds at first: no operation has begun.
LEMMA InitLock == Init => LockInv
  <1> SUFFICES ASSUME Init PROVE LockInv
    OBVIOUS
  <1> USE DEF Init, BlobInit
  <1>1. Idle \in Operation
    BY DEF Idle, Operation, Calls
  <1>2. TypeOK
    <2>1. op \in [Operations -> Operation]
      BY <1>1
    <2>2. until \in 0..(MaxTime + Duration) /\ clock \in 0..MaxTime /\ faults \in 0..MaxFaults
      OBVIOUS
    <2>3. met \subseteq {{o, p} : o, p \in Operations}
      OBVIOUS
    <2>4. /\ holder \in Operations \cup {Nobody} /\ record \in Operations \cup {Nobody}
          /\ late \in BOOLEAN
      OBVIOUS
    <2> HIDE DEF Init, BlobInit
    <2>5. QED
      BY <2>1, <2>2, <2>3, <2>4 DEF TypeOK
  <1>3. ASSUME NEW o \in Operations PROVE Fine(op[o], o)
    BY <1>3 DEF Fine, Idle, Local, RequestFits, CallFits, Before, Opening, Renewing,
                Closing, RowWorks, KnowsLost, KnowsRecord, Fresh, InTime, HasLease
  <1>4. OneMayWin
    BY DEF OneMayWin
  <1>5. QED
    BY <1>2, <1>3, <1>4 DEF LockInv

-----------------------------------------------------------------------------
\* What a step must show that changes the row of o and no more of the lock.
LEMMA RowStep ==
  ASSUME LockInv, NEW o \in Operations, NEW row \in Operation, op' = [op EXCEPT ![o] = row],
         UNCHANGED <<blobVars, clock, late, met>>, faults' \in 0..MaxFaults,
         Fine(row, o), Before(row) => Before(op[o]),
         ~Before(op[o]) /\ MayWin(row, o) => MayWin(op[o], o)
  PROVE  LockInv'
  <1>1. op'[o] = row /\ \A p \in Operations \ {o} : op'[p] = op[p]
    BY DEF LockInv, TypeOK
  <1>2. TypeOK'
    BY DEF LockInv, TypeOK, blobVars
  <1>3. ASSUME NEW p \in Operations PROVE Fine(op[p], p)'
    <2>1. Fine(op'[p], p)
      BY <1>1 DEF LockInv
    <2>2. QED
      BY <1>1, <2>1 DEF Fine, Local, RequestFits, CallFits, Before, Opening, Renewing,
                        Closing, RowWorks, KnowsLost, KnowsRecord, Fresh, InTime,
                        HasLease, blobVars
  <1>4. OneMayWin'
    BY <1>1 DEF LockInv, OneMayWin, MayWin, blobVars
  <1>5. QED
    BY <1>2, <1>3, <1>4 DEF LockInv


\* next is a row that o may get in place of the row r.
MayBecome(r, next, o) ==
  /\ next \in Operation /\ Fine(next, o)
  /\ Before(next) => Before(r)
  /\ ~Before(r) /\ MayWin(next, o) => MayWin(r, o)

\* An operation that becomes a fine row leaves the others fine.
LEMMA BecomesStep ==
  ASSUME LockInv, NEW o \in Operations, NEW row, Becomes(o, row), UNCHANGED met,
         MayBecome(op[o], row, o)
  PROVE  LockInv'
  <1>1. faults' \in 0..MaxFaults
    BY DEF Becomes, LockInv, TypeOK
  <1>2. QED
    BY <1>1, RowStep DEF Becomes, MayBecome

\* A renewal is due before the lease ends.
LEMMA RenewInTime == RenewAfter \in Nat /\ RenewAfter < Duration
  BY DEF RenewAfter

\* The rows of operations are records of their type.
LEMMA Rows ==
  ASSUME LockInv, NEW o \in Operations
  PROVE  op[o] \in Operation /\ Fine(op[o], o) /\ clock \in 0..MaxTime
  BY DEF LockInv, TypeOK

-----------------------------------------------------------------------------
(***************************************************************************)
(* The steps of a call of runWithTenantLock, except the one that starts    *)
(* its callback.                                                           *)
(***************************************************************************)
\* Acquiring: an answer of the blob decides how it goes on.
LEMMA OpeningSteps ==
  ASSUME LockInv, NEW o \in Operations,
         Start(o) \/ AcquireAnswered(o) \/ RecordRefused(o) \/ UndoAnswered(o)
  PROVE  LockInv'
  <1> DEFINE r == op[o]
  <1>1. r \in Operation /\ Fine(r, o) /\ clock \in 0..MaxTime
    BY Rows
  <1> USE DEF MayBecome, Operation, Calls, Sent, Answered, Returned, Stopped,
              LoopFailed, Fine, Local, RequestFits, CallFits, Before, Opening, Renewing,
              Closing, RowWorks, KnowsLost, KnowsRecord, Fresh, InTime, HasLease, MayWin
  <1>2. CASE Start(o)
    <2> DEFINE row == Sent([r EXCEPT !.phase = "acquiring"], "acquire")
    <2>1. Becomes(o, row) /\ UNCHANGED met
      BY <1>2 DEF Start
    <2>2. MayBecome(r, row, o)
      BY <1>1, <1>2 DEF Start
    <2> HIDE DEF row, MayBecome
    <2>3. QED
      BY <2>1, <2>2, BecomesStep
  <1>3. CASE AcquireAnswered(o)
    <2> DEFINE row == CASE r.reply = "ok" -> Sent(r, "record")
                      [] r.reply = "conflict" -> Returned(r, "busy")
                      [] r.reply = "error" -> Returned(r, "failed")
    <2>1. Becomes(o, row) /\ UNCHANGED met
      BY <1>3 DEF AcquireAnswered
    <2>2. MayBecome(r, row, o)
      BY ZenonT(40), <1>1, <1>3 DEF AcquireAnswered
    <2> HIDE DEF row, MayBecome
    <2>3. QED
      BY <2>1, <2>2, BecomesStep
  <1>4. CASE RecordRefused(o)
    <2> DEFINE row == Sent(r, "undo")
    <2>1. Becomes(o, row) /\ UNCHANGED met
      BY <1>4 DEF RecordRefused
    <2>2. MayBecome(r, row, o)
      BY <1>1, <1>4 DEF RecordRefused
    <2> HIDE DEF row, MayBecome
    <2>3. QED
      BY <2>1, <2>2, BecomesStep
  <1>5. CASE UndoAnswered(o)
    <2> DEFINE row == Returned(r, "failed")
    <2>1. Becomes(o, row) /\ UNCHANGED met
      BY <1>5 DEF UndoAnswered
    <2>2. MayBecome(r, row, o)
      BY <1>1, <1>5 DEF UndoAnswered
    <2> HIDE DEF row, MayBecome
    <2>3. QED
      BY <2>1, <2>2, BecomesStep
  <1>6. QED
    BY <1>2, <1>3, <1>4, <1>5

\* Renewing: half a lease from now is before the end of a whole one.
LEMMA RenewalSteps ==
  ASSUME LockInv, NEW o \in Operations,
         TimerFires(o) \/ RenewAnswered(o) \/ RewriteAnswered(o)
  PROVE  LockInv'
  <1> DEFINE r == op[o]
  <1>1. r \in Operation /\ Fine(r, o) /\ clock \in 0..MaxTime
    BY Rows
  <1> USE DEF MayBecome, Operation, Calls, Sent, Answered, Returned, Stopped,
              LoopFailed, Fine, Local, RequestFits, CallFits, Before, Opening, Renewing,
              Closing, RowWorks, KnowsLost, KnowsRecord, Fresh, InTime, HasLease, MayWin
  <1>2. CASE TimerFires(o)
    <2> DEFINE row == Sent([r EXCEPT !.loop = "renewing"], "renew")
    <2>1. Becomes(o, row) /\ UNCHANGED met
      BY <1>2 DEF TimerFires
    <2>2. MayBecome(r, row, o)
      BY <1>1, <1>2 DEF TimerFires
    <2> HIDE DEF row, MayBecome
    <2>3. QED
      BY <2>1, <2>2, BecomesStep
  <1>3. CASE RenewAnswered(o)
    <2> DEFINE row == IF r.reply = "ok" THEN Sent(r, "rewrite") ELSE LoopFailed(r)
    <2>1. Becomes(o, row) /\ UNCHANGED met
      BY <1>3 DEF RenewAnswered
    <2>2. MayBecome(r, row, o)
      BY ZenonT(40), <1>1, <1>3 DEF RenewAnswered
    <2> HIDE DEF row, MayBecome
    <2>3. QED
      BY <2>1, <2>2, BecomesStep
  <1>4. CASE RewriteAnswered(o)
    <2> DEFINE row == IF r.reply # "ok" THEN LoopFailed(r)
                      ELSE IF r.phase = "running"
                      THEN [Answered(r) EXCEPT !.loop = "waiting", !.due = clock + RenewAfter]
                      ELSE [Answered(r) EXCEPT !.loop = "ended"]
    <2>1. Becomes(o, row) /\ UNCHANGED met
      BY <1>4 DEF RewriteAnswered
    <2>2. MayBecome(r, row, o)
      <3>1. CASE r.reply = "conflict"
        BY <1>1, <1>4, <3>1, RenewInTime DEF RewriteAnswered
      <3>2. CASE r.reply = "error"
        BY ZenonT(40), <1>1, <1>4, <3>2, RenewInTime DEF RewriteAnswered
      <3>3. CASE r.reply = "ok" /\ r.phase = "running"
        <4> DEFINE due == clock + RenewAfter
        <4>1. due \in 0..(MaxTime + Duration) /\ clock <= due /\ due < clock + Duration
          BY <1>1, RenewInTime
        <4>2. row = [Answered(r) EXCEPT !.loop = "waiting", !.due = due]
          BY <3>3
        <4> HIDE DEF due, row
        <4>3. ~late => holder = o /\ until = clock + Duration /\ clock < until
          BY <1>1, <1>4 DEF RewriteAnswered
        <4>4. row \in Operation
          BY <1>1, <4>1, <4>2
        <4>5. Local(row) /\ KnowsLost(row, o) /\ KnowsRecord(row, o)
          BY <1>1, <1>4, <3>3, <4>1, <4>2 DEF RewriteAnswered
        <4>6. ~late => Fresh(row, o) /\ InTime(row, o)
          BY <1>1, <4>1, <4>2, <4>3
        <4>7. /\ Before(row) => Before(r)
              /\ ~Before(r) /\ MayWin(row, o) => MayWin(r, o)
          BY <1>1, <3>3, <4>2
        <4>8. QED
          BY <4>4, <4>5, <4>6, <4>7
      <3>4. CASE r.reply = "ok" /\ r.phase # "running"
        BY <1>1, <1>4, <3>4, RenewInTime DEF RewriteAnswered
      <3>5. QED
        BY <1>1, <1>4, <3>1, <3>2, <3>3, <3>4 DEF RewriteAnswered
    <2> HIDE DEF row, MayBecome
    <2>3. QED
      BY <2>1, <2>2, BecomesStep
  <1>5. QED
    BY <1>2, <1>3, <1>4

\* From the end of the callback to the request that releases the lock.
LEMMA ClosingSteps ==
  ASSUME LockInv, NEW o \in Operations,
         ExecutionWins(o) \/ Catch(o) \/ Release(o) \/ Abort(o)
  PROVE  LockInv'
  <1> DEFINE r == op[o]
  <1>1. r \in Operation /\ Fine(r, o) /\ clock \in 0..MaxTime
    BY Rows
  <1> USE DEF MayBecome, Operation, Calls, Sent, Answered, Returned, Stopped,
              LoopFailed, Fine, Local, RequestFits, CallFits, Before, Opening, Renewing,
              Closing, RowWorks, KnowsLost, KnowsRecord, Fresh, InTime, HasLease, MayWin
  <1>2. CASE ExecutionWins(o)
    <2> DEFINE row == [Stopped(r) EXCEPT !.phase = "closing"]
    <2>1. Becomes(o, row) /\ UNCHANGED met
      BY <1>2 DEF ExecutionWins
    <2>2. MayBecome(r, row, o)
      BY <1>1, <1>2 DEF ExecutionWins
    <2> HIDE DEF row, MayBecome
    <2>3. QED
      BY <2>1, <2>2, BecomesStep
  <1>3. CASE Catch(o)
    <2> DEFINE row == [Stopped(r) EXCEPT !.phase = "aborting", !.aborted = TRUE]
    <2>1. Becomes(o, row) /\ UNCHANGED met
      BY <1>3 DEF Catch
    <2>2. MayBecome(r, row, o)
      BY ZenonT(40), <1>1, <1>3 DEF Catch
    <2> HIDE DEF row, MayBecome
    <2>3. QED
      BY <2>1, <2>2, BecomesStep
  <1>4. CASE Release(o)
    <2> DEFINE row == Sent(r, "unrecord")
    <2>1. Becomes(o, row) /\ UNCHANGED met
      BY <1>4 DEF Release
    <2>2. MayBecome(r, row, o)
      BY <1>1, <1>4 DEF Release
    <2> HIDE DEF row, MayBecome
    <2>3. QED
      BY <2>1, <2>2, BecomesStep
  <1>5. CASE Abort(o)
    <2> DEFINE row == IF r.active THEN Sent(r, "unrecord") ELSE Returned(r, "failed")
    <2>1. Becomes(o, row) /\ UNCHANGED met
      BY <1>5 DEF Abort
    <2>2. MayBecome(r, row, o)
      BY <1>1, <1>5 DEF Abort
    <2> HIDE DEF row, MayBecome
    <2>3. QED
      BY <2>1, <2>2, BecomesStep
  <1>6. QED
    BY <1>2, <1>3, <1>4, <1>5

\* The answers to releasing: a conflict tells that the lease is lost.
LEMMA ReleaseSteps ==
  ASSUME LockInv, NEW o \in Operations,
         UnrecordAnswered(o) \/ Released(o) \/ ReleaseFails(o)
  PROVE  LockInv'
  <1> DEFINE r == op[o]
  <1>1. r \in Operation /\ Fine(r, o) /\ clock \in 0..MaxTime
    BY Rows
  <1> USE DEF MayBecome, Operation, Calls, Sent, Answered, Returned, Stopped,
              LoopFailed, Fine, Local, RequestFits, CallFits, Before, Opening, Renewing,
              Closing, RowWorks, KnowsLost, KnowsRecord, Fresh, InTime, HasLease, MayWin
  <1>2. CASE UnrecordAnswered(o)
    <2> DEFINE row == Sent(r, "release")
    <2>1. Becomes(o, row) /\ UNCHANGED met
      BY <1>2 DEF UnrecordAnswered
    <2>2. MayBecome(r, row, o)
      BY <1>1, <1>2 DEF UnrecordAnswered
    <2> HIDE DEF row, MayBecome
    <2>3. QED
      BY <2>1, <2>2, BecomesStep
  <1>3. CASE Released(o)
    <2> DEFINE row == [Returned(r, IF r.phase = "closing" THEN "succeeded" ELSE "failed")
                        EXCEPT !.active = FALSE]
    <2>1. Becomes(o, row) /\ UNCHANGED met
      BY <1>3 DEF Released
    <2>2. MayBecome(r, row, o)
      BY <1>1, <1>3 DEF Released
    <2> HIDE DEF row, MayBecome
    <2>3. QED
      BY <2>1, <2>2, BecomesStep
  <1>4. CASE ReleaseFails(o)
    <2> DEFINE row == IF r.phase = "closing"
                      THEN [[Answered(r) EXCEPT !.active = r.reply = "error"]
                              EXCEPT !.phase = "aborting", !.aborted = TRUE]
                      ELSE Returned([Answered(r) EXCEPT !.active = r.reply = "error"], "failed")
    <2>1. Becomes(o, row) /\ UNCHANGED met
      BY <1>4 DEF ReleaseFails
    <2>2. MayBecome(r, row, o)
      <3>1. CASE r.phase = "closing" /\ r.reply = "error"
        BY <1>1, <1>4, <3>1 DEF ReleaseFails
      <3>2. CASE r.phase = "closing" /\ r.reply = "conflict"
        BY <1>1, <1>4, <3>2 DEF ReleaseFails
      <3>3. CASE r.phase = "aborting" /\ r.reply = "error"
        BY ZenonT(40), <1>1, <1>4, <3>3 DEF ReleaseFails
      <3>4. CASE r.phase = "aborting" /\ r.reply = "conflict"
        BY ZenonT(40), <1>1, <1>4, <3>4 DEF ReleaseFails
      <3>5. QED
        BY <1>1, <1>4, <3>1, <3>2, <3>3, <3>4 DEF ReleaseFails
    <2> HIDE DEF row, MayBecome
    <2>3. QED
      BY <2>1, <2>2, BecomesStep
  <1>5. QED
    BY <1>2, <1>3, <1>4

\* The end of the protected operation is noted, and nothing else.
LEMMA ExecutionStep ==
  ASSUME LockInv, NEW o \in Operations, ExecutionEnds(o) PROVE LockInv'
  <1>1. op[o] \in Operation /\ Fine(op[o], o)
    BY Rows
  <1>2. PICK result \in {"resolved", "rejected"} : Becomes(o, [op[o] EXCEPT !.execution = result])
    BY DEF ExecutionEnds
  <1>3. MayBecome(op[o], [op[o] EXCEPT !.execution = result], o)
    BY <1>1 DEF MayBecome, Operation, Calls, Sent, Answered, Returned, Stopped,
                LoopFailed, Fine, Local, RequestFits, CallFits, Before, Opening,
                Renewing, Closing, RowWorks, KnowsLost, KnowsRecord, Fresh, InTime,
                HasLease, MayWin, ExecutionEnds
  <1>4. QED
    BY <1>2, <1>3, BecomesStep DEF ExecutionEnds

\* A request fails or the process dies, and no more of the lock changes.
LEMMA FailureSteps ==
  ASSUME LockInv, NEW o \in Operations, RequestFails(o) \/ Crash(o) PROVE LockInv'
  <1> DEFINE r == op[o]
  <1>1. r \in Operation /\ Fine(r, o) /\ op \in [Operations -> Operation]
    BY Rows DEF LockInv, TypeOK
  <1>2. PICK row : op' = [op EXCEPT ![o] = row] /\ MayBecome(r, row, o)
    <2> USE DEF MayBecome, Operation, Calls, Sent, Answered, Returned, Stopped,
                LoopFailed, Fine, Local, RequestFits, CallFits, Before, Opening,
                Renewing, Closing, RowWorks, KnowsLost, KnowsRecord, Fresh, InTime,
                HasLease, MayWin
    <2>1. CASE RequestFails(o)
      <3> DEFINE row == [r EXCEPT !.reply = "error", !.troubled = TRUE]
      <3>1. op' = [op EXCEPT ![o] = row]
        BY <1>1, <2>1 DEF RequestFails
      <3>2. r.reply # "none"
        BY <2>1 DEF RequestFails
      <3>3. row \in Operation
        BY <1>1
      <3>4. Local(row) /\ KnowsLost(row, o) /\ KnowsRecord(row, o)
        BY <1>1, <3>2
      <3>5. ~late => Fresh(row, o) /\ InTime(row, o)
        BY <1>1
      <3>6. (Before(row) => Before(r)) /\ (MayWin(row, o) => MayWin(r, o))
        BY <1>1
      <3>7. QED
        BY <3>1, <3>3, <3>4, <3>5, <3>6
    <2>2. CASE Crash(o)
      <3> DEFINE row == [Answered(r) EXCEPT !.phase = "crashed", !.execution = "none",
                                            !.loop = "none", !.active = FALSE]
      <3>1. op' = [op EXCEPT ![o] = row]
        BY <1>1, <2>2 DEF Crash
      <3>2. r.phase \notin {"idle", "done", "crashed"}
        BY <2>2 DEF Crash
      <3>3. row \in Operation
        BY ZenonT(40), <1>1
      <3>4. Local(row) /\ KnowsLost(row, o) /\ KnowsRecord(row, o)
        BY <1>1, <3>2
      <3>5. ~late => Fresh(row, o) /\ InTime(row, o)
        BY <1>1
      <3>6. (Before(row) => Before(r)) /\ (MayWin(row, o) => MayWin(r, o))
        BY <1>1
      <3>7. QED
        BY <3>1, <3>3, <3>4, <3>5, <3>6
    <2>3. QED
      BY <2>1, <2>2
  <1>3. faults' \in 0..MaxFaults /\ UNCHANGED <<blobVars, clock, late, met>>
    BY DEF RequestFails, Crash, LockInv, TypeOK
  <1>4. QED
    BY <1>2, <1>3, RowStep DEF MayBecome

-----------------------------------------------------------------------------
(***************************************************************************)
(* The callback starts: the operation meets the ones whose callbacks run.  *)
(* Of two that meet one owns no lease, and neither has released one.       *)
(***************************************************************************)
LEMMA MeetingStep ==
  ASSUME LockInv, NEW o \in Operations, RecordWritten(o) PROVE LockInv'
  <1> DEFINE r == op[o]
             due == clock + RenewAfter
             row == [Answered(r) EXCEPT !.phase = "running", !.execution = "running",
                       !.active = TRUE, !.loop = "waiting", !.due = due]
  <1>1. /\ r \in Operation /\ Fine(r, o) /\ op \in [Operations -> Operation]
        /\ r.call = "record" /\ r.reply = "ok" /\ Before(r)
    BY Rows DEF LockInv, TypeOK, RecordWritten, Fine, Local, RequestFits, Before, Opening
  <1>2. due \in 0..(MaxTime + Duration) /\ clock <= due /\ due < clock + Duration
    BY Rows, RenewInTime
  <1>3. /\ op' = [op EXCEPT ![o] = row] /\ UNCHANGED <<blobVars, clock, late, faults>>
        /\ met' = met \cup {{o, p} : p \in Running}
    BY DEF RecordWritten, Becomes
  <1> HIDE DEF due
  <1>4. row \in Operation /\ Fine(row, o)
    <2> USE DEF MayBecome, Operation, Calls, Sent, Answered, Returned, Stopped,
                LoopFailed, Fine, Local, RequestFits, CallFits, Before, Opening,
                Renewing, Closing, RowWorks, KnowsLost, KnowsRecord, Fresh, InTime,
                HasLease, MayWin
    <2>1. row \in Operation
      BY <1>1, <1>2
    <2>2. Local(row) /\ KnowsLost(row, o) /\ KnowsRecord(row, o)
      BY <1>1
    <2>3. ~late => holder = o /\ until = clock + Duration /\ clock < until
      BY <1>1, Rows
    <2>4. ~late => Fresh(row, o) /\ InTime(row, o)
      BY <1>1, <1>2, <2>3
    <2>5. QED
      BY <2>1, <2>2, <2>4
  <1>5. row.phase = "running" /\ row.outcome = "none" /\ row.call = "none"
    BY <1>1 DEF MayBecome, Operation, Calls, Sent, Answered, Returned, Stopped,
                LoopFailed, Fine, Local, RequestFits, CallFits, Before, Opening,
                Renewing, Closing, RowWorks, KnowsLost, KnowsRecord, Fresh, InTime,
                HasLease, MayWin
  <1> HIDE DEF row
  <1>6. op'[o] = row /\ \A p \in Operations \ {o} : op'[p] = op[p]
    BY <1>1, <1>3
  <1>7. TypeOK'
    <2>1. met' \subseteq {{a, b} : a, b \in Operations}
      BY <1>3 DEF Running, LockInv, TypeOK
    <2>2. op' \in [Operations -> Operation]
      BY <1>1, <1>3, <1>4
    <2>3. /\ holder' \in Operations \cup {Nobody} /\ record' \in Operations \cup {Nobody}
          /\ until' \in 0..(MaxTime + Duration) /\ clock' \in 0..MaxTime
          /\ late' \in BOOLEAN /\ faults' \in 0..MaxFaults
      BY <1>3 DEF LockInv, TypeOK, blobVars
    <2>4. QED
      BY <2>1, <2>2, <2>3 DEF TypeOK
  <1>8. ASSUME NEW p \in Operations PROVE Fine(op[p], p)'
    <2>1. Fine(op'[p], p)
      BY <1>4, <1>6 DEF LockInv
    <2>2. QED
      BY <1>3, <2>1 DEF Fine, Local, RequestFits, CallFits, Before, Opening, Renewing,
                        Closing, RowWorks, KnowsLost, KnowsRecord, Fresh, InTime,
                        HasLease, blobVars
  <1>9. ASSUME NEW p \in Operations, NEW q \in Operations, {p, q} \in met'
        PROVE  /\ ~Before(op'[p])
               /\ MayWin(op'[p], p) /\ MayWin(op'[q], q) => p = q
    <2>1. CASE {p, q} \in met
      <3>1. ~Before(op[p]) /\ ~Before(op[q]) /\ {q, p} = {p, q}
        BY <2>1 DEF LockInv, OneMayWin
      <3>2. p # o /\ q # o
        BY <1>1, <3>1
      <3>3. QED
        BY <1>6, <2>1, <3>1, <3>2 DEF LockInv, OneMayWin
    <2>2. CASE {p, q} \in {{o, b} : b \in Running}
      <3>1. PICK b \in Running : {p, q} = {o, b}
        BY <2>2
      <3>2. /\ b \in Operations /\ op[b].execution = "running" /\ ~Before(op[b])
            /\ op[b].outcome # "succeeded" /\ op[b].phase # "closing"
        BY <1>1 DEF Running, LockInv, Fine, Local, CallFits
      <3>3. b # o
        BY <1>1, <3>2
      <3>4. ~Before(op'[o]) /\ ~Before(op'[b])
        BY <1>5, <1>6, <3>2, <3>3 DEF Before
      <3>5. ~(MayWin(op'[o], o) /\ MayWin(op'[b], b))
        BY <1>5, <1>6, <3>2, <3>3 DEF MayWin
      <3>6. QED
        BY <3>1, <3>3, <3>4, <3>5
    <2>3. QED
      BY <1>3, <1>9, <2>1, <2>2
  <1>10. OneMayWin'
    BY <1>3, <1>9 DEF OneMayWin, MayWin, Before, blobVars
  <1>11. QED
    BY <1>7, <1>8, <1>10 DEF LockInv

-----------------------------------------------------------------------------
(***************************************************************************)
(* The blob serves a request.  It changes for its owner, or for one that   *)
(* acquires a lease that is over; so nobody else learns of it.             *)
(***************************************************************************)
LEMMA OthersServed ==
  ASSUME LockInv, NEW o \in Operations, NEW p \in Operations, p # o, op'[p] = op[p],
         Effect(o), UNCHANGED <<clock, late>>
  PROVE  Fine(op[p], p)'
  <1>1. /\ Fine(op[p], p) /\ Fine(op[o], o) /\ clock \in 0..MaxTime
    BY Rows
  <1>2. \/ holder' = holder /\ holder = o
        \/ holder' \in {o, Nobody} /\ (holder = p => until <= clock)
    BY DEF Effect, AcquireLease, WriteRecord, RenewLease, ReleaseLease, HasLease
  <1>3. holder' # p /\ (holder = p => until <= clock)
    BY <1>2
  <1>4. Local(op[p])'
    BY <1>1 DEF Fine, Local, RequestFits, CallFits, Before, Opening, Renewing, Closing, RowWorks
  <1>5. KnowsLost(op[p], p)' /\ KnowsRecord(op[p], p)'
    BY <1>1, <1>3 DEF KnowsLost, KnowsRecord, HasLease
  <1>6. ~late' => Fresh(op[p], p)' /\ InTime(op[p], p)'
    <2>1. ASSUME ~late, holder = p, until = clock + Duration PROVE FALSE
      BY <1>1, <1>3, <2>1
    <2>2. ~late => ~(holder = p /\ clock < until)
      BY <1>1, <1>3 DEF LockInv, TypeOK
    <2>3. QED
      BY <1>1, <2>1, <2>2 DEF Fine, Fresh, InTime, RowWorks
  <1>7. QED
    BY <1>4, <1>5, <1>6 DEF Fine

\* The answer of the blob tells its operation the truth.
LEMMA Served ==
  ASSUME LockInv, NEW o \in Operations, NEW row, op'[o] = row, op[o].reply = "sent",
         \/ Effect(o) /\ row = [op[o] EXCEPT !.reply = "ok"]
         \/ ~Granted(o) /\ row = [op[o] EXCEPT !.reply = "conflict"] /\ UNCHANGED blobVars,
         UNCHANGED <<clock, late>>
  PROVE  /\ row \in Operation /\ Fine(op[o], o)'
         /\ Before(row) <=> Before(op[o])
         /\ ~Before(op[o]) /\ MayWin(op[o], o)' => MayWin(op[o], o)
  <1> DEFINE r == op[o]
  <1>1. r \in Operation /\ Fine(r, o) /\ r.call \in Calls \ {"none"}
        /\ clock \in 0..MaxTime /\ until \in 0..(MaxTime + Duration)
    BY DEF LockInv, TypeOK, Operation, Fine, Local, RequestFits
  <1> USE DEF Operation, Calls, Fine, Local, RequestFits, CallFits, Before, Opening,
              Renewing, Closing, RowWorks, KnowsLost, KnowsRecord, Fresh, InTime,
              HasLease, MayWin
  <1>2. CASE ~Granted(o) /\ row = [r EXCEPT !.reply = "conflict"] /\ UNCHANGED blobVars
    <2>1. /\ r.call \in {"renew", "undo", "release"} => holder # o
          /\ r.call \in {"record", "rewrite", "unrecord"} => ~(holder = o /\ clock < until)
      BY <1>2 DEF Granted
    <2>2. UNCHANGED <<holder, until, record, clock, late>> /\ op'[o] = row
      BY <1>2 DEF blobVars
    <2>3. row \in Operation /\ (Before(row) <=> Before(r))
      BY <1>1, <1>2
    <2>4. Local(row) /\ KnowsRecord(row, o)
      BY <1>1, <1>2
    <2>5. KnowsLost(row, o)
      BY <1>1, <1>2, <2>1
    <2>6. ~late => Fresh(row, o) /\ InTime(row, o)
      BY <1>1, <1>2
    <2>7. MayWin(row, o) => MayWin(r, o)
      BY <1>1, <1>2
    <2>8. QED
      BY <2>2, <2>3, <2>4, <2>5, <2>6, <2>7
  <1>3. CASE Effect(o) /\ row = [r EXCEPT !.reply = "ok"]
    <2>1. CASE r.call = "acquire"
      BY <1>1, <1>3, <2>1 DEF Effect, AcquireLease
    <2>2. CASE r.call = "renew"
      BY <1>1, <1>3, <2>2 DEF Effect, RenewLease
    <2>3. CASE r.call \in {"record", "rewrite"}
      BY <1>1, <1>3, <2>3 DEF Effect, WriteRecord
    <2>4. CASE r.call = "unrecord"
      BY <1>1, <1>3, <2>4 DEF Effect, WriteRecord
    <2>5. CASE r.call \in {"undo", "release"}
      BY <1>1, <1>3, <2>5 DEF Effect, ReleaseLease
    <2>6. QED
      BY <1>1, <2>1, <2>2, <2>3, <2>4, <2>5
  <1>4. QED
    BY <1>2, <1>3

\* A request served by the blob changes its lease and one reply.
LEMMA ServeStep ==
  ASSUME LockInv, NEW o \in Operations, Serve(o) PROVE LockInv'
  <1>1. op \in [Operations -> Operation] /\ op[o].reply = "sent"
        /\ UNCHANGED <<clock, met, late, faults>>
    BY DEF LockInv, TypeOK, Serve
  <1>2. PICK row :
          /\ op' = [op EXCEPT ![o] = row]
          /\ \/ Effect(o) /\ row = [op[o] EXCEPT !.reply = "ok"]
             \/ ~Granted(o) /\ row = [op[o] EXCEPT !.reply = "conflict"] /\ UNCHANGED blobVars
    BY DEF Serve
  <1>3. op'[o] = row /\ \A p \in Operations \ {o} : op'[p] = op[p]
    BY <1>1, <1>2
  <1>4. /\ row \in Operation /\ Fine(op[o], o)'
        /\ Before(row) <=> Before(op[o])
        /\ ~Before(op[o]) /\ MayWin(op[o], o)' => MayWin(op[o], o)
    BY <1>1, <1>2, <1>3, Served
  <1>5. TypeOK'
    <2>1. /\ holder' \in Operations \cup {Nobody} /\ record' \in Operations \cup {Nobody}
          /\ until' \in 0..(MaxTime + Duration)
      BY <1>2, Rows
         DEF LockInv, TypeOK, blobVars, Effect, AcquireLease, WriteRecord, RenewLease, ReleaseLease
    <2>2. op' \in [Operations -> Operation]
      BY <1>1, <1>2, <1>4
    <2>3. /\ clock' \in 0..MaxTime /\ met' \subseteq {{a, b} : a, b \in Operations}
          /\ late' \in BOOLEAN /\ faults' \in 0..MaxFaults
      BY <1>1 DEF LockInv, TypeOK
    <2>4. QED
      BY <2>1, <2>2, <2>3 DEF TypeOK
  <1>6. ASSUME NEW p \in Operations PROVE Fine(op[p], p)'
    <2>1. CASE p = o
      BY <1>4, <2>1
    <2>2. CASE p # o /\ Effect(o)
      BY <1>1, <1>3, <2>2, OthersServed
    <2>3. CASE p # o /\ UNCHANGED blobVars
      <3>1. Fine(op'[p], p)
        BY <1>3, <2>3 DEF LockInv
      <3>2. QED
        BY <1>1, <2>3, <3>1 DEF Fine, Local, RequestFits, CallFits, Before, Opening,
                                Renewing, Closing, RowWorks, KnowsLost, KnowsRecord,
                                Fresh, InTime, HasLease, blobVars
    <2>4. QED
      BY <1>2, <2>1, <2>2, <2>3
  <1>7. ASSUME NEW p \in Operations, p # o, MayWin(op[p], p)' PROVE MayWin(op[p], p)
    <2>1. holder' \in {o, Nobody} \/ holder' = holder
      BY <1>2 DEF Effect, AcquireLease, WriteRecord, RenewLease, ReleaseLease, blobVars
    <2>2. QED
      BY <1>3, <1>7, <2>1 DEF MayWin
  <1>8. OneMayWin'
    <2>1. ASSUME NEW p \in Operations, NEW q \in Operations, {p, q} \in met
          PROVE  /\ ~Before(op'[p])
                 /\ MayWin(op[p], p)' /\ MayWin(op[q], q)' => p = q
      <3>1. ~Before(op[p]) /\ ~Before(op[q]) /\ (MayWin(op[p], p) /\ MayWin(op[q], q) => p = q)
        <4>1. {q, p} \in met
          BY <2>1
        <4>2. QED
          BY <2>1, <4>1 DEF LockInv, OneMayWin
      <3>2. ~Before(op'[p])
        BY <1>3, <1>4, <3>1
      <3>3. (MayWin(op[p], p)' => MayWin(op[p], p)) /\ (MayWin(op[q], q)' => MayWin(op[q], q))
        BY <1>4, <1>7, <3>1
      <3>4. QED
        BY <3>1, <3>2, <3>3
    <2>2. QED
      BY <1>1, <2>1 DEF OneMayWin, Before
  <1>9. QED
    BY <1>5, <1>6, <1>8 DEF LockInv

(***************************************************************************)
(* The clock.  A tick that is not late finds no request under way and no   *)
(* timer due.                                                              *)
(***************************************************************************)
LEMMA TickStep ==
  ASSUME LockInv, Tick PROVE LockInv'
  <1>1. /\ clock' = clock + 1 /\ clock \in 0..MaxTime /\ clock' \in 0..MaxTime
        /\ until \in Nat /\ UNCHANGED <<blobVars, op, met>>
        /\ late' \in BOOLEAN /\ faults' \in 0..MaxFaults
        /\ ~late' => ~late /\ Punctual
    <2>1. clock' = clock + 1 /\ clock < MaxTime /\ UNCHANGED <<blobVars, op, met>>
      BY DEF Tick
    <2>2. /\ clock \in 0..MaxTime /\ until \in 0..(MaxTime + Duration) /\ late \in BOOLEAN
          /\ faults \in 0..MaxFaults
      BY DEF LockInv, TypeOK
    <2>3. late' \in BOOLEAN /\ (~late' => ~late /\ Punctual)
      BY <2>2 DEF Tick
    <2>4. faults' \in 0..MaxFaults
      BY <2>2 DEF Tick
    <2>5. QED
      BY <2>1, <2>2, <2>3, <2>4
  <1>2. TypeOK'
    <2>1. /\ holder' \in Operations \cup {Nobody} /\ record' \in Operations \cup {Nobody}
          /\ until' \in 0..(MaxTime + Duration) /\ op' \in [Operations -> Operation]
          /\ met' \subseteq {{a, b} : a, b \in Operations}
      BY <1>1 DEF LockInv, TypeOK, blobVars
    <2>2. QED
      BY <1>1, <2>1 DEF TypeOK
  <1>3. ASSUME NEW o \in Operations PROVE Fine(op[o], o)'
    <2>1. op[o] \in Operation /\ Fine(op[o], o)
      BY Rows
    <2>2. HasLease(o)' => HasLease(o)
      BY <1>1 DEF HasLease, blobVars
    <2>3. Local(op[o])'
      BY <1>1, <2>1 DEF Fine, Local, RequestFits, CallFits, Before, Opening, Renewing,
                        Closing, RowWorks
    <2>4. KnowsLost(op[o], o)' /\ KnowsRecord(op[o], o)'
      BY <1>1, <2>1, <2>2 DEF Fine, KnowsLost, KnowsRecord, blobVars
    <2>5. ASSUME ~late' PROVE Fresh(op[o], o)' /\ InTime(op[o], o)'
      <3>1. /\ op[o].call = "none" /\ (op[o].loop = "waiting" => clock < op[o].due)
            /\ op[o].due \in Nat /\ InTime(op[o], o)
        BY <1>1, <2>1, <2>5 DEF Punctual, Operation, Fine
      <3>2. RowWorks(op[o]) => op[o].loop = "waiting"
        BY <2>1, <3>1 DEF Fine, Local, RequestFits, CallFits, RowWorks, Renewing
      <3>3. QED
        BY <1>1, <3>1, <3>2 DEF Fresh, InTime, RowWorks, blobVars
    <2>6. QED
      BY <2>3, <2>4, <2>5 DEF Fine
  <1>4. OneMayWin'
    BY <1>1 DEF LockInv, OneMayWin, MayWin, Before, blobVars
  <1>5. QED
    BY <1>2, <1>3, <1>4 DEF LockInv

\* The invariant speaks of the variables alone.
LEMMA Stutter == LockInv /\ UNCHANGED vars => LockInv'
  BY DEF vars, blobVars, LockInv, TypeOK, Fine, Local, RequestFits, CallFits, Before,
         Opening, Renewing, Closing, RowWorks, KnowsLost, KnowsRecord, Fresh, InTime,
         HasLease, OneMayWin, MayWin

-----------------------------------------------------------------------------
\* Every step keeps the invariant.
LEMMA LockInductive == LockInv /\ [Next]_vars => LockInv'
  <1> SUFFICES ASSUME LockInv, [Next]_vars PROVE LockInv'
    OBVIOUS
  <1>1. ASSUME NEW o \in Operations, CallStep(o) PROVE LockInv'
    BY <1>1, OpeningSteps, MeetingStep, RenewalSteps, ClosingSteps, ReleaseSteps DEF CallStep
  <1>2. ASSUME NEW o \in Operations,
               Start(o) \/ Serve(o) \/ RequestFails(o) \/ ExecutionEnds(o) \/ Crash(o)
        PROVE  LockInv'
    BY <1>2, OpeningSteps, ServeStep, FailureSteps, ExecutionStep
  <1>3. QED
    BY <1>1, <1>2, TickStep, Stutter DEF Next

\* It holds in every reachable state.
LEMMA LockInvariant == Spec => []LockInv
  BY InitLock, LockInductive, PTL DEF Spec

\* Everything the lock keeps has its type.
THEOREM LockTypes == Spec => []TypeOK
  <1>1. LockInv => TypeOK
    BY DEF LockInv
  <1>2. QED
    BY <1>1, LockInvariant, PTL

\* docs/architecture.md, as far as nothing is late: two callbacks that have not
\* been told to stop never run at once.  Each of them would own the live lease.
THEOREM OneAtATimeHolds == Spec => []OneAtATimeWhenPunctual
  <1>1. LockInv => OneAtATimeWhenPunctual
    BY DEF LockInv, Fine, InTime, RowWorks, Working, OneAtATime, OneAtATimeWhenPunctual
  <1>2. QED
    BY <1>1, LockInvariant, PTL

\* session.renew and session.release: of two operations whose callbacks ran
\* together at most one reports success, however late things are.
THEOREM AtMostOneWinner == Spec => []NoTwoWinners
  <1>1. LockInv => NoTwoWinners
    BY DEF LockInv, OneMayWin, MayWin, NoTwoWinners
  <1>2. QED
    BY <1>1, LockInvariant, PTL

\* runWithTenantLock lets go of the lock when it returns, unless a request failed.
THEOREM LetGo == Spec => []LetGoOnReturn
  <1>1. LockInv => LetGoOnReturn
    BY DEF LockInv, Fine, KnowsLost, LetGoOnReturn
  <1>2. QED
    BY <1>1, LockInvariant, PTL

\* writeRecord carries the lease id: while an operation works under a live lease,
\* the record in the blob is its own.
THEOREM HolderIsNamed == Spec => []RecordNamesHolder
  <1>1. LockInv => RecordNamesHolder
    BY DEF LockInv, Fine, KnowsRecord, HasLease, RecordNamesHolder
  <1>2. QED
    BY <1>1, LockInvariant, PTL
=============================================================================
