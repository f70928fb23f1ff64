----------------------------- MODULE TenantLock -----------------------------
(***************************************************************************)
(* The tenant operation lock: runWithTenantLock and the lock sessions of   *)
(* runtime/tenant-lock.mjs over the requests of                            *)
(* runtime/blob-lease-store.mjs.  Each operation has an execution (its     *)
(* callback) and a renewal loop that run side by side, and at most one     *)
(* request under way.  A request is sent, served by the blob at some later *)
(* moment, and its answer arrives later still; it may also fail, before or *)
(* after it was served.  There is no timeout on a request.                 *)
(***************************************************************************)
EXTENDS AzureBlobLease

CONSTANTS
  MaxTime,    \* bound: the clock stops here
  MaxFaults   \* bound: failed requests, crashes and late clock ticks

ASSUME LockAssumption ==
  /\ Nobody \notin Operations
  /\ Duration \in Nat /\ 2 <= Duration
  /\ MaxTime \in Nat /\ MaxFaults \in Nat

VARIABLES
  op,      \* per operation, the state of its call of runWithTenantLock
  met,     \* history: pairs of operations whose callbacks ran together
  late,    \* history: an answer or a timer was later than one clock tick
  faults

vars == <<blobVars, clock, op, met, late, faults>>

-----------------------------------------------------------------------------
Calls == {"none", "acquire", "record", "undo", "renew", "rewrite", "unrecord", "release"}

Operation ==
  [phase : {"idle", "acquiring", "running", "closing", "aborting", "done", "crashed"},
   execution : {"none", "running", "resolved", "rejected"},
   loop : {"none", "waiting", "renewing", "ended", "failed"},
   due : 0..(MaxTime + Duration),       \* when the renewal timer fires
   active : BOOLEAN,                    \* the session's `active`
   aborted : BOOLEAN,                   \* executionController.signal.aborted
   call : Calls, reply : {"none", "sent", "ok", "conflict", "error"},
   outcome : {"none", "succeeded", "busy", "failed"},
   troubled : BOOLEAN]                  \* history: a request of it failed

Idle ==
  [phase |-> "idle", execution |-> "none", loop |-> "none", due |-> 0,
   active |-> FALSE, aborted |-> FALSE, call |-> "none", reply |-> "none",
   outcome |-> "none", troubled |-> FALSE]

TypeOK ==
  /\ holder \in Operations \cup {Nobody} /\ record \in Operations \cup {Nobody}
  /\ until \in 0..(MaxTime + Duration) /\ clock \in 0..MaxTime
  /\ op \in [Operations -> Operation]
  /\ met \subseteq {{o, p} : o, p \in Operations}
  /\ late \in BOOLEAN /\ faults \in 0..MaxFaults

Init ==
  /\ BlobInit
  /\ op = [o \in Operations |-> Idle]
  /\ met = {} /\ late = FALSE /\ faults = 0

\* renewAfterMilliseconds is half the lease.
RenewAfter == Duration \div 2

Sent(row, call) == [row EXCEPT !.call = call, !.reply = "sent"]
Answered(row) == [row EXCEPT !.call = "none", !.reply = "none"]
Returned(row, outcome) == [Answered(row) EXCEPT !.phase = "done", !.outcome = outcome]

Becomes(o, row) ==
  op' = [op EXCEPT ![o] = row] /\ UNCHANGED <<blobVars, clock, late, faults>>

-----------------------------------------------------------------------------
(***************************************************************************)
(* The blob serves a request.                                              *)
(***************************************************************************)
Granted(o) ==
  CASE op[o].call = "acquire" -> holder = Nobody \/ until <= clock
    [] op[o].call \in {"record", "rewrite", "unrecord"} -> HasLease(o)
    [] op[o].call \in {"renew", "undo", "release"} -> holder = o

Effect(o) ==
  \/ op[o].call = "acquire" /\ AcquireLease(o)
  \/ op[o].call \in {"record", "rewrite"} /\ WriteRecord(o, o)
  \/ op[o].call = "unrecord" /\ WriteRecord(o, Nobody)
  \/ op[o].call = "renew" /\ RenewLease(o)
  \/ op[o].call \in {"undo", "release"} /\ ReleaseLease(o)

Serve(o) ==
  /\ op[o].reply = "sent"
  /\ \/ Effect(o) /\ op' = [op EXCEPT ![o] = [@ EXCEPT !.reply = "ok"]]
     \/ /\ ~Granted(o) /\ UNCHANGED blobVars
        /\ op' = [op EXCEPT ![o] = [@ EXCEPT !.reply = "conflict"]]
  /\ UNCHANGED <<clock, met, late, faults>>

\* The request fails, or its answer is lost on the way back.
RequestFails(o) ==
  /\ faults < MaxFaults /\ faults' = faults + 1
  /\ op[o].reply \in {"sent", "ok", "conflict"}
  /\ op' = [op EXCEPT ![o] = [@ EXCEPT !.reply = "error", !.troubled = TRUE]]
  /\ UNCHANGED <<blobVars, clock, met, late>>

-----------------------------------------------------------------------------
(***************************************************************************)
(* acquire, of the store and of the lock.                                  *)
(***************************************************************************)
Start(o) ==
  /\ op[o].phase = "idle"
  /\ Becomes(o, Sent([op[o] EXCEPT !.phase = "acquiring"], "acquire"))
  /\ UNCHANGED met

AcquireAnswered(o) ==
  /\ op[o].call = "acquire" /\ op[o].reply # "sent"
  /\ Becomes(o, CASE op[o].reply = "ok" -> Sent(op[o], "record")
                  [] op[o].reply = "conflict" -> Returned(op[o], "busy")
                  [] op[o].reply = "error" -> Returned(op[o], "failed"))
  /\ UNCHANGED met

\* The lease is ours and the record is written: runWithTenantLock starts the
\* renewal loop and the callback.
Running == {o \in Operations : op[o].execution = "running"}

RecordWritten(o) ==
  /\ op[o].call = "record" /\ op[o].reply = "ok"
  /\ Becomes(o, [Answered(op[o]) EXCEPT
       !.phase = "running", !.execution = "running", !.active = TRUE,
       !.loop = "waiting", !.due = clock + RenewAfter])
  /\ met' = met \cup {{o, p} : p \in Running}

\* bestEffortRelease, whose result is ignored, before the error is thrown.
RecordRefused(o) ==
  /\ op[o].call = "record" /\ op[o].reply \in {"conflict", "error"}
  /\ Becomes(o, Sent(op[o], "undo"))
  /\ UNCHANGED met

UndoAnswered(o) ==
  /\ op[o].call = "undo" /\ op[o].reply # "sent"
  /\ Becomes(o, Returned(op[o], "failed"))
  /\ UNCHANGED met

-----------------------------------------------------------------------------
(***************************************************************************)
(* The renewal loop.  It is stopped (renewalController) once the call is   *)
(* closing or aborting.                                                    *)
(***************************************************************************)
TimerFires(o) ==
  /\ op[o].loop = "waiting" /\ op[o].due <= clock
  /\ Becomes(o, Sent([op[o] EXCEPT !.loop = "renewing"], "renew"))
  /\ UNCHANGED met

\* renewalError is set and the execution aborted; the session is inactive
\* after a conflict, but stays active when the storage could not be reached.
LoopFailed(row) ==
  [Answered(row) EXCEPT !.loop = "failed", !.aborted = TRUE,
                        !.active = @ /\ row.reply # "conflict"]

RenewAnswered(o) ==
  /\ op[o].call = "renew" /\ op[o].reply # "sent"
  /\ Becomes(o, IF op[o].reply = "ok" THEN Sent(op[o], "rewrite") ELSE LoopFailed(op[o]))
  /\ UNCHANGED met

\* A slip: the renewal interval counts from the end of the lease.
RewriteAnsweredLate(o) ==
  /\ op[o].call = "rewrite" /\ op[o].reply # "sent"
  /\ Becomes(o,
       IF op[o].reply # "ok" THEN LoopFailed(op[o])
       ELSE IF op[o].phase = "running"
       THEN [Answered(op[o]) EXCEPT !.loop = "waiting", !.due = until + RenewAfter]
       ELSE [Answered(op[o]) EXCEPT !.loop = "ended"])
  /\ UNCHANGED met

RewriteAnswered(o) ==
  /\ op[o].call = "rewrite" /\ op[o].reply # "sent"
  /\ Becomes(o,
       IF op[o].reply # "ok" THEN LoopFailed(op[o])
       ELSE IF op[o].phase = "running"
       THEN [Answered(op[o]) EXCEPT !.loop = "waiting", !.due = clock + RenewAfter]
       ELSE [Answered(op[o]) EXCEPT !.loop = "ended"])
  /\ UNCHANGED met

-----------------------------------------------------------------------------
(***************************************************************************)
(* runWithTenantLock, from the race of the callback and the loop.          *)
(***************************************************************************)
ExecutionEnds(o) ==
  /\ op[o].execution = "running"
  /\ \E result \in {"resolved", "rejected"} :
       Becomes(o, [op[o] EXCEPT !.execution = result])
  /\ UNCHANGED met

\* renewalController.abort(): a waiting loop ends at once.
Stopped(row) == [row EXCEPT !.loop = IF @ = "waiting" THEN "ended" ELSE @]

ExecutionWins(o) ==
  /\ op[o].phase = "running" /\ op[o].execution = "resolved" /\ op[o].loop # "failed"
  /\ Becomes(o, [Stopped(op[o]) EXCEPT !.phase = "closing"])
  /\ UNCHANGED met

\* A slip: a failed renewal does not interrupt the successful end.
CatchWhileRunning(o) ==
  /\ op[o].phase = "running"
  /\ op[o].execution = "rejected" \/ op[o].loop = "failed"
  /\ Becomes(o, [Stopped(op[o]) EXCEPT !.phase = "aborting", !.aborted = TRUE])
  /\ UNCHANGED met

\* The catch block: the callback threw, or the renewal failed, perhaps while
\* the successful end waited for the loop.
Catch(o) ==
  /\ \/ op[o].phase = "running" /\ op[o].execution = "rejected"
     \/ op[o].phase \in {"running", "closing"} /\ op[o].loop = "failed"
  /\ Becomes(o, [Stopped(op[o]) EXCEPT !.phase = "aborting", !.aborted = TRUE])
  /\ UNCHANGED met

\* await renewalLoop, assertLockHeld, session.release.
Release(o) ==
  /\ op[o].phase = "closing" /\ op[o].loop = "ended" /\ op[o].call = "none"
  /\ ~op[o].aborted
  /\ Becomes(o, Sent(op[o], "unrecord"))
  /\ UNCHANGED met

\* A slip: the release is left out after a failed renewal.
AbortWithoutRelease(o) ==
  /\ op[o].phase = "aborting" /\ op[o].call = "none"
  /\ op[o].loop \in {"ended", "failed"}
  /\ op[o].loop = "failed" => op[o].execution # "running"
  /\ Becomes(o, Returned(op[o], "failed"))
  /\ UNCHANGED met

\* After renewalError the callback is awaited; then release, if the session
\* is still active.
Abort(o) ==
  /\ op[o].phase = "aborting" /\ op[o].call = "none"
  /\ op[o].loop \in {"ended", "failed"}
  /\ op[o].loop = "failed" => op[o].execution # "running"
  /\ Becomes(o, IF op[o].active THEN Sent(op[o], "unrecord") ELSE Returned(op[o], "failed"))
  /\ UNCHANGED met

UnrecordAnswered(o) ==
  /\ op[o].call = "unrecord" /\ op[o].reply = "ok"
  /\ Becomes(o, Sent(op[o], "release"))
  /\ UNCHANGED met

Released(o) ==
  /\ op[o].call = "release" /\ op[o].reply = "ok"
  /\ Becomes(o, [Returned(op[o], IF op[o].phase = "closing" THEN "succeeded" ELSE "failed")
                   EXCEPT !.active = FALSE])
  /\ UNCHANGED met

\* A slip: `released: false` is taken for a release.
ReleaseNotChecked(o) ==
  /\ op[o].call \in {"unrecord", "release"} /\ op[o].reply \in {"conflict", "error"}
  /\ Becomes(o, [Returned(op[o], IF op[o].phase = "closing" THEN "succeeded" ELSE "failed")
                   EXCEPT !.active = FALSE])
  /\ UNCHANGED met

\* release throws: into the catch block, which tries again if the session is
\* still active, or, thrown there, it is ignored.
ReleaseFails(o) ==
  /\ op[o].call \in {"unrecord", "release"} /\ op[o].reply \in {"conflict", "error"}
  /\ LET row == [Answered(op[o]) EXCEPT !.active = op[o].reply = "error"]
     IN  Becomes(o, IF op[o].phase = "closing"
                    THEN [row EXCEPT !.phase = "aborting", !.aborted = TRUE]
                    ELSE Returned(row, "failed"))
  /\ UNCHANGED met

-----------------------------------------------------------------------------
\* The process of operation o dies, and its request with it.
Crash(o) ==
  /\ faults < MaxFaults /\ faults' = faults + 1
  /\ op[o].phase \notin {"idle", "done", "crashed"}
  /\ op' = [op EXCEPT ![o] = [Answered(@) EXCEPT !.phase = "crashed", !.execution = "none",
                                                 !.loop = "none", !.active = FALSE]]
  /\ UNCHANGED <<blobVars, clock, met, late>>

\* Nothing waits for the storage or for a timer that is due.
Punctual ==
  \A o \in Operations :
    op[o].call = "none" /\ (op[o].loop = "waiting" => clock < op[o].due)

Tick ==
  /\ clock < MaxTime /\ clock' = clock + 1
  /\ \/ Punctual /\ UNCHANGED <<late, faults>>
     \/ ~Punctual /\ faults < MaxFaults /\ faults' = faults + 1 /\ late' = TRUE
  /\ UNCHANGED <<blobVars, op, met>>

CallStep(o) ==
  \/ AcquireAnswered(o) \/ RecordWritten(o) \/ RecordRefused(o) \/ UndoAnswered(o)
  \/ TimerFires(o) \/ RenewAnswered(o) \/ RewriteAnswered(o)
  \/ ExecutionWins(o) \/ Catch(o) \/ Release(o) \/ Abort(o)
  \/ UnrecordAnswered(o) \/ Released(o) \/ ReleaseFails(o)

Next ==
  \/ \E o \in Operations :
       Start(o) \/ Serve(o) \/ RequestFails(o) \/ CallStep(o) \/ ExecutionEnds(o) \/ Crash(o)
  \/ Tick

Spec == Init /\ [][Next]_vars

(***************************************************************************)
(* Every request is served, the JavaScript runtime runs what is ready, and *)
(* a callback ends (docs/tenant-lock.md: "callbacks must observe the       *)
(* supplied AbortSignal").                                                 *)
(***************************************************************************)
FairSpec ==
  /\ Spec
  /\ \A o \in Operations :
       WF_vars(Serve(o)) /\ WF_vars(CallStep(o)) /\ WF_vars(ExecutionEnds(o))

-----------------------------------------------------------------------------
(***************************************************************************)
(* Properties.                                                             *)
(***************************************************************************)

\* A callback that runs and has not been told to stop.
Working(o) == op[o].execution = "running" /\ ~op[o].aborted

\* docs/architecture.md: "The lock prevents two stateful operations from
\* changing the same tenant at the same time."
OneAtATime == \A o, p \in Operations : Working(o) /\ Working(p) => o = p

\* That holds as long as storage answers and timers fire within one tick of
\* the clock, over crashes and failed requests: renewing halfway through the
\* lease is soon enough, and a failed renewal aborts the callback in time.
OneAtATimeWhenPunctual == ~late => OneAtATime

\* However late things are, two operations whose callbacks ran together do
\* not both report success: the one that lost its lease learns of it when it
\* renews or releases (session.renew, session.release).
NoTwoWinners ==
  \A o, p \in Operations :
    {o, p} \in met /\ op[o].outcome = "succeeded" /\ op[p].outcome = "succeeded" => o = p

\* An operation that has returned holds the lock no longer, whether it
\* succeeded, threw or lost a renewal, unless a request of it failed.
LetGoOnReturn ==
  \A o \in Operations : op[o].phase = "done" /\ HasLease(o) => op[o].troubled

\* While an operation works under a live lease, the blob names it: the
\* record of a blocked caller is not overwritten by an operation that has
\* lost its lease (writeRecord in blob-lease-store.mjs).
RecordNamesHolder ==
  \A o \in Operations : op[o].phase = "running" /\ HasLease(o) => record = o

\* A call of runWithTenantLock returns: the callback, the renewal loop and
\* the release never wait for one another in a circle.
CallsReturn ==
  \A o \in Operations :
    op[o].phase = "acquiring" ~> op[o].phase \in {"done", "crashed"}
=============================================================================
