--------------------------- MODULE WorkerSessions ---------------------------
(***************************************************************************)
(* The worker_sessions table, dispatcher/session-store.ts: which turn is   *)
(* active in the one Codex session of a worker.  Events carry the time     *)
(* their hook observed them, and an event older than the last one recorded *)
(* changes nothing.                                                        *)
(*                                                                         *)
(* Every worker here has a worktree and a registered session, which every  *)
(* client resumes.                                                         *)
(***************************************************************************)
EXTENDS Naturals

CONSTANTS
  Workers,   \* the configured workers
  Turns,     \* turn ids
  NoTurn     \* SQL NULL in active_turn_id

VARIABLE session

SessionRow == [turn : Turns \cup {NoTurn}, lastEventAt : Nat]

SessionsTypeOK == session \in [Workers -> SessionRow]

SessionsInit == session = [w \in Workers |-> [turn |-> NoTurn, lastEventAt |-> 0]]

\* WHERE last_event_at <= observedAt
InOrder(w, at) == session[w].lastEventAt <= at

ActiveTurn(w) == session[w].turn

\* configureWorker, under the worktree path it had.
ConfigureWorker(w) == session' = [session EXCEPT ![w].turn = NoTurn]

Recorded(w, turn, at) ==
  session' = IF InOrder(w, at)
             THEN [session EXCEPT ![w] = [turn |-> turn, lastEventAt |-> at]]
             ELSE session

\* registerSession; a session that was only compacted keeps its turn.
RegisterSession(w, resetActiveTurn, at) ==
  Recorded(w, IF resetActiveTurn THEN NoTurn ELSE ActiveTurn(w), at)

StartTurn(w, t, at) == Recorded(w, t, at)

\* finishTurn's answer: was t the active turn?
Matched(w, t, at) == ActiveTurn(w) = t /\ InOrder(w, at)

FinishTurn(w, t, at) ==
  Recorded(w, IF ActiveTurn(w) = t THEN NoTurn ELSE ActiveTurn(w), at)
=============================================================================
