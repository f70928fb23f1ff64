---------------------------- MODULE WorkerClient ----------------------------
(***************************************************************************)
(* The clients of a worker's session: the lock file that only one of them  *)
(* may hold (dispatcher/worker-lock.ts, held by a child of the client, so  *)
(* that it is free again when the client dies), and the tmux session that  *)
(* the interactive Codex runs in (dispatcher/tmux-runner.ts), which        *)
(* outlives the client that started it.                                    *)
(***************************************************************************)
CONSTANTS
  Terminals,   \* the workers' tmux sessions
  Clients,     \* processes that ask for the lock
  NoClient

VARIABLES
  flock,       \* the client that holds the lock of a worker
  terminal     \* the tmux session and the Codex in it

TerminalRow ==
  [codex : {"none", "starting", "quiet", "turn"}, attached : BOOLEAN]

NoTerminal == [codex |-> "none", attached |-> FALSE]

ClientsTypeOK ==
  /\ flock \in [Terminals -> Clients \cup {NoClient}]
  /\ terminal \in [Terminals -> TerminalRow]

ClientsInit ==
  /\ flock = [w \in Terminals |-> NoClient]
  /\ terminal = [w \in Terminals |-> NoTerminal]

Free(w) == flock[w] = NoClient

\* A slip: the lock is taken without --nonblock's answer being looked at.
TakeAnyway(w, k) == flock' = [flock EXCEPT ![w] = k]

\* tryAcquire, when it answers with a lease.
TryAcquire(w, k) == Free(w) /\ flock' = [flock EXCEPT ![w] = k]

Release(w) == flock' = [flock EXCEPT ![w] = NoClient]

\* The lock's child sees its standard input end when client k dies.
LocksAfterDeath(k) == [w \in Terminals |-> IF flock[w] = k THEN NoClient ELSE flock[w]]

HasSession(w) == terminal[w].codex # "none"

HasAttachedClient(w) == HasSession(w) /\ terminal[w].attached

\* start, then attach: a session that exists is attached as it is.
StartAndAttach(w) ==
  terminal' = [terminal EXCEPT ![w] =
    [codex |-> IF HasSession(w) THEN @.codex ELSE "starting", attached |-> TRUE]]

Stop(w) == terminal' = [terminal EXCEPT ![w] = NoTerminal]
=============================================================================
