-------------------------- MODULE DeliveryContract --------------------------
(***************************************************************************)
(* What the message queue promises, without the tables that keep it: a     *)
(* message is held by one consumer at a time, nobody but its holder        *)
(* touches it before the deadline of the hold, a recipient that accepted   *)
(* a message has it to itself until it finishes or reports an              *)
(* interruption, and a message that is done or dropped stays so.           *)
(***************************************************************************)
EXTENDS Naturals

CONSTANTS Messages, Consumers, Nobody

VARIABLES
  phase,     \* absent, waiting, held, accepted, done, stopped or dropped
  holder,    \* the consumer that holds the message, or Nobody
  deadline,  \* the time up to which nobody else may take it
  clock

contractVars == <<phase, holder, deadline, clock>>

Move(m, p) ==
  /\ phase' = [phase EXCEPT ![m] = p]
  /\ holder' = [holder EXCEPT ![m] = Nobody]
  /\ deadline' = [deadline EXCEPT ![m] = 0]
  /\ UNCHANGED clock

Submit(m) == phase[m] = "absent" /\ Move(m, "waiting")

\* The holds on the messages of S have run out.
RunOut(S) == \A m \in S : phase[m] = "held" /\ deadline[m] <= clock

Lapse(S) ==
  /\ RunOut(S)
  /\ phase' = [m \in Messages |-> IF m \in S THEN "waiting" ELSE phase[m]]
  /\ holder' = [m \in Messages |-> IF m \in S THEN Nobody ELSE holder[m]]
  /\ deadline' = [m \in Messages |-> IF m \in S THEN 0 ELSE deadline[m]]
  /\ UNCHANGED clock

\* A consumer takes a message that waits or whose hold has just run out.
Take(S, m, c) ==
  /\ RunOut(S)
  /\ phase[m] = "waiting" \/ m \in S
  /\ phase' = [x \in Messages |->
       IF x = m THEN "held" ELSE IF x \in S THEN "waiting" ELSE phase[x]]
  /\ holder' = [x \in Messages |->
       IF x = m THEN c ELSE IF x \in S THEN Nobody ELSE holder[x]]
  /\ deadline' \in [Messages -> Nat]
  /\ \A x \in Messages \ {m} : deadline'[x] = IF x \in S THEN 0 ELSE deadline[x]
  /\ UNCHANGED clock

\* The holder renews its hold.
Extend(m) ==
  /\ phase[m] = "held"
  /\ deadline' \in [Messages -> Nat]
  /\ \A x \in Messages \ {m} : deadline'[x] = deadline[x]
  /\ UNCHANGED <<phase, holder, clock>>

\* The recipient accepts it, or the holder gives it up.
Accept(m) == phase[m] = "held" /\ Move(m, "accepted")
Refuse(m) == phase[m] = "held" /\ Move(m, "stopped")

Finish(m) == phase[m] = "accepted" /\ Move(m, "done")
Interrupt(m) == phase[m] = "accepted" /\ (Move(m, "waiting") \/ Move(m, "stopped"))

Resume(m) == phase[m] = "stopped" /\ Move(m, "waiting")
Drop(m) == phase[m] \in {"waiting", "stopped"} /\ Move(m, "dropped")

Pass == clock' \in Nat /\ clock < clock' /\ UNCHANGED <<phase, holder, deadline>>

ContractInit ==
  /\ phase = [m \in Messages |-> "absent"]
  /\ holder = [m \in Messages |-> Nobody]
  /\ deadline = [m \in Messages |-> 0]
  /\ clock = 0

ContractNext ==
  \/ \E m \in Messages :
       \/ Submit(m) \/ Extend(m) \/ Accept(m) \/ Refuse(m)
       \/ Finish(m) \/ Interrupt(m) \/ Resume(m) \/ Drop(m)
  \/ \E S \in SUBSET Messages : Lapse(S)
  \/ \E S \in SUBSET Messages, m \in Messages, c \in Consumers : Take(S, m, c)
  \/ Pass

ContractSpec == ContractInit /\ [][ContractNext]_contractVars
=============================================================================
