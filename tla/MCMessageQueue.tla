--------------------------- MODULE MCMessageQueue ---------------------------
(***************************************************************************)
(* Model values for MessageQueue: every message goes to the same agent.    *)
(***************************************************************************)
EXTENDS MessageQueue

CONSTANT a1

MCRecipient == [m \in Messages |-> a1]
=============================================================================
