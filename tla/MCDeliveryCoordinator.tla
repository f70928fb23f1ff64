------------------------ MODULE MCDeliveryCoordinator ------------------------
(***************************************************************************)
(* Model values for DeliveryCoordinator: one worker, every dedupe key.     *)
(***************************************************************************)
EXTENDS DeliveryCoordinator, TLC

CONSTANT a1

MCRecipient == [m \in Messages |-> a1]

MCReports == {"codex-exec", "runner-unclassified"} \X Messages \X Numbers

Symmetry == Permutations(Consumers)

MCTopics == {"delivery-failure"} \X Messages \X Numbers
=============================================================================
