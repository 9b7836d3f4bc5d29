------------------------- MODULE MCTriggerUninstall -------------------------
(* Small instances of TriggerUninstall. *)
EXTENDS TriggerUninstall

CONSTANTS p1, p2

TwoNamespaces == [p \in Policies |-> IF p = p1 THEN 1 ELSE 2]
=============================================================================
