-------------------------- MODULE MCRelatedObjects --------------------------
(* Small instances of RelatedObjects. *)
EXTENDS RelatedObjects

CONSTANTS a, b

Make(objs, enforce, prune) == [objs |-> objs, enforce |-> enforce, prune |-> prune]

\* enforced and pruned with the templates of both objects, one or none, informed, or
\* not pruned
PruneSpecs == {Make({a, b}, TRUE, "DeleteIfCreated"),
               Make({a}, TRUE, "DeleteIfCreated"),
               Make({}, TRUE, "DeleteAll"),
               Make({a}, FALSE, "DeleteIfCreated"),
               Make({a}, TRUE, "None")}
\* pruned or not, enforced or informed
MixedSpecs == {Make({a}, TRUE, "DeleteIfCreated"), Make({a}, FALSE, "DeleteIfCreated"),
               Make({}, TRUE, "DeleteIfCreated"), Make({a}, TRUE, "None")}
=============================================================================
