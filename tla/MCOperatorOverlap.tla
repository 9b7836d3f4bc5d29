------------------------- MODULE MCOperatorOverlap --------------------------
(* Small instances of OperatorOverlap. *)
EXTENDS OperatorOverlap, TLC

CONSTANTS s1

Make(s, enforce, musthave) == [sub |-> s, enforce |-> enforce, musthave |-> musthave]

\* musthave and mustnothave, informed, invalid
AllSpecs == {Make(s1, TRUE, TRUE), Make(s1, TRUE, FALSE), Make(s1, FALSE, TRUE),
             Make(NoSub, TRUE, TRUE)}

\* enforced or informed
FirstSpecs == {Make(s1, TRUE, TRUE), Make(s1, FALSE, TRUE)}

Symmetry == Permutations(Policies)
=============================================================================
