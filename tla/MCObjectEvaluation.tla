------------------------- MODULE MCObjectEvaluation -------------------------
(* Small instances of ObjectEvaluation. *)
EXTENDS ObjectEvaluation

Make(exist, status, immutable, recreate, shape) ==
    [exist |-> exist, status |-> status, immutable |-> immutable, recreate |-> recreate,
     shape |-> shape]

Plain == Make(TRUE, FALSE, FALSE, "None", "plain")
\* one template of every kind, and two that share the object
AllKinds == {<<Plain>>,
             <<Make(TRUE, TRUE, FALSE, "None", "templated")>>,
             <<Make(TRUE, TRUE, TRUE, "IfRequired", "plain")>>,
             <<Make(TRUE, FALSE, FALSE, "Always", "plain")>>,
             <<Make(TRUE, FALSE, TRUE, "None", "plain")>>,
             <<Make(TRUE, TRUE, FALSE, "None", "vacuous")>>,
             <<Make(TRUE, FALSE, FALSE, "None", "bad")>>,
             <<Make(FALSE, FALSE, FALSE, "None", "plain")>>,
             <<Plain, Plain>>}
=============================================================================
