-------------------------- MODULE MCOperatorPolicy --------------------------
(* Small instances of OperatorPolicy. *)
EXTENDS OperatorPolicy

Make(enforce, musthave, versions, group, remove) ==
    [invalid |-> {}, enforce |-> enforce, musthave |-> musthave, auto |-> TRUE,
     versions |-> versions, group |-> group, lenient |-> FALSE, remove |-> remove]

Defaults == {"og", "sub", "csv"}
\* installation, enforced and informed, removal, and specs with errors
LifeSpecs == {Make(TRUE, TRUE, {1}, TRUE, Defaults),
              Make(TRUE, FALSE, {}, TRUE, Defaults \cup {"crd"}),
              Make(FALSE, TRUE, {}, FALSE, Defaults),
              [Make(TRUE, TRUE, {0}, FALSE, Defaults) EXCEPT !.invalid = {"versions"}],
              [Make(TRUE, TRUE, {}, TRUE, Defaults) EXCEPT !.invalid = {"og"}],
              [Make(TRUE, FALSE, {}, FALSE, Defaults) EXCEPT !.invalid = {"sub"}]}
=============================================================================
