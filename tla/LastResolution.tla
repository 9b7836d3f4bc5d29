--------------------------- MODULE LastResolution ---------------------------
(***************************************************************************)
(* What the resolution of hub templates promises to the evaluation of a    *)
(* policy, whatever happens to the hub, to the saved resolution and to the *)
(* controller: an evaluation works on the policy's template as it was when *)
(* the reconcile began, the way the hub answered for it at some time, and  *)
(* the answer does not go back from one evaluation of a template to the    *)
(* next.  Two things may undo an answer: a read of the saved resolution    *)
(* through a cache that trails it, and an answer that does not unmarshal,  *)
(* which is used but not saved.                                            *)
(***************************************************************************)
EXTENDS Naturals, Sequences

CONSTANT None

VARIABLES
    template,   \* the policy's UID and generation
    answers,    \* what the hub answers: its present answer is the last one
    evaluating, \* the template a reconcile began with, or None
    used,       \* the template and the answer of the last evaluation
    trailing    \* it was made from a copy that trailed the saved resolution

vars == <<template, answers, evaluating, used, trailing>>

\* A policy of a later UID, or a later generation of the same one.
Newer(s, t) == s.uid < t.uid \/ (s.uid = t.uid /\ s.gen < t.gen)
SameTemplate(s, t) == s.uid = t.uid /\ s.gen = t.gen

\* Not the remains of an answer that does not unmarshal.
Whole(t) == t.ver # 0 => answers[t.ver] # "odd"

Init ==
    /\ template = [uid |-> 1, gen |-> 1]
    /\ answers \in {<<"good">>, <<"missing">>, <<"odd">>}
    /\ evaluating = None
    /\ used = [uid |-> 0, gen |-> 0, ver |-> 0]
    /\ trailing = FALSE

ChangeTemplate ==
    /\ Newer(template, template')
    /\ UNCHANGED <<answers, evaluating, used, trailing>>

HubChanges ==
    /\ \E kind \in {"good", "missing", "odd"} : answers' = Append(answers, kind)
    /\ UNCHANGED <<template, evaluating, used, trailing>>

Begin ==
    /\ evaluating = None /\ evaluating' = template
    /\ UNCHANGED <<template, answers, used, trailing>>

\* There is no resolution, or the controller restarts.
GiveUp ==
    /\ evaluating # None /\ evaluating' = None
    /\ UNCHANGED <<template, answers, used, trailing>>

\* Answer 0 stands for a template that asks the hub nothing.
Evaluate ==
    /\ evaluating # None /\ evaluating' = None
    /\ SameTemplate(evaluating, used')
    /\ used'.ver \in 0 .. Len(answers)
    /\ used'.ver # 0 => answers[used'.ver] # "missing"
    /\ (SameTemplate(used, used') /\ Whole(used) /\ ~trailing') => used'.ver >= used.ver
    /\ UNCHANGED <<template, answers>>

Next == ChangeTemplate \/ HubChanges \/ Begin \/ GiveUp \/ Evaluate

Spec == Init /\ [][Next]_vars
=============================================================================
