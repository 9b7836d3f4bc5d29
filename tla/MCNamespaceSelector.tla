------------------------ MODULE MCNamespaceSelector ------------------------
(* Small instances of NamespaceSelector. *)
EXTENDS NamespaceSelector

CONSTANTS n1, a, b

\* Selectors by label only, by label and name, and the kinds that select nothing
ByLabel == [kind |-> "select", labels |-> {a}, names |-> Namespaces]
ByName == [kind |-> "select", labels |-> Labels, names |-> {n1}]
BadPattern == [kind |-> "badPattern", labels |-> {a}, names |-> Namespaces]
BadSelector == [kind |-> "badSelector", labels |-> {a}, names |-> Namespaces]
EmptyTarget == [kind |-> "empty", labels |-> {}, names |-> {}]

TwoTargets == {ByLabel, ByName}
BadTargets == {ByLabel, BadPattern, BadSelector, EmptyTarget}
TwoLabels == {a, b}
OneLabel == {a}
OneNamespace == {n1}
=============================================================================
