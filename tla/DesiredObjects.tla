--------------------------- MODULE DesiredObjects ---------------------------
(***************************************************************************)
(* From one object template to the objects it is about:                    *)
(* determineDesiredObjects with getMatchingNames and buildNameList.        *)
(*                                                                         *)
(* The namespaces are selected, the names are listed with the object       *)
(* selector, and the template is resolved for each of them, in the order   *)
(* in which Go happens to iterate over its maps, while the objects change. *)
(* A name or namespace in a template is "" when it is not given and "own"  *)
(* when it is templated with the variable for it; a name is "fixed" when it*)
(* is templated with a value that is the same for all.  How a definition is*)
(* compared with objects is a parameter, see MatchingObjects.              *)
(***************************************************************************)
EXTENDS Naturals, Sequences
LOCAL INSTANCE SequencesExt

CONSTANTS
    Namespaces, Names,   \* strings
    FixedName,           \* the name "fixed" stands for, of an object or not
    Scenarios,           \* a template and the objects there are
    NamesThatMatch(_, _, _), \* of the objects in a list, by definition and compliance type
    HasFields(_, _),     \* the content of an object has every field of a definition
    MaxChanges,          \* bound: changes of the objects
    MaxFaults,           \* bound: calls and resolutions that fail
    None

NotGiven == ""       \* a name or namespace that is not given, or templated
ClusterScope == ""

VARIABLES
    tmpl,      \* the template
    cluster,   \* the objects, by namespace and name
    pc,
    relevant,  \* relevantNsNames: the names and their objects, by namespace
    shared,    \* the namespaces whose entry is one and the same Go map
    todo,      \* namespaces, and later desired objects, that the loop has left
    ns, left,  \* the namespace of the loop, and its names left
    base,      \* desiredObj
    desired, outcome,
    listed,    \* history: the objects that the selector found
    skipped,   \* history: the objects that skipObject left out
    kept,      \* history: the objects found to match, to be deleted
    changes, faults

vars == <<tmpl, cluster, pc, relevant, shared, todo, ns, left, base, desired, outcome, listed,
          skipped, kept, changes, faults>>

\* selected is what the namespace selector gives, uses the variables in the Go
\* templates, skips the names and namespaces for which they call skipObject; def
\* are the fields of the definition.
IsTemplate(t) ==
    /\ t.namespaced \in BOOLEAN /\ t.templated \in BOOLEAN
    /\ t.ns \in {NotGiven, "own"} \cup Namespaces /\ t.name \in {NotGiven, "own", "fixed"} \cup Names
    /\ t.selected \subseteq Namespaces /\ t.selector \in {"none", "bad", "labels"}
    /\ t.uses \subseteq {"name", "ns", "object"} /\ t.skips \subseteq Names \cup Namespaces
    /\ t.ctype \in {"musthave", "mustonlyhave", "mustnothave"}
    \* what a template does with a variable shows that it uses it
    /\ (t.uses # {} \/ t.name \in {"own", "fixed"}) => t.templated
    /\ t.name = "own" \/ t.skips \cap Names # {} => "name" \in t.uses
    /\ t.ns = "own" \/ t.skips \cap Namespaces # {} => "ns" \in t.uses
    /\ ~t.namespaced => t.ns = NotGiven /\ t.selected = {}

\* labelled says whether the object selector finds the object.
IsObject(o, n, m) == o = [id |-> <<n, m>>, labelled |-> o.labelled, content |-> o.content]

IsCluster(c) ==
    /\ DOMAIN c = Namespaces \cup {ClusterScope}
    /\ \A n \in DOMAIN c : /\ DOMAIN c[n] = Names
                          /\ \A m \in Names : c[n][m] = None \/ IsObject(c[n][m], n, m)

\* A list has its objects in any order.
Orders(names) == SetToSeqs(names)
Listed(c, n, order) ==
    [i \in DOMAIN order |-> [name |-> order[i], content |-> c[n][order[i]].content]]

HasLists(t) == \E k \in DOMAIN t.def : t.def[k].type = "list"

\* An object with every field of the template is found in any list of objects,
\* in any order, unless the template has lists, which mergeArrays writes to.
FindsMatches(t, c) ==
    \A n \in DOMAIN c : \A found \in SUBSET {m \in Names : c[n][m] # None} :
        \A order \in Orders(found) : \A m \in found :
            HasFields(c[n][m].content, t.def)
            => m \in NamesThatMatch(t.def, t.ctype, Listed(c, n, order))

\* Namespaces and names are told from what stands for the templated ones.
WellFormed ==
    /\ {NotGiven, "own", "fixed"} \cap (Names \cup Namespaces) = {}
    /\ \A s \in Scenarios :
          /\ IsTemplate(s.tmpl) /\ IsCluster(s.cluster)
          /\ s.tmpl.ctype = "mustnothave" /\ ~HasLists(s.tmpl) => FindsMatches(s.tmpl, s.cluster)
    /\ MaxChanges \in Nat /\ MaxFaults \in Nat

ASSUME ScenariosAssumption == WellFormed

Init ==
    /\ \E s \in Scenarios : tmpl = s.tmpl /\ cluster = s.cluster
    /\ pc = "start"
    /\ relevant = <<>> /\ shared = {} /\ todo = {}
    /\ ns = None /\ left = {} /\ base = None
    /\ desired = {} /\ outcome = None
    /\ listed = {} /\ skipped = {} /\ kept = {}
    /\ changes = 0 /\ faults = 0

Fault == faults < MaxFaults /\ faults' = faults + 1

desiredNs == IF tmpl.ns \in Namespaces THEN tmpl.ns ELSE NotGiven
desiredName == IF tmpl.name \in Names THEN tmpl.name ELSE NotGiven
needsObject == "object" \in tmpl.uses
needsPerNameTemplating == "name" \in tmpl.uses
needsPerNamespaceTemplating == "ns" \in tmpl.uses

\* The objects change, in what the selector looks at and otherwise.
ClusterChanges ==
    /\ changes < MaxChanges /\ changes' = changes + 1
    /\ \E n \in DOMAIN cluster : \E m \in DOMAIN cluster[n] :
          /\ cluster[n][m] # None
          /\ cluster' \in {[cluster EXCEPT ![n][m] = None],
                           [cluster EXCEPT ![n][m].labelled = ~@]}
    /\ UNCHANGED <<tmpl, pc, relevant, shared, todo, ns, left, base, desired, outcome, listed,
                   skipped, kept, faults>>

\* An evaluation event and no objects.
Return(event) ==
    /\ pc' = "done" /\ outcome' = event /\ desired' = {}
    /\ UNCHANGED <<tmpl, cluster, relevant, shared, todo, ns, left, base, listed, skipped, kept, changes>>

\* The definition does not parse, has no kind, or has a kind without mapping;
\* the namespaces cannot be selected, or there are none.
Unusable ==
    /\ pc = "start"
    /\ \/ Fault /\ Return("error")
       \/ /\ tmpl.namespaced /\ desiredNs = NotGiven /\ tmpl.selected = {}
          /\ Return("missing namespace")
          /\ UNCHANGED faults

Spaces == IF ~tmpl.namespaced THEN {ClusterScope}
          ELSE IF desiredNs = NotGiven THEN tmpl.selected ELSE {desiredNs}

\* The name that is given, or none, when the selector does not list them.
IsSelecting == desiredName = NotGiven /\ tmpl.selector # "none"
DefaultNames == [m \in IF IsSelecting THEN {} ELSE {desiredName} |-> None]

\* The object in each namespace is read for the templates.
FetchesObjects == needsObject /\ desiredName # NotGiven /\ tmpl.namespaced /\ tmpl.ns = NotGiven
ObjectIn(n) == [m \in {desiredName} |-> cluster[n][m]]

\* The map with the default name is one map for all namespaces, unless the
\* object is fetched for the templates; a failed read is an object that is not
\* there.
SelectNamespaces ==
    /\ pc = "start" /\ Spaces # {}
    /\ LET there == {n \in Spaces : FetchesObjects /\ cluster[n][desiredName] # None}
       IN  \E fetched \in SUBSET there :
              /\ \/ fetched = there /\ UNCHANGED faults
                 \/ fetched # there /\ Fault
              /\ relevant' = [n \in Spaces |-> IF n \in fetched THEN ObjectIn(n) ELSE DefaultNames]
              /\ shared' = Spaces \ fetched
    /\ todo' = Spaces
    /\ pc' = CASE needsObject /\ desiredName # NotGiven /\ (~tmpl.namespaced \/ desiredNs # NotGiven) -> "fetch"
               [] IsSelecting -> "list"
               [] OTHER -> "resolve"
    /\ UNCHANGED <<tmpl, cluster, ns, left, base, desired, outcome, listed, skipped, kept, changes>>

\* The one object is read for the templates.  A resource that cannot be watched
\* is an error, any other failed read is an object that is not there.
GetObject ==
    /\ pc = "fetch"
    /\ \/ Fault /\ Return("error")
       \/ /\ \/ /\ \E n \in DOMAIN relevant :
                      relevant' = IF cluster[n][desiredName] = None THEN relevant
                                  ELSE [relevant EXCEPT ![n] = ObjectIn(n)]
                /\ UNCHANGED faults
             \/ Fault /\ UNCHANGED relevant
          /\ pc' = "resolve"
          /\ UNCHANGED <<tmpl, cluster, shared, todo, ns, left, base, desired, outcome, listed,
                         skipped, kept, changes>>

ObjectsFound(n) == {m \in Names : cluster[n][m] # None /\ cluster[n][m].labelled}
FoundObjects(n) == [m \in ObjectsFound(n) |-> IF needsObject THEN cluster[n][m] ELSE None]

\* The entries that the objects found are added to when namespace n is listed.
AddedTo(n) == IF n \in shared THEN shared ELSE {n}
Added(found, names) ==
    [m \in DOMAIN found \cup DOMAIN names |-> IF m \in DOMAIN found THEN found[m] ELSE names[m]]

\* One namespace is listed with the object selector.
ListObjects ==
    /\ pc = "list"
    /\ \/ tmpl.selector = "bad" /\ Return("error") /\ UNCHANGED faults
       \/ tmpl.selector = "labels" /\ Fault /\ Return("error")
       \/ /\ tmpl.selector = "labels"
          /\ \E n \in todo :
                /\ relevant' = [o \in DOMAIN relevant |->
                                  IF o \in AddedTo(n) THEN Added(FoundObjects(n), relevant[o])
                                  ELSE relevant[o]]
                /\ listed' = listed \cup {<<n, m>> : m \in ObjectsFound(n)}
                /\ todo' = IF todo = {n} THEN DOMAIN relevant ELSE todo \ {n}
                /\ pc' = IF todo = {n} THEN "resolve" ELSE pc
          /\ UNCHANGED <<tmpl, cluster, shared, ns, left, base, desired, outcome, skipped, kept,
                         changes, faults>>

-----------------------------------------------------------------------------
(* The loop that resolves the templates *)

\* Mutant: the object of another namespace is used again.
NextNamespaceReuses ==
    /\ pc = "resolve" /\ left = {}
    /\ \E n \in todo :
          /\ todo' = todo \ {n} /\ ns' = n /\ left' = DOMAIN relevant[n]
          /\ base' = base
    /\ UNCHANGED <<tmpl, cluster, pc, relevant, shared, desired, outcome, listed, skipped, kept,
                   changes, faults>>

NextNamespace ==
    /\ pc = "resolve" /\ left = {}
    /\ \E n \in todo :
          /\ todo' = todo \ {n} /\ ns' = n /\ left' = DOMAIN relevant[n]
          /\ base' = IF needsPerNamespaceTemplating THEN None ELSE base
    /\ UNCHANGED <<tmpl, cluster, pc, relevant, shared, desired, outcome, listed, skipped, kept,
                   changes, faults>>

\* The template resolved for ctx.  An object stands for the content it gave.
Resolved(ctx) ==
    [name |-> CASE tmpl.name = "own" -> ctx.name
                [] tmpl.name = "fixed" -> FixedName
                [] OTHER -> IF desiredName = NotGiven THEN ctx.name ELSE desiredName,
     ns |-> CASE tmpl.ns = "own" -> ctx.ns
              [] OTHER -> IF desiredNs = NotGiven THEN ctx.ns ELSE desiredNs,
     from |-> ctx]

\* Mutant: the loop over the names ends at a name that is skipped.
RemainingAfterSkip(name) == IF {ns, name} \cap tmpl.skips # {} THEN {} ELSE left \ {name}

Remaining(name) == left \ {name}

\* The object that is there when the loop comes to a name.
Reused == IF needsPerNameTemplating \/ needsObject THEN None ELSE base

Context(name) == [ns |-> ns, name |-> name, object |-> relevant[ns][name]]
skipObject(name) == {ns, name} \cap tmpl.skips # {}
IsMissing(name) == \/ name = NotGiven /\ {"name", "object"} \cap tmpl.uses # {}
                   \/ ns = ClusterScope /\ "ns" \in tmpl.uses
Fits(obj, name) == /\ tmpl.selected = {} \/ obj.ns = ns
                   /\ tmpl.selector = "none" \/ obj.name = name

\* A variable is not there, the templates fail, or they give another namespace
\* or name than the selectors.
ResolveFails(name) ==
    /\ Reused = None /\ ~skipObject(name)
    /\ \/ tmpl.templated /\ Fault /\ Return("error")
       \/ IsMissing(name) /\ Return("error") /\ UNCHANGED faults
       \/ /\ ~IsMissing(name) /\ ~Fits(Resolved(Context(name)), name)
          /\ Return("mismatch") /\ UNCHANGED faults

SkipName(name) ==
    /\ Reused = None /\ skipObject(name)
    /\ skipped' = skipped \cup {<<ns, name>>} /\ base' = None
    /\ UNCHANGED desired

AppendObject(obj) == desired' = desired \cup {obj} /\ base' = obj /\ UNCHANGED skipped

AppendResolved(name) ==
    /\ Reused = None /\ ~skipObject(name) /\ ~IsMissing(name)
    /\ Fits(Resolved(Context(name)), name)
    /\ AppendObject(Resolved(Context(name)))

AppendCopy(name) ==
    Reused # None /\ AppendObject([name |-> name, ns |-> ns, from |-> Reused.from])

\* One name: skipped, resolved, or copied from the object before.
ResolveName ==
    /\ pc = "resolve"
    /\ \E name \in left :
          \/ ResolveFails(name)
          \/ /\ SkipName(name) \/ AppendResolved(name) \/ AppendCopy(name)
             /\ left' = Remaining(name)
             /\ UNCHANGED <<tmpl, cluster, pc, relevant, shared, todo, ns, outcome, listed, kept,
                            changes, faults>>

\* Everything was iterated over.  Objects to be deleted that only the selector
\* names are filtered by the other fields.
LoopDone ==
    /\ pc = "resolve" /\ left = {} /\ todo = {}
    /\ outcome' = IF desired = {} THEN "compliant" ELSE "objects"
    /\ IF desired # {} /\ tmpl.ctype = "mustnothave" /\ tmpl.name = NotGiven /\ tmpl.selector # "none"
       THEN pc' = "filter" /\ todo' = desired
       ELSE pc' = "done" /\ UNCHANGED todo
    /\ UNCHANGED <<tmpl, cluster, relevant, shared, ns, left, base, desired, listed, skipped,
                   kept, changes, faults>>

GetMatchingNames(n, order) ==
    NamesThatMatch(tmpl.def, tmpl.ctype, Listed(cluster, n, order))

\* One desired object is looked for in a new list; a list that fails is empty.
FilterObject ==
    /\ pc = "filter"
    /\ \E d \in todo :
          /\ \/ \E order \in Orders(ObjectsFound(d.ns)) :
                   /\ IF d.name \in GetMatchingNames(d.ns, order)
                      THEN kept' = kept \cup {cluster[d.ns][d.name]} /\ UNCHANGED desired
                      ELSE desired' = desired \ {d} /\ UNCHANGED kept
                   /\ UNCHANGED faults
             \/ Fault /\ desired' = desired \ {d} /\ UNCHANGED kept
          /\ todo' = todo \ {d}
          /\ pc' = IF todo = {d} THEN "done" ELSE pc
    /\ UNCHANGED <<tmpl, cluster, relevant, shared, ns, left, base, outcome, listed, skipped,
                   changes>>

Next ==
    \/ ClusterChanges
    \/ Unusable \/ SelectNamespaces \/ GetObject \/ ListObjects
    \/ NextNamespace \/ ResolveName \/ LoopDone \/ FilterObject

Spec == Init /\ [][Next]_vars

-----------------------------------------------------------------------------
(* Properties *)

\* What was asked for: the objects that the selector found, or one in every
\* namespace.
Wanted == IF IsSelecting THEN listed
          ELSE {<<n, desiredName>> : n \in DOMAIN relevant}

\* The entry of the namespace is that of another one, too.
IsShared(n) == n \in shared /\ shared # {n}

\* A desired object was resolved with its own namespace, name and object, though
\* objects are reused between the rounds, and an object selector found it.  The
\* exceptions: namespaces that share one map of names also share the objects found
\* in one of them, and an object that is copied from another one loses a templated
\* name that is the same for all.
DesiredIsOwn ==
    \A d \in desired :
        /\ "ns" \in tmpl.uses => d.from.ns = d.ns
        /\ "name" \in tmpl.uses /\ tmpl.name # "fixed" => d.from.name = d.name
        /\ tmpl.name = "fixed" /\ d.name # FixedName =>
              /\ {"name", "object"} \cap tmpl.uses = {}
              /\ \E original \in desired : original.name = FixedName /\ original.from = d.from
        /\ needsObject /\ d.from.object # None =>
              d.from.object.id = <<d.ns, d.from.name>> \/ IsShared(d.ns)
        /\ IsSelecting =>
              \/ <<d.ns, d.name>> \in listed
              \/ IsShared(d.ns) /\ \E n \in shared : <<n, d.name>> \in listed

\* The filter may leave an object out: it has not every field, it or the list
\* could have been another, or a list of the template has items that were merged
\* with an object before.
MayBeLeftOut(w) ==
    /\ tmpl.ctype = "mustnothave" /\ tmpl.name = NotGiven /\ tmpl.selector # "none"
    /\ \/ faults > 0 \/ changes > 0
       \/ HasLists(tmpl)
       \/ ~HasFields(cluster[w[1]][w[2]].content, tmpl.def)

\* Whatever the order of the maps, every object that the selector found, and
\* every namespace that was selected, has its desired object or was skipped by
\* its own template: the object that is copied from one round of the loop to
\* the next never leaves one out, nor does the filter, but for the lists above.
SelectedIsDesired ==
    pc = "done" /\ outcome \in {"objects", "compliant"}
    => \A w \in Wanted :
          \/ w \in skipped \/ MayBeLeftOut(w)
          \/ \E d \in desired : d.ns = w[1] /\ (w[2] = NotGiven \/ d.name = w[2])
=============================================================================
