------------------------ MODULE DesiredObjects_proofs ------------------------
(* Proofs about DesiredObjects, for all templates, objects, namespaces and    *)
(* names, and any comparison.                                                 *)
EXTENDS DesiredObjects, TLAPS

TypeInv ==
    /\ IsTemplate(tmpl) /\ IsCluster(cluster)
    /\ changes \in Nat /\ faults \in Nat

\* What is not there yet, or is no longer, at each stage.
Stages ==
    /\ pc \in {"start", "fetch", "list"} => left = {} /\ base = None /\ desired = {}
    /\ pc \in {"start", "fetch"} => listed = {}
    /\ pc = "fetch" => desiredName # NotGiven /\ DOMAIN relevant \subseteq todo
    /\ pc = "list" => IsSelecting
    /\ pc \in {"fetch", "list", "resolve"} => todo \subseteq DOMAIN relevant
    /\ pc = "filter" => tmpl.ctype = "mustnothave" /\ tmpl.name = NotGiven /\ tmpl.selector # "none"
    /\ left # {} => ns \in DOMAIN relevant /\ left \subseteq DOMAIN relevant[ns]

\* The object selector found the name in the namespace, or in one that shares
\* its map of names.
FoundFor(n, m) == \/ <<n, m>> \in listed
                  \/ IsShared(n) /\ \E o \in shared : <<o, m>> \in listed

\* Where the names of the loop, and their objects, come from.
NameInv(n, m) ==
    /\ ~IsSelecting => m = desiredName
    /\ IsSelecting => FoundFor(n, m)
    /\ relevant[n][m] # None => relevant[n][m].id = <<n, m>> \/ IsShared(n)

RelevantInv ==
    /\ DOMAIN relevant \subseteq Namespaces \cup {ClusterScope}
    /\ desiredNs # NotGiven => DOMAIN relevant \subseteq {desiredNs}
    /\ \A n \in DOMAIN relevant : \A m \in DOMAIN relevant[n] : NameInv(n, m)

\* What DesiredIsOwn says of one object, without the fixed name.
IsOwn(d) ==
    /\ "ns" \in tmpl.uses => d.from.ns = d.ns
    /\ "name" \in tmpl.uses /\ tmpl.name # "fixed" => d.from.name = d.name
    /\ needsObject /\ d.from.object # None =>
          d.from.object.id = <<d.ns, d.from.name>> \/ IsShared(d.ns)
    /\ IsSelecting => FoundFor(d.ns, d.name)

\* A copy that lost the fixed name was made of an object that has it.
HasOriginal(d) ==
    tmpl.name = "fixed" /\ d.name # FixedName =>
        /\ {"name", "object"} \cap tmpl.uses = {}
        /\ \E original \in desired : original.name = FixedName /\ original.from = d.from

\* The object that is copied is one of the desired ones, and of this namespace
\* when the templates use it.
BaseInv == pc = "resolve" /\ base # None =>
              base \in desired /\ ("ns" \in tmpl.uses => base.ns = ns)

OwnInv == /\ TypeInv /\ Stages /\ RelevantInv /\ BaseInv
          /\ \A d \in desired : IsOwn(d) /\ HasOriginal(d)

\* The derived constants depend on the template only.
LEMMA TemplateStays ==
    ASSUME UNCHANGED tmpl
    PROVE  /\ desiredNs' = desiredNs /\ desiredName' = desiredName /\ needsObject' = needsObject
           /\ IsSelecting' = IsSelecting
  BY DEF desiredNs, desiredName, needsObject, IsSelecting


\* The steps before the loop, and those that change none of what they set up.
LEMMA NextCases ==
    ASSUME [Next]_vars
    PROVE  \/ ClusterChanges \/ Unusable \/ SelectNamespaces \/ GetObject \/ ListObjects
           \/ NextNamespace \/ ResolveName \/ LoopDone \/ FilterObject \/ UNCHANGED vars
  BY DEF Next

LEMMA TemplateIsConstant == ASSUME [Next]_vars PROVE UNCHANGED tmpl
<1>1. CASE ClusterChanges
  BY <1>1 DEF ClusterChanges
<1>2. CASE Unusable
  BY <1>2 DEF Unusable, Return
<1>3. CASE SelectNamespaces
  BY <1>3 DEF SelectNamespaces
<1>4. CASE GetObject
  BY <1>4 DEF GetObject, Return
<1>5. CASE ListObjects
  BY <1>5 DEF ListObjects, Return
<1>6. CASE NextNamespace
  BY <1>6 DEF NextNamespace
<1>7. CASE ResolveName
  BY <1>7 DEF ResolveName, ResolveFails, Return
<1>8. CASE LoopDone
  BY <1>8 DEF LoopDone
<1>9. CASE FilterObject
  BY <1>9 DEF FilterObject
<1> QED
  BY <1>1, <1>2, <1>3, <1>4, <1>5, <1>6, <1>7, <1>8, <1>9, NextCases DEF vars

\* The counters go up only.
LEMMA Counters ==
    ASSUME changes \in Nat, faults \in Nat, [Next]_vars
    PROVE  /\ changes' \in Nat /\ changes' >= changes
           /\ faults' \in Nat /\ faults' >= faults
<1>1. CASE ClusterChanges
  BY <1>1 DEF ClusterChanges
<1>2. CASE Unusable
  <2>1. UNCHANGED changes /\ (UNCHANGED faults \/ Fault)
    BY <1>2 DEF Unusable, Return
  <2> QED
    BY <2>1 DEF Fault
<1>3. CASE SelectNamespaces
  BY <1>3 DEF SelectNamespaces, Fault
<1>4. CASE GetObject
  BY <1>4 DEF GetObject, Return, Fault
<1>5. CASE ListObjects
  BY <1>5 DEF ListObjects, Return, Fault
<1>6. CASE NextNamespace
  BY <1>6 DEF NextNamespace
<1>7. CASE ResolveName
  BY <1>7 DEF ResolveName, ResolveFails, Return, Fault
<1>8. CASE LoopDone
  BY <1>8 DEF LoopDone
<1>9. CASE FilterObject
  BY <1>9 DEF FilterObject, Fault
<1> QED
  BY <1>1, <1>2, <1>3, <1>4, <1>5, <1>6, <1>7, <1>8, <1>9, NextCases DEF vars

\* What others do to the objects leaves a cluster.
LEMMA ClusterStays == ASSUME IsCluster(cluster), ClusterChanges PROVE IsCluster(cluster')
<1>. PICK n \in DOMAIN cluster : \E m \in DOMAIN cluster[n] :
          /\ cluster[n][m] # None
          /\ cluster' \in {[cluster EXCEPT ![n][m] = None],
                           [cluster EXCEPT ![n][m].labelled = ~@]}
  BY DEF ClusterChanges
<1>1. PICK m \in DOMAIN cluster[n] :
          /\ cluster[n][m] # None
          /\ cluster' \in {[cluster EXCEPT ![n][m] = None],
                           [cluster EXCEPT ![n][m].labelled = ~@]}
  OBVIOUS
<1>2. IsObject(cluster[n][m], n, m)
  BY <1>1 DEF IsCluster
<1>3. CASE cluster' = [cluster EXCEPT ![n][m] = None]
  BY <1>1, <1>3 DEF IsCluster, IsObject
<1>4. CASE cluster' = [cluster EXCEPT ![n][m].labelled = ~@]
  <2>1. PICK o : o = [cluster[n][m] EXCEPT !.labelled = ~@]
    OBVIOUS
  <2>2. IsObject(o, n, m)
    BY <1>2, <2>1 DEF IsObject
  <2>3. cluster' = [cluster EXCEPT ![n][m] = o]
    BY <1>4, <2>1
  <2> QED
    BY <1>1, <2>2, <2>3 DEF IsCluster
<1> QED
  BY <1>1, <1>3, <1>4

\* Only others change the objects.
LEMMA OthersChange == ASSUME [Next]_vars, ~ClusterChanges PROVE UNCHANGED <<cluster, changes>>
<1>2. CASE Unusable
  BY <1>2 DEF Unusable, Return
<1>3. CASE SelectNamespaces
  BY <1>3 DEF SelectNamespaces
<1>4. CASE GetObject
  BY <1>4 DEF GetObject, Return
<1>5. CASE ListObjects
  BY <1>5 DEF ListObjects, Return
<1>6. CASE NextNamespace
  BY <1>6 DEF NextNamespace
<1>7. CASE ResolveName
  BY <1>7 DEF ResolveName, ResolveFails, Return
<1>8. CASE LoopDone
  BY <1>8 DEF LoopDone
<1>9. CASE FilterObject
  BY <1>9 DEF FilterObject
<1> QED
  BY <1>2, <1>3, <1>4, <1>5, <1>6, <1>7, <1>8, <1>9, NextCases DEF vars

LEMMA TypeStep == ASSUME TypeInv, [Next]_vars PROVE TypeInv'
<1>1. IsTemplate(tmpl')
  BY TemplateIsConstant DEF TypeInv
<1>2. IsCluster(cluster')
  BY ClusterStays, OthersChange DEF TypeInv
<1>3. changes' \in Nat /\ faults' \in Nat
  BY Counters DEF TypeInv
<1> QED
  BY <1>1, <1>2, <1>3 DEF TypeInv

\* A given namespace or name is one of the cluster's.
LEMMA Given ==
    ASSUME TypeInv
    PROVE  /\ desiredNs # NotGiven => desiredNs \in Namespaces
           /\ desiredName # NotGiven => desiredName \in Names
           /\ tmpl.selected \subseteq Namespaces
           /\ ~tmpl.namespaced => desiredNs = NotGiven
  BY ScenariosAssumption DEF TypeInv, IsTemplate, WellFormed, desiredNs, desiredName

LEMMA ObjectThere ==
    ASSUME TypeInv, NEW n \in Namespaces \cup {ClusterScope}, NEW m \in Names, cluster[n][m] # None
    PROVE  cluster[n][m].id = <<n, m>>
<1>1. IsObject(cluster[n][m], n, m)
  BY DEF TypeInv, IsCluster
<1> QED
  BY <1>1 DEF IsObject

\* The namespaces, with the given name and the objects read for it.
LEMMA SelectNamespacesRelevant ==
    ASSUME TypeInv, Stages, SelectNamespaces
    PROVE  RelevantInv'
<1>1. /\ desiredNs' = desiredNs /\ desiredName' = desiredName
      /\ IsSelecting' = IsSelecting
  <2>1. UNCHANGED tmpl
    BY DEF SelectNamespaces
  <2> QED
    BY <2>1, TemplateStays
<1>2. PICK fetched \in SUBSET {n \in Spaces : FetchesObjects /\ cluster[n][desiredName] # None} :
          relevant' = [n \in Spaces |-> IF n \in fetched THEN ObjectIn(n) ELSE DefaultNames]
  BY DEF SelectNamespaces
<1>3. Spaces \subseteq Namespaces \cup {ClusterScope} /\ (desiredNs # NotGiven => Spaces \subseteq {desiredNs})
  BY Given DEF Spaces
<1>4. ASSUME NEW n \in Spaces, NEW m \in DOMAIN relevant'[n] PROVE NameInv(n, m)'
  <2>1. CASE n \in fetched
    <3>1. FetchesObjects /\ cluster[n][desiredName] # None /\ relevant'[n] = ObjectIn(n)
      BY <1>2, <2>1
    <3>2. m = desiredName /\ desiredName # NotGiven /\ relevant'[n][m] = cluster[n][m]
      BY <3>1 DEF FetchesObjects, ObjectIn
    <3>3. cluster[n][m].id = <<n, m>>
      BY <3>1, <3>2, <1>3, Given, ObjectThere
    <3> QED
      BY <3>2, <3>3, <1>1 DEF NameInv, IsSelecting
  <2>2. CASE n \notin fetched
    <3>1. relevant'[n] = DefaultNames
      BY <1>2, <2>2
    <3>2. ~IsSelecting /\ m = desiredName /\ relevant'[n][m] = None
      BY <3>1 DEF DefaultNames
    <3> QED
      BY <3>2, <1>1 DEF NameInv
  <2> QED
    BY <2>1, <2>2
<1> QED
  BY <1>1, <1>2, <1>3, <1>4 DEF RelevantInv

LEMMA GetObjectRelevant ==
    ASSUME TypeInv, Stages, RelevantInv, GetObject
    PROVE  RelevantInv'
<1>1. UNCHANGED <<tmpl, shared, listed>>
  BY DEF GetObject, Return
<1>2. /\ desiredNs' = desiredNs /\ desiredName' = desiredName
      /\ IsSelecting' = IsSelecting
  BY <1>1, TemplateStays
<1>3. CASE UNCHANGED relevant
  BY <1>1, <1>2, <1>3 DEF RelevantInv, NameInv, FoundFor, IsShared
<1>4. ASSUME NEW n \in DOMAIN relevant, cluster[n][desiredName] # None,
             relevant' = [relevant EXCEPT ![n] = ObjectIn(n)]
      PROVE  RelevantInv'
  <2>1. desiredName # NotGiven
    BY DEF Stages, GetObject
  <2>2. ASSUME NEW o \in DOMAIN relevant, NEW m \in DOMAIN relevant'[o] PROVE NameInv(o, m)'
    <3>1. CASE o = n
      <4>1. m = desiredName /\ relevant'[o][m] = cluster[n][m]
        BY <1>4, <3>1, <2>2 DEF ObjectIn
      <4>2. cluster[n][m].id = <<n, m>>
        BY <1>4, <2>1, <4>1, Given, ObjectThere DEF RelevantInv
      <4> QED
        BY <2>1, <3>1, <4>1, <4>2, <1>2 DEF NameInv, IsSelecting
    <3>2. CASE o # n
      <4>1. relevant'[o] = relevant[o]
        BY <1>4, <3>2
      <4>2. NameInv(o, m)
        BY <2>2, <4>1 DEF RelevantInv
      <4> QED
        BY <4>1, <4>2, <1>1, <1>2 DEF NameInv, FoundFor, IsShared
    <3> QED
      BY <3>1, <3>2
  <2> QED
    BY <1>2, <1>4, <2>2 DEF RelevantInv
<1> QED
  BY <1>3, <1>4 DEF GetObject, Return

\* An object that is listed in one namespace is added to all that share its map.
LEMMA ListObjectsRelevant ==
    ASSUME TypeInv, Stages, RelevantInv, ListObjects
    PROVE  RelevantInv'
<1>1. UNCHANGED <<tmpl, shared, cluster>>
  BY DEF ListObjects, Return
<1>2. /\ desiredNs' = desiredNs /\ desiredName' = desiredName
      /\ IsSelecting' = IsSelecting
  BY <1>1, TemplateStays
<1>3. CASE UNCHANGED <<relevant, listed>>
  BY <1>1, <1>2, <1>3 DEF RelevantInv, NameInv, FoundFor, IsShared
<1>4. ASSUME NEW k \in todo,
             relevant' = [o \in DOMAIN relevant |->
                            IF o \in AddedTo(k) THEN Added(FoundObjects(k), relevant[o])
                            ELSE relevant[o]],
             listed' = listed \cup {<<k, m>> : m \in ObjectsFound(k)}
      PROVE  RelevantInv'
  <2>1. IsSelecting /\ k \in DOMAIN relevant
    BY DEF Stages, ListObjects
  <2>2. k \in Namespaces \cup {ClusterScope}
    BY <2>1 DEF RelevantInv
  <2>3. ASSUME NEW n \in DOMAIN relevant, NEW m \in DOMAIN relevant'[n] PROVE NameInv(n, m)'
    <3>1. CASE n \in AddedTo(k) /\ m \in ObjectsFound(k)
      <4>1. relevant'[n] = Added(FoundObjects(k), relevant[n])
        BY <1>4, <3>1
      <4>2. m \in DOMAIN FoundObjects(k) /\ relevant'[n][m] = FoundObjects(k)[m]
        BY <4>1, <3>1 DEF Added, FoundObjects
      <4>3. relevant'[n][m] # None => relevant'[n][m].id = <<k, m>>
        BY <4>2, <3>1, <2>2, ObjectThere DEF FoundObjects, ObjectsFound
      <4>4. <<k, m>> \in listed'
        BY <1>4, <3>1
      <4>5. n = k \/ (IsShared(n) /\ k \in shared)
        BY <3>1 DEF AddedTo, IsShared
      <4> QED
        BY <2>1, <4>3, <4>4, <4>5, <1>1, <1>2 DEF NameInv, FoundFor, IsShared
    <3>2. CASE ~(n \in AddedTo(k) /\ m \in ObjectsFound(k))
      <4>1. m \in DOMAIN relevant[n] /\ relevant'[n][m] = relevant[n][m]
        BY <1>4, <2>3, <3>2 DEF Added, FoundObjects
      <4>2. NameInv(n, m)
        BY <2>3, <4>1 DEF RelevantInv
      <4>3. listed \subseteq listed'
        BY <1>4
      <4> QED
        BY <4>1, <4>2, <4>3, <1>1, <1>2 DEF NameInv, FoundFor, IsShared
    <3> QED
      BY <3>1, <3>2
  <2> QED
    BY <1>2, <1>4, <2>3 DEF RelevantInv
<1> QED
  BY <1>3, <1>4 DEF ListObjects, Return

\* Later steps leave what was selected alone.
LEMMA SelectionStays ==
    ASSUME [Next]_vars, ~SelectNamespaces, ~GetObject, ~ListObjects
    PROVE  UNCHANGED <<relevant, shared, listed>>
<1>1. CASE ClusterChanges
  BY <1>1 DEF ClusterChanges
<1>2. CASE Unusable
  BY <1>2 DEF Unusable, Return
<1>6. CASE NextNamespace
  BY <1>6 DEF NextNamespace
<1>7. CASE ResolveName
  BY <1>7 DEF ResolveName, ResolveFails, Return
<1>8. CASE LoopDone
  BY <1>8 DEF LoopDone
<1>9. CASE FilterObject
  BY <1>9 DEF FilterObject
<1> QED
  BY <1>1, <1>2, <1>6, <1>7, <1>8, <1>9, NextCases DEF vars

LEMMA RelevantStep ==
    ASSUME TypeInv, Stages, RelevantInv, [Next]_vars
    PROVE  RelevantInv'
<1>1. CASE UNCHANGED <<relevant, shared, listed>>
  <2>1. /\ desiredNs' = desiredNs /\ desiredName' = desiredName /\ IsSelecting' = IsSelecting
    BY TemplateIsConstant, TemplateStays
  <2> QED
    BY <1>1, <2>1 DEF RelevantInv, NameInv, FoundFor, IsShared
<1> QED
  BY <1>1, SelectionStays, SelectNamespacesRelevant, GetObjectRelevant, ListObjectsRelevant

LEMMA StagesStep ==
    ASSUME TypeInv, Stages, [Next]_vars
    PROVE  Stages'
<1>. /\ UNCHANGED tmpl /\ desiredName' = desiredName /\ IsSelecting' = IsSelecting
  BY TemplateIsConstant, TemplateStays
<1> USE DEF Stages
<1>1. CASE ClusterChanges
  BY <1>1 DEF ClusterChanges
<1>2. CASE Unusable
  BY <1>2 DEF Unusable, Return
<1>3. CASE SelectNamespaces
  <2>1. /\ pc' \in {"fetch", "list", "resolve"} /\ todo' = DOMAIN relevant'
        /\ pc' = "fetch" => desiredName # NotGiven
        /\ pc' = "list" => IsSelecting
    BY <1>3 DEF SelectNamespaces
  <2>2. pc = "start" /\ UNCHANGED <<left, base, desired, listed>>
    BY <1>3 DEF SelectNamespaces
  <2> QED
    BY <2>1, <2>2
<1>4. CASE GetObject
  <2>1. DOMAIN relevant' = DOMAIN relevant
    BY <1>4 DEF GetObject, Return
  <2> QED
    BY <1>4, <2>1 DEF GetObject, Return
<1>5. CASE ListObjects
  <2>1. DOMAIN relevant' = DOMAIN relevant
    BY <1>5 DEF ListObjects, Return
  <2> QED
    BY <1>5, <2>1 DEF ListObjects, Return
<1>6. CASE NextNamespace
  BY <1>6 DEF NextNamespace
<1>7. CASE ResolveName
  BY <1>7 DEF ResolveName, ResolveFails, Return, Remaining
<1>8. CASE LoopDone
  BY <1>8 DEF LoopDone
<1>9. CASE FilterObject
  BY <1>9 DEF FilterObject
<1> QED
  BY <1>1, <1>2, <1>3, <1>4, <1>5, <1>6, <1>7, <1>8, <1>9, NextCases DEF vars

-----------------------------------------------------------------------------
(* The loop *)

\* What the template gives for a name of the loop is in its namespace, and has
\* its name.
LEMMA ResolvedFits ==
    ASSUME TypeInv, RelevantInv, NEW n \in DOMAIN relevant, NEW m \in DOMAIN relevant[n], NEW o
    PROVE  LET r == Resolved([ns |-> n, name |-> m, object |-> o])
           IN  /\ r.ns = n /\ r.from = [ns |-> n, name |-> m, object |-> o]
               /\ tmpl.name = "fixed" => r.name = FixedName
               /\ tmpl.name # "fixed" => r.name = m
<1> DEFINE r == Resolved([ns |-> n, name |-> m, object |-> o])
<1>1. r.ns = n
  BY DEF RelevantInv, Resolved
<1>2. tmpl.name = "fixed" => r.name = FixedName
  BY DEF Resolved
<1>3. ASSUME tmpl.name # "fixed" PROVE r.name = m
  <2>1. desiredName # NotGiven => m = desiredName
    BY DEF RelevantInv, NameInv, IsSelecting
  <2> QED
    BY <1>3, <2>1 DEF Resolved
<1>4. r.from = [ns |-> n, name |-> m, object |-> o]
  BY DEF Resolved
<1> QED
  BY <1>1, <1>2, <1>3, <1>4

\* The loop's namespace and name, and the object they had.
LEMMA AppendResolvedOwn ==
    ASSUME TypeInv, RelevantInv, ns \in DOMAIN relevant, NEW name \in DOMAIN relevant[ns],
           AppendResolved(name)
    PROVE  LET r == Resolved(Context(name))
           IN  /\ IsOwn(r) /\ r.ns = ns
               /\ tmpl.name = "fixed" => r.name = FixedName
               /\ IsSelecting \/ tmpl.name # "fixed" => r.name = name
<1> DEFINE r == Resolved(Context(name))
<1>1. /\ r.ns = ns /\ r.from = Context(name)
      /\ tmpl.name = "fixed" => r.name = FixedName
      /\ tmpl.name # "fixed" => r.name = name
  BY ResolvedFits DEF Context
<1>2. Fits(r, name)
  BY DEF AppendResolved
<1>3. IsSelecting \/ tmpl.name # "fixed" => r.name = name
  BY <1>1, <1>2 DEF Fits, IsSelecting
<1>4. NameInv(ns, name)
  BY DEF RelevantInv
<1>5. r.from.ns = ns /\ r.from.name = name /\ r.from.object = relevant[ns][name]
  BY <1>1 DEF Context
<1>6. IsOwn(r)
  BY <1>1, <1>3, <1>4, <1>5 DEF IsOwn, NameInv
<1> QED
  BY <1>1, <1>3, <1>6

\* A copy in another namespace or for another name, of templates without them.
LEMMA AppendCopyOwn ==
    ASSUME TypeInv, RelevantInv, ns \in DOMAIN relevant, NEW name \in DOMAIN relevant[ns],
           AppendCopy(name), IsOwn(base), "ns" \in tmpl.uses => base.ns = ns
    PROVE  LET c == [name |-> name, ns |-> ns, from |-> Reused.from]
           IN  /\ IsOwn(c) /\ c.ns = ns /\ c.name = name /\ c.from = base.from
               /\ {"name", "object"} \cap tmpl.uses = {}
<1>1. Reused = base /\ {"name", "object"} \cap tmpl.uses = {}
  BY DEF AppendCopy, Reused, needsPerNameTemplating, needsObject
<1>2. NameInv(ns, name)
  BY DEF RelevantInv
<1> QED
  BY <1>1, <1>2 DEF IsOwn, NameInv, needsObject

LEMMA NotFixed == NotGiven # "fixed"
  BY Zenon DEF NotGiven

LEMMA OwnStays ==
    ASSUME UNCHANGED <<tmpl, shared, listed>>, NEW d, IsOwn(d)
    PROVE  IsOwn(d)'
  BY TemplateStays DEF IsOwn, FoundFor, IsShared, needsObject

\* One object is added to those that are there.
LEMMA AppendOwn ==
    ASSUME OwnInv, UNCHANGED <<tmpl, shared, listed, ns>>, NEW obj, AppendObject(obj),
           IsOwn(obj), obj.ns = ns,
           tmpl.name = "fixed" /\ obj.name # FixedName =>
               /\ {"name", "object"} \cap tmpl.uses = {}
               /\ \E original \in desired : original.name = FixedName /\ original.from = obj.from
    PROVE  BaseInv' /\ \A d \in desired' : IsOwn(d)' /\ HasOriginal(d)'
<1>1. desired' = desired \cup {obj} /\ base' = obj
  BY DEF AppendObject
<1>2. BaseInv'
  BY <1>1 DEF BaseInv
<1>3. ASSUME NEW d \in desired' PROVE IsOwn(d)' /\ HasOriginal(d)'
  <2>1. CASE d \in desired
    BY <1>1, <2>1, OwnStays DEF OwnInv, HasOriginal
  <2>2. CASE d = obj
    BY <1>1, <2>2, OwnStays DEF HasOriginal
  <2> QED
    BY <1>1, <2>1, <2>2
<1> QED
  BY <1>2, <1>3

LEMMA ResolveNameOwn ==
    ASSUME OwnInv, ResolveName
    PROVE  BaseInv' /\ \A d \in desired' : IsOwn(d)' /\ HasOriginal(d)'
<1>1. PICK name \in left : \/ ResolveFails(name)
                           \/ /\ SkipName(name) \/ AppendResolved(name) \/ AppendCopy(name)
                              /\ UNCHANGED <<tmpl, shared, listed, pc, ns>>
  BY DEF ResolveName
<1>2. pc = "resolve" /\ ns \in DOMAIN relevant /\ name \in DOMAIN relevant[ns]
  BY DEF ResolveName, OwnInv, Stages
<1>3. CASE ResolveFails(name)
  BY <1>3 DEF ResolveFails, Return, BaseInv
<1>4. CASE SkipName(name) /\ UNCHANGED <<tmpl, shared, listed, pc, ns>>
  BY <1>4, OwnStays DEF SkipName, OwnInv, BaseInv, HasOriginal
<1>5. CASE AppendResolved(name) /\ UNCHANGED <<tmpl, shared, listed, pc, ns>>
  <2> DEFINE r == Resolved(Context(name))
  <2>1. IsOwn(r) /\ r.ns = ns /\ (tmpl.name = "fixed" => r.name = FixedName)
    BY <1>2, <1>5, AppendResolvedOwn DEF OwnInv
  <2>2. AppendObject(r)
    BY <1>5 DEF AppendResolved
  <2> HIDE DEF r
  <2> QED
    BY <1>5, <2>1, <2>2, AppendOwn
<1>6. CASE AppendCopy(name) /\ UNCHANGED <<tmpl, shared, listed, pc, ns>>
  <2> DEFINE c == [name |-> name, ns |-> ns, from |-> Reused.from]
  <2>1. base # None /\ AppendObject(c)
    BY <1>6 DEF AppendCopy, Reused
  <2>2. base \in desired /\ IsOwn(base) /\ HasOriginal(base) /\ ("ns" \in tmpl.uses => base.ns = ns)
    BY <1>2, <2>1 DEF OwnInv, BaseInv
  <2>3. IsOwn(c) /\ c.ns = ns /\ c.from = base.from /\ {"name", "object"} \cap tmpl.uses = {}
    BY <1>2, <1>6, <2>2, AppendCopyOwn DEF OwnInv
  <2> HIDE DEF c
  <2>4. tmpl.name = "fixed" => \E original \in desired : original.name = FixedName /\ original.from = c.from
    BY <2>2, <2>3 DEF HasOriginal
  <2> QED
    BY <1>6, <2>1, <2>3, <2>4, AppendOwn
<1> QED
  BY <1>1, <1>3, <1>4, <1>5, <1>6

LEMMA OwnStep == ASSUME OwnInv, [Next]_vars PROVE OwnInv'
<1>1. TypeInv' /\ Stages' /\ RelevantInv'
  BY TypeStep, StagesStep, RelevantStep DEF OwnInv
<1>2. BaseInv' /\ \A d \in desired' : IsOwn(d)' /\ HasOriginal(d)'
  <2>1. CASE ResolveName
    BY <2>1, ResolveNameOwn
  <2>2. CASE pc \in {"start", "fetch", "list"} /\ ~ResolveName /\ ~ClusterChanges
    <3>1. desired' = {} /\ UNCHANGED base
      BY <2>2, NextCases DEF OwnInv, Stages, Unusable, SelectNamespaces, GetObject, ListObjects,
         NextNamespace, LoopDone, FilterObject, Return, vars
    <3> QED
      BY <2>2, <3>1 DEF OwnInv, Stages, BaseInv
  <2>3. CASE NextNamespace
    BY <2>3, OwnStays DEF NextNamespace, OwnInv, BaseInv, HasOriginal, needsPerNamespaceTemplating
  <2>4. CASE LoopDone
    BY <2>4, OwnStays DEF LoopDone, OwnInv, BaseInv, HasOriginal
  <2>5. CASE FilterObject
    <3>1. desired' \subseteq desired /\ UNCHANGED <<tmpl, shared, listed>> /\ pc' # "resolve"
      BY <2>5 DEF FilterObject
    <3>2. tmpl.name # "fixed"
      BY <2>5, NotFixed DEF FilterObject, OwnInv, Stages
    <3> QED
      BY <3>1, <3>2, OwnStays DEF OwnInv, BaseInv, HasOriginal
  <2>6. CASE UNCHANGED <<tmpl, pc, shared, listed, ns, base, desired>>
    BY <2>6, OwnStays DEF OwnInv, BaseInv, HasOriginal
  <2>7. ClusterChanges \/ UNCHANGED vars => UNCHANGED <<tmpl, pc, shared, listed, ns, base, desired>>
    BY DEF ClusterChanges, vars
  <2>8. Unusable \/ SelectNamespaces \/ GetObject \/ ListObjects => pc \in {"start", "fetch", "list"}
    BY DEF Unusable, SelectNamespaces, GetObject, ListObjects
  <2> QED
    BY <2>1, <2>2, <2>3, <2>4, <2>5, <2>6, <2>7, <2>8, NextCases
<1> QED
  BY <1>1, <1>2 DEF OwnInv

LEMMA OwnInit == Init => OwnInv
<1> SUFFICES ASSUME Init PROVE OwnInv
  OBVIOUS
<1>1. TypeInv
  BY ScenariosAssumption DEF Init, TypeInv, WellFormed
<1> QED
  BY <1>1 DEF Init, OwnInv, Stages, RelevantInv, BaseInv

\* For any template, cluster, order of the maps, changes and faults: a desired
\* object was resolved with its own namespace, name and object.
THEOREM DesiredOwn == Spec => []DesiredIsOwn
<1>1. OwnInv => DesiredIsOwn
  BY DEF OwnInv, IsOwn, HasOriginal, DesiredIsOwn, FoundFor
<1> QED
  BY <1>1, OwnInit, OwnStep, PTL DEF Spec

-----------------------------------------------------------------------------
(* Nothing that was selected is left out *)

\* A name of the loop has its desired object, or was skipped.
Covers(n, m) == \/ <<n, m>> \in skipped
                \/ \E d \in desired : d.ns = n /\ (m = NotGiven \/ d.name = m)

\* Every name is covered, or the loop comes to it.
LoopInv == pc = "resolve" =>
    \A n \in DOMAIN relevant : \A m \in DOMAIN relevant[n] :
        n \in todo \/ (n = ns /\ m \in left) \/ Covers(n, m)

\* What is wanted is among the names of the loop.
WantedInv ==
    /\ \A w \in listed : \E n \in DOMAIN relevant :
          \E m \in DOMAIN relevant[n] \cap Names : w = <<n, m>>
    /\ ~IsSelecting => \A n \in DOMAIN relevant : desiredName \in DOMAIN relevant[n]

\* As long as nobody changes the objects, those listed are found again.
ThereInv == changes = 0 =>
    /\ \A w \in listed : w[2] \in ObjectsFound(w[1])
    /\ tmpl.ctype = "mustnothave" /\ ~HasLists(tmpl) => FindsMatches(tmpl, cluster)

DoneInv == pc = "filter" \/ (pc = "done" /\ outcome \in {"objects", "compliant"}) =>
    \A w \in Wanted : MayBeLeftOut(w) \/ Covers(w[1], w[2])

SelInv == OwnInv /\ LoopInv /\ WantedInv /\ ThereInv /\ DoneInv

LEMMA CoversStays ==
    ASSUME desired \subseteq desired', skipped \subseteq skipped', NEW n, NEW m, Covers(n, m)
    PROVE  Covers(n, m)'
  BY DEF Covers

LEMMA NextNamespaceLoop == ASSUME LoopInv, NextNamespace PROVE LoopInv'
<1>1. PICK n \in todo : todo' = todo \ {n} /\ ns' = n /\ left' = DOMAIN relevant[n]
  BY DEF NextNamespace
<1>2. pc = "resolve" /\ left = {} /\ UNCHANGED <<relevant, desired, skipped>>
  BY DEF NextNamespace
<1> QED
  BY <1>1, <1>2, CoversStays DEF LoopInv

LEMMA ResolveNameLoop == ASSUME OwnInv, LoopInv, ResolveName PROVE LoopInv'
<1>1. PICK name \in left : \/ ResolveFails(name)
                           \/ /\ SkipName(name) \/ AppendResolved(name) \/ AppendCopy(name)
                              /\ left' = Remaining(name) /\ UNCHANGED <<relevant, pc, todo, ns>>
  BY DEF ResolveName
<1>2. pc = "resolve" /\ ns \in DOMAIN relevant /\ name \in DOMAIN relevant[ns]
  BY DEF ResolveName, OwnInv, Stages
<1>3. CASE ResolveFails(name)
  BY <1>3 DEF ResolveFails, Return, LoopInv
<1>4. CASE /\ SkipName(name) \/ AppendResolved(name) \/ AppendCopy(name)
           /\ left' = Remaining(name) /\ UNCHANGED <<relevant, pc, todo, ns>>
  <2>1. desired \subseteq desired' /\ skipped \subseteq skipped'
    BY <1>4 DEF SkipName, AppendResolved, AppendCopy, AppendObject
  <2>2. Covers(ns, name)'
    <3>1. UNCHANGED ns
      BY <1>4
    <3>2. CASE SkipName(name)
      BY <3>1, <3>2 DEF SkipName, Covers
    <3>3. CASE AppendResolved(name)
      <4> DEFINE r == Resolved(Context(name))
      <4>1. r.ns = ns /\ (IsSelecting \/ tmpl.name # "fixed" => r.name = name)
        BY <1>2, <3>3, AppendResolvedOwn DEF OwnInv
      <4>2. ~IsSelecting /\ tmpl.name = "fixed" => name = NotGiven
        BY <1>2, ScenariosAssumption DEF OwnInv, RelevantInv, NameInv, desiredName, WellFormed
      <4>3. r \in desired'
        BY <3>3 DEF AppendResolved, AppendObject
      <4> HIDE DEF r
      <4> QED
        BY <3>1, <4>1, <4>2, <4>3 DEF Covers
    <3>4. CASE AppendCopy(name)
      BY <3>1, <3>4 DEF AppendCopy, AppendObject, Covers
    <3> QED
      BY <1>4, <3>2, <3>3, <3>4
  <2>3. left' = left \ {name} /\ UNCHANGED <<relevant, pc, todo, ns>>
    BY <1>4 DEF Remaining
  <2> QED
    BY <1>2, <2>1, <2>2, <2>3, CoversStays DEF LoopInv
<1> QED
  BY <1>1, <1>3, <1>4

LEMMA LoopStep == ASSUME OwnInv, LoopInv, [Next]_vars PROVE LoopInv'
<1>1. CASE ClusterChanges \/ UNCHANGED vars
  <2>1. UNCHANGED <<pc, relevant, todo, ns, left, desired, skipped>>
    BY <1>1 DEF ClusterChanges, vars
  <2> QED
    BY <2>1, CoversStays DEF LoopInv
<1>2. CASE Unusable \/ LoopDone \/ FilterObject
  BY <1>2 DEF Unusable, Return, LoopDone, FilterObject, LoopInv
<1>3. CASE SelectNamespaces
  <2>1. todo' = DOMAIN relevant'
    BY <1>3 DEF SelectNamespaces
  <2> QED
    BY <2>1 DEF LoopInv
<1>4. CASE GetObject
  <2>1. pc' = "resolve" => DOMAIN relevant' = DOMAIN relevant /\ UNCHANGED todo /\ DOMAIN relevant \subseteq todo
    BY <1>4 DEF GetObject, Return, OwnInv, Stages
  <2> QED
    BY <2>1 DEF LoopInv
<1>5. CASE ListObjects
  <2>1. pc' = "resolve" => DOMAIN relevant' = DOMAIN relevant /\ todo' = DOMAIN relevant
    BY <1>5 DEF ListObjects, Return
  <2> QED
    BY <2>1 DEF LoopInv
<1> QED
  BY <1>1, <1>2, <1>3, <1>4, <1>5, NextNamespaceLoop, ResolveNameLoop, NextCases

LEMMA WantedStep == ASSUME OwnInv, WantedInv, [Next]_vars PROVE WantedInv'
<1>. UNCHANGED tmpl /\ desiredName' = desiredName /\ IsSelecting' = IsSelecting
  BY TemplateIsConstant, TemplateStays
<1>1. CASE SelectNamespaces
  <2>1. listed' = {}
    BY <1>1 DEF SelectNamespaces, OwnInv, Stages
  <2>2. ASSUME ~IsSelecting, NEW n \in DOMAIN relevant' PROVE desiredName \in DOMAIN relevant'[n]
    <3>1. relevant'[n] = ObjectIn(n) \/ relevant'[n] = DefaultNames
      BY <1>1, <2>2 DEF SelectNamespaces
    <3> QED
      BY <2>2, <3>1 DEF ObjectIn, DefaultNames
  <2> QED
    BY <2>1, <2>2 DEF WantedInv
<1>2. CASE GetObject
  <2>1. listed = {} /\ UNCHANGED listed
    BY <1>2 DEF GetObject, Return, OwnInv, Stages
  <2>2. ASSUME ~IsSelecting, NEW n \in DOMAIN relevant' PROVE desiredName \in DOMAIN relevant'[n]
    BY <1>2, <2>2 DEF GetObject, Return, WantedInv, ObjectIn
  <2> QED
    BY <2>1, <2>2 DEF WantedInv
<1>3. CASE ListObjects
  <2>1. CASE UNCHANGED <<relevant, listed>>
    BY <2>1 DEF WantedInv
  <2>2. ASSUME NEW k \in todo,
               relevant' = [o \in DOMAIN relevant |->
                              IF o \in AddedTo(k) THEN Added(FoundObjects(k), relevant[o])
                              ELSE relevant[o]],
               listed' = listed \cup {<<k, m>> : m \in ObjectsFound(k)}
        PROVE  WantedInv'
    <3>1. IsSelecting /\ k \in DOMAIN relevant
      BY <1>3 DEF OwnInv, Stages, ListObjects
    <3>2. ASSUME NEW o \in DOMAIN relevant PROVE DOMAIN relevant[o] \subseteq DOMAIN relevant'[o]
      BY <2>2 DEF Added
    <3>3. ASSUME NEW m \in ObjectsFound(k) PROVE m \in DOMAIN relevant'[k] \cap Names
      BY <2>2, <3>1 DEF Added, AddedTo, FoundObjects, ObjectsFound
    <3>4. ASSUME NEW w \in listed'
          PROVE  \E n \in DOMAIN relevant' : \E m \in DOMAIN relevant'[n] \cap Names : w = <<n, m>>
      <4>1. CASE w \in listed
        BY <2>2, <3>2, <4>1 DEF WantedInv
      <4>2. CASE w \notin listed
        BY <2>2, <3>1, <3>3, <4>2
      <4> QED
        BY <4>1, <4>2
    <3> QED
      BY <3>1, <3>4 DEF WantedInv
  <2> QED
    BY <1>3, <2>1, <2>2 DEF ListObjects, Return
<1>4. CASE UNCHANGED <<relevant, shared, listed>>
  BY <1>4 DEF WantedInv
<1> QED
  BY <1>1, <1>2, <1>3, <1>4, SelectionStays

LEMMA ThereStep == ASSUME OwnInv, ThereInv, [Next]_vars PROVE ThereInv'
<1>1. CASE ClusterChanges
  <2>1. changes' # 0
    BY <1>1 DEF ClusterChanges, OwnInv, TypeInv
  <2> QED
    BY <2>1 DEF ThereInv
<1>2. CASE ~ClusterChanges
  <2>1. UNCHANGED <<tmpl, cluster, changes>>
    BY <1>2, OthersChange, TemplateIsConstant
  <2>2. \A n : ObjectsFound(n)' = ObjectsFound(n)
    BY <2>1 DEF ObjectsFound
  <2>3. changes = 0 => \A w \in listed' : w[2] \in ObjectsFound(w[1])
    <3>1. CASE UNCHANGED listed
      BY <3>1 DEF ThereInv
    <3>2. CASE ListObjects
      BY <3>2 DEF ListObjects, Return, ThereInv
    <3>3. SelectNamespaces \/ GetObject => UNCHANGED listed
      BY DEF SelectNamespaces, GetObject, Return
    <3> QED
      BY <3>1, <3>2, <3>3, SelectionStays
  <2> QED
    BY <2>1, <2>2, <2>3 DEF ThereInv
<1> QED
  BY <1>1, <1>2

\* What may be left out, stays so.
LEMMA LeftOutStays == ASSUME TypeInv, [Next]_vars, NEW w, MayBeLeftOut(w) PROVE MayBeLeftOut(w)'
<1>1. UNCHANGED tmpl
  BY TemplateIsConstant
<1>2. CASE faults > 0 \/ changes > 0
  <2>1. faults' > 0 \/ changes' > 0
    BY <1>2, Counters DEF TypeInv
  <2> QED
    BY <1>1, <2>1 DEF MayBeLeftOut
<1>3. CASE ClusterChanges
  <2>1. changes' > 0
    BY <1>3 DEF ClusterChanges, TypeInv
  <2> QED
    BY <1>1, <2>1 DEF MayBeLeftOut
<1>4. CASE ~ClusterChanges /\ ~(faults > 0 \/ changes > 0)
  BY <1>1, <1>4, OthersChange DEF MayBeLeftOut
<1> QED
  BY <1>2, <1>3, <1>4

LEMMA WantedStays ==
    ASSUME UNCHANGED <<tmpl, relevant, listed>>
    PROVE  Wanted' = Wanted
  BY TemplateStays DEF Wanted

\* When the loop is done, it came to every name.
LEMMA LoopDoneCovers ==
    ASSUME OwnInv, LoopInv, WantedInv, LoopDone
    PROVE  DoneInv'
<1>1. pc = "resolve" /\ left = {} /\ todo = {} /\ UNCHANGED <<tmpl, relevant, listed, desired, skipped>>
  BY DEF LoopDone
<1>2. \A n \in DOMAIN relevant : \A m \in DOMAIN relevant[n] : Covers(n, m)
  BY <1>1 DEF LoopInv
<1>3. ASSUME NEW w \in Wanted PROVE Covers(w[1], w[2])
  <2>1. CASE IsSelecting
    BY <1>2, <1>3, <2>1 DEF Wanted, WantedInv
  <2>2. CASE ~IsSelecting
    BY <1>2, <1>3, <2>2 DEF Wanted, WantedInv
  <2> QED
    BY <2>1, <2>2
<1>4. \A w \in Wanted : Covers(w[1], w[2])'
  BY <1>1, <1>3, CoversStays
<1> QED
  BY <1>1, <1>4, WantedStays DEF DoneInv

\* The filter leaves only objects out that do not have every field, unless
\* something went wrong or changed.
LEMMA FilterCovers ==
    ASSUME OwnInv, WantedInv, ThereInv, DoneInv, FilterObject, [Next]_vars
    PROVE  DoneInv'
<1>1. PICK d \in todo : \/ UNCHANGED desired
                        \/ desired' = desired \ {d} /\ Fault
                        \/ /\ desired' = desired \ {d}
                           /\ \E order \in Orders(ObjectsFound(d.ns)) :
                                 d.name \notin GetMatchingNames(d.ns, order)
  BY DEF FilterObject
<1>2. /\ tmpl.ctype = "mustnothave" /\ tmpl.name = NotGiven /\ tmpl.selector # "none"
      /\ pc = "filter" /\ UNCHANGED <<tmpl, relevant, listed, skipped, cluster, changes>>
  BY DEF FilterObject, OwnInv, Stages
<1>3. IsSelecting /\ Wanted = listed
  BY <1>2, ScenariosAssumption DEF IsSelecting, desiredName, Wanted, WellFormed
<1>4. ASSUME NEW w \in listed PROVE MayBeLeftOut(w)' \/ Covers(w[1], w[2])'
  <2>1. MayBeLeftOut(w) \/ Covers(w[1], w[2])
    BY <1>2, <1>3, <1>4 DEF DoneInv
  <2>2. PICK n \in DOMAIN relevant : \E m \in DOMAIN relevant[n] \cap Names : w = <<n, m>>
    BY <1>4 DEF WantedInv
  <2>3. PICK m \in Names : w = <<n, m>>
    BY <2>2
  <2>4. CASE ~MayBeLeftOut(w) /\ ~Covers(n, m)'
    <3>1. d.ns = n /\ d.name = m /\ desired' = desired \ {d}
      BY <1>1, <1>2, <2>1, <2>3, <2>4, ScenariosAssumption DEF Covers, WellFormed
    <3>2. CASE Fault
      <4>1. faults' > 0
        BY <3>2 DEF Fault, OwnInv, TypeInv
      <4> QED
        BY <1>2, <4>1 DEF MayBeLeftOut
    <3>3. ASSUME NEW order \in Orders(ObjectsFound(n)), m \notin GetMatchingNames(n, order)
          PROVE  FALSE
      <4>1. changes = 0 /\ ~HasLists(tmpl) /\ HasFields(cluster[n][m].content, tmpl.def)
        BY <1>2, <2>3, <2>4 DEF MayBeLeftOut, OwnInv, TypeInv
      <4>2. m \in ObjectsFound(n) /\ FindsMatches(tmpl, cluster)
        BY <1>2, <1>4, <2>3, <4>1 DEF ThereInv
      <4>3. n \in DOMAIN cluster
        BY DEF OwnInv, RelevantInv, TypeInv, IsCluster
      <4>4. ObjectsFound(n) \in SUBSET {o \in Names : cluster[n][o] # None}
        BY DEF ObjectsFound
      <4>5. m \in NamesThatMatch(tmpl.def, tmpl.ctype, Listed(cluster, n, order))
        BY <3>3, <4>1, <4>2, <4>3, <4>4 DEF FindsMatches
      <4> QED
        BY <3>3, <4>5 DEF GetMatchingNames
    <3>4. ~UNCHANGED desired
      BY <1>2, <2>1, <2>3, <2>4, CoversStays
    <3> QED
      BY <1>1, <3>1, <3>2, <3>3, <3>4
  <2> QED
    BY <2>3, <2>4, LeftOutStays DEF OwnInv
<1> QED
  BY <1>2, <1>3, <1>4, WantedStays DEF DoneInv

LEMMA DoneStep ==
    ASSUME OwnInv, LoopInv, WantedInv, ThereInv, DoneInv, [Next]_vars
    PROVE  DoneInv'
<1>1. CASE ClusterChanges \/ UNCHANGED vars
  <2>1. UNCHANGED <<pc, outcome, tmpl, relevant, listed, desired, skipped>>
    BY <1>1 DEF ClusterChanges, vars
  <2> QED
    BY <2>1, WantedStays, LeftOutStays, CoversStays DEF DoneInv, OwnInv
<1>2. CASE ~ClusterChanges /\ ~LoopDone /\ ~FilterObject /\ ~UNCHANGED vars
  <2>1. \/ pc' \in {"fetch", "list", "resolve"}
        \/ pc' = "done" /\ outcome' \in {"error", "missing namespace", "mismatch"}
    <3>1. CASE Unusable
      BY <3>1 DEF Unusable, Return
    <3>2. CASE SelectNamespaces
      BY <3>2 DEF SelectNamespaces
    <3>3. CASE GetObject
      BY <3>3 DEF GetObject, Return
    <3>4. CASE ListObjects
      BY <3>4 DEF ListObjects, Return
    <3>5. CASE NextNamespace
      BY <3>5 DEF NextNamespace
    <3>6. CASE ResolveName
      BY <3>6 DEF ResolveName, ResolveFails, Return
    <3> QED
      BY <1>2, <3>1, <3>2, <3>3, <3>4, <3>5, <3>6, NextCases
  <2> QED
    BY <2>1 DEF DoneInv
<1> QED
  BY <1>1, <1>2, LoopDoneCovers, FilterCovers

LEMMA SelInit == Init => SelInv
<1> SUFFICES ASSUME Init PROVE SelInv
  OBVIOUS
<1>1. ThereInv
  BY ScenariosAssumption DEF Init, ThereInv, WellFormed
<1> QED
  BY <1>1, OwnInit DEF Init, SelInv, LoopInv, WantedInv, DoneInv

\* For any template, cluster, order of the maps, changes and faults, and for any
\* comparison that finds the objects with every field: each selected object has
\* its desired object or was skipped, but for those the filter may leave out.
THEOREM SelectedDesired == Spec => []SelectedIsDesired
<1>1. SelInv /\ [Next]_vars => SelInv'
  BY OwnStep, LoopStep, WantedStep, ThereStep, DoneStep DEF SelInv
<1>2. SelInv => SelectedIsDesired
  <2> SUFFICES ASSUME SelInv PROVE SelectedIsDesired
    OBVIOUS
  <2>1. \A w \in Wanted : w = <<w[1], w[2]>>
    BY DEF SelInv, WantedInv, Wanted
  <2> QED
    BY <2>1 DEF SelInv, DoneInv, SelectedIsDesired, Covers
<1> QED
  BY <1>1, <1>2, SelInit, PTL DEF Spec
=============================================================================
