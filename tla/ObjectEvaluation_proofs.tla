----------------------- MODULE ObjectEvaluation_proofs -----------------------
(* Proofs about ObjectEvaluation. *)
EXTENDS ObjectEvaluation, SequenceTheorems, TLAPS

-----------------------------------------------------------------------------
(* The inductive invariant *)

Policy == [gen : Nat, enforce : BOOLEAN, vals : [Templates -> Values]]
Verdicts == [Templates -> [ok : BOOLEAN, odd : BOOLEAN]]

WorldOK ==
    /\ kinds \in Kinds /\ policy \in Policy
    /\ clock \in Nat /\ heard \in 0 .. clock
    /\ obj \in Object \cup {None} /\ ns \in BOOLEAN
    /\ obj # None => obj.rv <= clock
    /\ ~ns => obj = None
    /\ queued \in BOOLEAN /\ reported \in Verdicts

\* A copy is of the object as it is, or of one with another resourceVersion.
CopyOf(x) ==
    /\ x \in Object \cup {None}
    /\ x # None => x.rv <= clock /\ (obj # None /\ obj.rv = x.rv => obj = x)

CopiesOK == CopyOf(seen) /\ CopyOf(existing) /\ (heard = clock => seen = obj)

\* The worker has found a musthave object, and it differs from the template.
Checks == {"check", "update", "redelete", "recreate"}
Writes == {"update", "redelete", "recreate"}
Handles == {"read", "create", "watchns", "delete"} \cup Checks

WorkerOK ==
    /\ pc \in {"idle", "finish"} \cup Handles
    /\ pc # "idle" => plc \in Policy
    /\ results \in Verdicts /\ errs \in BOOLEAN
    /\ pc \in Handles => index \in Templates
    /\ pc \in {"create", "watchns"} \cup Checks => kinds[index].exist
    /\ pc = "delete" => ~kinds[index].exist
    /\ pc \in {"create", "watchns", "delete"} \cup Writes => plc.enforce
    /\ pc \in Checks => existing # None
    /\ pc \in Writes => /\ kinds[index].shape \in {"plain", "templated"}
                        /\ existing.vals[index] # plc.vals[index]

\* An object is as a template with the value v wants it.
Good(o, t, v) ==
    /\ kinds[t].shape # "bad"
    /\ kinds[t].shape = "vacuous" \/ o.vals[t] = v
    /\ kinds[t].status => o.ready

\* A cached verdict is true of the resourceVersion it is about, unless it
\* knows nothing of a status that matters.
Entry(u) ==
    LET e == processed[u]
        t == e.of[1]
    IN  /\ e.rv \in Nat /\ e.rv <= clock /\ e.ok \in BOOLEAN /\ t \in Templates
        /\ (obj # None /\ obj.uid = u /\ obj.rv = e.rv /\ (e.status \/ ~kinds[t].status))
              => (e.ok <=> Good(obj, t, e.of[2]))
CacheOK == \A u \in DOMAIN processed : Entry(u)

\* Nothing will bring the worker back to the policy.
Calm == heard = clock /\ ~queued
True(verdict, t) == verdict.odd \/ (verdict.ok <=> Holds(t))

\* Nothing disturbed this evaluation so far.
EvaluationOK ==
    pc # "idle" /\ Calm =>
        /\ plc = policy
        /\ pc = "watchns" => obj = None
        /\ pc \in Checks => existing = obj
        /\ ~errs => \A t \in Templates : pc = "finish" \/ t < index => True(results[t], t)

RestOK == pc = "idle" /\ Calm => \A t \in Templates : True(reported[t], t)

Inv == WorldOK /\ CopiesOK /\ WorkerOK /\ CacheOK /\ EvaluationOK /\ RestOK

LEMMA InitInv == Init => Inv
<1> SUFFICES ASSUME Init PROVE Inv
  OBVIOUS
<1>1. kinds \in Kinds /\ Templates = Templates /\ queued = TRUE /\ pc = "idle"
  BY DEF Init
<1>2. Unknown \in [ok : BOOLEAN, odd : BOOLEAN]
  BY DEF Unknown
<1>3. reported \in Verdicts /\ results \in Verdicts
  BY <1>2 DEF Init, Verdicts
<1>4. policy \in Policy
  BY DEF Init, Policy
<1>5. WorldOK
  BY <1>3, <1>4 DEF Init, WorldOK
<1>6. CopiesOK
  BY DEF Init, CopiesOK, CopyOf
<1>7. WorkerOK
  BY <1>3 DEF Init, WorkerOK, Handles, Checks, Writes
<1>8. CacheOK
  BY DEF Init, CacheOK
<1> QED
  BY <1>1, <1>5, <1>6, <1>7, <1>8 DEF Inv, EvaluationOK, RestOK, Calm

-----------------------------------------------------------------------------
(* The object changes only with the clock *)

LEMMA TemplatesType ==
    ASSUME WorldOK
    PROVE  /\ Len(kinds) \in Nat \ {0} /\ Templates = 1 .. Len(kinds)
           /\ None \notin Object
           /\ \A t \in Templates : kinds[t] \in Kind
<1>1. kinds \in Seq(Kind) /\ kinds # <<>> /\ None \notin Objects(DOMAIN kinds)
  BY ConstantsAssumption DEF WorldOK
<1>2. Len(kinds) \in Nat /\ DOMAIN kinds = 1 .. Len(kinds)
  BY <1>1, LenProperties
<1>3. Len(kinds) # 0
  BY <1>1, EmptySeq
<1> QED
  BY <1>1, <1>2, <1>3, ElementOfSeq DEF Templates, Object

Changed ==
    /\ kinds' = kinds
    /\ \/ obj' = obj /\ clock' = clock
       \/ /\ clock' = clock + 1
          /\ obj' # None => obj' \in Object /\ obj'.rv = clock + 1

\* A copy stays one, and a cached verdict stays true.
LEMMA CopyKept ==
    ASSUME WorldOK, Changed, NEW x, CopyOf(x)
    PROVE  /\ x \in Object' \cup {None}
           /\ x # None => x.rv <= clock' /\ (obj' # None /\ obj'.rv = x.rv => obj' = x)
<1>1. Object' = Object /\ clock \in Nat /\ (x # None => x.rv \in Nat)
  BY DEF Changed, WorldOK, CopyOf, Object, Objects, Templates
<1> QED
  BY <1>1 DEF Changed, CopyOf

LEMMA EntryKept ==
    ASSUME WorldOK, Changed, NEW u \in DOMAIN processed, Entry(u),
           u \in DOMAIN processed', processed'[u] = processed[u]
    PROVE  Entry(u)'
<1>1. clock \in Nat
  BY DEF WorldOK
<1> QED
  BY <1>1 DEF Changed, Entry, Good, Templates

LEMMA CacheKept ==
    ASSUME WorldOK, Changed, CacheOK, processed' \in {processed, <<>>}
    PROVE  CacheOK'
<1>1. CASE processed' = processed
  BY <1>1, EntryKept DEF CacheOK
<1>2. CASE processed' = <<>>
  BY <1>2 DEF CacheOK
<1> QED
  BY <1>1, <1>2

-----------------------------------------------------------------------------
(* The world *)

LEMMA MadeType ==
    ASSUME WorldOK, plc \in Policy
    PROVE  Made \in Object /\ Made.rv = clock + 1
<1>1. [t \in Templates |-> IF t = index THEN plc.vals[t] ELSE Unset] \in [Templates -> Values \cup {Unset}]
  BY DEF Policy
<1>2. clock + 1 \in Nat
  BY DEF WorldOK
<1> QED
  BY <1>1, <1>2 DEF Made, Object, Objects

LEMMA DeleteChanges ==
    ASSUME WorldOK, obj # None, Delete, kinds' = kinds
    PROVE  Changed
<1>1. obj \in Object /\ clock + 1 \in Nat
  BY DEF WorldOK
<1>2. [obj EXCEPT !.deleting = TRUE, !.rv = clock + 1] \in Object
      /\ [obj EXCEPT !.deleting = TRUE, !.rv = clock + 1].rv = clock + 1
  BY <1>1 DEF Object, Objects
<1>3. Object' = Object
  BY DEF Object, Objects, Templates
<1> QED
  BY <1>2, <1>3 DEF Delete, Changed

LEMMA WrittenType ==
    ASSUME WorldOK, obj # None, NEW t \in Templates, NEW v \in Values \cup {Unset}
    PROVE  /\ [obj EXCEPT !.vals[t] = v, !.rv = clock + 1] \in Object
           /\ [obj EXCEPT !.vals[t] = v, !.rv = clock + 1].rv = clock + 1
<1>1. obj \in Object /\ clock + 1 \in Nat
  BY DEF WorldOK
<1>2. [obj.vals EXCEPT ![t] = v] \in [Templates -> Values \cup {Unset}]
  BY <1>1 DEF Object, Objects
<1>3. [obj EXCEPT !.vals[t] = v, !.rv = clock + 1]
        = [obj EXCEPT !.vals = [obj.vals EXCEPT ![t] = v], !.rv = clock + 1]
  BY <1>1 DEF Object, Objects
<1> QED
  BY <1>1, <1>2, <1>3 DEF Object, Objects

\* Only others' changes, the worker's writes and the namespace touch the object.
LEMMA ObjectStep ==
    ASSUME WorldOK, CopiesOK, WorkerOK, [Next]_vars
    PROVE  Changed /\ ns' \in BOOLEAN /\ (~ns' => obj' = None)
<1>0. /\ obj \in Object \cup {None} /\ clock \in Nat /\ ns \in BOOLEAN /\ (~ns => obj = None)
      /\ clock + 1 \in Nat
  BY DEF WorldOK
<1>1. Object' = Object \/ kinds' # kinds
  BY DEF Object, Objects, Templates
<1>2. CASE OthersWrite
  <2>1. CASE obj # None /\ \E t \in Templates, v \in Values \cup {Unset} :
               obj' = [obj EXCEPT !.vals[t] = v, !.rv = clock + 1]
    <3>0. PICK t \in Templates, v \in Values \cup {Unset} :
            obj' = [obj EXCEPT !.vals[t] = v, !.rv = clock + 1]
      BY <2>1
    <3>1. obj' \in Object /\ obj'.rv = clock + 1
      BY <2>1, <3>0, WrittenType, Zenon
    <3> QED
      BY <1>0, <1>1, <1>2, <2>1, <3>1 DEF OthersWrite, Changed
  <2>2. CASE obj # None /\ obj' = [obj EXCEPT !.ready = ~@, !.rv = clock + 1]
    <3>1. obj' \in Object /\ obj'.rv = clock + 1
      BY <1>0, <2>2 DEF Object, Objects
    <3> QED
      BY <1>0, <1>1, <1>2, <2>2, <3>1 DEF OthersWrite, Changed
  <2>3. CASE obj # None /\ obj' = [obj EXCEPT !.deleting = TRUE, !.rv = clock + 1]
    <3>1. obj' \in Object /\ obj'.rv = clock + 1
      BY <1>0, <2>3 DEF Object, Objects
    <3> QED
      BY <1>0, <1>1, <1>2, <2>3, <3>1 DEF OthersWrite, Changed
  <2>4. CASE obj' = None
    BY <1>0, <1>2, <2>4 DEF OthersWrite, Changed
  <2>5. CASE obj = None /\ ns /\ \E v \in Values \cup {Unset} :
               obj' = [uid |-> clock + 1, rv |-> clock + 1, vals |-> [t \in Templates |-> v],
                       ready |-> FALSE, deleting |-> FALSE]
    <3>1. obj' \in Object /\ obj'.rv = clock + 1
      BY <1>0, <2>5 DEF Object, Objects
    <3> QED
      BY <1>0, <1>1, <1>2, <2>5, <3>1 DEF OthersWrite, Changed
  <2> QED
    BY <1>2, <2>1, <2>2, <2>3, <2>4, <2>5 DEF OthersWrite
<1>3. CASE Terminated \/ NamespaceGone \/ NamespaceBack
  BY <1>0, <1>3 DEF Terminated, NamespaceGone, NamespaceBack, Changed
<1>4. CASE WatchDelivers \/ Edit \/ LookupChanges \/ Crash \/ ReconcileBegin \/ HandleObjects
           \/ WatchNamespace \/ Matches \/ Refetch \/ UpdateRefused \/ DryRunSettles
           \/ DryRunPasses \/ Finish \/ UNCHANGED vars
  <2>1. kinds' = kinds /\ obj' = obj /\ clock' = clock /\ ns' = ns
    BY <1>4, Zenon DEF WatchDelivers, Edit, LookupChanges, Crash, ReconcileBegin, HandleObjects,
       WatchNamespace, Matches, Refetch, UpdateRefused, DryRunSettles, DryRunPasses, Finish, vars,
       world, checked
  <2> QED
    BY <1>0, <2>1 DEF Changed
<1>5. CASE EnforceByCreating
  <2>1. plc \in Policy
    BY <1>5 DEF EnforceByCreating, WorkerOK
  <2>2. kinds' = kinds /\ ns' = ns /\ (\/ obj' = obj /\ clock' = clock
                                       \/ ns /\ obj' = Made /\ clock' = clock + 1)
    BY <1>5, Zenon DEF EnforceByCreating
  <2> QED
    BY <1>0, <1>1, <2>1, <2>2, MadeType DEF Changed
<1>6. CASE EnforceByDeleting \/ RecreateDelete
  <2>1. kinds' = kinds /\ ns' = ns /\ ((obj' = obj /\ clock' = clock) \/ (obj # None /\ Delete))
    BY <1>6, Zenon DEF EnforceByDeleting, RecreateDelete, checked
  <2> QED
    BY <1>0, <2>1, DeleteChanges DEF Changed
<1>7. CASE Update
  <2>1. /\ kinds' = kinds /\ ns' = ns /\ obj # None /\ clock' = clock + 1
        /\ obj' = [obj EXCEPT !.vals[index] = plc.vals[index], !.rv = clock + 1]
    BY <1>7, Zenon DEF Update, checked
  <2>2. index \in Templates /\ plc \in Policy
    BY <1>7 DEF Update, WorkerOK, Handles, Checks
  <2>3. plc.vals[index] \in Values \cup {Unset}
    BY <2>2 DEF Policy
  <2> QED
    BY <1>0, <1>1, <2>1, <2>2, <2>3, WrittenType DEF Changed
<1>8. CASE RecreateCreate
  <2>1. plc \in Policy
    BY <1>8 DEF RecreateCreate, WorkerOK
  <2>2. kinds' = kinds /\ ns' = ns /\ (\/ obj' = obj /\ clock' = clock
                                       \/ ns /\ obj' = Made /\ clock' = clock + 1)
    BY <1>8, Zenon DEF RecreateCreate, checked
  <2> QED
    BY <1>0, <1>1, <2>1, <2>2, MadeType DEF Changed
<1> QED
  BY <1>2, <1>3, <1>4, <1>5, <1>6, <1>7, <1>8, Zenon DEF Next, Worker

LEMMA ChangedObject ==
    ASSUME WorldOK, Changed, heard' \in {heard, clock}
    PROVE  /\ clock' \in Nat /\ heard' \in 0 .. clock' /\ obj' \in Object' \cup {None}
           /\ obj' # None => obj'.rv <= clock'
<1>1. Object' = Object
  BY DEF Changed, Object, Objects, Templates
<1> QED
  BY <1>1 DEF WorldOK, Changed

LEMMA WorldStep ==
    ASSUME WorldOK, CopiesOK, WorkerOK, [Next]_vars
    PROVE  WorldOK' /\ Changed
<1>1. /\ Changed /\ ns' \in BOOLEAN /\ (~ns' => obj' = None)
  BY ObjectStep
<1>2. /\ kinds' = kinds /\ Policy' = Policy /\ Verdicts' = Verdicts
  BY <1>1 DEF Changed, Policy, Verdicts, Templates
<1>3. policy' \in Policy
  <2>1. policy \in Policy
    BY DEF WorldOK
  <2>2. CASE Edit \/ LookupChanges
    <3>1. PICK gen \in {policy.gen, policy.gen + 1} :
            \/ policy' = [policy EXCEPT !.gen = gen, !.enforce = ~@]
            \/ \E t \in Templates, v \in Values : policy' = [policy EXCEPT !.gen = gen, !.vals[t] = v]
      <4>1. CASE Edit
        BY <2>1, <4>1 DEF Edit, Policy
      <4>2. CASE LookupChanges
        <5>1. PICK t \in Templates, v \in Values : policy' = [policy EXCEPT !.vals[t] = v]
          BY <4>2 DEF LookupChanges
        <5>2. policy' = [policy EXCEPT !.gen = policy.gen, !.vals[t] = v]
          BY <2>1, <5>1 DEF Policy
        <5> QED
          BY <5>2
      <4> QED
        BY <2>2, <4>1, <4>2
    <3>2. gen \in Nat
      BY <2>1 DEF Policy
    <3>3. CASE policy' = [policy EXCEPT !.gen = gen, !.enforce = ~@]
      BY <2>1, <3>2, <3>3 DEF Policy
    <3>4. ASSUME NEW t \in Templates, NEW v \in Values,
                 policy' = [policy EXCEPT !.gen = gen, !.vals[t] = v]
          PROVE  policy' \in Policy
      <4>1. [policy.vals EXCEPT ![t] = v] \in [Templates -> Values]
        BY <2>1, <3>4 DEF Policy
      <4>2. policy' = [policy EXCEPT !.gen = gen, !.vals = [policy.vals EXCEPT ![t] = v]]
        BY <2>1, <3>4 DEF Policy
      <4> QED
        BY <2>1, <3>2, <4>1, <4>2 DEF Policy
    <3> QED
      BY <3>1, <3>3, <3>4
  <2>3. CASE ~(Edit \/ LookupChanges)
    <3>1. policy' = policy
      BY <2>3, Zenon DEF Next, Worker, OthersWrite, Terminated, NamespaceGone, NamespaceBack,
         WatchDelivers, Crash, ReconcileBegin, HandleObjects, EnforceByCreating, WatchNamespace,
         EnforceByDeleting, Matches, Refetch, UpdateRefused, DryRunSettles, DryRunPasses, Update,
         RecreateDelete, RecreateCreate, Finish, vars, world, checked
    <3> QED
      BY <2>1, <3>1
  <2> QED
    BY <2>2, <2>3
<1>4. heard' \in {heard, clock}
  BY Zenon DEF Next, Worker, OthersWrite, Terminated, NamespaceGone, NamespaceBack, Edit,
     LookupChanges, WatchDelivers, Crash, ReconcileBegin, HandleObjects, EnforceByCreating,
     WatchNamespace, EnforceByDeleting, Matches, Refetch, UpdateRefused, DryRunSettles,
     DryRunPasses, Update, RecreateDelete, RecreateCreate, Finish, vars, watch, checked
<1>5. reported' \in {reported, results}
  BY Zenon DEF Next, Worker, OthersWrite, Terminated, NamespaceGone, NamespaceBack, Edit,
     LookupChanges, WatchDelivers, Crash, ReconcileBegin, HandleObjects, EnforceByCreating,
     WatchNamespace, EnforceByDeleting, Matches, Refetch, UpdateRefused, DryRunSettles,
     DryRunPasses, Update, RecreateDelete, RecreateCreate, Finish, vars, checked
<1>6. queued' \in BOOLEAN
  <2>1. queued \in BOOLEAN
    BY DEF WorldOK
  <2>2. CASE NamespaceBack
    BY <2>2, Zenon DEF NamespaceBack
  <2>3. CASE ~NamespaceBack
    BY <2>1, <2>3, Zenon DEF Next, Worker, OthersWrite, Terminated, NamespaceGone, Edit,
       LookupChanges, WatchDelivers, Crash, ReconcileBegin, HandleObjects, EnforceByCreating,
       WatchNamespace, EnforceByDeleting, Matches, Refetch, UpdateRefused, DryRunSettles,
       DryRunPasses, Update, RecreateDelete, RecreateCreate, Finish, vars, checked
  <2> QED
    BY <2>2, <2>3
<1>7. /\ kinds \in Kinds /\ reported \in Verdicts /\ results \in Verdicts
  BY DEF WorldOK, WorkerOK
<1> QED
  BY <1>1, <1>2, <1>3, <1>4, <1>5, <1>6, <1>7, ChangedObject DEF WorldOK

-----------------------------------------------------------------------------
(* The copies of the object *)

LEMMA CopiesStep ==
    ASSUME WorldOK, WorldOK', CopiesOK, Changed, [Next]_vars
    PROVE  CopiesOK'
<1>1. clock \in Nat /\ heard \in 0 .. clock /\ obj \in Object \cup {None}
      /\ (obj # None => obj.rv <= clock /\ obj.rv \in Nat)
  BY DEF WorldOK, Object, Objects
<1>2. CopyOf(None) /\ CopyOf(obj) /\ CopyOf(seen) /\ CopyOf(existing)
  BY <1>1 DEF CopiesOK, CopyOf
<1>3. ASSUME NEW x, CopyOf(x) PROVE
        /\ x \in Object' \cup {None}
        /\ x # None => x.rv <= clock' /\ (obj' # None /\ obj'.rv = x.rv => obj' = x)
  BY <1>3, CopyKept
<1>4. \/ seen' = seen /\ heard' = heard
      \/ seen' = obj /\ heard' = clock /\ obj' = obj /\ clock' = clock
  BY Zenon DEF Next, Worker, OthersWrite, Terminated, NamespaceGone, NamespaceBack, Edit,
     LookupChanges, WatchDelivers, Crash, ReconcileBegin, HandleObjects, EnforceByCreating,
     WatchNamespace, EnforceByDeleting, Matches, Refetch, UpdateRefused, DryRunSettles,
     DryRunPasses, Update, RecreateDelete, RecreateCreate, Finish, vars, world, watch, checked
<1>5. existing' \in {existing, None, seen, obj}
  <2>1. CASE HandleObjects
    <3>1. PICK read \in {seen, None} : HandleSingleObj(read)
      BY <2>1 DEF HandleObjects
    <3>2. existing' \in {existing, None, read}
      BY <3>1, Zenon DEF HandleSingleObj, Conclude
    <3> QED
      BY <3>1, <3>2
  <2>2. CASE ~HandleObjects
    BY <2>2, Zenon DEF Next, Worker, OthersWrite, Terminated, NamespaceGone, NamespaceBack, Edit,
       LookupChanges, WatchDelivers, Crash, ReconcileBegin, EnforceByCreating, WatchNamespace,
       EnforceByDeleting, Matches, Refetch, UpdateRefused, DryRunSettles, DryRunPasses, Update,
       RecreateDelete, RecreateCreate, Finish, vars, worker, checked, Conclude
  <2> QED
    BY <2>1, <2>2
<1>6. /\ seen' \in Object' \cup {None}
      /\ seen' # None => seen'.rv <= clock' /\ (obj' # None /\ obj'.rv = seen'.rv => obj' = seen')
  BY <1>2, <1>3, <1>4
<1>7. /\ existing' \in Object' \cup {None}
      /\ existing' # None =>
            existing'.rv <= clock' /\ (obj' # None /\ obj'.rv = existing'.rv => obj' = existing')
  <2>1. CASE existing' = existing
    BY <1>2, <1>3, <2>1
  <2>2. CASE existing' = None
    BY <2>2
  <2>3. CASE existing' = seen
    BY <1>2, <1>3, <2>3
  <2>4. CASE existing' = obj
    BY <1>2, <1>3, <2>4
  <2> QED
    BY <1>5, <2>1, <2>2, <2>3, <2>4
<1>8. heard' = clock' => seen' = obj'
  BY <1>1, <1>4 DEF Changed, CopiesOK
<1> QED
  BY <1>6, <1>7, <1>8 DEF CopiesOK, CopyOf

-----------------------------------------------------------------------------
(* Steps of others *)

Outside == \/ OthersWrite \/ Terminated \/ NamespaceGone \/ NamespaceBack \/ WatchDelivers
           \/ Edit \/ LookupChanges \/ UNCHANGED vars

LEMMA OutsideStep ==
    ASSUME Inv, Outside, Changed
    PROVE  WorkerOK' /\ CacheOK' /\ EvaluationOK' /\ RestOK'
<1>1. UNCHANGED <<worker, processed, reported>>
  BY Zenon DEF Outside, OthersWrite, Terminated, NamespaceGone, NamespaceBack, WatchDelivers, Edit,
     LookupChanges, vars
<1>2. CacheOK'
  BY <1>1, CacheKept DEF Inv
<1>3. /\ kinds' = kinds /\ Templates' = Templates /\ Policy' = Policy /\ Verdicts' = Verdicts
  BY DEF Changed, Templates, Policy, Verdicts
<1>4. WorkerOK'
  BY <1>1, <1>3 DEF Inv, WorkerOK, worker
<1>5. Calm' => Calm /\ obj' = obj /\ policy' = policy
  <2>1. CASE WatchDelivers \/ Edit \/ LookupChanges
    BY <2>1, Zenon DEF WatchDelivers, Edit, LookupChanges, Calm
  <2>2. CASE NamespaceBack
    <3>1. UNCHANGED <<obj, policy, heard, clock>> /\ (~queued' => ~queued)
      BY <2>2, Zenon DEF NamespaceBack, watch
    <3> QED
      BY <3>1 DEF Calm
  <2>3. CASE OthersWrite \/ Terminated \/ NamespaceGone \/ UNCHANGED vars
    <3>1. heard' = heard /\ queued' = queued /\ policy' = policy
      BY <2>3, Zenon DEF OthersWrite, Terminated, NamespaceGone, vars, watch, world
    <3>2. clock \in Nat /\ heard \in 0 .. clock
      BY DEF Inv, WorldOK
    <3> QED
      BY <3>1, <3>2 DEF Calm, Changed
  <2> QED
    BY <2>1, <2>2, <2>3 DEF Outside
<1>6. ASSUME Calm', NEW t, NEW v, True(v, t) PROVE True(v, t)'
  BY <1>3, <1>5, <1>6 DEF True, Holds
<1>7. EvaluationOK'
  BY <1>1, <1>3, <1>5, <1>6 DEF Inv, EvaluationOK, worker
<1>8. RestOK'
  BY <1>1, <1>3, <1>5, <1>6 DEF Inv, RestOK, worker
<1> QED
  BY <1>2, <1>4, <1>7, <1>8

-----------------------------------------------------------------------------
(* Steps of the worker in general *)

\* A template is judged, and nothing was written unless the clock says so.
LEMMA Judged ==
    ASSUME Inv, Changed, pc \in Handles, UNCHANGED <<policy, heard, queued>>,
           NEW ok \in BOOLEAN, NEW odd \in BOOLEAN, NEW err \in BOOLEAN, Conclude(ok, odd, err),
           Calm /\ obj' = obj /\ plc = policy /\ ~err => odd \/ (ok <=> Holds(index))
    PROVE  WorkerOK' /\ EvaluationOK' /\ RestOK'
<1>1. /\ Len(kinds) \in Nat \ {0} /\ Templates = 1 .. Len(kinds) /\ index \in Templates
      /\ WorkerOK /\ results \in Verdicts /\ errs \in BOOLEAN /\ plc \in Policy
  BY TemplatesType DEF Inv, WorkerOK, Handles, Checks
<1>2. /\ kinds' = kinds /\ Templates' = Templates /\ Policy' = Policy /\ Verdicts' = Verdicts
  BY DEF Changed, Templates, Policy, Verdicts
<1>3. /\ results' = [results EXCEPT ![index] = [ok |-> ok, odd |-> odd]]
      /\ errs' = (errs \/ err) /\ plc' = plc
      /\ \/ index = Len(kinds) /\ pc' = "finish" /\ index' = index
         \/ index # Len(kinds) /\ pc' = "read" /\ index' = index + 1
  BY Zenon DEF Conclude
<1>4. results' \in Verdicts /\ errs' \in BOOLEAN
  BY <1>1, <1>3 DEF Verdicts
<1>5. pc' = "read" => index' \in Templates
  <2>1. \A n \in Nat : \A i \in 1 .. n : i # n => i + 1 \in 1 .. n
    OBVIOUS
  <2>2. pc' = "read" => index # Len(kinds) /\ index' = index + 1
    BY <1>3
  <2>3. Len(kinds) \in Nat /\ index \in 1 .. Len(kinds)
    BY <1>1
  <2>4. pc' = "read" => index + 1 \in 1 .. Len(kinds)
    BY <2>1, <2>2, <2>3, Zenon
  <2> QED
    BY <1>1, <2>2, <2>4, Zenon
<1>6. WorkerOK'
  BY <1>1, <1>2, <1>3, <1>4, <1>5 DEF WorkerOK, Handles, Checks, Writes
<1>7. Calm' => Calm /\ obj' = obj
  BY DEF Inv, WorldOK, Calm, Changed
<1>8. ASSUME Calm', ~errs', NEW t \in Templates, pc' = "finish" \/ t < index'
      PROVE  True(results[t], t)'
  <2>1. Calm /\ obj' = obj /\ plc = policy /\ ~errs /\ ~err /\ pc # "idle"
    BY <1>1, <1>3, <1>7, <1>8 DEF Inv, EvaluationOK, Handles, Checks
  <2>2. Holds(t)' = Holds(t)
    BY <1>2, <2>1 DEF Holds
  <2>3. CASE t = index
    <3>1. results'[t] = [ok |-> ok, odd |-> odd]
      BY <1>1, <1>3, <2>3 DEF Verdicts
    <3> QED
      BY <2>1, <2>2, <2>3, <3>1 DEF True
  <2>4. CASE t # index
    <3>1. t < index
      BY <1>1, <1>3, <1>8, <2>4
    <3>2. results'[t] = results[t]
      BY <1>1, <1>3, <2>4 DEF Verdicts
    <3> QED
      BY <2>1, <2>2, <3>1, <3>2 DEF Inv, EvaluationOK, True
  <2> QED
    BY <2>3, <2>4
<1>9. EvaluationOK'
  <2>1. pc' # "idle" /\ Calm' => plc' = policy'
    BY <1>3, <1>7 DEF Inv, EvaluationOK, Handles, Checks
  <2>2. pc' \notin {"watchns"} \cup Checks
    BY <1>3 DEF Checks
  <2> QED
    BY <1>2, <1>8, <2>1, <2>2 DEF EvaluationOK
<1>10. RestOK'
  BY <1>3 DEF RestOK
<1> QED
  BY <1>6, <1>9, <1>10

\* The worker goes on with the same template.
LEMMA Moved ==
    ASSUME Inv, Changed, pc \in Handles, pc' \in Handles,
           UNCHANGED <<policy, heard, queued, plc, index, results, errs>>,
           Calm /\ Calm' /\ obj' = obj => /\ pc' = "watchns" => obj = None
                                          /\ pc' \in Checks => existing' = obj
    PROVE  EvaluationOK' /\ RestOK'
<1>1. Calm' => Calm /\ obj' = obj
  BY DEF Inv, WorldOK, Calm, Changed
<1>2. pc # "idle" /\ pc # "finish" /\ pc' # "idle" /\ pc' # "finish" /\ Templates' = Templates
  BY DEF Handles, Checks, Changed, Templates
<1>3. ASSUME Calm', NEW t, True(results[t], t) PROVE True(results[t], t)'
  BY <1>1, <1>3 DEF True, Holds, Changed
<1>4. EvaluationOK'
  BY <1>1, <1>2, <1>3 DEF Inv, EvaluationOK
<1>5. RestOK'
  BY <1>2 DEF RestOK
<1> QED
  BY <1>4, <1>5

LEMMA WorkerMoved ==
    ASSUME Inv, Changed, pc' \in Handles, pc \in Handles, UNCHANGED <<plc, index, results, errs>>,
           pc' \in {"create", "watchns"} \cup Checks => kinds[index].exist,
           pc' = "delete" => ~kinds[index].exist,
           pc' \in {"create", "watchns", "delete"} \cup Writes => plc.enforce,
           pc' \in Checks => existing' # None,
           pc' \in Writes => /\ kinds[index].shape \in {"plain", "templated"}
                             /\ existing'.vals[index] # plc.vals[index]
    PROVE  WorkerOK'
<1>1. /\ kinds' = kinds /\ Templates' = Templates /\ Policy' = Policy /\ Verdicts' = Verdicts
  BY DEF Changed, Templates, Policy, Verdicts
<1>2. index \in Templates /\ plc \in Policy /\ results \in Verdicts /\ errs \in BOOLEAN
  BY DEF Inv, WorkerOK, Handles, Checks
<1> QED
  BY <1>1, <1>2 DEF WorkerOK

\* A true verdict on a musthave object as it is.
LEMMA Judgement ==
    ASSUME Inv, obj # None, plc = policy, kinds[index].exist
    PROVE  Good(obj, index, plc.vals[index]) <=> Holds(index)
  BY DEF Good, Holds

LEMMA KindType ==
    ASSUME Inv, pc \in Handles
    PROVE  /\ index \in Templates /\ kinds[index] \in Kind /\ plc \in Policy
           /\ kinds[index].exist \in BOOLEAN /\ kinds[index].status \in BOOLEAN
           /\ kinds[index].immutable \in BOOLEAN /\ plc.enforce \in BOOLEAN
           /\ kinds[index].shape \in {"plain", "templated", "vacuous", "bad"}
<1>1. index \in Templates /\ plc \in Policy
  BY DEF Inv, WorkerOK, Handles, Checks
<1>2. kinds[index] \in Kind
  BY <1>1, TemplatesType DEF Inv
<1> QED
  BY <1>1, <1>2 DEF Kind, Policy

LEMMA HandleObjectsStep ==
    ASSUME Inv, Changed, HandleObjects
    PROVE  WorkerOK' /\ CacheOK' /\ EvaluationOK' /\ RestOK'
<1>1. /\ pc = "read" /\ pc \in Handles /\ UNCHANGED <<kinds, policy, obj, clock, seen, heard, queued>>
      /\ processed' \in {processed, <<>>}
  BY DEF HandleObjects, world, watch, Handles
<1>2. CacheOK'
  BY <1>1, CacheKept DEF Inv
<1>3. PICK read \in {seen, None} : HandleSingleObj(read)
  BY DEF HandleObjects
<1>4. /\ index \in Templates /\ kinds[index].exist \in BOOLEAN /\ plc.enforce \in BOOLEAN
      /\ kinds[index].status \in BOOLEAN
  BY <1>1, KindType
<1> DEFINE cached == kinds[index].shape # "templated" /\ read # None /\ AlreadyEvaluated(read)
           odd == read # seen
<1>5. Calm => seen = obj
  BY DEF Inv, CopiesOK, Calm
<1>6. CASE kinds[index].exist /\ read = None /\ plc.enforce
  <2>1. pc' = "create" /\ UNCHANGED <<index, existing, attempts, results, errs, plc>>
    BY <1>3, <1>6 DEF HandleSingleObj
  <2>2. WorkerOK'
    BY <1>1, <1>6, <2>1, WorkerMoved DEF Handles, Checks, Writes
  <2>3. EvaluationOK' /\ RestOK'
    BY <1>1, <2>1, Moved DEF Handles, Checks
  <2> QED
    BY <1>2, <2>2, <2>3
<1>7. CASE kinds[index].exist /\ read = None /\ ~plc.enforce
  <2>1. Conclude(FALSE, odd, FALSE)
    BY <1>3, <1>7 DEF HandleSingleObj
  <2>2. Calm /\ plc = policy => odd \/ ~Holds(index)
    BY <1>5, <1>7 DEF Holds
  <2> QED
    BY <1>1, <1>2, <2>1, <2>2, Judged
<1>8. CASE ~kinds[index].exist /\ read # None /\ plc.enforce
  <2>1. pc' = "delete" /\ UNCHANGED <<index, existing, attempts, results, errs, plc>>
    BY <1>3, <1>8 DEF HandleSingleObj
  <2>2. WorkerOK'
    BY <1>1, <1>8, <2>1, WorkerMoved DEF Handles, Checks, Writes
  <2>3. EvaluationOK' /\ RestOK'
    BY <1>1, <2>1, Moved DEF Handles, Checks
  <2> QED
    BY <1>2, <2>2, <2>3
<1>9. CASE ~kinds[index].exist /\ read # None /\ ~plc.enforce
  <2>1. Conclude(FALSE, odd, FALSE)
    BY <1>3, <1>9 DEF HandleSingleObj
  <2>2. Calm /\ plc = policy => odd \/ ~Holds(index)
    BY <1>3, <1>5, <1>9 DEF Holds
  <2> QED
    BY <1>1, <1>2, <2>1, <2>2, Judged
<1>10. CASE ~kinds[index].exist /\ read = None
  <2>1. Conclude(TRUE, odd, FALSE)
    BY <1>3, <1>10 DEF HandleSingleObj
  <2>2. Calm /\ plc = policy => odd \/ Holds(index)
    BY <1>5, <1>10 DEF Holds
  <2> QED
    BY <1>1, <1>2, <2>1, <2>2, Judged
<1>11. CASE kinds[index].exist /\ read # None /\ cached
  <2>1. Conclude(processed[read.uid].ok, Borrowed(read), FALSE)
    BY <1>3, <1>11 DEF HandleSingleObj
  <2>2. read.uid \in DOMAIN processed /\ processed[read.uid].rv = read.rv
    BY <1>11 DEF AlreadyEvaluated
  <2>3. Entry(read.uid)
    BY <2>2 DEF Inv, CacheOK
  <2>4. processed[read.uid].ok \in BOOLEAN /\ Borrowed(read) \in BOOLEAN
    BY <2>3 DEF Entry, Borrowed
  <2>5. Calm /\ plc = policy /\ ~Borrowed(read) => (processed[read.uid].ok <=> Holds(index))
    <3> SUFFICES ASSUME Calm, plc = policy, ~Borrowed(read)
                 PROVE  processed[read.uid].ok <=> Holds(index)
      OBVIOUS
    <3>1. obj = read /\ obj # None
      BY <1>3, <1>5, <1>11
    <3>2. /\ processed[read.uid].of = <<index, plc.vals[index]>>
          /\ processed[read.uid].status \/ ~kinds[index].status
      BY DEF Borrowed
    <3>3. processed[read.uid].of[1] = index /\ processed[read.uid].of[2] = plc.vals[index]
      BY <3>2
    <3>4. processed[read.uid].ok <=> Good(obj, index, plc.vals[index])
      BY <2>2, <2>3, <3>1, <3>2, <3>3 DEF Entry
    <3> QED
      BY <1>11, <3>1, <3>4, Judgement
  <2> QED
    BY <1>1, <1>2, <2>1, <2>4, <2>5, Judged
<1>12. CASE kinds[index].exist /\ read # None /\ ~cached
  <2>1. pc' = "check" /\ existing' = read /\ UNCHANGED <<index, attempts, results, errs, plc>>
    BY <1>3, <1>12 DEF HandleSingleObj
  <2>2. WorkerOK'
    BY <1>1, <1>12, <2>1, WorkerMoved DEF Handles, Checks, Writes
  <2>3. Calm => existing' = obj
    BY <1>3, <1>5, <1>12, <2>1
  <2>4. EvaluationOK' /\ RestOK'
    BY <1>1, <2>1, <2>3, Moved DEF Handles, Checks
  <2> QED
    BY <1>2, <2>2, <2>4
<1> QED
  BY <1>4, <1>6, <1>7, <1>8, <1>9, <1>10, <1>11, <1>12

-----------------------------------------------------------------------------
(* Enforcement *)

LEMMA EnforceByCreatingStep ==
    ASSUME Inv, Changed, EnforceByCreating
    PROVE  WorkerOK' /\ CacheOK' /\ EvaluationOK' /\ RestOK'
<1>1. /\ pc = "create" /\ pc \in Handles /\ UNCHANGED <<kinds, policy, heard, queued, processed>>
  BY DEF EnforceByCreating, watch, Handles
<1>2. CacheOK'
  BY <1>1, CacheKept DEF Inv
<1>3. /\ kinds[index].exist /\ plc.enforce /\ kinds[index].status \in BOOLEAN
      /\ obj \in Object \cup {None} /\ clock \in Nat
  BY <1>1, KindType DEF Inv, WorkerOK, WorldOK
<1>4. CASE obj' = Made /\ clock' = clock + 1 /\ Conclude(~kinds[index].status, FALSE, FALSE)
  <2>1. ~(obj' = obj) \/ ~Calm'
    BY <1>1, <1>3, <1>4 DEF Calm, Inv, WorldOK
  <2>2. Made # obj
    <3>1. Made.rv = clock + 1
      BY DEF Made
    <3>2. obj # None => obj.rv <= clock /\ obj.rv \in Nat
      BY <1>3 DEF Inv, WorldOK, Object, Objects
    <3>3. Made # None
      BY <1>1, MadeType, TemplatesType, KindType DEF Inv
    <3> QED
      BY <1>3, <3>1, <3>2, <3>3
  <2>3. obj' # obj
    BY <1>4, <2>2
  <2>4. WorkerOK' /\ EvaluationOK' /\ RestOK'
    BY <1>1, <1>3, <1>4, <2>3, Judged
  <2> QED
    BY <1>2, <2>4
<1>5. CASE Conclude(FALSE, FALSE, TRUE)
  BY <1>1, <1>2, <1>5, Judged
<1>6. CASE ~ns /\ pc' = "watchns" /\ UNCHANGED <<obj, clock, index, existing, attempts, results,
                                                 errs, plc, refused, counters>>
  <2>1. obj = None
    BY <1>6 DEF Inv, WorldOK
  <2>2. WorkerOK'
    BY <1>1, <1>3, <1>6, WorkerMoved DEF Handles, Checks, Writes
  <2>3. EvaluationOK' /\ RestOK'
    BY <1>1, <1>6, <2>1, Moved DEF Handles, Checks
  <2> QED
    BY <1>2, <2>2, <2>3
<1> QED
  BY <1>4, <1>5, <1>6, Zenon DEF EnforceByCreating

LEMMA WatchNamespaceStep ==
    ASSUME Inv, Changed, WatchNamespace
    PROVE  WorkerOK' /\ CacheOK' /\ EvaluationOK' /\ RestOK'
<1>1. /\ pc = "watchns" /\ pc \in Handles
      /\ UNCHANGED <<kinds, policy, obj, heard, queued, processed>>
  BY DEF WatchNamespace, world, watch, Handles
<1>2. CacheOK'
  BY <1>1, CacheKept DEF Inv
<1>3. Calm => ~Holds(index)
  BY <1>1 DEF Inv, WorkerOK, EvaluationOK, Holds
<1>4. CASE Conclude(FALSE, FALSE, FALSE)
  BY <1>1, <1>2, <1>3, <1>4, Judged
<1>5. CASE Conclude(FALSE, FALSE, TRUE)
  BY <1>1, <1>2, <1>5, Judged
<1> QED
  BY <1>4, <1>5, Zenon DEF WatchNamespace

LEMMA EnforceByDeletingStep ==
    ASSUME Inv, Changed, EnforceByDeleting
    PROVE  WorkerOK' /\ CacheOK' /\ EvaluationOK' /\ RestOK'
<1>1. /\ pc = "delete" /\ pc \in Handles /\ UNCHANGED <<kinds, policy, heard, queued, processed>>
  BY DEF EnforceByDeleting, watch, Handles
<1>2. CacheOK'
  BY <1>1, CacheKept DEF Inv
<1>3. ~kinds[index].exist /\ plc.enforce
  BY <1>1 DEF Inv, WorkerOK
<1>4. CASE obj # None /\ Delete /\ Conclude(TRUE, FALSE, FALSE)
  <2>1. obj' = obj => obj.deleting
    <3>1. CASE ~obj.deleting /\ obj' = None
      BY <1>4, <3>1
    <3>2. CASE ~obj.deleting /\ obj' = [obj EXCEPT !.deleting = TRUE, !.rv = clock + 1]
      <4>1. obj \in Object
        BY <1>4 DEF Inv, WorldOK
      <4>2. obj'.deleting = TRUE
        BY <3>2, <4>1 DEF Object, Objects
      <4> QED
        BY <3>2, <4>2
    <3> QED
      BY <1>4, <3>1, <3>2 DEF Delete
  <2>2. obj' = obj /\ plc = policy => Holds(index)
    BY <1>3, <2>1 DEF Holds
  <2> QED
    BY <1>1, <1>2, <1>4, <2>2, Judged
<1>5. CASE Conclude(TRUE, FALSE, TRUE)
  BY <1>1, <1>2, <1>5, Judged
<1>6. CASE Conclude(FALSE, FALSE, TRUE)
  BY <1>1, <1>2, <1>6, Judged
<1> QED
  BY <1>4, <1>5, <1>6, Zenon DEF EnforceByDeleting

-----------------------------------------------------------------------------
(* checkAndUpdateResource *)

\* A verdict that is true of what it is about can be cached.
LEMMA Recorded ==
    ASSUME Inv, Changed, pc \in Handles, NEW o \in Object, o.rv <= clock',
           NEW ok \in BOOLEAN, NEW status \in BOOLEAN, SetEvaluatedObject(o, ok, status),
           /\ obj' # None /\ obj'.uid = o.uid /\ obj'.rv = o.rv /\ (status \/ ~kinds[index].status)
              => (ok <=> Good(obj', index, plc.vals[index]))
    PROVE  CacheOK'
<1> SUFFICES ASSUME NEW u \in DOMAIN processed' PROVE Entry(u)'
  BY DEF CacheOK
<1>1. processed' = [w \in DOMAIN processed \cup {o.uid} |->
                      IF w = o.uid
                      THEN [rv |-> o.rv, ok |-> ok, of |-> <<index, plc.vals[index]>>,
                            status |-> status]
                      ELSE processed[w]]
  BY DEF SetEvaluatedObject
<1>2. CASE u = o.uid
  <2>1. processed'[u] = [rv |-> o.rv, ok |-> ok, of |-> <<index, plc.vals[index]>>,
                         status |-> status]
    BY <1>1, <1>2
  <2> DEFINE e == processed'[u]
  <2>2. /\ e.rv = o.rv /\ e.ok = ok /\ e.status = status
        /\ e.of = <<index, plc.vals[index]>>
    BY <2>1
  <2>3. e.of[1] = index /\ e.of[2] = plc.vals[index]
    BY <2>2
  <2>4. index \in Templates /\ kinds' = kinds /\ Templates' = Templates
    BY KindType DEF Changed, Templates
  <2>5. o.rv \in Nat
    BY DEF Object, Objects
  <2> HIDE DEF e
  <2> QED
    BY <1>2, <2>2, <2>3, <2>4, <2>5 DEF Entry, Good, e
<1>3. CASE u # o.uid
  <2>1. u \in DOMAIN processed /\ processed'[u] = processed[u]
    BY <1>1, <1>3
  <2> QED
    BY <2>1, EntryKept DEF Inv, CacheOK
<1> QED
  BY <1>2, <1>3

\* What the worker knows when it checks, or writes.
LEMMA CheckFacts ==
    ASSUME Inv, pc \in Checks
    PROVE  /\ pc \in Handles /\ existing \in Object /\ existing.rv <= clock
           /\ kinds[index].exist /\ existing.ready \in BOOLEAN
           /\ existing.rv \in Nat /\ existing # None
           /\ obj # None /\ obj.rv = existing.rv => obj = existing
           /\ Calm => existing = obj /\ plc = policy
           /\ StatusMismatch \in BOOLEAN
<1>1. existing # None /\ pc \in Handles /\ kinds[index].exist /\ pc # "idle"
  BY DEF Inv, WorkerOK, Handles, Checks
<1>2. existing \in Object /\ existing.rv <= clock
  BY <1>1 DEF Inv, CopiesOK, CopyOf
<1>3. existing.rv \in Nat /\ existing.ready \in BOOLEAN
  BY <1>2 DEF Object, Objects
<1>4. obj # None /\ obj.rv = existing.rv => obj = existing
  BY <1>1 DEF Inv, CopiesOK, CopyOf
<1>5. Calm => existing = obj /\ plc = policy
  BY <1>1 DEF Inv, EvaluationOK
<1> QED
  BY <1>1, <1>2, <1>3, <1>4, <1>5 DEF StatusMismatch

LEMMA MatchesStep ==
    ASSUME Inv, Changed, Matches
    PROVE  WorkerOK' /\ CacheOK' /\ EvaluationOK' /\ RestOK'
<1>1. /\ pc \in Checks /\ UNCHANGED <<kinds, policy, obj, clock, heard, queued>>
      /\ SetEvaluatedObject(existing, ~StatusMismatch, TRUE)
      /\ Conclude(~StatusMismatch, FALSE, FALSE)
  BY DEF Matches, checked, watch, Checks
<1>2. /\ pc \in Handles /\ existing \in Object /\ existing.rv <= clock'
      /\ kinds[index].exist /\ existing # None
      /\ obj # None /\ obj.rv = existing.rv => obj = existing
      /\ Calm => existing = obj /\ plc = policy
      /\ (~StatusMismatch) \in BOOLEAN
  BY <1>1, CheckFacts
<1>3. ~StatusMismatch <=> Good(existing, index, plc.vals[index])
  BY <1>1, <1>2, KindType DEF Matches, UpdateNeeded, StatusMismatch, Good
<1>4. CacheOK'
  BY <1>1, <1>2, <1>3, Recorded
<1>5. Calm => (~StatusMismatch <=> Holds(index))
  BY <1>2, <1>3, Judgement
<1> QED
  BY <1>1, <1>2, <1>4, <1>5, Judged

LEMMA RefetchStep ==
    ASSUME Inv, Changed, Refetch
    PROVE  WorkerOK' /\ CacheOK' /\ EvaluationOK' /\ RestOK'
<1>1. /\ pc \in Checks /\ UNCHANGED <<kinds, policy, obj, clock, heard, queued, processed>>
      /\ UNCHANGED <<plc, index, results, errs>>
      /\ pc' = "check" /\ existing' = obj /\ obj # None
  BY DEF Refetch, checked, watch, Checks
<1>2. pc \in Handles /\ kinds[index].exist
  BY <1>1, CheckFacts
<1>3. CacheOK'
  BY <1>1, CacheKept DEF Inv
<1>4. WorkerOK'
  BY <1>1, <1>2, WorkerMoved DEF Handles, Checks, Writes
<1>5. EvaluationOK' /\ RestOK'
  BY <1>1, <1>2, Moved DEF Handles, Checks
<1> QED
  BY <1>3, <1>4, <1>5

\* A difference is a mismatch, unless it is vacuous.
LEMMA Mismatch ==
    ASSUME Inv, pc \in Checks, pc = "check" => UpdateNeeded, kinds[index].shape # "vacuous"
    PROVE  ~Good(existing, index, plc.vals[index]) /\ (Calm => ~Holds(index))
<1>1. kinds[index].shape = "bad" \/ existing.vals[index] # plc.vals[index]
  BY DEF UpdateNeeded, Inv, WorkerOK, Checks, Writes
<1>2. ~Good(existing, index, plc.vals[index])
  BY <1>1 DEF Good
<1>3. Calm => existing = obj /\ plc = policy /\ obj # None /\ kinds[index].exist
  BY CheckFacts
<1> QED
  BY <1>2, <1>3, Judgement

LEMMA UpdateRefusedStep ==
    ASSUME Inv, Changed, UpdateRefused
    PROVE  WorkerOK' /\ CacheOK' /\ EvaluationOK' /\ RestOK'
<1>1. /\ pc \in Checks /\ UNCHANGED <<kinds, policy, obj, clock, heard, queued, processed>>
      /\ pc = "check" => UpdateNeeded
      /\ Conclude(FALSE, kinds[index].shape = "vacuous", FALSE)
  BY DEF UpdateRefused, checked, watch, Checks
<1>2. pc \in Handles
  BY <1>1, CheckFacts
<1>3. CacheOK'
  BY <1>1, CacheKept DEF Inv
<1>4. (kinds[index].shape = "vacuous") \in BOOLEAN
  OBVIOUS
<1>5. Calm => kinds[index].shape = "vacuous" \/ ~Holds(index)
  BY <1>1, Mismatch
<1> QED
  BY <1>1, <1>2, <1>3, <1>4, <1>5, Judged

LEMMA DryRunSettlesStep ==
    ASSUME Inv, Changed, DryRunSettles
    PROVE  WorkerOK' /\ CacheOK' /\ EvaluationOK' /\ RestOK'
<1> DEFINE vacuous == kinds[index].shape = "vacuous"
           passedOver == vacuous /\ StatusMismatch
<1>1. /\ pc \in Checks /\ UNCHANGED <<kinds, policy, obj, clock, heard, queued>>
      /\ pc = "check" /\ UpdateNeeded
      /\ SetEvaluatedObject(existing, vacuous, ~passedOver)
      /\ Conclude(vacuous, passedOver, FALSE)
  BY DEF DryRunSettles, checked, watch, Checks
<1>2. /\ pc \in Handles /\ existing \in Object /\ existing.rv <= clock'
      /\ kinds[index].exist /\ existing # None
      /\ obj # None /\ obj.rv = existing.rv => obj = existing
      /\ Calm => existing = obj /\ plc = policy
  BY <1>1, CheckFacts
<1>3. vacuous \in BOOLEAN /\ passedOver \in BOOLEAN /\ (~passedOver) \in BOOLEAN
  BY <1>1, CheckFacts
<1>4. passedOver \/ (vacuous <=> Good(existing, index, plc.vals[index]))
  BY <1>1, Mismatch DEF Good, StatusMismatch
<1>5. CacheOK'
  <2>1. ~passedOver \/ ~kinds[index].status => ~passedOver
    BY DEF StatusMismatch
  <2> QED
    BY <1>1, <1>2, <1>3, <1>4, <2>1, Recorded
<1>6. Calm => passedOver \/ (vacuous <=> Holds(index))
  BY <1>2, <1>4, Judgement
<1> QED
  BY <1>1, <1>2, <1>3, <1>5, <1>6, Judged

LEMMA DryRunPassesStep ==
    ASSUME Inv, Changed, DryRunPasses
    PROVE  WorkerOK' /\ CacheOK' /\ EvaluationOK' /\ RestOK'
<1>1. /\ pc \in Checks /\ UNCHANGED <<kinds, policy, obj, clock, heard, queued, processed>>
      /\ UNCHANGED <<plc, index, existing, results, errs>>
      /\ pc' \in Writes /\ plc.enforce /\ UpdateNeeded
      /\ kinds[index].shape \in {"plain", "templated"}
  BY DEF DryRunPasses, checked, watch, Checks, Writes
<1>2. /\ pc \in Handles /\ kinds[index].exist /\ existing # None
      /\ Calm => existing = obj /\ plc = policy
  BY <1>1, CheckFacts
<1>3. CacheOK'
  BY <1>1, CacheKept DEF Inv
<1>4. existing.vals[index] # plc.vals[index]
  BY <1>1 DEF UpdateNeeded
<1>5. WorkerOK'
  BY <1>1, <1>2, <1>4, WorkerMoved DEF Handles, Checks, Writes
<1>6. EvaluationOK' /\ RestOK'
  BY <1>1, <1>2, Moved DEF Handles, Checks, Writes
<1> QED
  BY <1>3, <1>5, <1>6

LEMMA UpdateStep ==
    ASSUME Inv, Changed, Update
    PROVE  WorkerOK' /\ CacheOK' /\ EvaluationOK' /\ RestOK'
<1>1. /\ pc \in Checks /\ pc \in Writes /\ UNCHANGED <<kinds, policy, heard, queued>>
      /\ obj # None /\ obj.rv = existing.rv
      /\ obj' = [obj EXCEPT !.vals[index] = plc.vals[index], !.rv = clock + 1]
      /\ clock' = clock + 1
      /\ Conclude(~StatusMismatch, FALSE, FALSE)
  BY DEF Update, checked, watch, Checks, Writes
<1>2. pc \in Handles /\ obj = existing /\ (~StatusMismatch) \in BOOLEAN /\ obj \in Object
  BY <1>1, CheckFacts
<1>3. index \in Templates /\ plc \in Policy /\ kinds[index].shape \in {"plain", "templated"}
  BY <1>1, <1>2, KindType DEF Inv, WorkerOK
<1>4. plc.vals[index] \in Values \cup {Unset}
  BY <1>3 DEF Policy
<1>5. obj' \in Object /\ obj'.rv = clock'
  BY <1>1, <1>3, <1>4, WrittenType DEF Inv
<1>6. obj'.vals[index] = plc.vals[index] /\ obj'.ready = obj.ready
  BY <1>1, <1>2, <1>3 DEF Object, Objects
<1>7. CacheOK'
  <2>1. CASE StatusMismatch
    <3>1. processed' = processed
      BY <2>1 DEF Update
    <3> QED
      BY <3>1, CacheKept DEF Inv
  <2>2. CASE ~StatusMismatch
    <3>1. SetEvaluatedObject(obj', TRUE, TRUE)
      BY <2>2 DEF Update
    <3>2. Good(obj', index, plc.vals[index])
      BY <1>2, <1>3, <1>6, <2>2 DEF Good, StatusMismatch
    <3>3. clock' \in Nat /\ obj'.rv <= clock'
      BY <1>1, <1>5 DEF Inv, WorldOK
    <3> QED
      BY <1>2, <1>5, <3>1, <3>2, <3>3, Recorded
  <2> QED
    BY <2>1, <2>2
<1>8. obj' # obj
  <2>1. obj.rv <= clock /\ obj.rv \in Nat /\ clock \in Nat
    BY <1>1, <1>2 DEF Inv, WorldOK, Object, Objects
  <2>2. obj'.rv = clock + 1
    BY <1>1, <1>5
  <2>3. obj'.rv # obj.rv
    BY <2>1, <2>2
  <2> QED
    BY <2>3
<1> QED
  BY <1>1, <1>2, <1>7, <1>8, Judged

LEMMA RecreateDeleteStep ==
    ASSUME Inv, Changed, RecreateDelete
    PROVE  WorkerOK' /\ CacheOK' /\ EvaluationOK' /\ RestOK'
<1>1. /\ pc = "redelete" /\ pc \in Checks /\ pc \in Writes
      /\ UNCHANGED <<kinds, policy, heard, queued, processed>>
  BY DEF RecreateDelete, checked, watch, Checks, Writes
<1>2. /\ pc \in Handles /\ kinds[index].exist /\ existing # None /\ plc.enforce
      /\ kinds[index].shape \in {"plain", "templated"}
      /\ existing.vals[index] # plc.vals[index]
      /\ Calm => existing = obj
  BY <1>1, CheckFacts DEF Inv, WorkerOK
<1>3. CacheOK'
  BY <1>1, CacheKept DEF Inv
<1>4. CASE pc' = "recreate" /\ UNCHANGED <<plc, index, existing, results, errs>>
  <2>1. WorkerOK'
    BY <1>1, <1>2, <1>4, WorkerMoved DEF Handles, Checks, Writes
  <2>2. EvaluationOK' /\ RestOK'
    BY <1>1, <1>2, <1>4, Moved DEF Handles, Checks
  <2> QED
    BY <1>3, <2>1, <2>2
<1>5. CASE Conclude(FALSE, FALSE, FALSE)
  <2>1. Calm => ~Holds(index)
    BY <1>1, <1>2, Mismatch
  <2> QED
    BY <1>1, <1>2, <1>3, <1>5, <2>1, Judged
<1> QED
  BY <1>4, <1>5, Zenon DEF RecreateDelete

LEMMA RecreateCreateStep ==
    ASSUME Inv, Changed, RecreateCreate
    PROVE  WorkerOK' /\ CacheOK' /\ EvaluationOK' /\ RestOK'
<1>1. /\ pc = "recreate" /\ pc \in Checks /\ pc \in Writes
      /\ UNCHANGED <<kinds, policy, heard, queued>>
  BY DEF RecreateCreate, checked, watch, Checks, Writes
<1>2. /\ pc \in Handles /\ kinds[index].exist /\ existing # None /\ plc.enforce
      /\ kinds[index].shape \in {"plain", "templated"}
      /\ existing.vals[index] # plc.vals[index]
      /\ Calm => existing = obj
      /\ (~StatusMismatch) \in BOOLEAN
  BY <1>1, CheckFacts DEF Inv, WorkerOK
<1>3. CASE /\ obj = None /\ obj' = Made /\ clock' = clock + 1
           /\ IF StatusMismatch THEN UNCHANGED processed
              ELSE SetEvaluatedObject(Made, TRUE, FALSE)
           /\ Conclude(~StatusMismatch, kinds[index].status, FALSE)
  <2>1. Made \in Object /\ Made.rv = clock' /\ Made # None /\ index \in Templates
        /\ clock' \in Nat /\ kinds[index].status \in BOOLEAN
    BY <1>2, <1>3, MadeType, TemplatesType, KindType DEF Inv, WorldOK
  <2>2. CacheOK'
    <3>1. CASE StatusMismatch
      BY <1>3, <3>1, CacheKept DEF Inv
    <3>2. CASE ~StatusMismatch
      <4>1. Made.vals[index] = plc.vals[index]
        BY <2>1 DEF Made
      <4>2. ~kinds[index].status => Good(Made, index, plc.vals[index])
        BY <1>2, <4>1 DEF Good
      <4>3. Made.rv <= clock'
        BY <2>1
      <4>4. SetEvaluatedObject(Made, TRUE, FALSE)
        BY <1>3, <3>2, Zenon
      <4> QED
        BY <1>2, <1>3, <2>1, <4>2, <4>3, <4>4, Recorded
    <3> QED
      BY <3>1, <3>2
  <2>3. obj' # obj
    BY <1>3, <2>1
  <2> QED
    BY <1>1, <1>2, <1>3, <2>1, <2>2, <2>3, Judged
<1>4. CASE pc' = "recreate" /\ UNCHANGED <<obj, plc, index, existing, results, errs, processed>>
  <2>1. WorkerOK'
    BY <1>1, <1>2, <1>4, WorkerMoved DEF Handles, Checks, Writes
  <2>2. EvaluationOK' /\ RestOK'
    BY <1>1, <1>2, <1>4, Moved DEF Handles, Checks
  <2> QED
    BY <1>4, <2>1, <2>2, CacheKept DEF Inv
<1>5. CASE Conclude(FALSE, FALSE, FALSE) /\ UNCHANGED <<obj, processed>>
  <2>1. Calm => ~Holds(index)
    BY <1>1, <1>2, Mismatch
  <2> QED
    BY <1>1, <1>2, <1>5, <2>1, Judged, CacheKept DEF Inv
<1> QED
  BY <1>1, <1>3, <1>4, <1>5, Zenon DEF RecreateCreate

-----------------------------------------------------------------------------
(* The beginning and the end of an evaluation *)

LEMMA NoVerdicts == ASSUME Inv PROVE [t \in Templates |-> Unknown] \in Verdicts
  BY DEF Unknown, Verdicts

LEMMA ReconcileBeginStep ==
    ASSUME Inv, Changed, ReconcileBegin
    PROVE  WorkerOK' /\ CacheOK' /\ EvaluationOK' /\ RestOK'
<1>1. /\ UNCHANGED <<kinds, policy>> /\ plc' = policy /\ pc' = "read" /\ index' = 1
      /\ results' = [t \in Templates |-> Unknown] /\ errs' = FALSE
      /\ processed' \in {processed, <<>>}
  BY DEF ReconcileBegin, world
<1>2. /\ Templates' = Templates /\ Policy' = Policy /\ Verdicts' = Verdicts /\ policy \in Policy
  BY <1>1 DEF Templates, Policy, Verdicts, Inv, WorldOK
<1>3. 1 \in Templates /\ \A t \in Templates : ~(t < 1)
  BY TemplatesType DEF Inv
<1>4. CacheOK'
  BY <1>1, CacheKept DEF Inv
<1>5. WorkerOK'
  BY <1>1, <1>2, <1>3, NoVerdicts DEF WorkerOK, Handles, Checks, Writes
<1>6. EvaluationOK' /\ RestOK'
  BY <1>1, <1>2, <1>3 DEF EvaluationOK, RestOK, Checks
<1> QED
  BY <1>4, <1>5, <1>6

LEMMA FinishStep ==
    ASSUME Inv, Changed, Finish
    PROVE  WorkerOK' /\ CacheOK' /\ EvaluationOK' /\ RestOK'
<1>1. /\ UNCHANGED <<kinds, policy, obj, clock, heard, processed>> /\ pc = "finish" /\ pc' = "idle"
      /\ reported' = results /\ queued' = (queued \/ errs)
      /\ results' = [t \in Templates |-> Unknown] /\ errs' = FALSE
  BY DEF Finish, world, watch
<1>2. Templates' = Templates /\ Verdicts' = Verdicts
  BY <1>1 DEF Templates, Verdicts
<1>3. CacheOK'
  BY <1>1, CacheKept DEF Inv
<1>4. WorkerOK'
  BY <1>1, <1>2, NoVerdicts DEF WorkerOK, Handles, Checks, Writes
<1>5. Calm' => Calm /\ ~errs
  BY <1>1 DEF Calm
<1>6. ASSUME Calm', NEW t \in Templates PROVE True(reported[t], t)'
  <2>1. True(results[t], t)
    BY <1>1, <1>5, <1>6 DEF Inv, EvaluationOK
  <2> QED
    BY <1>1, <2>1 DEF True, Holds
<1>7. EvaluationOK' /\ RestOK'
  BY <1>1, <1>2, <1>6 DEF EvaluationOK, RestOK
<1> QED
  BY <1>3, <1>4, <1>7

LEMMA CrashStep ==
    ASSUME Inv, Changed, Crash
    PROVE  WorkerOK' /\ CacheOK' /\ EvaluationOK' /\ RestOK'
<1>1. /\ UNCHANGED kinds /\ pc' = "idle" /\ queued' = TRUE /\ processed' = <<>>
      /\ results' = [t \in Templates |-> Unknown] /\ errs' = FALSE
  BY DEF Crash
<1>2. Verdicts' = Verdicts
  BY <1>1 DEF Templates, Verdicts
<1>3. WorkerOK'
  BY <1>1, <1>2, NoVerdicts DEF WorkerOK, Handles, Checks, Writes
<1> QED
  BY <1>1, <1>3, CacheKept DEF Inv, EvaluationOK, RestOK, Calm

LEMMA InvStep == Inv /\ [Next]_vars => Inv'
<1> SUFFICES ASSUME Inv, [Next]_vars PROVE Inv'
  OBVIOUS
<1>1. WorldOK' /\ Changed
  BY WorldStep DEF Inv
<1>2. CopiesOK'
  BY <1>1, CopiesStep DEF Inv
<1>3. WorkerOK' /\ CacheOK' /\ EvaluationOK' /\ RestOK'
  <2>1. CASE Outside
    BY <1>1, <2>1, OutsideStep
  <2>2. CASE Crash
    BY <1>1, <2>2, CrashStep
  <2>3. CASE ReconcileBegin
    BY <1>1, <2>3, ReconcileBeginStep
  <2>4. CASE HandleObjects
    BY <1>1, <2>4, HandleObjectsStep
  <2>5. CASE EnforceByCreating \/ WatchNamespace \/ EnforceByDeleting
    BY <1>1, <2>5, EnforceByCreatingStep, WatchNamespaceStep, EnforceByDeletingStep
  <2>6. CASE Matches \/ Refetch \/ UpdateRefused \/ DryRunSettles \/ DryRunPasses
    BY <1>1, <2>6, MatchesStep, RefetchStep, UpdateRefusedStep, DryRunSettlesStep, DryRunPassesStep
  <2>7. CASE Update \/ RecreateDelete \/ RecreateCreate
    BY <1>1, <2>7, UpdateStep, RecreateDeleteStep, RecreateCreateStep
  <2>8. CASE Finish
    BY <1>1, <2>8, FinishStep
  <2> QED
    BY <2>1, <2>2, <2>3, <2>4, <2>5, <2>6, <2>7, <2>8, Zenon DEF Next, Worker, Outside
<1> QED
  BY <1>1, <1>2, <1>3 DEF Inv

(* At rest the status says of every template whether the object is as the  *)
(* template wants it, its status included, for every list of templates on  *)
(* one object, every number of changes, edits and failures: an evaluation  *)
(* that nothing disturbed has judged the object as it is, and its cached   *)
(* verdicts are true of the resourceVersion that they are about            *)
(* (handleSingleObj, checkAndUpdateResource, setEvaluatedObject,           *)
(* alreadyEvaluated).  Not so the verdicts marked odd: after a failed read,*)
(* borrowed from another template or value, or of a dry run that changed   *)
(* nothing and passed over the status.                                     *)
THEOREM VerdictTrue == Spec => []VerdictIsTrue
<1>1. Inv => VerdictIsTrue
  BY DEF Inv, RestOK, VerdictIsTrue, AtRest, Calm, True
<1> QED
  BY <1>1, InitInv, InvStep, PTL DEF Spec
=============================================================================
