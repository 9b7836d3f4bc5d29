------------------------ MODULE RelatedObjects_proofs ------------------------
(* Proofs about RelatedObjects, for all objects, specs, faults and bounds, and *)
(* about TriggerUninstall, for all policies and namespaces.                   *)
EXTENDS RelatedObjects, UninstallPromise, SequenceTheorems, TLAPS

\* When Reconcile returns, its locals are in their initial state.
LEMMA ReturnOK == ASSUME Return PROVE WorkerOK'
<1>1. NoRelated \in Related
  BY DEF NoRelated, Related, Entry
<1>2. (new \in Related)' /\ (checked \in 0 .. MaxUid)' /\ (todo \subseteq Names)'
  BY <1>1, ConstantsAssumption DEF Return
<1>3. (/\ final \in BOOLEAN /\ final = FALSE
       /\ skipCleanupChildObjects \in BOOLEAN /\ failures \in BOOLEAN)'
  BY DEF Return
<1>4. (pc = "idle" /\ policy = None /\ cur = None)'
  BY DEF Return
<1> QED
  BY <1>2, <1>3, <1>4 DEF WorkerOK

\* The locals are well typed however the evaluation goes on after the finalizer.
LEMMA DispatchOK ==
    ASSUME WorkerOK, pc = "finalizer", NEW p \in Policy, Dispatch(p)
    PROVE  WorkerOK'
<1>1. CASE p.deleting /\ ~Prunes(p.spec)
  BY <1>1, ReturnOK DEF Dispatch
<1>2. CASE ~(p.deleting /\ ~Prunes(p.spec))
  <2>1. p.deleting \in BOOLEAN /\ p.spec.objs \subseteq Names
    BY ConstantsAssumption DEF Policy, PolicySpec
  <2>2. (pc = IF p.deleting THEN "prune" ELSE "templates")' /\ policy' = p
        /\ final' = p.deleting /\ (todo \subseteq Names)'
    BY <1>2, <2>1 DEF Dispatch, Listed
  <2> QED
    BY <1>2, <2>1, <2>2 DEF Dispatch, WorkerOK
<1> QED
  BY <1>1, <1>2

\* TypeOK is inductive.
LEMMA TypeOKStep == TypeOK /\ [Next]_vars => TypeOK'
<1> SUFFICES ASSUME TypeOK, [Next]_vars PROVE TypeOK'
  OBVIOUS
<1>1. CASE Edit
  BY <1>1, ConstantsAssumption DEF Edit, TypeOK, ClusterOK, WorkerOK, Policy,
     Related, Entry, Properties, Uid, PolicySpec, cluster, objects, locals, worker
<1>2. CASE DeletePolicy
  BY <1>2, ConstantsAssumption DEF DeletePolicy, Release, TypeOK, ClusterOK, WorkerOK,
     Policy, Related, Entry, Properties, Uid, PolicySpec, cluster, objects, locals,
     worker
<1>3. CASE Uninstall
  BY <1>3, ConstantsAssumption DEF Uninstall, TypeOK, ClusterOK, WorkerOK,
     Policy, Related, Entry, Properties, Uid, PolicySpec, cluster, objects, locals,
     worker
<1>4. CASE Crash
  <2>1. ClusterOK'
    BY <1>4, ConstantsAssumption DEF Crash, Fault, TypeOK, ClusterOK, WorkerOK,
       Policy, cluster, objects
  <2>2. WorkerOK'
    BY <1>4, ReturnOK DEF Crash
  <2> QED
    BY <2>1, <2>2 DEF TypeOK
<1>5. CASE ReconcileBegin
  BY <1>5, ConstantsAssumption DEF ReconcileBegin, TypeOK, ClusterOK, WorkerOK,
     Policy, Related, Entry, Properties, Uid, PolicySpec, cluster, objects, locals,
     worker
<1>6. CASE FinalizerUninstalling
  <2>1. ClusterOK'
    BY <1>6, ConstantsAssumption DEF FinalizerUninstalling, Released, TypeOK,
       ClusterOK, WorkerOK, Policy, cluster, objects
  <2>2. WorkerOK'
    BY <1>6, ReturnOK DEF FinalizerUninstalling
  <2> QED
    BY <2>1, <2>2 DEF TypeOK
<1>7. CASE FinalizerSet
  <2>1. api' \in Policy
    BY <1>7 DEF FinalizerSet, TypeOK, ClusterOK, WorkerOK, Policy
  <2>2. ClusterOK'
    BY <1>7, <2>1 DEF FinalizerSet, TypeOK, ClusterOK, Policy, cluster, objects
  <2>3. WorkerOK'
    BY <1>7, <2>1, DispatchOK DEF FinalizerSet, TypeOK
  <2> QED
    BY <2>2, <2>3 DEF TypeOK
<1>8. CASE FinalizerRemoved
  <2>1. [api EXCEPT !.finalizer = FALSE] \in Policy
    BY <1>8 DEF FinalizerRemoved, TypeOK, ClusterOK, WorkerOK, Policy
  <2>2. ClusterOK'
    BY <1>8, <2>1 DEF FinalizerRemoved, Release, Released, TypeOK, ClusterOK, Policy,
       cluster, objects
  <2>3. WorkerOK'
    BY <1>8, <2>1, DispatchOK DEF FinalizerRemoved, TypeOK
  <2> QED
    BY <2>2, <2>3 DEF TypeOK
<1>9. CASE FinalizerFails
  <2>1. ClusterOK'
    BY <1>9, ConstantsAssumption DEF FinalizerFails, TypeOK, ClusterOK, WorkerOK,
       Policy, cluster, objects
  <2>2. WorkerOK'
    BY <1>9, ReturnOK DEF FinalizerFails
  <2> QED
    BY <2>1, <2>2 DEF TypeOK
<1>10. CASE FinalizerKept
  <2>1. policy \in Policy
    BY <1>10 DEF FinalizerKept, TypeOK, ClusterOK, WorkerOK, Policy
  <2>2. ClusterOK'
    BY <1>10, <2>1 DEF FinalizerKept, TypeOK, ClusterOK, Policy, cluster, objects
  <2>3. WorkerOK'
    BY <1>10, <2>1, DispatchOK DEF FinalizerKept, TypeOK
  <2> QED
    BY <2>2, <2>3 DEF TypeOK
<1>11. CASE Create
  BY <1>11, ConstantsAssumption DEF Create, Handled, MayRefresh, TypeOK,
     ClusterOK, WorkerOK, Policy, Related, Entry, Properties, Uid, PolicySpec,
     cluster, objects, locals, worker
<1>12. CASE CreateFails
  BY <1>12, ConstantsAssumption DEF CreateFails, Handled, MayRefresh, Fault,
     TypeOK, ClusterOK, WorkerOK, Policy, Related, Entry, Properties, Uid,
     PolicySpec, cluster, objects, locals, worker
<1>13. CASE LoopDone
  BY <1>13, ConstantsAssumption DEF LoopDone, Release, Updated, Listed, Prunes, TypeOK,
     ClusterOK, WorkerOK, Policy, Related, Entry, Properties, Uid, PolicySpec,
     cluster, objects, locals, worker
<1>14. CASE Delete
  BY <1>14, ConstantsAssumption DEF Delete, Fault, TypeOK, ClusterOK, WorkerOK,
     Policy, Related, Entry, Properties, Uid, PolicySpec, cluster, objects, locals,
     worker
<1>15. CASE DeleteFails
  BY <1>15, ConstantsAssumption DEF DeleteFails, Fault, TypeOK, ClusterOK,
     WorkerOK, Policy, Related, Entry, Properties, Uid, PolicySpec, cluster, objects,
     locals, worker
<1>16. CASE Verify
  BY <1>16, ConstantsAssumption DEF Verify, TypeOK, ClusterOK, WorkerOK, Policy,
     Related, Entry, Properties, Uid, PolicySpec, cluster, objects, locals, worker
<1>17. CASE PruneDone
  BY <1>17, ConstantsAssumption DEF PruneDone, TypeOK, ClusterOK, WorkerOK,
     Policy, Related, Entry, Properties, Uid, PolicySpec, cluster, objects, locals,
     worker
<1>18. CASE DeletionDone
  <2>1. ClusterOK'
    BY <1>18, ConstantsAssumption DEF DeletionDone, Release, Released, TypeOK, ClusterOK,
       WorkerOK, Policy, cluster, objects
  <2>2. WorkerOK'
    BY <1>18, ReturnOK DEF DeletionDone
  <2> QED
    BY <2>1, <2>2 DEF TypeOK
<1>19. CASE UpdateStatus
  <2>1. ClusterOK'
    BY <1>19, ConstantsAssumption DEF UpdateStatus, Fault, TypeOK, ClusterOK,
       WorkerOK, Policy, cluster, objects
  <2>2. WorkerOK'
    BY <1>19, ReturnOK DEF UpdateStatus
  <2> QED
    BY <2>1, <2>2 DEF TypeOK
<1>20. ASSUME NEW n \in Names, UserCreates(n) PROVE TypeOK'
  BY <1>20, ConstantsAssumption DEF UserCreates, TypeOK, ClusterOK, WorkerOK,
     Policy, Related, Entry, Properties, Uid, PolicySpec, cluster, objects, locals,
     worker
<1>21. ASSUME NEW n \in Names, ObjectGone(n) PROVE TypeOK'
  BY <1>21, ConstantsAssumption DEF ObjectGone, TypeOK, ClusterOK, WorkerOK,
     Policy, Related, Entry, Properties, Uid, PolicySpec, cluster, objects, locals,
     worker
<1>22. ASSUME NEW n \in Names, TemplateExists(n) PROVE TypeOK'
  <2>1. obj[n] \in Uid
    BY <1>22, ConstantsAssumption DEF TemplateExists, TypeOK, ClusterOK, Uid
  <2>2. [created |-> FALSE, uid |-> obj[n]] \in Entry /\ NoProperties \in Entry
    BY <2>1 DEF Entry, Properties
  <2>3. \A e \in Entry : [new EXCEPT ![n] = e] \in Related
    BY DEF TypeOK, WorkerOK, Related
  <2>4. (new \in Related)' /\ (todo \subseteq Names)'
    BY <1>22, <2>2, <2>3 DEF TemplateExists, Handled, TypeOK, WorkerOK
  <2>5. (released \subseteq mine)' /\ UNCHANGED <<objects, guarded>>
    BY <1>22 DEF TemplateExists, Release, TypeOK, ClusterOK, objects
  <2> QED
    BY <1>22, <2>4, <2>5 DEF TemplateExists, TypeOK, ClusterOK, WorkerOK, objects
<1>23. ASSUME NEW n \in Names, TemplateInformed(n) PROVE TypeOK'
  BY <1>23, ConstantsAssumption DEF TemplateInformed, Handled, TypeOK,
     ClusterOK, WorkerOK, Policy, Related, Entry, Properties, Uid, PolicySpec,
     cluster, objects, locals, worker
<1>24. ASSUME NEW n \in Names, TemplateMissing(n) PROVE TypeOK'
  BY <1>24, ConstantsAssumption DEF TemplateMissing, Fault, TypeOK, ClusterOK,
     WorkerOK, Policy, Related, Entry, Properties, Uid, PolicySpec, cluster, objects,
     locals, worker
<1>25. ASSUME NEW n \in Names, TemplateFails(n) PROVE TypeOK'
  BY <1>25, ConstantsAssumption DEF TemplateFails, Fault, TypeOK, ClusterOK,
     WorkerOK, Policy, Related, Entry, Properties, Uid, PolicySpec, cluster, objects,
     locals, worker
<1>26. ASSUME NEW n \in Names, PruneNothing(n) PROVE TypeOK'
  BY <1>26, ConstantsAssumption DEF PruneNothing, TypeOK, ClusterOK, WorkerOK,
     Policy, Related, Entry, Properties, Uid, PolicySpec, cluster, objects, locals,
     worker
<1>27. ASSUME NEW n \in Names, PruneFails(n) PROVE TypeOK'
  BY <1>27, ConstantsAssumption DEF PruneFails, Fault, TypeOK, ClusterOK,
     WorkerOK, Policy, Related, Entry, Properties, Uid, PolicySpec, cluster, objects,
     locals, worker
<1>28. ASSUME NEW n \in Names, PruneChecked(n) PROVE TypeOK'
  BY <1>28, ConstantsAssumption DEF PruneChecked, NeedsDelete, TypeOK,
     ClusterOK, WorkerOK, Policy, Related, Entry, Properties, Uid, PolicySpec,
     cluster, objects, locals, worker
<1>29. CASE UNCHANGED vars
  BY <1>29 DEF vars, TypeOK, ClusterOK, WorkerOK, Policy, Related, Entry,
     Properties, Uid, PolicySpec, cluster, objects, locals, worker
<1>30. ASSUME NEW n \in Names, TemplateUnwatchable(n) PROVE TypeOK'
  BY <1>30, ConstantsAssumption DEF TemplateUnwatchable, Fault, TypeOK, ClusterOK,
     WorkerOK, Policy, Related, Entry, Properties, Uid, PolicySpec, cluster, objects,
     locals, worker
<1>31. CASE CreateInNoNamespace
  <2>1. ClusterOK'
    BY <1>31, ConstantsAssumption
    DEF CreateInNoNamespace, Fault, TypeOK, ClusterOK, cluster, objects
  <2>2. [created |-> TRUE, uid |-> 0] \in Entry
    BY DEF Entry, Properties
  <2>3. cur \in todo /\ policy \in Policy /\ todo \subseteq Names /\ new \in Related
    BY <1>31 DEF CreateInNoNamespace, TypeOK, WorkerOK
  <2>4. (new \in Related)' /\ (todo \subseteq Names)'
    BY <1>31, <2>2, <2>3 DEF CreateInNoNamespace, Handled, Related
  <2>5. policy' \in Policy
    BY <1>31, <2>3 DEF CreateInNoNamespace, MayRefresh, TypeOK, ClusterOK, Policy
  <2>6. /\ pc' = "templates" /\ cur' = None
        /\ UNCHANGED <<final, checked, skipCleanupChildObjects, failures>>
    BY <1>31 DEF CreateInNoNamespace
  <2> QED
    BY <1>31, <2>1, <2>4, <2>5, <2>6 DEF CreateInNoNamespace, TypeOK, WorkerOK
<1> QED
  BY <1>1, <1>2, <1>3, <1>4, <1>5, <1>6, <1>7, <1>8, <1>9, <1>10, <1>11, <1>12,
     <1>13, <1>14, <1>15, <1>16, <1>17, <1>18, <1>19, <1>20, <1>21, <1>22,
     <1>23, <1>24, <1>25, <1>26, <1>27, <1>28, <1>29, <1>30, <1>31
  DEF Next, Environment, Evaluate

\* The copies of the policy and the locals of the evaluation always have the
\* types of the Go code, and the worker keeps track of the object it handles.
THEOREM TypeCorrect == Spec => []TypeOK
<1>1. Init => TypeOK
  <2> SUFFICES ASSUME Init PROVE TypeOK
    OBVIOUS
  <2>1. NoRelated \in Related
    BY DEF NoRelated, Related, Entry
  <2>2. api \in Policy
    BY <2>1 DEF Init, Policy
  <2> uninstalling \in BOOLEAN /\ guarded \in BOOLEAN
    BY DEF Init
  <2>3. ClusterOK
    BY <2>2, ConstantsAssumption DEF Init, ClusterOK
  <2>4. /\ final \in BOOLEAN /\ final = FALSE
        /\ skipCleanupChildObjects \in BOOLEAN /\ failures \in BOOLEAN
    BY DEF Init
  <2>5. pc = "idle" /\ policy = None /\ todo = {} /\ cur = None /\ checked = 0
        /\ new = NoRelated
    BY DEF Init
  <2>6. WorkerOK
    BY <2>1, <2>4, <2>5, ConstantsAssumption DEF WorkerOK
  <2> QED
    BY <2>3, <2>6 DEF TypeOK
<1> QED
  BY <1>1, TypeOKStep, PTL DEF Spec

-----------------------------------------------------------------------------
\* An empty list claims nothing.
LEMMA NothingOwned == Owned(NoRelated)
  BY ConstantsAssumption DEF Owned, NoRelated

\* Nothing is claimed by a worker that has returned.
LEMMA ReturnOwned == ASSUME Return PROVE (policy = None /\ Owned(new) /\ pc # "delete")'
  BY NothingOwned, ConstantsAssumption DEF Return, Owned, NoRelated

\* The copy the evaluation goes on with claims what the policy claimed.
LEMMA DispatchOwned ==
    ASSUME OnlyOwnRecorded, mine' = mine,
           NEW p \in Policy, Owned(p.related), Dispatch(p)
    PROVE  (/\ policy # None => Owned(policy.related)
            /\ Owned(new) /\ pc # "delete")'
<1>1. CASE p.deleting /\ ~Prunes(p.spec)
  BY <1>1, ReturnOwned DEF Dispatch
<1>2. CASE ~(p.deleting /\ ~Prunes(p.spec))
  BY <1>2 DEF Dispatch, OnlyOwnRecorded, Owned
<1> QED
  BY <1>1, <1>2

\* Only created objects enter a list as created, and mine only grows.
LEMMA OwnedStep ==
    ASSUME TypeOK, OnlyOwnRecorded, [Next]_vars
    PROVE  OnlyOwnRecorded'
<1>1. CASE Edit
  BY <1>1, ConstantsAssumption DEF Edit, TypeOK, ClusterOK, WorkerOK,
     OnlyOwnRecorded, Owned, cluster, objects, locals, worker
<1>2. CASE DeletePolicy
  BY <1>2, ConstantsAssumption DEF DeletePolicy, Release, TypeOK, ClusterOK, WorkerOK,
     OnlyOwnRecorded, Owned, cluster, objects, locals, worker
<1>3. CASE Uninstall
  BY <1>3, ConstantsAssumption DEF Uninstall, TypeOK, ClusterOK, WorkerOK,
     OnlyOwnRecorded, Owned, cluster, objects, locals, worker
<1>4. CASE Crash
  <2>1. (policy = None /\ Owned(new) /\ pc # "delete")'
    BY <1>4, ReturnOwned DEF Crash
  <2>2. (api # None => Owned(api.related))'
    BY <1>4, ConstantsAssumption DEF Crash, Fault, TypeOK, ClusterOK, WorkerOK,
       Policy, OnlyOwnRecorded, Owned, cluster, objects
  <2> QED
    BY <2>1, <2>2 DEF OnlyOwnRecorded
<1>5. CASE ReconcileBegin
  BY <1>5, ConstantsAssumption DEF ReconcileBegin, TypeOK, ClusterOK, WorkerOK,
     OnlyOwnRecorded, Owned, cluster, objects, locals, worker
<1>6. CASE FinalizerUninstalling
  <2>1. (policy = None /\ Owned(new) /\ pc # "delete")'
    BY <1>6, ReturnOwned DEF FinalizerUninstalling
  <2>2. (api # None => Owned(api.related))'
    BY <1>6, ConstantsAssumption DEF FinalizerUninstalling, Released, TypeOK,
       ClusterOK, WorkerOK, Policy, OnlyOwnRecorded, Owned, cluster, objects
  <2> QED
    BY <2>1, <2>2 DEF OnlyOwnRecorded
<1>7. CASE FinalizerSet
  <2>1. api' \in Policy /\ Owned((api').related) /\ mine' = mine
    BY <1>7, ConstantsAssumption DEF FinalizerSet, TypeOK, ClusterOK, WorkerOK,
       Policy, OnlyOwnRecorded, Owned, cluster, objects
  <2>2. (api # None => Owned(api.related))'
    BY <1>7, <2>1 DEF FinalizerSet, TypeOK, ClusterOK, Policy, OnlyOwnRecorded,
       Owned, cluster, objects
  <2>3. (/\ policy # None => Owned(policy.related)
         /\ Owned(new) /\ pc # "delete")'
    BY <1>7, <2>1, DispatchOwned DEF FinalizerSet
  <2> QED
    BY <2>2, <2>3 DEF OnlyOwnRecorded
<1>8. CASE FinalizerRemoved
  <2>1. /\ [api EXCEPT !.finalizer = FALSE] \in Policy
        /\ Owned(([api EXCEPT !.finalizer = FALSE]).related)
        /\ mine' = mine
    BY <1>8, ConstantsAssumption DEF FinalizerRemoved, TypeOK, ClusterOK, WorkerOK,
       Policy, OnlyOwnRecorded, Owned, cluster, objects
  <2>2. (api # None => Owned(api.related))'
    BY <1>8, <2>1 DEF FinalizerRemoved, Release, Released, TypeOK, ClusterOK, Policy,
       OnlyOwnRecorded, Owned, cluster, objects
  <2>3. (/\ policy # None => Owned(policy.related)
         /\ Owned(new) /\ pc # "delete")'
    BY <1>8, <2>1, DispatchOwned DEF FinalizerRemoved
  <2> QED
    BY <2>2, <2>3 DEF OnlyOwnRecorded
<1>9. CASE FinalizerFails
  <2>1. (policy = None /\ Owned(new) /\ pc # "delete")'
    BY <1>9, ReturnOwned DEF FinalizerFails
  <2>2. (api # None => Owned(api.related))'
    BY <1>9, ConstantsAssumption DEF FinalizerFails, TypeOK, ClusterOK, WorkerOK,
       Policy, OnlyOwnRecorded, Owned, cluster, objects
  <2> QED
    BY <2>1, <2>2 DEF OnlyOwnRecorded
<1>10. CASE FinalizerKept
  <2>1. policy \in Policy /\ Owned((policy).related) /\ mine' = mine
    BY <1>10, ConstantsAssumption DEF FinalizerKept, TypeOK, ClusterOK, WorkerOK,
       Policy, OnlyOwnRecorded, Owned, cluster, objects
  <2>2. (api # None => Owned(api.related))'
    BY <1>10, <2>1 DEF FinalizerKept, TypeOK, ClusterOK, Policy, OnlyOwnRecorded,
       Owned, cluster, objects
  <2>3. (/\ policy # None => Owned(policy.related)
         /\ Owned(new) /\ pc # "delete")'
    BY <1>10, <2>1, DispatchOwned DEF FinalizerKept
  <2> QED
    BY <2>2, <2>3 DEF OnlyOwnRecorded
<1>11. CASE Create
  <2>1. mine \subseteq mine' /\ api' = api /\ pc' # "delete"
    BY <1>11 DEF Create, cluster, objects
  <2>2. Owned(new)'
    BY <1>11, ConstantsAssumption
    DEF Create, Handled, TypeOK, WorkerOK, Related, OnlyOwnRecorded, Owned, cluster, objects
  <2>3. (policy # None => Owned(policy.related))'
    <3>1. policy' # None => policy'.related = policy.related
      BY <1>11, ConstantsAssumption
      DEF Create, MayRefresh, TypeOK, ClusterOK, WorkerOK, Policy
    <3>2. policy # None
      BY <1>11, ConstantsAssumption DEF Create, TypeOK, WorkerOK
    <3> QED
      BY <2>1, <3>1, <3>2 DEF OnlyOwnRecorded, Owned
  <2> QED
    BY <2>1, <2>2, <2>3 DEF OnlyOwnRecorded, Owned
<1>12. CASE CreateFails
  <2>1. mine \subseteq mine' /\ api' = api /\ pc' # "delete"
    BY <1>12 DEF CreateFails, cluster, objects
  <2>2. Owned(new)'
    BY <1>12, ConstantsAssumption
    DEF CreateFails, Handled, TypeOK, WorkerOK, Related, OnlyOwnRecorded, Owned, cluster, objects
  <2>3. (policy # None => Owned(policy.related))'
    <3>1. policy' # None => policy'.related = policy.related
      BY <1>12, ConstantsAssumption
      DEF CreateFails, MayRefresh, TypeOK, ClusterOK, WorkerOK, Policy
    <3>2. policy # None
      BY <1>12, ConstantsAssumption DEF CreateFails, TypeOK, WorkerOK
    <3> QED
      BY <2>1, <3>1, <3>2 DEF OnlyOwnRecorded, Owned
  <2> QED
    BY <2>1, <2>2, <2>3 DEF OnlyOwnRecorded, Owned
<1>13. CASE LoopDone
  BY <1>13, ConstantsAssumption DEF LoopDone, Release, Updated, Listed, Prunes, TypeOK,
     ClusterOK, WorkerOK, OnlyOwnRecorded, Owned, cluster, objects, locals, worker
<1>14. CASE Delete
  BY <1>14, ConstantsAssumption DEF Delete, Fault, TypeOK, ClusterOK, WorkerOK,
     OnlyOwnRecorded, Owned, cluster, objects, locals, worker
<1>15. CASE DeleteFails
  BY <1>15, ConstantsAssumption DEF DeleteFails, Fault, TypeOK, ClusterOK,
     WorkerOK, OnlyOwnRecorded, Owned, cluster, objects, locals, worker
<1>16. CASE Verify
  BY <1>16, ConstantsAssumption DEF Verify, TypeOK, ClusterOK, WorkerOK,
     OnlyOwnRecorded, Owned, cluster, objects, locals, worker
<1>17. CASE PruneDone
  BY <1>17, ConstantsAssumption DEF PruneDone, TypeOK, ClusterOK, WorkerOK,
     OnlyOwnRecorded, Owned, cluster, objects, locals, worker
<1>18. CASE DeletionDone
  <2>1. (policy = None /\ Owned(new) /\ pc # "delete")'
    BY <1>18, ReturnOwned DEF DeletionDone
  <2>2. (api # None => Owned(api.related))'
    BY <1>18, ConstantsAssumption DEF DeletionDone, Release, Released, TypeOK, ClusterOK,
       WorkerOK, Policy, OnlyOwnRecorded, Owned, cluster, objects
  <2> QED
    BY <2>1, <2>2 DEF OnlyOwnRecorded
<1>19. CASE UpdateStatus
  <2>1. (policy = None /\ Owned(new) /\ pc # "delete")'
    BY <1>19, ReturnOwned DEF UpdateStatus
  <2>2. (api # None => Owned(api.related))'
    BY <1>19, ConstantsAssumption DEF UpdateStatus, Fault, TypeOK, ClusterOK,
       WorkerOK, Policy, OnlyOwnRecorded, Owned, cluster, objects
  <2> QED
    BY <2>1, <2>2 DEF OnlyOwnRecorded
<1>20. ASSUME NEW n \in Names, UserCreates(n) PROVE OnlyOwnRecorded'
  BY <1>20, ConstantsAssumption DEF UserCreates, TypeOK, ClusterOK, WorkerOK,
     OnlyOwnRecorded, Owned, cluster, objects, locals, worker
<1>21. ASSUME NEW n \in Names, ObjectGone(n) PROVE OnlyOwnRecorded'
  BY <1>21, ConstantsAssumption DEF ObjectGone, TypeOK, ClusterOK, WorkerOK,
     OnlyOwnRecorded, Owned, cluster, objects, locals, worker
<1>22. ASSUME NEW n \in Names, TemplateExists(n) PROVE OnlyOwnRecorded'
  <2>1. UNCHANGED <<api, policy, pc, mine>>
    BY <1>22 DEF TemplateExists, cluster, objects
  <2>2. \/ new' = [new EXCEPT ![n] = [created |-> FALSE, uid |-> obj[n]]]
        \/ new' = [new EXCEPT ![n] = NoProperties]
    BY <1>22 DEF TemplateExists, Handled
  <2>3. Owned(new)'
    BY <2>1, <2>2, ConstantsAssumption
    DEF TypeOK, WorkerOK, Related, OnlyOwnRecorded, Owned
  <2> QED
    BY <1>22, <2>1, <2>3 DEF TemplateExists, OnlyOwnRecorded, Owned
<1>23. ASSUME NEW n \in Names, TemplateInformed(n) PROVE OnlyOwnRecorded'
  BY <1>23, ConstantsAssumption DEF TemplateInformed, Handled, TypeOK,
     ClusterOK, WorkerOK, OnlyOwnRecorded, Owned, cluster, objects, locals, worker
<1>24. ASSUME NEW n \in Names, TemplateMissing(n) PROVE OnlyOwnRecorded'
  BY <1>24, ConstantsAssumption DEF TemplateMissing, Fault, TypeOK, ClusterOK,
     WorkerOK, OnlyOwnRecorded, Owned, cluster, objects, locals, worker
<1>25. ASSUME NEW n \in Names, TemplateFails(n) PROVE OnlyOwnRecorded'
  BY <1>25, ConstantsAssumption DEF TemplateFails, Fault, TypeOK, ClusterOK,
     WorkerOK, OnlyOwnRecorded, Owned, cluster, objects, locals, worker
<1>26. ASSUME NEW n \in Names, PruneNothing(n) PROVE OnlyOwnRecorded'
  BY <1>26, ConstantsAssumption DEF PruneNothing, TypeOK, ClusterOK, WorkerOK,
     OnlyOwnRecorded, Owned, cluster, objects, locals, worker
<1>27. ASSUME NEW n \in Names, PruneFails(n) PROVE OnlyOwnRecorded'
  BY <1>27, ConstantsAssumption DEF PruneFails, Fault, TypeOK, ClusterOK,
     WorkerOK, OnlyOwnRecorded, Owned, cluster, objects, locals, worker
<1>28. ASSUME NEW n \in Names, PruneChecked(n) PROVE OnlyOwnRecorded'
  BY <1>28, ConstantsAssumption DEF PruneChecked, NeedsDelete, TypeOK,
     ClusterOK, WorkerOK, OnlyOwnRecorded, Owned, cluster, objects, locals, worker
<1>29. CASE UNCHANGED vars
  BY <1>29 DEF vars, TypeOK, ClusterOK, WorkerOK, OnlyOwnRecorded, Owned,
     cluster, objects, locals, worker
<1>30. ASSUME NEW n \in Names, TemplateUnwatchable(n) PROVE OnlyOwnRecorded'
  BY <1>30, ConstantsAssumption DEF TemplateUnwatchable, Fault, TypeOK, ClusterOK,
     WorkerOK, OnlyOwnRecorded, Owned, cluster, objects, locals, worker
<1>31. CASE CreateInNoNamespace
  <2>1. mine' = mine /\ api' = api /\ pc' # "delete"
    BY <1>31 DEF CreateInNoNamespace, cluster, objects
  <2>2. Owned(new)'
    BY <1>31, ConstantsAssumption
    DEF CreateInNoNamespace, Handled, TypeOK, WorkerOK, Related, OnlyOwnRecorded,
        Owned, cluster, objects
  <2>3. (policy # None => Owned(policy.related))'
    <3>1. policy' # None => policy'.related = policy.related
      BY <1>31, ConstantsAssumption
      DEF CreateInNoNamespace, MayRefresh, TypeOK, ClusterOK, WorkerOK, Policy
    <3>2. policy # None
      BY <1>31, ConstantsAssumption DEF CreateInNoNamespace, TypeOK, WorkerOK
    <3> QED
      BY <2>1, <3>1, <3>2 DEF OnlyOwnRecorded, Owned
  <2> QED
    BY <2>1, <2>2, <2>3 DEF OnlyOwnRecorded, Owned
<1> QED
  BY <1>1, <1>2, <1>3, <1>4, <1>5, <1>6, <1>7, <1>8, <1>9, <1>10, <1>11, <1>12,
     <1>13, <1>14, <1>15, <1>16, <1>17, <1>18, <1>19, <1>20, <1>21, <1>22,
     <1>23, <1>24, <1>25, <1>26, <1>27, <1>28, <1>29, <1>30, <1>31
  DEF Next, Environment, Evaluate

\* Whatever happens, a related object that is said to be created by the policy
\* was created by it, unless the entry has no UID: then nothing was created.
THEOREM OwnershipIsTrue == Spec => []OnlyOwnRecorded
<1>1. Init => OnlyOwnRecorded
  BY ConstantsAssumption DEF Init, OnlyOwnRecorded, Owned, NoRelated
<1> QED
  BY <1>1, OwnedStep, TypeCorrect, PTL DEF Spec

\* Pruning with DeleteIfCreated deletes only what the policy created, as long as
\* the object is the one that was looked at.
THEOREM PruneIsSafe == Spec => PruneOnlyOwn
<1>1. OnlyOwnRecorded /\ [Next]_vars =>
        [\A n \in Names :
            pc = "delete" /\ pc' = "verify" /\ cur = n /\ obj[n] = checked =>
                obj[n] \in mine \/ policy.spec.prune = "DeleteAll"]_vars
  BY DEF OnlyOwnRecorded
<1> QED
  BY <1>1, OwnershipIsTrue, PTL DEF Spec, PruneOnlyOwn
-----------------------------------------------------------------------------
(* What is remembered while nothing is lost *)

\* Calls do not fail in a way that loses an entry, nor does the process end.
Lossless ==
    Faults \cap {"templateError", "getFail", "deleteFail", "statusFail", "crash"} = {}

Says(related, n) ==
    related[n] \in Properties /\ related[n].created /\ related[n].uid = obj[n]

Loop == {"templates", "create"}
Cleanup == {"prune", "delete", "verify"}

\* The worker's copy of the status is current, only a policy that prunes is cleaned
\* up, and the finalizer that an evaluation wanted is there until the policy goes.
CopyOK ==
    /\ policy # None /\ api # None /\ pc # "status" => policy.related = api.related
    /\ pc = "finalizer" /\ api # None /\ policy.deleting => api.deleting
    /\ final /\ api # None => api.deleting
    /\ guarded /\ api # None => api.finalizer
    /\ pc \in Cleanup /\ todo # {} => Prunes(policy.spec)
    /\ pc \in {"idle", "finalizer"} => new = NoRelated
    /\ ~skipCleanupChildObjects

\* What is left to do in the loop has no entry.
Unhandled == pc \in Loop => \A n \in todo : new[n] = Absent

\* An object in the loop that was not created in it is not handled yet, or is
\* found, or is no longer desired.
Found(n) == new[n] = Absent \/ (new[n] \in Properties /\ ~new[n].created)

\* An object that the policy created is in the list that will be the next status,
\* or in the current one and still to be cleaned up, unless the deleted policy
\* informs and cleans up nothing.
Remembered(n) ==
    /\ pc = "idle" => api = None \/ Says(api.related, n)
    /\ pc \in {"finalizer", "status"} => Says(policy.related, n)
    /\ pc \in Loop => Says(new, n) \/ (Says(policy.related, n) /\ Found(n))
    /\ pc = "create" => n # cur
    /\ pc \in Cleanup =>
          \/ ~final /\ Says(new, n)
          \/ n \in todo /\ Says(policy.related, n)
          \/ final /\ ~policy.spec.enforce /\ Says(policy.related, n)
    /\ pc = "verify" => n # cur
OursRemembered == \A n \in Names : Ours(n) => Remembered(n)

\* UIDs are new when they are given to an object.
KnownUids(related) == \A n \in Names : related[n] \in Properties => related[n].uid <= uids
UidsOK ==
    /\ \A n \in Names : obj[n] <= uids
    /\ api # None => KnownUids(api.related)
    /\ policy # None => KnownUids(policy.related)
    /\ KnownUids(new)

MemoryOK ==
    /\ UidsOK /\ CopyOK /\ Unhandled /\ OursRemembered
    /\ NothingLeftBehind /\ CreatedIsReported

\* A list that is empty says nothing.
LEMMA NothingSaid ==
    ASSUME NEW n \in Names
    PROVE  NoRelated[n] = Absent /\ Absent \notin Properties /\ NoProperties \notin Properties
  BY ConstantsAssumption DEF NoRelated

\* The worker has a copy while it evaluates.
LEMMA CopyType ==
    ASSUME TypeOK, pc # "idle"
    PROVE  policy \in Policy /\ policy # None
  BY ConstantsAssumption DEF TypeOK, WorkerOK

\* What is released stays released.
LEMMA ReleasedGrows == ASSUME [Next]_vars PROVE released \subseteq released'
<1>1. Release({}) => released \subseteq released'
  BY DEF Release
<1>2. \A S : Release(S) => released \subseteq released'
  BY DEF Release
<1>3. CASE UNCHANGED released
  BY <1>3
<1>4. CASE DeletePolicy \/ FinalizerRemoved \/ LoopDone \/ DeletionDone
  BY <1>2, <1>4, Zenon DEF DeletePolicy, FinalizerRemoved, LoopDone, DeletionDone
<1>5. ASSUME NEW n \in Names, TemplateExists(n) PROVE released \subseteq released'
  BY <1>2, <1>5, Zenon DEF TemplateExists
<1>6. CASE Create
  BY <1>6 DEF Create
<1> QED
  BY <1>3, <1>4, <1>5, <1>6, Zenon
  DEF Next, Environment, Evaluate, vars, cluster, Edit, Uninstall, Crash, UserCreates,
      ObjectGone, ReconcileBegin, FinalizerUninstalling, FinalizerSet, FinalizerFails,
      FinalizerKept, TemplateInformed, TemplateMissing, TemplateFails, TemplateUnwatchable,
      PruneNothing, PruneFails, PruneChecked, CreateFails, CreateInNoNamespace, Delete,
      DeleteFails, Verify, PruneDone, UpdateStatus

\* An object that was created before is the one that it was.
LEMMA OursStep ==
    ASSUME TypeOK, UidsOK, [Next]_vars, NEW n \in Names, Ours(n)'
    PROVE  \/ Ours(n) /\ obj'[n] = obj[n]
           \/ Create /\ n = cur
<1>0. released \subseteq released'
  BY ReleasedGrows
<1>1. CASE UNCHANGED objects
  BY <1>0, <1>1 DEF objects, Ours, Live
<1>2. ASSUME NEW m \in Names, UserCreates(m) PROVE Ours(n) /\ obj'[n] = obj[n]
  <2>1. obj' = [obj EXCEPT ![m] = uids + 1] /\ UNCHANGED <<terminating, mine>>
    BY <1>2 DEF UserCreates
  <2>2. obj \in [Names -> 0 .. MaxUid] /\ uids \in Nat /\ mine \subseteq 1 .. uids
    BY ConstantsAssumption DEF TypeOK, ClusterOK
  <2>3. n # m
    BY <1>0, <2>1, <2>2 DEF Ours
  <2> QED
    BY <1>0, <2>1, <2>2, <2>3 DEF Ours, Live
<1>3. ASSUME NEW m \in Names, ObjectGone(m) PROVE Ours(n) /\ obj'[n] = obj[n]
  <2>1. obj' = [obj EXCEPT ![m] = 0] /\ terminating' = terminating \ {m} /\ UNCHANGED mine
    BY <1>3 DEF ObjectGone
  <2>2. obj \in [Names -> 0 .. MaxUid]
    BY DEF TypeOK, ClusterOK
  <2> QED
    BY <1>0, <2>1, <2>2 DEF Ours, Live
<1>4. CASE Delete
  <2>1. /\ UNCHANGED mine
        /\ \/ obj' = [obj EXCEPT ![cur] = 0] /\ terminating' = terminating \ {cur}
           \/ terminating' = terminating \cup {cur} /\ UNCHANGED obj
    BY <1>4 DEF Delete
  <2>2. obj \in [Names -> 0 .. MaxUid]
    BY DEF TypeOK, ClusterOK
  <2> QED
    BY <1>0, <2>1, <2>2 DEF Ours, Live
<1>5. CASE Create /\ n # cur
  <2>1. /\ obj' = [obj EXCEPT ![cur] = uids + 1] /\ UNCHANGED terminating
        /\ mine' = mine \cup {uids + 1}
    BY <1>5 DEF Create
  <2>2. obj \in [Names -> 0 .. MaxUid] /\ uids \in Nat
    BY ConstantsAssumption DEF TypeOK, ClusterOK
  <2> QED
    BY <1>0, <1>5, <2>1, <2>2 DEF Ours, Live, UidsOK
<1> QED
  BY <1>1, <1>2, <1>3, <1>4, <1>5, Zenon
  DEF Next, Environment, Evaluate, vars, cluster, Edit, DeletePolicy, Uninstall, Crash, ReconcileBegin,
      FinalizerUninstalling, FinalizerSet, FinalizerRemoved, FinalizerFails, FinalizerKept,
      TemplateExists, TemplateInformed, TemplateMissing, TemplateFails, TemplateUnwatchable, PruneNothing, PruneFails,
      PruneChecked, CreateFails, CreateInNoNamespace, LoopDone, DeleteFails, Verify, PruneDone, DeletionDone,
      UpdateStatus

\* How the lists change.
LEMMA ListsStep ==
    ASSUME Lossless, TypeOK, CopyOK, [Next]_vars
    PROVE  /\ api' # None => /\ api # None
                             /\ \/ api'.related = api.related
                                \/ UpdateStatus /\ api'.related = policy.related
           /\ policy' # None => \/ policy # None /\ policy'.related = policy.related
                                \/ api # None /\ policy'.related = api.related
                                \/ PruneDone /\ policy'.related = new
           /\ \/ new' \in {new, NoRelated}
              \/ LoopDone /\ new' = Updated(new, policy.related)
              \/ \E n \in Names : new' = [new EXCEPT ![n] = NoProperties]
              \/ \E n \in Names : new' = [new EXCEPT ![n] = [created |-> FALSE, uid |-> obj[n]]]
              \/ \E n \in Names : new' = [new EXCEPT ![n] = [created |-> TRUE, uid |-> 0]]
              \/ Create /\ new' = [new EXCEPT ![cur] = [created |-> TRUE, uid |-> uids + 1]]
<1> DEFINE A == api' # None => api # None /\ api'.related = api.related
           P == policy' # None => \/ policy # None /\ policy'.related = policy.related
                                  \/ api # None /\ policy'.related = api.related
<1>1. api # None => api \in Policy
  BY DEF TypeOK, ClusterOK
<1>2. pc # "idle" => policy \in Policy /\ policy # None
  BY CopyType
<1>3. UNCHANGED api => A
  OBVIOUS
<1>4. UNCHANGED policy \/ policy' = None => P
  OBVIOUS
<1>5. ASSUME Return PROVE policy' = None /\ new' = NoRelated
  BY <1>5 DEF Return
<1>6. CASE Edit
  BY <1>1, <1>6 DEF Edit, Policy, worker, locals
<1>7. CASE DeletePolicy
  BY <1>1, <1>7 DEF DeletePolicy, Policy, worker, locals
<1>8. CASE Uninstall \/ Crash \/ UNCHANGED vars \/ \E n \in Names : UserCreates(n) \/ ObjectGone(n)
  <2>1. UNCHANGED api /\ (Return \/ UNCHANGED worker)
    BY <1>8, Zenon DEF Uninstall, Crash, vars, UserCreates, ObjectGone
  <2> QED
    BY <1>3, <1>4, <1>5, <2>1, Zenon DEF worker, locals
<1>9. CASE ReconcileBegin
  BY <1>3, <1>9 DEF ReconcileBegin, locals
<1>10. ASSUME NEW p \in Policy, Dispatch(p), api # None, p.related = api.related
       PROVE  P /\ new' \in {new, NoRelated}
  BY <1>5, <1>10 DEF Dispatch
<1>11. ASSUME pc = "finalizer" PROVE api # None => policy.related = api.related
  BY <1>2, <1>11 DEF CopyOK
<1>12. CASE FinalizerUninstalling
  BY <1>1, <1>5, <1>12 DEF FinalizerUninstalling, Released, Policy
<1>13. CASE FinalizerSet
  <2>1. api # None /\ api' = [api EXCEPT !.finalizer = TRUE] /\ Dispatch(api')
    BY <1>13 DEF FinalizerSet
  <2>2. api' \in Policy /\ api'.related = api.related
    BY <1>1, <2>1 DEF Policy
  <2> QED
    BY <1>10, <2>1, <2>2
<1>14. CASE FinalizerRemoved
  <2> DEFINE p == [api EXCEPT !.finalizer = FALSE]
  <2>1. api # None /\ api' = Released(api) /\ Dispatch(p)
    BY <1>14 DEF FinalizerRemoved
  <2>2. p \in Policy /\ p.related = api.related
    BY <1>1, <2>1 DEF Policy
  <2>3. api' # None => api'.related = api.related
    BY <1>1, <2>1 DEF Released, Policy
  <2> HIDE DEF p
  <2> QED
    BY <1>10, <2>1, <2>2, <2>3
<1>15. CASE FinalizerFails
  BY <1>3, <1>5, <1>15 DEF FinalizerFails
<1>16. CASE FinalizerKept
  <2>1. UNCHANGED api /\ pc = "finalizer" /\ Dispatch(policy)
    BY <1>16 DEF FinalizerKept
  <2>2. new' \in {new, NoRelated} /\ policy' \in {None, policy}
    BY <1>5, <2>1 DEF Dispatch
  <2> QED
    BY <1>2, <1>3, <2>1, <2>2
<1>17. ASSUME NEW n \in Names, TemplateExists(n)
       PROVE  /\ UNCHANGED <<api, policy>>
              /\ \/ new' = [new EXCEPT ![n] = NoProperties]
                 \/ new' = [new EXCEPT ![n] = [created |-> FALSE, uid |-> obj[n]]]
  BY <1>17 DEF TemplateExists, Handled
<1>18. ASSUME NEW n \in Names, TemplateInformed(n)
       PROVE  UNCHANGED <<api, policy>> /\ new' = [new EXCEPT ![n] = NoProperties]
  BY <1>18 DEF TemplateInformed, Handled
<1>19. ASSUME MayRefresh, pc # "idle" PROVE P
  BY <1>2, <1>19, <1>1 DEF MayRefresh, Policy
<1>20. CASE Create
  BY <1>3, <1>19, <1>20 DEF Create, Handled
<1>21. CASE CreateFails
  <2>1. cur \in Names
    BY <1>21 DEF CreateFails, TypeOK, WorkerOK
  <2> QED
    BY <1>3, <1>19, <1>21, <2>1 DEF CreateFails, Handled
<1>33. CASE CreateInNoNamespace
  <2>1. cur \in Names
    BY <1>33 DEF CreateInNoNamespace, TypeOK, WorkerOK
  <2> QED
    BY <1>3, <1>19, <1>33, <2>1 DEF CreateInNoNamespace, Handled
<1>22. CASE LoopDone
  BY <1>3, <1>4, <1>22 DEF LoopDone
<1>23. CASE \E n \in Names :
          \/ TemplateMissing(n) \/ TemplateFails(n) \/ TemplateUnwatchable(n)
          \/ PruneNothing(n) \/ PruneFails(n) \/ PruneChecked(n)
  <2>1. UNCHANGED <<api, policy, new>>
    BY <1>23, Zenon DEF TemplateMissing, TemplateFails, TemplateUnwatchable, PruneNothing, PruneFails, PruneChecked
  <2> QED
    BY <1>3, <1>4, <2>1
<1>24. CASE Delete \/ DeleteFails \/ Verify
  <2>1. UNCHANGED <<api, policy, new>>
    BY <1>24, Zenon DEF Delete, DeleteFails, Verify, locals
  <2> QED
    BY <1>3, <1>4, <2>1
<1>25. CASE PruneDone
  BY <1>2, <1>3, <1>25 DEF PruneDone, locals, Policy
<1>26. CASE DeletionDone
  BY <1>1, <1>5, <1>26 DEF DeletionDone, Release, Released, Policy
<1>27. CASE UpdateStatus
  BY <1>1, <1>5, <1>27 DEF UpdateStatus, Policy
<1> HIDE DEF P, A
<1>28. CASE Environment \/ ReconcileBegin
  BY <1>6, <1>7, <1>8, <1>9, <1>28 DEF Environment, P
<1>29. CASE Evaluate
  BY <1>3, <1>4, <1>12, <1>13, <1>14, <1>15, <1>16, <1>17, <1>18, <1>20, <1>21, <1>22, <1>23,
     <1>24, <1>25, <1>26, <1>27, <1>29, <1>33 DEF Evaluate, P, A
<1> QED
  BY <1>8, <1>28, <1>29 DEF Next

\* No list names a UID that was not given yet.
LEMMA UidsStep ==
    ASSUME Lossless, TypeOK, UidsOK, CopyOK, [Next]_vars
    PROVE  UidsOK'
<1> DEFINE K(related, u) == \A n \in Names : related[n] \in Properties => related[n].uid <= u
<1>1. /\ uids \in Nat /\ obj \in [Names -> 0 .. MaxUid] /\ new \in Related
      /\ \A n \in Names : obj[n] <= uids
  BY ConstantsAssumption DEF TypeOK, ClusterOK, WorkerOK, UidsOK
<1>2. ASSUME UNCHANGED objects \/ Delete \/ \E m \in Names : UserCreates(m) \/ ObjectGone(m)
      PROVE  uids' \in {uids, uids + 1} /\ \A n \in Names : obj'[n] <= uids'
  BY <1>1, <1>2 DEF objects, Delete, UserCreates, ObjectGone
<1>3. ASSUME Create
      PROVE  /\ uids' = uids + 1 /\ \A n \in Names : obj'[n] <= uids'
  BY <1>1, <1>3 DEF Create
<1>4. /\ uids' \in {uids, uids + 1} /\ \A n \in Names : obj'[n] <= uids'
      /\ Create => uids' = uids + 1
  <2>1. Create \/ UNCHANGED objects \/ Delete \/ \E m \in Names : UserCreates(m) \/ ObjectGone(m)
    BY Zenon
    DEF Next, Environment, Evaluate, vars, cluster, Edit, DeletePolicy, Uninstall, Crash,
        ReconcileBegin, FinalizerUninstalling, FinalizerSet, FinalizerRemoved, FinalizerFails,
        FinalizerKept, TemplateExists, TemplateInformed, TemplateMissing, TemplateFails,
        TemplateUnwatchable, PruneNothing, PruneFails,
        PruneChecked, CreateFails, CreateInNoNamespace, LoopDone, DeleteFails, Verify, PruneDone, DeletionDone,
        UpdateStatus
  <2> QED
    BY <1>1, <1>2, <1>3, <2>1
<1>5. ASSUME NEW related \in Related, K(related, uids) PROVE K(related, uids')
  <2>1. \A n \in Names : related[n] \in Properties => related[n].uid \in Nat
    BY ConstantsAssumption DEF Related, Properties, Uid
  <2> QED
    BY <1>1, <1>4, <1>5, <2>1
<1>6. /\ api # None => api.related \in Related /\ K(api.related, uids)
      /\ policy # None => policy.related \in Related /\ K(policy.related, uids)
      /\ K(new, uids)
  BY DEF TypeOK, ClusterOK, WorkerOK, Policy, UidsOK, KnownUids
<1>7. api' # None => K(api'.related, uids')
  <2>1. UpdateStatus => policy # None
    BY CopyType DEF UpdateStatus
  <2> HIDE DEF K
  <2> QED
    BY <1>5, <1>6, <2>1, ListsStep
<1>8. policy' # None => K(policy'.related, uids')
  <2> HIDE DEF K
  <2> QED
    BY <1>1, <1>5, <1>6, ListsStep
<1>9. K(new', uids')
  <2>1. K(new, uids')
    BY <1>1, <1>5, <1>6
  <2>2. CASE new' \in {new, NoRelated}
    BY <2>1, <2>2, NothingSaid
  <2>3. CASE LoopDone /\ new' = Updated(new, policy.related)
    <3>1. policy # None
      BY <2>3, CopyType DEF LoopDone
    <3>2. K(policy.related, uids')
      BY <1>5, <1>6, <3>1
    <3>3. \A n \in Names : new'[n] \in {new[n], policy.related[n]}
      BY <2>3 DEF Updated
    <3> QED
      BY <2>1, <3>2, <3>3
  <2>4. ASSUME NEW n \in Names, NEW e, new' = [new EXCEPT ![n] = e],
               e \in Properties => e.uid <= uids'
        PROVE  K(new', uids')
    BY <1>1, <2>1, <2>4 DEF Related
  <2>5. NoProperties \notin Properties
    BY ConstantsAssumption
  <2>6. \A n \in Names : obj[n] <= uids'
    BY <1>1, <1>4
  <2>7. Create => cur \in Names
    BY DEF Create, TypeOK, WorkerOK
  <2> HIDE DEF K
  <2>8. CASE Create /\ new' = [new EXCEPT ![cur] = [created |-> TRUE, uid |-> uids + 1]]
    <3> DEFINE e == [created |-> TRUE, uid |-> uids + 1]
    <3>1. e.uid <= uids'
      BY <1>1, <1>4, <2>8
    <3> HIDE DEF e
    <3>2. new' = [new EXCEPT ![cur] = e]
      BY <2>8 DEF e
    <3> QED
      BY <2>4, <2>7, <2>8, <3>1, <3>2
  <2>9. ASSUME NEW n \in Names, new' = [new EXCEPT ![n] = [created |-> FALSE, uid |-> obj[n]]]
        PROVE  K(new', uids')
    BY <2>4, <2>6, <2>9
  <2>10. ASSUME NEW n \in Names, new' = [new EXCEPT ![n] = [created |-> TRUE, uid |-> 0]]
         PROVE  K(new', uids')
    <3> DEFINE e == [created |-> TRUE, uid |-> 0]
    <3>1. e.uid <= uids'
      BY <1>1, <1>4
    <3>2. new' = [new EXCEPT ![n] = e]
      BY <2>10
    <3> HIDE DEF e
    <3> QED
      BY <2>4, <3>1, <3>2
  <2> QED
    BY <2>2, <2>3, <2>4, <2>5, <2>8, <2>9, <2>10, ListsStep
<1> QED
  BY <1>4, <1>7, <1>8, <1>9 DEF UidsOK, KnownUids

\* After a return the copy is gone.
LEMMA ReturnCopy ==
    ASSUME Return, guarded' /\ api' # None => api'.finalizer
    PROVE  CopyOK'
  BY DEF Return, CopyOK, Loop, Cleanup

\* The copy that the evaluation goes on with is current.
LEMMA DispatchCopy ==
    ASSUME TypeOK, CopyOK, NEW p \in Policy, Dispatch(p), pc = "finalizer",
           guarded' /\ api' # None => api'.finalizer,
           api' # None => p.related = api'.related /\ (p.deleting => api'.deleting)
    PROVE  CopyOK'
<1>1. CASE p.deleting /\ ~Prunes(p.spec)
  BY <1>1, ReturnCopy DEF Dispatch
<1>2. CASE ~(p.deleting /\ ~Prunes(p.spec))
  <2>1. /\ pc' = (IF p.deleting THEN "prune" ELSE "templates") /\ policy' = p
        /\ final' = p.deleting /\ skipCleanupChildObjects' = skipCleanupChildObjects
    BY <1>2 DEF Dispatch
  <2>2. p.deleting \in BOOLEAN /\ ~skipCleanupChildObjects
    BY DEF Policy, CopyOK
  <2>3. (pc \in Cleanup /\ todo # {} => Prunes(policy.spec))'
    BY <1>2, <2>1, <2>2 DEF Cleanup, Prunes
  <2> QED
    BY <2>1, <2>2, <2>3 DEF CopyOK, Loop, Cleanup
<1> QED
  BY <1>1, <1>2

\* CopyOK is inductive: only the worker writes the status and the finalizer.
LEMMA CopyStep ==
    ASSUME Lossless, TypeOK, CopyOK, [Next]_vars
    PROVE  CopyOK'
<1>1. api # None => api \in Policy
  BY DEF TypeOK, ClusterOK
<1>2. pc # "idle" => policy \in Policy /\ policy # None
  BY CopyType
<1>3. pc = "idle" => policy = None /\ final = FALSE
  BY DEF TypeOK, WorkerOK
<1>4. CASE Edit
  BY <1>1, <1>4, ConstantsAssumption
  DEF Edit, worker, locals, cluster, Policy, CopyOK, Loop, Cleanup
<1>5. CASE DeletePolicy
  BY <1>1, <1>3, <1>5, ConstantsAssumption
  DEF DeletePolicy, worker, locals, Policy, CopyOK, Loop, Cleanup
<1>6. CASE Uninstall \/ UNCHANGED vars \/ \E n \in Names : UserCreates(n) \/ ObjectGone(n)
  <2>1. UNCHANGED <<api, worker, guarded>>
    BY <1>6, Zenon DEF Uninstall, vars, cluster, UserCreates, ObjectGone
  <2> QED
    BY <2>1 DEF worker, locals, CopyOK
<1>7. CASE ReconcileBegin
  BY <1>1, <1>3, <1>7 DEF ReconcileBegin, locals, cluster, CopyOK, Loop, Cleanup
<1>8. CASE Return
  <2>1. CASE UNCHANGED <<api, guarded>> \/ guarded' = FALSE
    BY <1>8, <2>1, ReturnCopy DEF CopyOK
  <2>2. CASE UpdateStatus
    <3>1. guarded' = guarded /\ (api' # None => api # None /\ api'.finalizer = api.finalizer)
      BY <1>1, <2>2 DEF UpdateStatus, Policy, cluster
    <3> QED
      BY <1>8, <3>1, ReturnCopy DEF CopyOK
  <2>3. CASE DeletionDone
    <3>1. guarded' = guarded /\ final
          /\ api' = IF failures \/ api = None THEN api ELSE Released(api)
      BY <2>3 DEF DeletionDone
    <3>2. api' # None => api' = api
      BY <3>1 DEF CopyOK, Released
    <3> QED
      BY <1>8, <3>1, <3>2, ReturnCopy DEF CopyOK
  <2>4. CASE Crash \/ FinalizerFails
    BY <2>1, <2>4, Zenon DEF Crash, FinalizerFails, cluster
  <2>5. CASE FinalizerUninstalling
    BY <2>1, <2>5 DEF FinalizerUninstalling
  <2>6. CASE FinalizerKept
    BY <2>1, <2>6 DEF FinalizerKept, cluster
  <2>7. CASE FinalizerSet \/ FinalizerRemoved
    <3>1. FinalizerSet => api'.finalizer
      BY <1>1 DEF FinalizerSet, Policy
    <3> QED
      BY <1>8, <2>1, <2>7, <3>1, ReturnCopy DEF FinalizerRemoved
  <2>8. CASE pc' # "idle"
    BY <1>8, <2>8 DEF Return
  <2> QED
    BY <1>4, <1>5, <1>6, <1>7, <2>2, <2>3, <2>4, <2>5, <2>6, <2>7, <2>8, Zenon
    DEF Next, Environment, Evaluate, TemplateExists, TemplateInformed, TemplateMissing,
        TemplateFails, TemplateUnwatchable, PruneNothing, PruneFails, PruneChecked, Create,
        CreateFails, CreateInNoNamespace, LoopDone, Delete, DeleteFails, Verify, PruneDone
<1>9. CASE FinalizerSet
  <2>1. api # None /\ api' = [api EXCEPT !.finalizer = TRUE] /\ Dispatch(api') /\ pc = "finalizer"
    BY <1>9 DEF FinalizerSet
  <2>2. api' \in Policy /\ api'.finalizer
    BY <1>1, <2>1 DEF Policy
  <2> QED
    BY <2>1, <2>2, DispatchCopy
<1>10. CASE FinalizerKept
  <2>1. UNCHANGED <<api, guarded>> /\ pc = "finalizer" /\ Dispatch(policy)
    BY <1>10 DEF FinalizerKept, cluster
  <2>2. api # None => policy.related = api.related /\ (policy.deleting => api.deleting)
    BY <1>2, <2>1 DEF CopyOK
  <2>3. guarded' /\ api' # None => api'.finalizer
    BY <2>1 DEF CopyOK
  <2> QED
    BY <1>2, <2>1, <2>2, <2>3, DispatchCopy
<1>11. CASE FinalizerRemoved
  <2> DEFINE p == [api EXCEPT !.finalizer = FALSE]
  <2>1. /\ api # None /\ api' = Released(api) /\ Dispatch(p) /\ pc = "finalizer"
        /\ guarded' = FALSE
    BY <1>11 DEF FinalizerRemoved
  <2>2. p \in Policy /\ (api' # None => api' = p)
    BY <1>1, <2>1 DEF Policy, Released
  <2> HIDE DEF p
  <2> QED
    BY <2>1, <2>2, DispatchCopy
<1>12. CASE \/ PruneDone
            \/ \E n \in Names : \/ TemplateMissing(n) \/ TemplateUnwatchable(n)
                                \/ PruneNothing(n) \/ PruneFails(n) \/ PruneChecked(n)
            \/ Delete \/ Verify \/ LoopDone
            \/ \E n \in Names : TemplateExists(n) \/ TemplateInformed(n)
  <2>1. /\ UNCHANGED <<api, skipCleanupChildObjects, guarded, final>>
        /\ UNCHANGED policy \/ PruneDone
        /\ pc \in Loop \cup Cleanup /\ pc' \in Loop \cup Cleanup \cup {"status"}
    BY <1>12 DEF TemplateMissing, TemplateUnwatchable, TemplateExists, TemplateInformed,
                 PruneNothing, PruneFails, PruneChecked, Delete, Verify, LoopDone, PruneDone,
                 locals, cluster, Loop, Cleanup
  <2>2. PruneDone => pc' = "status"
    BY DEF PruneDone
  <2>3. pc \notin {"idle", "finalizer", "status"} /\ policy # None
    BY <1>2, <2>1 DEF Loop, Cleanup
  <2>4. pc' \notin {"idle", "finalizer"} /\ (pc' # "status" => policy' = policy)
    BY <2>1, <2>2 DEF Loop, Cleanup, PruneDone
  <2>5. skipCleanupChildObjects = FALSE
    BY DEF CopyOK, TypeOK, WorkerOK
  <2>6. (policy # None /\ api # None /\ pc # "status" => policy.related = api.related)'
    BY <2>1, <2>3, <2>4 DEF CopyOK
  <2>7. (pc \in Cleanup /\ todo # {} => Prunes(policy.spec))'
    <3>1. CASE LoopDone
      BY <3>1 DEF LoopDone
    <3>2. CASE ~LoopDone /\ pc' \in Cleanup
      <4>1. pc \in Cleanup /\ todo' \subseteq todo /\ policy' = policy
        BY <1>12, <2>2, <3>2
        DEF TemplateMissing, TemplateUnwatchable, TemplateExists, TemplateInformed, PruneNothing,
            PruneFails, PruneChecked, Delete, Verify, PruneDone, locals, Cleanup
      <4> QED
        BY <4>1 DEF CopyOK
    <3> QED
      BY <3>1, <3>2
  <2> QED
    BY <2>1, <2>4, <2>5, <2>6, <2>7 DEF CopyOK
<1>13. CASE Create \/ CreateFails \/ CreateInNoNamespace
  <2>1. /\ UNCHANGED <<api, skipCleanupChildObjects, guarded, final>> /\ MayRefresh
        /\ pc = "create" /\ pc' = "templates"
    BY <1>13 DEF Create, CreateFails, CreateInNoNamespace, cluster
  <2>2. policy'.related = policy.related
    BY <1>1, <2>1 DEF MayRefresh, Policy
  <2> QED
    BY <1>2, <2>1, <2>2 DEF CopyOK, Loop, Cleanup
<1>14. CASE DeleteFails \/ \E n \in Names : TemplateFails(n)
  BY <1>14 DEF Lossless, DeleteFails, TemplateFails, Fault
<1> QED
  BY <1>4, <1>5, <1>6, <1>7, <1>8, <1>9, <1>10, <1>11, <1>12, <1>13, <1>14, Zenon
  DEF Next, Environment, Evaluate, Crash, FinalizerUninstalling, FinalizerFails,
      DeletionDone, UpdateStatus

\* An uninstall is not taken back.
LEMMA UninstallStays == ASSUME [Next]_vars PROVE uninstalling => uninstalling'
<1>1. uninstalling' = uninstalling \/ uninstalling' = TRUE
  BY Zenon
  DEF Next, Environment, Evaluate, vars, Edit, DeletePolicy, Uninstall, Crash, UserCreates,
      ObjectGone, ReconcileBegin, FinalizerUninstalling, FinalizerSet, FinalizerRemoved,
      FinalizerFails, FinalizerKept, TemplateExists, TemplateInformed, TemplateMissing,
      TemplateFails, TemplateUnwatchable, PruneNothing, PruneFails, PruneChecked, Create,
      CreateFails, CreateInNoNamespace, LoopDone, Delete, DeleteFails, Verify, PruneDone,
      DeletionDone, UpdateStatus
<1> QED
  BY <1>1

\* When the policy goes, what it created is cleaned up or was released.
LEMMA HeldStep ==
    ASSUME Lossless, TypeOK, UidsOK, CopyOK, NothingLeftBehind, OursRemembered, [Next]_vars
    PROVE  NothingLeftBehind'
<1> SUFFICES ASSUME NEW n \in Names, Ours(n)', api' = None
             PROVE  uninstalling'
  BY DEF NothingLeftBehind
<1>1. uninstalling => uninstalling'
  BY UninstallStays
<1>2. obj'[n] \notin released'
  BY DEF Ours
<1>3. ASSUME NEW S, Release(S), n \in S, UNCHANGED <<obj, mine>> PROVE FALSE
  BY <1>2, <1>3 DEF Release, Ours
<1>4. CASE api = None
  <2>1. CASE Create /\ n = cur
    <3>1. obj' = [obj EXCEPT ![cur] = uids + 1] /\ uids + 1 \in released'
      BY <1>4, <2>1 DEF Create
    <3>2. obj'[n] = uids + 1
      BY <2>1, <3>1 DEF TypeOK, ClusterOK
    <3> QED
      BY <1>2, <3>1, <3>2
  <2>2. CASE Ours(n)
    BY <1>1, <1>4, <2>2 DEF NothingLeftBehind
  <2> QED
    BY <2>1, <2>2, OursStep
<1>5. CASE api # None /\ DeletePolicy
  <2>1. ~api.finalizer
    BY <1>5, ConstantsAssumption DEF DeletePolicy, TypeOK, ClusterOK, Policy
  <2>2. Release(Names) /\ UNCHANGED <<obj, mine>>
    BY <1>5, <2>1 DEF DeletePolicy, CopyOK, objects
  <2> QED
    BY <1>3, <2>2
<1>6. CASE api # None /\ FinalizerRemoved
  <2>1. api.deleting
    BY <1>6, ConstantsAssumption DEF FinalizerRemoved, Released, TypeOK, ClusterOK, Policy
  <2>2. Release(Names) /\ UNCHANGED <<obj, mine>>
    BY <1>6, <2>1 DEF FinalizerRemoved, objects
  <2> QED
    BY <1>3, <2>2
<1>7. CASE DeletionDone
  <2>1. /\ pc = "prune" /\ todo = {} /\ final /\ UNCHANGED <<obj, mine>>
        /\ Release(IF policy.spec.enforce THEN {} ELSE Names)
    BY <1>7 DEF DeletionDone, objects
  <2>2. policy.spec.enforce
    BY <1>3, <2>1
  <2>3. Remembered(n)
    <3>1. ~Create
      BY <2>1 DEF Create
    <3> QED
      BY <3>1, OursStep DEF OursRemembered
  <2> QED
    BY <2>1, <2>2, <2>3 DEF Remembered, Cleanup
<1>8. CASE FinalizerUninstalling
  BY <1>1, <1>8 DEF FinalizerUninstalling
<1>9. ASSUME api # None, [Next]_vars, api' = None
      PROVE  DeletePolicy \/ FinalizerRemoved \/ DeletionDone \/ FinalizerUninstalling
  <2>1. api \in Policy /\ None \notin Policy
    BY <1>9, ConstantsAssumption DEF TypeOK, ClusterOK
  <2>2. ~Edit /\ ~FinalizerSet
    BY <1>9, <2>1 DEF Edit, FinalizerSet, Policy
  <2>3. ~UpdateStatus
    <3>1. UpdateStatus => policy \in Policy
      BY CopyType DEF UpdateStatus
    <3> QED
      BY <1>9, <2>1, <3>1 DEF UpdateStatus, Policy
  <2>4. ~UNCHANGED api
    BY <1>9
  <2> QED
    BY <1>9, <2>2, <2>3, <2>4, Zenon
    DEF Next, Environment, Evaluate, vars, Uninstall, Crash, UserCreates, ObjectGone,
        ReconcileBegin, FinalizerFails, FinalizerKept, TemplateExists, TemplateInformed,
        TemplateMissing, TemplateFails, TemplateUnwatchable, PruneNothing, PruneFails,
        PruneChecked, Create, CreateFails, CreateInNoNamespace, LoopDone, Delete, DeleteFails,
        Verify, PruneDone
<1> QED
  BY <1>4, <1>5, <1>6, <1>7, <1>8, <1>9

\* A template leaves the list of those that are left when it has an entry.
LEMMA UnhandledStep ==
    ASSUME Lossless, TypeOK, CopyOK, Unhandled, [Next]_vars
    PROVE  Unhandled'
<1>1. new \in Related /\ todo' \subseteq Names
  BY TypeOKStep DEF TypeOK, WorkerOK
<1>2. CASE new' = NoRelated
  BY <1>1, <1>2, NothingSaid DEF Unhandled
<1>3. CASE pc' \notin Loop
  BY <1>3 DEF Unhandled
<1>4. CASE pc \in Loop /\ todo' \subseteq todo /\ new' = new
  BY <1>4 DEF Unhandled
<1>5. ASSUME NEW n, NEW e, Handled(n, e), pc \in Loop PROVE Unhandled'
  BY <1>1, <1>5 DEF Unhandled, Handled, Related
<1>6. CASE Edit \/ DeletePolicy \/ Uninstall \/ UNCHANGED vars
           \/ \E n \in Names : UserCreates(n) \/ ObjectGone(n)
  <2>1. UNCHANGED worker
    BY <1>6, Zenon DEF Edit, DeletePolicy, Uninstall, vars, UserCreates, ObjectGone
  <2> QED
    BY <2>1 DEF worker, locals, Unhandled
<1>7. CASE ReconcileBegin
  BY <1>3, <1>7 DEF ReconcileBegin, Loop
<1>8. CASE Return
  BY <1>2, <1>8 DEF Return
<1>9. ASSUME FinalizerSet \/ FinalizerRemoved \/ FinalizerKept PROVE new' = NoRelated
  <2>1. new = NoRelated
    BY <1>9 DEF FinalizerSet, FinalizerRemoved, FinalizerKept, CopyOK
  <2>2. new' = new \/ new' = NoRelated
    BY <1>9 DEF FinalizerSet, FinalizerRemoved, FinalizerKept, Dispatch, Return
  <2> QED
    BY <2>1, <2>2
<1>10. CASE \E n \in Names : TemplateExists(n) \/ TemplateInformed(n)
  BY <1>5, <1>10 DEF TemplateExists, TemplateInformed, Loop
<1>11. CASE Create \/ CreateFails \/ CreateInNoNamespace
  BY <1>5, <1>11 DEF Create, CreateFails, CreateInNoNamespace, Loop
<1>12. CASE \E n \in Names : TemplateMissing(n) \/ TemplateFails(n) \/ TemplateUnwatchable(n)
  BY <1>4, <1>12 DEF TemplateMissing, TemplateFails, TemplateUnwatchable, Loop
<1>13. CASE \/ LoopDone \/ Delete \/ DeleteFails \/ Verify \/ PruneDone
            \/ \E n \in Names : PruneNothing(n) \/ PruneFails(n) \/ PruneChecked(n)
  BY <1>3, <1>13 DEF LoopDone, Delete, DeleteFails, Verify, PruneDone, PruneNothing,
                     PruneFails, PruneChecked, Loop
<1> QED
  BY <1>2, <1>6, <1>7, <1>8, <1>9, <1>10, <1>11, <1>12, <1>13, Zenon
  DEF Next, Environment, Evaluate, Crash, FinalizerUninstalling, FinalizerFails,
      DeletionDone, UpdateStatus

\* The entry of a created object is true when the object is new, and when the list
\* of the last evaluation is taken over.
LEMMA ReportedStep ==
    ASSUME Lossless, TypeOK, UidsOK, CopyOK, OursRemembered, CreatedIsReported, [Next]_vars
    PROVE  CreatedIsReported'
<1> SUFFICES ASSUME api' # None, NEW n \in Names, Ours(n)', api'.related[n] \in Properties,
                    api'.related[n].uid = obj'[n]
             PROVE  api'.related[n].created
  BY DEF CreatedIsReported, Ours
<1>1. CASE Create /\ n = cur
  <2>1. obj'[n] = uids + 1 /\ UNCHANGED api /\ uids \in Nat
    BY <1>1, ConstantsAssumption DEF Create, TypeOK, ClusterOK
  <2>2. api'.related[n].uid <= uids
    BY <2>1 DEF UidsOK, KnownUids
  <2> QED
    BY <2>1, <2>2
<1>2. CASE Ours(n) /\ obj'[n] = obj[n]
  <2>1. CASE api # None /\ api'.related = api.related
    BY <1>2, <2>1 DEF CreatedIsReported, Ours
  <2>2. CASE UpdateStatus /\ api'.related = policy.related
    BY <1>2, <2>2 DEF UpdateStatus, OursRemembered, Remembered, Says
  <2> QED
    BY <2>1, <2>2, ListsStep
<1> QED
  BY <1>1, <1>2, OursStep

\* While nothing is lost, what the policy created and is still there is remembered:
\* each step keeps its entry, in the list it is in or in the next one.
LEMMA RememberedStep ==
    ASSUME Lossless, TypeOK, UidsOK, CopyOK, Unhandled, OursRemembered, [Next]_vars
    PROVE  OursRemembered'
<1> SUFFICES ASSUME NEW n \in Names, Ours(n)' PROVE Remembered(n)'
  BY DEF OursRemembered
<1> DEFINE S(related) == related[n] \in Properties /\ related[n].created /\ related[n].uid = obj[n]
<1>1. CASE Create /\ n = cur
  <2>1. /\ new \in Related /\ uids + 1 \in Uid
    BY <1>1, ConstantsAssumption DEF Create, TypeOK, ClusterOK, WorkerOK, Uid
  <2>2. /\ new'[n] = [created |-> TRUE, uid |-> uids + 1] /\ obj'[n] = uids + 1
        /\ pc' = "templates"
    BY <1>1, <2>1 DEF Create, Handled, Related, TypeOK, ClusterOK
  <2>3. (pc \notin Cleanup \cup {"idle", "finalizer", "status", "create", "verify"})'
    BY <2>2 DEF Cleanup
  <2>4. Says(new, n)'
    BY <2>1, <2>2 DEF Says, Properties
  <2> QED
    BY <2>3, <2>4 DEF Remembered
<1> SUFFICES ASSUME Ours(n), obj'[n] = obj[n], ~(Create /\ n = cur) PROVE Remembered(n)'
  BY <1>1, OursStep
<1>2. obj[n] # 0 /\ n \notin terminating
  BY DEF Ours, Live
<1>3. /\ pc = "idle" => api = None \/ S(api.related)
      /\ pc \in {"finalizer", "status"} => S(policy.related)
      /\ pc \in Loop => S(new) \/ (S(policy.related) /\ Found(n))
      /\ pc = "create" => n # cur
      /\ pc \in Cleanup =>
            \/ ~final /\ S(new)
            \/ n \in todo /\ S(policy.related)
            \/ final /\ ~policy.spec.enforce /\ S(policy.related)
      /\ pc = "verify" => n # cur
  BY DEF OursRemembered, Remembered, Says
<1> DEFINE R == /\ pc' = "idle" => api' = None \/ S(api'.related)
                /\ pc' \in {"finalizer", "status"} => S(policy'.related)
                /\ pc' \in Loop => S(new') \/ (S(policy'.related) /\ Found(n)')
                /\ pc' = "create" => n # cur'
                /\ pc' \in Cleanup =>
                      \/ ~final' /\ S(new')
                      \/ n \in todo' /\ S(policy'.related)
                      \/ final' /\ ~(policy'.spec.enforce) /\ S(policy'.related)
                /\ pc' = "verify" => n # cur'
<1> SUFFICES R
  BY DEF Remembered, Says
<1>4. new \in Related /\ todo \subseteq Names
  BY DEF TypeOK, WorkerOK
<1>5. pc # "idle" => policy \in Policy /\ policy # None
  BY CopyType
<1>6. api # None => api \in Policy
  BY DEF TypeOK, ClusterOK
<1>7. Absent \notin Properties /\ NoProperties \notin Properties
  BY ConstantsAssumption
<1>36. ASSUME NEW names, Release(names), n \in names, mine' = mine PROVE FALSE
  BY <1>36 DEF Release, Ours
<1>8. CASE UNCHANGED worker
  <2>1. api' # None => api # None /\ (api'.related = api.related \/ UpdateStatus)
    BY ListsStep
  <2>2. ~UpdateStatus
    BY <1>8, <1>5 DEF worker, UpdateStatus, Return
  <2> QED
    BY <1>3, <1>8, <2>1, <2>2 DEF worker, locals, Found
<1>9. CASE ReconcileBegin
  BY <1>3, <1>9 DEF ReconcileBegin, Loop, Cleanup
<1>10. ASSUME Return, api' = None \/ S(api'.related) PROVE R
  BY <1>10 DEF Return, Loop, Cleanup
<1>11. CASE FinalizerUninstalling
  <2>1. pc = "finalizer" /\ Return
    BY <1>11 DEF FinalizerUninstalling
  <2>2. api' # None => api # None /\ api'.related = api.related
    BY <2>1, ListsStep DEF UpdateStatus
  <2>3. api # None => policy.related = api.related
    BY <1>5, <2>1 DEF CopyOK
  <2> QED
    BY <1>3, <1>10, <2>1, <2>2, <2>3
<1>12. ASSUME pc = "finalizer", NEW p \in Policy, Dispatch(p),
              p.related = policy.related,
              p.deleting /\ ~Prunes(p.spec) => api' = None \/ S(api'.related)
       PROVE  R
  <2> SUFFICES ASSUME ~(p.deleting /\ ~Prunes(p.spec)) PROVE R
    BY <1>10, <1>12 DEF Dispatch
  <2>1. /\ policy' = p /\ UNCHANGED new
        /\ pc' = IF p.deleting THEN "prune" ELSE "templates"
        /\ final' = p.deleting
        /\ p.deleting /\ p.spec.enforce => todo' = Listed(p.related)
    BY <1>12 DEF Dispatch
  <2>2. S(policy'.related)
    BY <1>3, <1>12, <2>1
  <2>3. new'[n] = Absent
    BY <1>12, <2>1, NothingSaid DEF CopyOK
  <2>4. p.deleting /\ p.spec.enforce => n \in todo'
    BY <1>7, <1>12, <2>1, <2>2 DEF Listed
  <2>5. p.deleting => n \in todo' \/ (final' /\ ~(policy'.spec.enforce))
    BY <2>1, <2>4
  <2> QED
    BY <1>12, <2>1, <2>2, <2>3, <2>5 DEF Found, Loop, Cleanup
<1>13. CASE FinalizerSet
  <2>1. pc = "finalizer" /\ api # None /\ api' = [api EXCEPT !.finalizer = TRUE] /\ Dispatch(api')
    BY <1>13 DEF FinalizerSet
  <2>2. api' \in Policy /\ api'.spec = api.spec /\ api'.related = api.related
    BY <1>6, <2>1 DEF Policy
  <2>3. policy.related = api.related
    BY <1>5, <2>1 DEF CopyOK
  <2> QED
    BY <1>3, <1>6, <1>12, <2>1, <2>2, <2>3
<1>14. CASE FinalizerKept
  <2>1. pc = "finalizer" /\ UNCHANGED api /\ Dispatch(policy)
    BY <1>14 DEF FinalizerKept
  <2>2. api # None => policy.related = api.related
    BY <1>5, <2>1 DEF CopyOK
  <2> QED
    BY <1>3, <1>5, <1>12, <2>1, <2>2
<1>15. CASE FinalizerRemoved
  <2> DEFINE p == [api EXCEPT !.finalizer = FALSE]
  <2>1. /\ pc = "finalizer" /\ api # None /\ api' = Released(api) /\ Dispatch(p)
    BY <1>15 DEF FinalizerRemoved
  <2>2. p \in Policy /\ p.related = api.related /\ (p.deleting => api' = None)
    BY <1>6, <2>1 DEF Policy, Released
  <2>3. policy.related = api.related
    BY <1>5, <2>1 DEF CopyOK
  <2> HIDE DEF p
  <2> QED
    BY <1>12, <2>1, <2>2, <2>3
<1>16. CASE FinalizerFails
  BY <1>10, <1>16 DEF FinalizerFails
<1> HIDE DEF R
<1>17. ASSUME NEW m \in Names, TemplateExists(m) PROVE R
  <2>1. /\ pc = "templates" /\ UNCHANGED <<api, pc, policy>> /\ m \in todo
        /\ \E e : new' = [new EXCEPT ![m] = e]
        /\ \/ new' = [new EXCEPT ![m] = [created |-> FALSE, uid |-> obj[m]]]
           \/ Release({m})
    BY <1>17 DEF TemplateExists, Handled
  <2>2. CASE m = n
    <3>0. new' = [new EXCEPT ![m] = [created |-> FALSE, uid |-> obj[m]]]
      BY <1>17, <1>36, <2>1, <2>2 DEF TemplateExists, objects
    <3>1. new[n] = Absent
      BY <2>1, <2>2 DEF Unhandled, Loop
    <3>2. S(policy'.related)
      BY <1>3, <1>7, <2>1, <3>1 DEF Loop
    <3>3. new'[n] = [created |-> FALSE, uid |-> obj[n]] /\ obj[n] \in Uid
      BY <1>2, <1>4, <2>2, <3>0, ConstantsAssumption DEF Related, TypeOK, ClusterOK, Uid
    <3>4. Found(n)'
      BY <3>3 DEF Found, Properties
    <3> QED
      BY <2>1, <3>2, <3>4 DEF R, Loop, Cleanup
  <2>3. CASE m # n
    <3>1. new'[n] = new[n]
      BY <1>4, <2>1, <2>3 DEF Related
    <3> QED
      BY <1>3, <2>1, <3>1 DEF R, Loop, Cleanup, Found
  <2> QED
    BY <2>2, <2>3
<1>18. ASSUME NEW m \in Names, TemplateMissing(m) PROVE R
  <2>1. /\ pc = "templates" /\ pc' = "create" /\ UNCHANGED <<api, policy, new>> /\ cur' = m
        /\ obj[m] = 0
    BY <1>18 DEF TemplateMissing, Fault, Lossless
  <2> QED
    BY <1>2, <1>3, <2>1 DEF R, Loop, Cleanup, Found
<1>37. ASSUME NEW m \in Names, TemplateInformed(m) PROVE R
  <2>1. /\ pc = "templates" /\ UNCHANGED <<pc, policy>> /\ obj[m] = 0
        /\ new' = [new EXCEPT ![m] = NoProperties]
    BY <1>37 DEF TemplateInformed, Handled
  <2>2. new'[n] = new[n]
    BY <1>2, <1>4, <2>1 DEF Related
  <2> QED
    BY <1>3, <2>1, <2>2 DEF R, Loop, Cleanup, Found
<1>38. ASSUME NEW m \in Names, TemplateUnwatchable(m) PROVE R
  BY <1>3, <1>38 DEF TemplateUnwatchable, R, Loop, Cleanup, Found
<1>19. CASE \E m \in Names : TemplateFails(m)
  BY <1>19 DEF TemplateFails, Fault, Lossless
<1>20. CASE Create \/ CreateFails \/ CreateInNoNamespace
  <2>1. /\ pc = "create" /\ pc' = "templates" /\ MayRefresh /\ n # cur
        /\ \E e : Handled(cur, e)
    BY <1>3, <1>20 DEF Create, CreateFails, CreateInNoNamespace
  <2>2. new'[n] = new[n]
    BY <1>4, <2>1 DEF Handled, Related
  <2>3. policy'.related = policy.related
    BY <1>5, <1>6, <2>1 DEF MayRefresh, Policy
  <2> QED
    BY <1>3, <2>1, <2>2, <2>3 DEF R, Loop, Cleanup, Found
<1>21. CASE LoopDone
  <2>1. /\ pc = "templates" /\ pc' = "prune" /\ UNCHANGED <<api, policy>> /\ final' = final
        /\ new' = Updated(new, policy.related)
        /\ \/ todo' = Listed(policy.related) \ Listed(new)
           \/ Release(Listed(policy.related) \ Listed(new)) /\ mine' = mine
    BY <1>21 DEF LoopDone, CopyOK, objects
  <2>2. final = FALSE
    BY <2>1 DEF TypeOK, WorkerOK
  <2>3. CASE S(new) \/ (S(policy.related) /\ new[n] # Absent)
    <3>1. S(new')
      BY <1>3, <2>1, <2>3 DEF Updated, Found, Loop
    <3> QED
      BY <2>1, <2>2, <3>1 DEF R, Loop, Cleanup
  <2>4. CASE S(policy.related) /\ new[n] = Absent
    <3>1. n \in Listed(policy.related) \ Listed(new)
      BY <1>7, <2>4 DEF Listed
    <3>2. n \in todo'
      BY <1>36, <2>1, <3>1
    <3> QED
      BY <2>1, <2>4, <3>2 DEF R, Loop, Cleanup
  <2> QED
    BY <1>3, <2>1, <2>3, <2>4 DEF Loop
<1>22. S(policy.related) /\ n \in todo /\ pc \in Cleanup => NeedsDelete(n)
  <2>1. pc \in Cleanup => pc # "idle"
    BY DEF Cleanup
  <2>2. pc \in Cleanup /\ n \in todo => Prunes(policy.spec)
    BY DEF CopyOK
  <2> QED
    BY <1>5, <2>1, <2>2, ConstantsAssumption
    DEF NeedsDelete, Prunes, Policy, PolicySpec, Behavior
<1>23. ASSUME UNCHANGED <<new, policy, final>>, pc \in Cleanup, pc' \in Cleanup,
              n \in todo /\ S(policy.related) => n \in todo',
              pc' = "verify" => n # cur'
       PROVE  R
  BY <1>3, <1>23 DEF R, Loop, Cleanup
<1>24. ASSUME NEW m \in Names, PruneNothing(m) PROVE R
  BY <1>2, <1>22, <1>23, <1>24 DEF PruneNothing, Cleanup
<1>25. ASSUME NEW m \in Names, PruneFails(m) PROVE R
  BY <1>2, <1>23, <1>25 DEF PruneFails, Fault, Lossless, Cleanup
<1>26. ASSUME NEW m \in Names, PruneChecked(m) PROVE R
  BY <1>23, <1>26 DEF PruneChecked, Cleanup
<1>27. CASE Delete
  <2>1. pc = "delete" /\ pc' = "verify" /\ UNCHANGED <<policy, locals>>
        /\ (obj' = [obj EXCEPT ![cur] = 0] \/ terminating' = terminating \cup {cur})
    BY <1>27 DEF Delete
  <2>2. obj'[n] # 0 /\ n \notin terminating' /\ obj \in [Names -> 0 .. MaxUid]
    BY DEF Ours, Live, TypeOK, ClusterOK
  <2>3. n # cur
    BY <2>1, <2>2
  <2> QED
    BY <1>23, <2>1, <2>3 DEF locals, Cleanup
<1>28. CASE DeleteFails \/ Crash
  BY <1>28 DEF DeleteFails, Crash, Fault, Lossless
<1>29. CASE Verify
  BY <1>3, <1>23, <1>29 DEF Verify, Cleanup
<1>30. CASE PruneDone
  <2>1. /\ pc = "prune" /\ pc' = "status" /\ todo = {} /\ ~final
        /\ policy' = [policy EXCEPT !.related = new]
    BY <1>30 DEF PruneDone
  <2>2. S(new) /\ policy'.related = new
    BY <1>3, <1>5, <2>1 DEF Cleanup, Policy
  <2> QED
    BY <2>1, <2>2 DEF R, Loop, Cleanup
<1>31. CASE UpdateStatus
  <2>1. /\ pc = "status" /\ Return
        /\ api' = IF api = None THEN None ELSE [api EXCEPT !.related = policy.related]
    BY <1>31 DEF UpdateStatus, Fault, Lossless
  <2>2. api' # None => api'.related = policy.related
    BY <1>6, <2>1 DEF Policy
  <2> QED
    BY <1>3, <1>10, <2>1, <2>2
<1>32. CASE DeletionDone
  <2>1. /\ pc = "prune" /\ todo = {} /\ final /\ Return
        /\ api' = IF failures \/ api = None THEN api ELSE Released(api)
    BY <1>32 DEF DeletionDone
  <2>2. S(policy.related)
    BY <1>3, <2>1 DEF Cleanup
  <2>3. api # None => policy.related = api.related
    BY <1>5, <2>1 DEF CopyOK
  <2>4. api' # None => api # None /\ api'.related = api.related
    BY <1>6, <2>1 DEF Released, Policy
  <2> QED
    BY <1>10, <2>1, <2>2, <2>3, <2>4
<1>33. CASE Edit \/ DeletePolicy \/ Uninstall \/ UNCHANGED vars
            \/ \E m \in Names : UserCreates(m) \/ ObjectGone(m)
  BY <1>8, <1>33, Zenon DEF Edit, DeletePolicy, Uninstall, vars, UserCreates, ObjectGone
<1> HIDE DEF S
<1>34. CASE Environment \/ ReconcileBegin \/ UNCHANGED vars
  BY <1>9, <1>28, <1>33, <1>34, Zenon DEF Environment
<1>35. CASE Evaluate
  BY <1>11, <1>13, <1>14, <1>15, <1>16, <1>17, <1>18, <1>19, <1>20, <1>21, <1>24, <1>25, <1>26,
     <1>27, <1>28, <1>29, <1>30, <1>31, <1>32, <1>35, <1>37, <1>38, Zenon DEF Evaluate
<1> QED
  BY <1>34, <1>35, Zenon DEF Next

\* MemoryOK is inductive while nothing is lost.
LEMMA MemoryStep == Lossless /\ TypeOK /\ MemoryOK /\ [Next]_vars => MemoryOK'
  BY UidsStep, CopyStep, UnhandledStep, HeldStep, RememberedStep, ReportedStep DEF MemoryOK

\* From the initial state on nothing is forgotten.
LEMMA MemoryKept == Lossless => (Spec => []MemoryOK)
<1> SUFFICES ASSUME Lossless PROVE Spec => []MemoryOK
  OBVIOUS
<1>1. Init => MemoryOK
  <2> SUFFICES ASSUME Init PROVE MemoryOK
    OBVIOUS
  <2>1. api # None /\ api.related = NoRelated
    BY ConstantsAssumption DEF Init, Policy, NoRelated, Related, Entry
  <2>2. UidsOK
    BY <2>1, NothingSaid DEF Init, UidsOK, KnownUids
  <2>3. CopyOK /\ Unhandled
    BY DEF Init, CopyOK, Unhandled, Loop, Cleanup
  <2>4. \A n \in Names : ~Ours(n)
    BY DEF Init, Ours
  <2> QED
    BY <2>1, <2>2, <2>3, <2>4
    DEF MemoryOK, NothingLeftBehind, OursRemembered, CreatedIsReported
<1>2. TypeOK /\ MemoryOK /\ [Next]_vars => MemoryOK'
  BY MemoryStep
<1> QED
  BY <1>1, <1>2, TypeCorrect, PTL DEF Spec

\* The promise of pruneObjectBehavior: as long as no call fails in a way that loses an
\* entry and the process does not end, a policy that is gone leaves no object it created,
\* however users edit and delete it and replace its objects meanwhile, but for what it
\* released while it informed or did not prune.
THEOREM NothingLeft == Lossless /\ Spec => []NothingLeftBehind
<1>1. MemoryOK => NothingLeftBehind
  BY DEF MemoryOK
<1> QED
  BY <1>1, MemoryKept, PTL

\* Under the same hypothesis createdByPolicy is true in the status of every object that
\* the policy created and did not release: updatedRelatedObjects keeps it, through all
\* evaluations that find the object.
THEOREM CreationReported == Lossless /\ Spec => []CreatedIsReported
<1>1. MemoryOK => CreatedIsReported
  BY DEF MemoryOK
<1> QED
  BY <1>1, MemoryKept, PTL
-----------------------------------------------------------------------------
(* The uninstall: module TriggerUninstall, whose api, pc and todo have the *)
(* names policies, pcs and todos here.                                         *)

CONSTANTS NumNamespaces, Namespace, MaxDisturbances
VARIABLES deployment, deploymentSeen, seen, marked, behind, queued, pcs, plc, ns,
          todos, cleanedUp, touched, disturbances

T == INSTANCE TriggerUninstall WITH pc <- pcs, todo <- todos

(* Lists of finalizers *)

\* The position of an element that is in the list.
LEMMA PositionIn ==
    ASSUME NEW S, NEW s \in Seq(S), NEW e, T!Contains(s, e)
    PROVE  T!Position(s, e) \in 1 .. Len(s) /\ s[T!Position(s, e)] = e
  BY DEF T!Contains, T!Position

\* A JSON patch that removes an element removes nothing else and adds nothing.
LEMMA RemoveAtKeeps ==
    ASSUME NEW S, NEW s \in Seq(S), NEW i \in 1 .. Len(s)
    PROVE  /\ T!RemoveAt(s, i) \in Seq(S)
           /\ \A e : T!Contains(T!RemoveAt(s, i), e) => T!Contains(s, e)
<1> DEFINE a == SubSeq(s, 1, i - 1)
           b == SubSeq(s, i + 1, Len(s))
<1>1. /\ a \in Seq(S) /\ Len(a) = i - 1
      /\ \A k \in 1 .. i - 1 : a[k] = s[k]
  OBVIOUS
<1>2. /\ b \in Seq(S) /\ Len(b) = Len(s) - i
      /\ \A k \in 1 .. Len(s) - i : b[k] = s[i + k]
  OBVIOUS
<1> HIDE DEF a, b
<1>3. /\ a \o b \in Seq(S) /\ Len(a \o b) = Len(a) + Len(b)
      /\ \A k \in 1 .. Len(a) + Len(b) :
            (a \o b)[k] = IF k <= Len(a) THEN a[k] ELSE b[k - Len(a)]
  BY <1>1, <1>2, ConcatProperties
<1>4. ASSUME NEW k \in 1 .. Len(a \o b)
      PROVE  \E j \in 1 .. Len(s) : (a \o b)[k] = s[j]
  <2>1. k \in Nat /\ 1 <= k /\ k <= Len(s) - 1
    BY <1>1, <1>2, <1>3
  <2>2. CASE k <= i - 1
    BY <1>1, <1>2, <1>3, <2>1, <2>2
  <2>3. CASE k > i - 1
    <3>1. k - (i - 1) \in 1 .. Len(s) - i /\ (a \o b)[k] = b[k - (i - 1)]
      BY <1>1, <1>2, <1>3, <2>1, <2>3
    <3>2. (a \o b)[k] = s[k + 1]
      BY <1>2, <2>1, <3>1
    <3> QED
      BY <2>1, <3>2
  <2> QED
    BY <2>1, <2>2, <2>3
<1> QED
  BY <1>3, <1>4 DEF T!RemoveAt, T!Contains, a, b

LEMMA AppendAdds ==
    ASSUME NEW S, NEW s \in Seq(S), NEW e \in S
    PROVE  /\ Append(s, e) \in Seq(S)
           /\ \A d : T!Contains(Append(s, e), d) => T!Contains(s, d) \/ d = e
  BY DEF T!Contains

-----------------------------------------------------------------------------
(* The types the argument needs *)

PoliciesTyped ==
    /\ policies \in [Policies -> T!Policy] /\ seen \in [Policies -> T!Policy]
    /\ pcs \in [Policies -> {"idle", "manage"}]
    /\ plc \in [Policies -> T!Policy \cup {None}]
    /\ \A p \in Policies : pcs[p] = "manage" => plc[p] \in T!Policy
    /\ ns \in 1 .. NumNamespaces

LEMMA NewFins ==
    ASSUME NEW r \in T!Policy, NEW f \in Seq({T!Own, T!Foreign})
    PROVE  [r EXCEPT !.fins = f] \in T!Policy /\ [r EXCEPT !.fins = f].fins = f
  BY DEF T!Policy

\* What an evaluation's patch makes of the finalizers: a list of finalizers,
\* with the controller's own one only if it was there or the patch adds it.
LEMMA PatchedFins ==
    ASSUME PoliciesTyped, NEW p \in Policies, pcs[p] = "manage",
           T!Decision(p) # "none", ~T!PatchFails(p)
    PROVE  /\ T!Patched(p) \in Seq({T!Own, T!Foreign})
           /\ T!Contains(T!Patched(p), T!Own) => T!HasOwn(policies[p]) \/ T!Decision(p) = "add"
<1>1. plc[p] \in T!Policy /\ plc[p].fins \in Seq({T!Own, T!Foreign})
  BY DEF PoliciesTyped, T!Policy
<1>2. policies[p].fins \in Seq({T!Own, T!Foreign})
  BY DEF PoliciesTyped, T!Policy
<1>3. T!Decision(p) \in {"none", "add", "remove"}
  BY Zenon DEF T!Decision
<1>4. CASE T!Decision(p) = "remove"
  <2>1. T!HasOwn(plc[p])
    BY <1>4 DEF T!Decision
  <2>2. T!OwnIndex(p) \in 1 .. Len(plc[p].fins)
    BY <1>1, <2>1, PositionIn DEF T!HasOwn, T!Contains, T!OwnIndex
  <2>3. T!OwnIndex(p) \in 1 .. Len(policies[p].fins)
    BY <1>1, <1>2, <1>4, <2>2 DEF T!PatchFails
  <2>4. T!Patched(p) = T!RemoveAt(policies[p].fins, T!OwnIndex(p))
    BY <1>4 DEF T!Patched
  <2> QED
    <3>1. T!Contains(policies[p].fins, T!Own) => T!HasOwn(policies[p])
      BY DEF T!HasOwn, T!Contains
    <3> QED
      BY <1>2, <2>3, <2>4, <3>1, RemoveAtKeeps
<1>5. CASE T!Decision(p) = "add"
  <2>1. T!Patched(p) = <<T!Own>> \/ T!Patched(p) = Append(policies[p].fins, T!Own)
    BY <1>5, Zenon DEF T!Patched
  <2>2. <<T!Own>> \in Seq({T!Own, T!Foreign})
    OBVIOUS
  <2> QED
    BY <1>2, <1>5, <2>1, <2>2, AppendAdds
<1> QED
  BY <1>3, <1>4, <1>5

\* What any step does to the policies and to the history of late finalizers.
ApiStep ==
    /\ policies' \in [Policies -> T!Policy]
    /\ slipped \subseteq slipped'
    /\ \A p \in Policies : T!HasOwn(policies'[p]) =>
          T!HasOwn(policies[p]) \/ p \in slipped' \/ ~deployment

LEMMA ApiSteps == PoliciesTyped /\ [T!Next]_(T!vars) => ApiStep
<1> SUFFICES ASSUME PoliciesTyped, [T!Next]_(T!vars) PROVE ApiStep
  OBVIOUS
<1>0. ASSUME UNCHANGED <<policies, slipped>> PROVE ApiStep
  BY <1>0 DEF PoliciesTyped, ApiStep
<1>1. ASSUME NEW p \in Policies, T!Edit(p) PROVE ApiStep
  <2>1. PICK prune \in BOOLEAN, health \in T!Health :
           policies' = [policies EXCEPT ![p] = [policies[p] EXCEPT !.prune = prune, !.health = health]]
    BY <1>1 DEF T!Edit, T!Write
  <2>2. [policies[p] EXCEPT !.prune = prune, !.health = health] \in T!Policy
    BY ZenonT(60) DEF PoliciesTyped, T!Policy
  <2>3. [policies[p] EXCEPT !.prune = prune, !.health = health].fins = policies[p].fins
    BY DEF PoliciesTyped, T!Policy
  <2> QED
    BY <1>1, <2>1, <2>2, <2>3 DEF T!Edit, PoliciesTyped, ApiStep, T!HasOwn
<1>2. ASSUME NEW p \in Policies, T!OtherController(p) PROVE ApiStep
  <2> DEFINE had == policies[p].fins
             has == IF T!Contains(had, T!Foreign) THEN T!RemoveAt(had, T!Position(had, T!Foreign))
                    ELSE Append(had, T!Foreign)
  <2>1. policies' = [policies EXCEPT ![p] = [policies[p] EXCEPT !.fins = has]] /\ slipped' = slipped
    BY <1>2, Zenon DEF T!OtherController, T!Write
  <2>2. had \in Seq({T!Own, T!Foreign}) /\ T!Own # T!Foreign
    BY DEF PoliciesTyped, T!Policy, T!Own, T!Foreign
  <2>3. has \in Seq({T!Own, T!Foreign}) /\ (T!Contains(has, T!Own) => T!Contains(had, T!Own))
    <3>1. CASE T!Contains(had, T!Foreign)
      BY <2>2, <3>1, PositionIn, RemoveAtKeeps
    <3>2. CASE ~T!Contains(had, T!Foreign)
      BY <2>2, <3>2, AppendAdds
    <3> QED
      BY <3>1, <3>2
  <2> HIDE DEF has
  <2>4. [policies[p] EXCEPT !.fins = has] \in T!Policy /\ [policies[p] EXCEPT !.fins = has].fins = has
    BY <2>3, NewFins DEF PoliciesTyped
  <2> QED
    BY <2>1, <2>3, <2>4 DEF PoliciesTyped, ApiStep, T!HasOwn, T!Contains
<1>3. ASSUME NEW p \in Policies, T!ManageDeletionFinalizer(p) PROVE ApiStep
  <2>1. CASE UNCHANGED <<policies, slipped>>
    BY <1>0, <2>1
  <2>2. CASE /\ T!Decision(p) # "none" /\ ~T!PatchFails(p)
             /\ policies' = [policies EXCEPT ![p] = [policies[p] EXCEPT !.fins = T!Patched(p)]]
             /\ slipped' = IF T!Decision(p) = "add" /\ deployment
                           THEN slipped \cup {p} ELSE slipped
    <3>1. /\ T!Patched(p) \in Seq({T!Own, T!Foreign})
          /\ T!Contains(T!Patched(p), T!Own) => T!HasOwn(policies[p]) \/ T!Decision(p) = "add"
      BY <1>3, <2>2, PatchedFins DEF T!ManageDeletionFinalizer
    <3>2. /\ [policies[p] EXCEPT !.fins = T!Patched(p)] \in T!Policy
          /\ [policies[p] EXCEPT !.fins = T!Patched(p)].fins = T!Patched(p)
      BY <3>1, NewFins DEF PoliciesTyped
    <3>3. /\ slipped \subseteq slipped'
          /\ T!Decision(p) = "add" => p \in slipped' \/ ~deployment
      BY <2>2
    <3> QED
      BY <2>2, <3>1, <3>2, <3>3 DEF PoliciesTyped, ApiStep, T!HasOwn, T!Contains
  <2> QED
    BY <1>3, <2>1, <2>2, Zenon DEF T!ManageDeletionFinalizer, T!Write
<1>4. ASSUME NEW p \in Policies, T!PolicyDelivers(p) \/ T!Requeue(p) \/ T!ReconcileBegin(p)
      PROVE  UNCHANGED <<policies, slipped>>
  BY <1>4, Zenon DEF T!PolicyDelivers, T!Requeue, T!ReconcileBegin
<1>5. CASE T!DeploymentDelivers \/ T!Crash \/ T!Trigger \/ T!Expire \/ UNCHANGED T!vars
  <2>1. UNCHANGED <<policies, slipped>>
    BY <1>5, Zenon DEF T!DeploymentDelivers, T!Crash, T!Trigger, T!Expire, T!vars,
       T!AnnotateDeployment,
       T!ListPolicies, T!MarkPolicy, T!NextNamespace, T!controller
  <2> QED
    BY <1>0, <2>1
<1> QED
  BY <1>0, <1>1, <1>2, <1>3, <1>4, <1>5, Zenon DEF T!Next, T!Evaluate

LEMMA PoliciesTypedStep == T!WellFormed /\ PoliciesTyped /\ [T!Next]_(T!vars) => PoliciesTyped'
<1> SUFFICES ASSUME T!WellFormed, PoliciesTyped, [T!Next]_(T!vars) PROVE PoliciesTyped'
  OBVIOUS
<1>1. policies' \in [Policies -> T!Policy]
  BY ApiSteps DEF ApiStep
<1> DEFINE Rest == /\ seen' \in [Policies -> T!Policy]
                   /\ pcs' \in [Policies -> {"idle", "manage"}]
                   /\ plc' \in [Policies -> T!Policy \cup {None}]
                   /\ \A p \in Policies : pcs'[p] = "manage" => plc'[p] \in T!Policy
                   /\ ns' \in 1 .. NumNamespaces
<1>2. CASE UNCHANGED <<seen, pcs, plc, ns>>
  BY <1>1, <1>2 DEF PoliciesTyped
<1>3. ASSUME NEW p \in Policies,
             T!Edit(p) \/ T!OtherController(p) \/ T!Requeue(p)
      PROVE  UNCHANGED <<seen, pcs, plc, ns>>
  BY <1>3, Zenon DEF T!Edit, T!OtherController, T!Requeue, T!caches, T!worker, T!trigger
<1>4. ASSUME NEW p \in Policies, T!PolicyDelivers(p) PROVE Rest
  BY <1>4 DEF T!PolicyDelivers, PoliciesTyped, T!worker, T!trigger
<1>5. ASSUME NEW p \in Policies, T!ReconcileBegin(p) PROVE Rest
  BY <1>5 DEF T!ReconcileBegin, T!ReturnErr, T!Return, PoliciesTyped, T!caches, T!trigger
<1>6. ASSUME NEW p \in Policies, T!ManageDeletionFinalizer(p) PROVE Rest
  <2>1. T!Return(p) /\ UNCHANGED <<seen, ns>>
    BY <1>6, Zenon DEF T!ManageDeletionFinalizer, T!ReturnErr, T!trigger
  <2> QED
    BY <2>1 DEF T!Return, PoliciesTyped
<1>7. CASE T!DeploymentDelivers \/ T!AnnotateDeployment \/ T!ListPolicies \/ T!Expire
           \/ (\E p \in Policies : T!MarkPolicy(p)) \/ UNCHANGED T!vars
  <2>1. UNCHANGED <<seen, pcs, plc, ns>>
    BY <1>7, Zenon DEF T!DeploymentDelivers, T!AnnotateDeployment, T!ListPolicies, T!Expire,
       T!MarkPolicy,
       T!vars, T!controller, T!caches, T!worker, T!trigger
  <2> QED
    BY <1>2, <2>1
<1>8. CASE T!Crash
  BY <1>8, <1>1 DEF T!Crash, PoliciesTyped, T!trigger
<1>9. CASE T!NextNamespace
  BY <1>9, <1>1 DEF T!WellFormed, T!NextNamespace, PoliciesTyped, T!controller, T!caches, T!worker
<1> HIDE DEF Rest
<1>10. CASE \E p \in Policies : T!Edit(p) \/ T!OtherController(p) \/ T!PolicyDelivers(p)
                                \/ T!Requeue(p)
                                \/ T!Evaluate(p)
  <2>1. UNCHANGED <<seen, pcs, plc, ns>> \/ Rest
    BY <1>10, <1>3, <1>4, <1>5, <1>6, Zenon DEF T!Evaluate
  <2> QED
    BY <1>1, <1>2, <2>1 DEF Rest, PoliciesTyped
<1> QED
  BY <1>7, <1>8, <1>9, <1>10, Zenon DEF T!Next, T!Trigger

-----------------------------------------------------------------------------
(* What the trigger knows while its loop goes through the namespaces *)

\* The namespaces up to the trigger's, this one too once its policies were listed.
ListedSoFar(p) == Namespace[p] < ns \/ (Namespace[p] = ns /\ tpc # "check")

\* The loop runs only when the Deployment is annotated.
LoopAnnotated == tpc \notin {"annotate", "failed"} => deployment

\* As long as no list of this round had a policy with finalizers, the policies
\* listed so far still have no finalizer, but for the late ones.
CleanSoFar ==
    cleanedUp /\ tpc \in {"check", "mark", "done"} =>
        \A p \in Policies : ListedSoFar(p) /\ T!HasOwn(policies[p]) => p \in slipped

RoundFinished == tpc = "done" => ns = NumNamespaces /\ cleanedUp

RoundStarted == tpc = "annotate" => ns = 1

TriggerInv == PoliciesTyped /\ LoopAnnotated /\ CleanSoFar /\ RoundFinished /\ RoundStarted

LEMMA TriggerInit == T!WellFormed /\ T!Init => TriggerInv
<1> SUFFICES ASSUME T!WellFormed, T!Init PROVE TriggerInv
  OBVIOUS
<1>1. [fins |-> <<>>, prune |-> TRUE, health |-> "ok"] \in T!Policy
  BY DEF T!Policy, T!Health
<1>2. PoliciesTyped
  BY <1>1 DEF T!WellFormed, T!Init, PoliciesTyped
<1>3. \A p \in Policies : ~ListedSoFar(p) \/ ~T!HasOwn(policies[p])
  BY DEF T!Init, T!HasOwn, T!Contains
<1> QED
  BY <1>2, <1>3 DEF T!Init, TriggerInv, LoopAnnotated, CleanSoFar, RoundFinished, RoundStarted

\* Steps that leave the trigger alone.
LEMMA TriggerAlone ==
    ASSUME TriggerInv, ApiStep, PoliciesTyped', UNCHANGED <<tpc, ns, cleanedUp, deployment>>
    PROVE  TriggerInv'
<1>1. LoopAnnotated' /\ RoundFinished' /\ RoundStarted'
  BY Zenon DEF TriggerInv, LoopAnnotated, RoundFinished, RoundStarted
<1>2. CleanSoFar'
  <2>1. SUFFICES ASSUME cleanedUp, tpc \in {"check", "mark", "done"},
                        NEW p \in Policies, ListedSoFar(p), T!HasOwn(policies'[p])
                 PROVE  p \in slipped'
    BY Zenon DEF CleanSoFar, ListedSoFar, T!HasOwn
  <2>2. deployment
    BY <2>1 DEF TriggerInv, LoopAnnotated
  <2>3. T!HasOwn(policies[p]) \/ p \in slipped'
    BY <2>1, <2>2 DEF ApiStep
  <2> QED
    BY <2>1, <2>3 DEF TriggerInv, CleanSoFar, ApiStep
<1> QED
  BY <1>1, <1>2 DEF TriggerInv

LEMMA TriggerStep == T!WellFormed /\ TriggerInv /\ [T!Next]_(T!vars) => TriggerInv'
<1> SUFFICES ASSUME T!WellFormed, TriggerInv, [T!Next]_(T!vars) PROVE TriggerInv'
  OBVIOUS
<1>0. ApiStep /\ PoliciesTyped'
  BY ApiSteps, PoliciesTypedStep DEF TriggerInv
<1>1. ASSUME NEW p \in Policies,
             T!Edit(p) \/ T!OtherController(p) \/ T!PolicyDelivers(p) \/ T!Requeue(p)
          \/ T!Evaluate(p)
      PROVE  UNCHANGED <<tpc, ns, cleanedUp, deployment>>
  BY <1>1, Zenon DEF T!Edit, T!OtherController, T!PolicyDelivers, T!Requeue, T!Evaluate,
     T!ReconcileBegin,
     T!ManageDeletionFinalizer, T!trigger
<1>2. CASE T!DeploymentDelivers \/ T!Crash \/ UNCHANGED T!vars
  <2>1. UNCHANGED <<tpc, ns, cleanedUp, deployment>>
    BY <1>2, Zenon DEF T!DeploymentDelivers, T!Crash, T!vars, T!trigger
  <2> QED
    BY <1>0, <2>1, TriggerAlone
<1>3. CASE tpc' \in {"annotate", "failed"} /\ ns' = ns /\ (tpc' = tpc \/ tpc' = "failed")
  BY <1>0, <1>3 DEF TriggerInv, LoopAnnotated, CleanSoFar, RoundFinished, RoundStarted
<1>4. CASE T!AnnotateDeployment
  <2>1. CASE tpc' = "check"
    <3>1. deployment' /\ ns' = 1
      BY <1>4, <2>1 DEF T!AnnotateDeployment, TriggerInv, RoundStarted
    <3>2. \A p \in Policies : ~ListedSoFar(p)'
      BY <2>1, <3>1 DEF T!WellFormed, ListedSoFar
    <3> QED
      BY <1>0, <2>1, <3>1, <3>2 DEF TriggerInv, LoopAnnotated, CleanSoFar, RoundFinished,
         RoundStarted
  <2>2. CASE tpc' \in {"annotate", "failed"}
    BY <1>3, <1>4, <2>2 DEF T!AnnotateDeployment
  <2> QED
    BY <1>4, <2>1, <2>2, Zenon DEF T!AnnotateDeployment
<1>5. CASE T!ListPolicies
  <2>1. CASE tpc' = "failed"
    BY <1>3, <1>5, <2>1 DEF T!ListPolicies
  <2>2. CASE tpc' = "mark"
    <3>1. /\ tpc = "check" /\ ns' = ns /\ policies' = policies /\ slipped' = slipped
          /\ deployment' = deployment
          /\ todos' = {p \in Policies : Namespace[p] = ns /\ policies[p].fins # <<>>}
          /\ cleanedUp' => cleanedUp /\ todos' = {}
      BY <1>5, <2>2, Zenon DEF T!ListPolicies, T!controller
    <3>2. CleanSoFar'
      <4>1. SUFFICES ASSUME cleanedUp', NEW p \in Policies, ListedSoFar(p)', T!HasOwn(policies[p])
                     PROVE  p \in slipped
        BY <3>1, Zenon DEF CleanSoFar, ListedSoFar, T!HasOwn
      <4>2. policies[p].fins # <<>>
        BY <4>1 DEF T!HasOwn, T!Contains
      <4>3. Namespace[p] # ns
        BY <3>1, <4>1, <4>2
      <4>4. ListedSoFar(p)
        BY <3>1, <4>1, <4>3 DEF ListedSoFar
      <4> QED
        BY <3>1, <4>1, <4>4 DEF TriggerInv, CleanSoFar
    <3>3. LoopAnnotated' /\ RoundFinished' /\ RoundStarted'
      BY <2>2, <3>1 DEF TriggerInv, LoopAnnotated, RoundFinished, RoundStarted
    <3> QED
      BY <1>0, <3>2, <3>3 DEF TriggerInv
  <2> QED
    BY <1>5, <2>1, <2>2, Zenon DEF T!ListPolicies
<1>6. ASSUME NEW p \in Policies, T!MarkPolicy(p) PROVE TriggerInv'
  <2>1. CASE tpc' = "failed"
    BY <1>3, <1>6, <2>1 DEF T!MarkPolicy
  <2>2. CASE tpc' = tpc
    BY <1>0, <1>6, <2>2, TriggerAlone DEF T!MarkPolicy
  <2> QED
    BY <1>6, <2>1, <2>2, Zenon DEF T!MarkPolicy
<1>7. CASE T!NextNamespace
  <2>1. /\ tpc = "mark" /\ policies' = policies /\ slipped' = slipped /\ deployment' = deployment
    BY <1>7, Zenon DEF T!NextNamespace, T!controller
  <2>2. deployment
    BY <2>1 DEF TriggerInv, LoopAnnotated
  <2>3. CASE ns < NumNamespaces /\ ns' = ns + 1 /\ tpc' = "check" /\ UNCHANGED cleanedUp
    <3>1. \A p \in Policies : ListedSoFar(p)' => ListedSoFar(p)
      BY <2>1, <2>3 DEF T!WellFormed, ListedSoFar, TriggerInv, PoliciesTyped
    <3>2. CleanSoFar'
      BY <2>1, <2>3, <3>1, Zenon DEF TriggerInv, CleanSoFar, T!HasOwn
    <3> QED
      BY <1>0, <2>1, <2>2, <2>3, <3>2 DEF TriggerInv, LoopAnnotated, RoundFinished, RoundStarted
  <2>4. CASE ns = NumNamespaces /\ cleanedUp /\ tpc' = "done" /\ UNCHANGED <<ns, cleanedUp>>
    <3>1. \A p \in Policies : ListedSoFar(p)' => ListedSoFar(p)
      BY <2>1, <2>4 DEF ListedSoFar
    <3>2. CleanSoFar'
      BY <2>1, <2>4, <3>1, Zenon DEF TriggerInv, CleanSoFar, T!HasOwn
    <3>3. LoopAnnotated' /\ RoundFinished' /\ RoundStarted'
      BY <2>1, <2>2, <2>4 DEF LoopAnnotated, RoundFinished, RoundStarted
    <3> QED
      BY <1>0, <3>2, <3>3 DEF TriggerInv
  <2>5. CASE ns' = 1 /\ tpc' = "check"
    <3>1. \A p \in Policies : ~ListedSoFar(p)'
      BY <2>5 DEF T!WellFormed, ListedSoFar
    <3> QED
      BY <1>0, <2>1, <2>2, <2>5, <3>1 DEF TriggerInv, LoopAnnotated, CleanSoFar, RoundFinished,
         RoundStarted
  <2> QED
    BY <1>7, <2>3, <2>4, <2>5, Zenon DEF T!NextNamespace
<1>8. CASE T!Expire
  BY <1>3, <1>8 DEF T!Expire
<1>9. CASE \E p \in Policies : T!Edit(p) \/ T!OtherController(p) \/ T!PolicyDelivers(p)
                               \/ T!Requeue(p)
                               \/ T!Evaluate(p)
  <2>1. UNCHANGED <<tpc, ns, cleanedUp, deployment>>
    BY <1>1, <1>9, Zenon
  <2> QED
    BY <1>0, <2>1, TriggerAlone
<1> QED
  BY <1>2, <1>4, <1>5, <1>6, <1>7, <1>8, <1>9, Zenon DEF T!Next, T!Trigger

-----------------------------------------------------------------------------
(* The theorem *)

\* DoneMeansClean for any set of policies, any number of namespaces and of
\* disturbances: when TriggerUninstall returns without an error, no policy has
\* the controller's finalizer, but for the ones that got it from an evaluation
\* that had not seen the Deployment's annotation.
THEOREM DoneClean ==
    ASSUME T!WellFormed
    PROVE  T!Spec => []DoneMeansClean
<1>1. TriggerInv => DoneMeansClean
  <2>1. SUFFICES ASSUME TriggerInv, tpc = "done", NEW p \in Policies, T!HasOwn(policies[p])
                 PROVE  p \in slipped
    BY DEF DoneMeansClean, HasOwn, Own, T!HasOwn, T!Own
  <2>2. ns = NumNamespaces /\ cleanedUp
    BY <2>1 DEF TriggerInv, RoundFinished
  <2>3. ListedSoFar(p)
    BY <2>1, <2>2 DEF T!WellFormed, ListedSoFar
  <2> QED
    BY <2>1, <2>2, <2>3 DEF TriggerInv, CleanSoFar
<1>2. T!Init => TriggerInv
  BY TriggerInit
<1>3. TriggerInv /\ [T!Next]_(T!vars) => TriggerInv'
  BY TriggerStep
<1> QED
  BY <1>1, <1>2, <1>3, PTL DEF T!Spec
=============================================================================
