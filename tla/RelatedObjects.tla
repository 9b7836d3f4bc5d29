--------------------------- MODULE RelatedObjects ---------------------------
(***************************************************************************)
(* Which objects a ConfigurationPolicy created, how status.relatedObjects  *)
(* remembers it, and what is pruned when a template or the policy goes     *)
(* away: manageDeletionFinalizer, handleDeletion, the creation of missing  *)
(* objects, updatedRelatedObjects and cleanUpChildObjects.                 *)
(*                                                                         *)
(* One policy with named musthave templates, one per object.  An object on *)
(* the cluster is its UID, 0 when it does not exist.  The policy is read   *)
(* fresh from the API server at the start of an evaluation, which is what  *)
(* lastEvaluatedCache is for (module PolicyStatus); between its steps the  *)
(* users change the policy and the objects.  The order of the templates is *)
(* left open.                                                              *)
(***************************************************************************)
EXTENDS Naturals, FiniteSets

CONSTANTS
    Names,       \* the objects
    Specs,       \* the specs the policy is given
    Faults,      \* which failures a run allows
    MaxUid,      \* bound: objects created during a behaviour, by anyone
    MaxEdits,    \* bound: edits of the spec
    MaxFaults,   \* bound: failures
    None, Absent, NoProperties

FaultKind == {"templateError", "unwatchable", "getFail", "createFail", "namespaceGone",
              "deleteFail", "statusFail", "crash", "hang", "uninstall"}
Behavior == {"None", "DeleteIfCreated", "DeleteAll"}
PolicySpec == [objs : SUBSET Names, enforce : BOOLEAN, prune : Behavior]
Uid == 1 .. MaxUid

\* An entry of status.relatedObjects: its Properties, which may be nil.  Their UID
\* may be empty, which is 0 here.
Properties == [created : BOOLEAN, uid : {0} \cup Uid]
Entry == {Absent, NoProperties} \cup Properties
Related == [Names -> Entry]
Policy == [spec : Specs, deleting : BOOLEAN, finalizer : BOOLEAN, related : Related]

ASSUME ConstantsAssumption ==
    /\ IsFiniteSet(Names) /\ Specs \subseteq PolicySpec /\ Faults \subseteq FaultKind
    /\ MaxUid \in Nat /\ MaxEdits \in Nat /\ MaxFaults \in Nat
    /\ None \notin Policy
    /\ Absent \notin Properties /\ NoProperties \notin Properties
    /\ Absent # NoProperties

VARIABLES
    api,         \* the policy on the API server
    obj,         \* the objects on the cluster
    terminating, \* those whose deletion waits for a finalizer
    mine,        \* history: the UIDs the controller created
    released,    \* history: those of them that it stopped to look after
    guarded,     \* history: the last evaluation to decide it wanted the finalizer
    uninstalling,
    pc,
    policy,      \* the worker's copy of the policy
    final,       \* handleDeletion runs, not the template loop
    todo,        \* templates, then related objects, that are left to handle
    cur,         \* the object between a look and what follows from it
    checked,     \* its UID when cleanUpChildObjects looked
    new,         \* relatedObjects, then updatedRelated
    skipCleanupChildObjects,
    failures,    \* deletionFailures is not empty
    uids, edits, faults   \* counters of the bounded actions

objects == <<obj, terminating, mine, uids>>
cluster == <<objects, released, guarded>>
locals == <<final, todo, cur, checked, new, skipCleanupChildObjects, failures>>
worker == <<pc, policy, locals>>
vars == <<api, cluster, uninstalling, worker, edits, faults>>

NoRelated == [n \in Names |-> Absent]

\* The objects of these names are left to the users, if the policy created them.
Release(names) == released' = released \cup ({obj[n] : n \in names} \cap mine)

Init ==
    /\ api \in [spec : Specs, deleting : {FALSE}, finalizer : {FALSE},
                related : {NoRelated}]
    /\ obj = [n \in Names |-> 0]
    /\ terminating = {}
    /\ mine = {}
    /\ released = {}
    /\ guarded = FALSE
    /\ uninstalling = FALSE
    /\ pc = "idle"
    /\ policy = None
    /\ final = FALSE
    /\ todo = {}
    /\ cur = None
    /\ checked = 0
    /\ new = NoRelated
    /\ skipCleanupChildObjects = FALSE
    /\ failures = FALSE
    /\ uids = 0
    /\ edits = 0
    /\ faults = 0

Fault(kind) == kind \in Faults /\ faults < MaxFaults /\ faults' = faults + 1

-----------------------------------------------------------------------------
(* Users and the cluster *)

Edit ==
    /\ api # None /\ edits < MaxEdits
    /\ edits' = edits + 1
    /\ \E s \in Specs \ {api.spec} : api' = [api EXCEPT !.spec = s]
    /\ UNCHANGED <<cluster, uninstalling, worker, faults>>

\* A finalizer keeps a deleted policy until it is removed.
DeletePolicy ==
    /\ api # None /\ ~api.deleting
    /\ api' = IF api.finalizer THEN [api EXCEPT !.deleting = TRUE] ELSE None
    /\ Release(IF guarded THEN {} ELSE Names)
    /\ UNCHANGED <<objects, guarded, uninstalling, worker, edits, faults>>

\* Someone else creates an object of this name.
UserCreates(n) ==
    /\ obj[n] = 0 /\ uids < MaxUid
    /\ uids' = uids + 1
    /\ obj' = [obj EXCEPT ![n] = uids + 1]
    /\ UNCHANGED <<api, terminating, mine, released, guarded, uninstalling, worker, edits, faults>>

\* Someone else deletes the object, or it has finally terminated.
ObjectGone(n) ==
    /\ obj[n] # 0
    /\ obj' = [obj EXCEPT ![n] = 0]
    /\ terminating' = terminating \ {n}
    /\ UNCHANGED <<api, mine, released, guarded, uids, uninstalling, worker, edits,
                   faults>>

\* The uninstall annotation is set on the controller's Deployment.
Uninstall ==
    /\ "uninstall" \in Faults /\ ~uninstalling
    /\ uninstalling' = TRUE
    /\ UNCHANGED <<api, cluster, worker, edits, faults>>

-----------------------------------------------------------------------------
(* Reconcile and manageDeletionFinalizer *)

Return ==
    /\ pc' = "idle" /\ policy' = None /\ final' = FALSE /\ todo' = {}
    /\ cur' = None /\ checked' = 0 /\ new' = NoRelated
    /\ skipCleanupChildObjects' = FALSE /\ failures' = FALSE

\* During an uninstall only policies with a finalizer are evaluated.
ReconcileBegin ==
    /\ pc = "idle" /\ api # None
    /\ uninstalling => api.finalizer
    /\ policy' = api
    /\ pc' = "finalizer"
    /\ UNCHANGED <<api, cluster, uninstalling, locals, edits, faults>>

Prunes(s) == s.prune # "None"
Listed(related) == {n \in Names : related[n] # Absent}

\* The evaluation of p goes on with handleDeletion or with the templates.
Dispatch(p) ==
    IF p.deleting /\ ~Prunes(p.spec)
    THEN Return
    ELSE /\ pc' = IF p.deleting THEN "prune" ELSE "templates"
         /\ policy' = p
         /\ final' = p.deleting
         /\ todo' = IF ~p.deleting THEN p.spec.objs
                    ELSE IF p.spec.enforce THEN Listed(p.related) ELSE {}
         /\ UNCHANGED <<cur, checked, new, skipCleanupChildObjects, failures>>

\* Removing the last finalizer of a deleted policy removes the policy.
Released(p) == IF p.deleting THEN None ELSE [p EXCEPT !.finalizer = FALSE]

\* "the rest of the policy handling logic should be skipped"
FinalizerUninstalling ==
    /\ pc = "finalizer" /\ Prunes(policy.spec) /\ uninstalling
    /\ api' = IF policy.finalizer /\ api # None THEN Released(api) ELSE api
    /\ guarded' = FALSE
    /\ Return
    /\ UNCHANGED <<objects, released, uninstalling, edits, faults>>

\* Mutant: the finalizer is not set.
FinalizerForgotten ==
    /\ pc = "finalizer" /\ Prunes(policy.spec) /\ ~uninstalling /\ ~policy.finalizer
    /\ api # None
    /\ guarded' = TRUE
    /\ Dispatch(api)
    /\ UNCHANGED <<api, objects, released, uninstalling, edits, faults>>

\* The patch answers with the policy as it is now.
FinalizerSet ==
    /\ pc = "finalizer" /\ Prunes(policy.spec) /\ ~uninstalling /\ ~policy.finalizer
    /\ api # None
    /\ api' = [api EXCEPT !.finalizer = TRUE]
    /\ guarded' = TRUE
    /\ Dispatch(api')
    /\ UNCHANGED <<objects, released, uninstalling, edits, faults>>

\* "if pruneObjectBehavior is none, no finalizer is needed"
FinalizerRemoved ==
    /\ pc = "finalizer" /\ ~Prunes(policy.spec) /\ policy.finalizer
    /\ api # None
    /\ api' = Released(api)
    /\ guarded' = FALSE
    /\ Release(IF api.deleting THEN Names ELSE {})
    /\ Dispatch([api EXCEPT !.finalizer = FALSE])
    /\ UNCHANGED <<objects, uninstalling, edits, faults>>

\* The policy is gone: the patch fails and the request is retried.
FinalizerFails ==
    /\ pc = "finalizer" /\ api = None
    /\ Prunes(policy.spec) <=> ~policy.finalizer
    /\ ~(Prunes(policy.spec) /\ uninstalling)
    /\ Return
    /\ UNCHANGED <<api, cluster, uninstalling, edits, faults>>

FinalizerKept ==
    /\ pc = "finalizer"
    /\ Prunes(policy.spec) <=> policy.finalizer
    /\ ~(Prunes(policy.spec) /\ uninstalling)
    /\ Dispatch(policy)
    /\ UNCHANGED <<api, cluster, uninstalling, edits, faults>>

-----------------------------------------------------------------------------
(* handleObjectTemplates, handleObjects and handleSingleObj *)

Handled(n, e) == todo' = todo \ {n} /\ new' = [new EXCEPT ![n] = e]

\* The object exists.  When it is informed and matches there are no properties,
\* and with them goes the record of who created it.
TemplateExists(n) ==
    /\ pc = "templates" /\ n \in todo /\ obj[n] # 0
    /\ \/ Handled(n, [created |-> FALSE, uid |-> obj[n]]) /\ UNCHANGED released
       \/ ~policy.spec.enforce /\ Handled(n, NoProperties) /\ Release({n})
    /\ UNCHANGED <<api, objects, guarded, uninstalling, pc, policy, final, cur, checked,
                   skipCleanupChildObjects, failures, edits, faults>>

TemplateInformed(n) ==
    /\ pc = "templates" /\ n \in todo /\ obj[n] = 0 /\ ~policy.spec.enforce
    /\ Handled(n, NoProperties)
    /\ UNCHANGED <<api, cluster, uninstalling, pc, policy, final, cur, checked,
                   skipCleanupChildObjects, failures, edits, faults>>

\* The object is missing, or could not be read, which is taken for the same.
TemplateMissing(n) ==
    /\ pc = "templates" /\ n \in todo /\ policy.spec.enforce
    /\ \/ obj[n] = 0 /\ UNCHANGED faults
       \/ obj[n] # 0 /\ Fault("getFail")
    /\ pc' = "create"
    /\ cur' = n
    /\ UNCHANGED <<api, cluster, uninstalling, policy, final, todo, checked, new,
                   skipCleanupChildObjects, failures, edits>>

\* determineDesiredObjects fails: nothing is related and nothing is pruned.
TemplateFails(n) ==
    /\ pc = "templates" /\ n \in todo
    /\ Fault("templateError")
    /\ todo' = todo \ {n}
    /\ skipCleanupChildObjects' = TRUE
    /\ UNCHANGED <<api, cluster, uninstalling, pc, policy, final, cur, checked, new,
                   failures, edits>>

\* The kind of the object can not be watched, but the evaluation interval asks for
\* it: handleObjects returns early, with no related object and no error, so that
\* the object counts as one that has no template any more.
TemplateUnwatchable(n) ==
    /\ pc = "templates" /\ n \in todo
    /\ Fault("unwatchable")
    /\ todo' = todo \ {n}
    /\ UNCHANGED <<api, cluster, uninstalling, pc, policy, final, cur, checked, new,
                   skipCleanupChildObjects, failures, edits>>

\* The status update of the first batch reads the policy again, except for its
\* status.  Whether there is one depends on the condition that was reported.
MayRefresh ==
    \/ UNCHANGED policy
    \/ api # None /\ policy' = [api EXCEPT !.related = policy.related]

\* enforceByCreating.  The policy may be gone already, when it had no finalizer.
Create ==
    /\ pc = "create" /\ obj[cur] = 0 /\ uids < MaxUid
    /\ uids' = uids + 1
    /\ obj' = [obj EXCEPT ![cur] = uids + 1]
    /\ mine' = mine \cup {uids + 1}
    /\ released' = released \cup (IF api = None THEN {uids + 1} ELSE {})
    /\ Handled(cur, [created |-> TRUE, uid |-> uids + 1])
    /\ MayRefresh
    /\ pc' = "templates"
    /\ cur' = None
    /\ UNCHANGED <<api, terminating, guarded, uninstalling, final, checked,
                   skipCleanupChildObjects, failures, edits, faults>>

\* Mutant: an object that exists already counts as created.
CreateFailsUnseen ==
    /\ pc = "create"
    /\ obj[cur] # 0 /\ UNCHANGED faults
    /\ Handled(cur, [created |-> TRUE, uid |-> obj[cur]])
    /\ MayRefresh
    /\ pc' = "templates"
    /\ cur' = None
    /\ UNCHANGED <<api, cluster, uninstalling, final, checked,
                   skipCleanupChildObjects, failures, edits>>

\* The namespace is missing or terminating.  enforceByCreating watches it, and the
\* error of the watch, nil, replaces the one of the creation: handleSingleObj takes
\* it for a success and records an object with no UID as created by the policy.
CreateInNoNamespace ==
    /\ pc = "create"
    /\ Fault("namespaceGone")
    /\ Handled(cur, [created |-> TRUE, uid |-> 0])
    /\ MayRefresh
    /\ pc' = "templates"
    /\ cur' = None
    /\ UNCHANGED <<api, cluster, uninstalling, final, checked,
                   skipCleanupChildObjects, failures, edits>>

\* It exists already, or the API server refuses it, as it does all objects
\* beyond MaxUid.
CreateFails ==
    /\ pc = "create"
    /\ \/ (obj[cur] # 0 \/ uids = MaxUid) /\ UNCHANGED faults
       \/ Fault("createFail")
    /\ Handled(cur, NoProperties)
    /\ MayRefresh
    /\ pc' = "templates"
    /\ cur' = None
    /\ UNCHANGED <<api, cluster, uninstalling, final, checked,
                   skipCleanupChildObjects, failures, edits>>

-----------------------------------------------------------------------------
(* updatedRelatedObjects *)

\* Mutant: the properties of the last evaluation are not kept.
UpdatedForgetful(related, old) == related

\* "Use the old properties if they existed and this is not a newly created
\* resource"
Updated(related, old) ==
    [n \in Names |->
        IF /\ related[n] \in Properties /\ old[n] \in Properties
           /\ ~related[n].created
        THEN old[n] ELSE related[n]]

\* The loop is done.  What is not related any more is cleaned up, but not when the
\* policy informs or does not prune.
LoopDone ==
    LET unrelated == Listed(policy.related) \ Listed(new)
        cleans == policy.spec.enforce /\ Prunes(policy.spec)
    IN
    /\ pc = "templates" /\ todo = {}
    /\ new' = Updated(new, policy.related)
    /\ todo' = IF cleans /\ ~skipCleanupChildObjects THEN unrelated ELSE {}
    /\ Release(IF cleans THEN {} ELSE unrelated)
    /\ pc' = "prune"
    /\ UNCHANGED <<api, objects, guarded, uninstalling, policy, final, cur, checked,
                   skipCleanupChildObjects, failures, edits, faults>>

-----------------------------------------------------------------------------
(* cleanUpChildObjects *)

\* Mutant: the UID is not compared.
NeedsDeleteAnyUid(n) ==
    \/ policy.spec.prune = "DeleteAll"
    \/ /\ policy.spec.prune = "DeleteIfCreated"
       /\ policy.related[n] \in Properties
       /\ policy.related[n].created

NeedsDelete(n) ==
    \/ policy.spec.prune = "DeleteAll"
    \/ /\ policy.spec.prune = "DeleteIfCreated"
       /\ policy.related[n] \in Properties
       /\ policy.related[n].created
       /\ policy.related[n].uid = obj[n]

\* Mutant: an object that is gone counts as a failure.
PruneNothingFails(n) ==
    /\ pc = "prune" /\ n \in todo
    /\ obj[n] = 0 \/ ~NeedsDelete(n)
    /\ todo' = todo \ {n}
    /\ failures' = TRUE
    /\ UNCHANGED <<api, cluster, uninstalling, pc, policy, final, cur, checked, new,
                   skipCleanupChildObjects, edits, faults>>

\* The object is gone, or not to be deleted.
PruneNothing(n) ==
    /\ pc = "prune" /\ n \in todo
    /\ obj[n] = 0 \/ ~NeedsDelete(n)
    /\ todo' = todo \ {n}
    /\ UNCHANGED <<api, cluster, uninstalling, pc, policy, final, cur, checked, new,
                   skipCleanupChildObjects, failures, edits, faults>>

\* The object could not be read, or it is already being deleted.
PruneFails(n) ==
    /\ pc = "prune" /\ n \in todo
    /\ \/ obj[n] # 0 /\ NeedsDelete(n) /\ n \in terminating /\ UNCHANGED faults
       \/ Fault("getFail")
    /\ todo' = todo \ {n}
    /\ failures' = TRUE
    /\ UNCHANGED <<api, cluster, uninstalling, pc, policy, final, cur, checked, new,
                   skipCleanupChildObjects, edits>>

PruneChecked(n) ==
    /\ pc = "prune" /\ n \in todo
    /\ obj[n] # 0 /\ NeedsDelete(n) /\ n \notin terminating
    /\ pc' = "delete"
    /\ cur' = n
    /\ checked' = obj[n]
    /\ UNCHANGED <<api, cluster, uninstalling, policy, final, todo, new,
                   skipCleanupChildObjects, failures, edits, faults>>

\* deleteObject: by name.  An object with a finalizer stays for a while.
Delete ==
    /\ pc = "delete"
    /\ \/ /\ obj' = [obj EXCEPT ![cur] = 0]
          /\ terminating' = terminating \ {cur}
          /\ UNCHANGED faults
       \/ /\ obj[cur] # 0 /\ Fault("hang")
          /\ terminating' = terminating \cup {cur}
          /\ UNCHANGED obj
    /\ pc' = "verify"
    /\ UNCHANGED <<api, mine, released, guarded, uids, uninstalling, policy, locals,
                   edits>>

DeleteFails ==
    /\ pc = "delete" /\ obj[cur] # 0
    /\ Fault("deleteFail")
    /\ pc' = "prune"
    /\ todo' = todo \ {cur}
    /\ cur' = None
    /\ checked' = 0
    /\ failures' = TRUE
    /\ UNCHANGED <<api, cluster, uninstalling, policy, final, new,
                   skipCleanupChildObjects, edits>>

\* Mutant: the loop does not move on to the next object.
VerifyKeepsObject ==
    /\ pc = "verify"
    /\ pc' = "prune"
    /\ todo' = todo \ {cur}
    /\ checked' = 0
    /\ failures' = (failures \/ obj[cur] # 0)
    /\ UNCHANGED <<api, cluster, uninstalling, policy, final, cur, new,
                   skipCleanupChildObjects, edits, faults>>

\* "this is to verify that the deletion was successful"
Verify ==
    /\ pc = "verify"
    /\ pc' = "prune"
    /\ todo' = todo \ {cur}
    /\ cur' = None
    /\ checked' = 0
    /\ failures' = (failures \/ obj[cur] # 0)
    /\ UNCHANGED <<api, cluster, uninstalling, policy, final, new,
                   skipCleanupChildObjects, edits, faults>>

\* After the template loop the failures are ignored.
PruneDone ==
    /\ pc = "prune" /\ todo = {} /\ ~final
    /\ policy' = [policy EXCEPT !.related = new]
    /\ pc' = "status"
    /\ UNCHANGED <<api, cluster, uninstalling, locals, edits, faults>>

\* addForUpdate: the status is written to the policy as it is now, or lost.
UpdateStatus ==
    /\ pc = "status"
    /\ \/ /\ api' = IF api = None THEN None ELSE [api EXCEPT !.related = policy.related]
          /\ UNCHANGED faults
       \/ Fault("statusFail") /\ UNCHANGED api
    /\ Return
    /\ UNCHANGED <<cluster, uninstalling, edits>>

\* handleDeletion: the finalizer goes when all objects are gone, or at once when
\* the policy informs.  Otherwise the related objects stay as they are and the
\* error is retried.
DeletionDone ==
    /\ pc = "prune" /\ todo = {} /\ final
    /\ api' = IF failures \/ api = None THEN api ELSE Released(api)
    /\ Release(IF policy.spec.enforce THEN {} ELSE Names)
    /\ Return
    /\ UNCHANGED <<objects, guarded, uninstalling, edits, faults>>

Crash ==
    /\ pc # "idle"
    /\ Fault("crash")
    /\ Return
    /\ UNCHANGED <<api, cluster, uninstalling, edits>>

-----------------------------------------------------------------------------
Environment ==
    \/ Edit \/ DeletePolicy \/ Uninstall \/ Crash
    \/ \E n \in Names : UserCreates(n) \/ ObjectGone(n)

Evaluate ==
    \/ FinalizerUninstalling \/ FinalizerSet \/ FinalizerRemoved \/ FinalizerFails
    \/ FinalizerKept
    \/ \E n \in Names :
           \/ TemplateExists(n) \/ TemplateInformed(n) \/ TemplateMissing(n)
           \/ TemplateFails(n) \/ TemplateUnwatchable(n)
           \/ PruneNothing(n) \/ PruneFails(n) \/ PruneChecked(n)
    \/ Create \/ CreateFails \/ CreateInNoNamespace \/ LoopDone
    \/ Delete \/ DeleteFails \/ Verify \/ PruneDone \/ DeletionDone \/ UpdateStatus

Next == Environment \/ ReconcileBegin \/ Evaluate

Spec == Init /\ [][Next]_vars

\* The worker goes on; a deletion is retried until it succeeds, because the
\* failure is returned to the work queue; a terminating object goes in the end.
Fairness ==
    /\ WF_vars(Evaluate)
    /\ WF_vars(ReconcileBegin /\ api.deleting)
    /\ \A n \in Names : WF_vars(ObjectGone(n) /\ n \in terminating)

FairSpec == Spec /\ Fairness

-----------------------------------------------------------------------------
(* Properties *)

ClusterOK ==
    /\ api \in Policy \cup {None}
    /\ obj \in [Names -> 0 .. MaxUid]
    /\ terminating \subseteq {n \in Names : obj[n] # 0}
    /\ mine \subseteq 1 .. uids /\ released \subseteq mine
    /\ guarded \in BOOLEAN /\ uninstalling \in BOOLEAN
    /\ uids \in 0 .. MaxUid /\ edits \in 0 .. MaxEdits /\ faults \in 0 .. MaxFaults

WorkerOK ==
    /\ pc \in {"idle", "finalizer", "templates", "create", "prune", "delete", "verify",
               "status"}
    /\ IF pc = "idle" THEN policy = None ELSE policy \in Policy
    /\ final \in BOOLEAN /\ (final => pc \in {"prune", "delete", "verify"})
    /\ todo \subseteq Names
    /\ IF pc \in {"create", "delete", "verify"} THEN cur \in todo ELSE cur = None
    /\ checked \in 0 .. MaxUid
    /\ new \in Related
    /\ skipCleanupChildObjects \in BOOLEAN /\ failures \in BOOLEAN

\* Type invariant: the copies of the policy have the shape of the API type and
\* the worker holds an object exactly between a look and its consequence.
TypeOK == ClusterOK /\ WorkerOK

Live(n) == obj[n] # 0 /\ n \notin terminating
Ours(n) == Live(n) /\ obj[n] \in mine \ released

\* An entry with no UID says of no object that it was created.
Owned(related) ==
    \A n \in Names : /\ related[n] \in Properties
                     /\ related[n].created /\ related[n].uid # 0
                     => related[n].uid \in mine

\* An object of which status.relatedObjects says that the policy created it was
\* created by it, and so in the worker's copy of the status and in the list it
\* builds, through races for the same name, lost properties and failures.  An entry
\* with no UID is excepted: a creation in a namespace that is missing or terminates
\* is recorded like that, though it failed.  The object that is about to be pruned
\* is one the policy created, unless all are deleted.
OnlyOwnRecorded ==
    /\ api # None => Owned(api.related)
    /\ policy # None => Owned(policy.related)
    /\ Owned(new)
    /\ pc = "delete" => policy.spec.prune = "DeleteAll" \/ checked \in mine

\* cleanUpChildObjects, "if prune behavior is DeleteIfCreated, we need to check
\* whether createdByPolicy is true and the UID is not stale": pruning never
\* deletes an object the policy did not create, whatever was recorded, lost,
\* replaced or edited before, unless the object was replaced between the look
\* at it and the deletion by name.
PruneOnlyOwn ==
    [][\A n \in Names :
         pc = "delete" /\ pc' = "verify" /\ cur = n /\ obj[n] = checked =>
             obj[n] \in mine \/ policy.spec.prune = "DeleteAll"]_vars

\* "PruneObjectBehavior is used to remove objects that are managed by the policy
\* upon either case: a change to the policy that causes an object to no longer
\* be managed by the policy, or the deletion of the policy": when the policy is
\* gone, so is every object it created, or its deletion is under way, through all
\* edits of its templates, its remediation action and its pruning.  Excepted is what
\* it released before: an object that an evaluation with inform found compliant
\* (enforcing again does not restore the record), whose template went while the
\* policy informed or did not prune, or that was there when the policy was deleted
\* while it informed, did not prune, or had not got its finalizer yet.
NothingLeftBehind ==
    api = None /\ ~uninstalling => \A n \in Names : ~Ours(n)

\* "CreatedByPolicy reports whether the object was created by the configuration
\* policy, which is important when pruning is configured": the entry of an object
\* that the policy created says so, while users edit the policy, take the objects
\* away and put them back.  An object that the policy released is excepted: after an
\* evaluation that informs, one that enforces takes it for an object that was there
\* before.  So are the entries lost by a template error, a failed read, or a restart
\* between creation and status update, which this run leaves out.
CreatedIsReported ==
    api # None =>
        \A n \in Names :
            /\ Ours(n)
            /\ api.related[n] \in Properties /\ api.related[n].uid = obj[n]
            => api.related[n].created

\* A policy in deletion is released in the end: handleDeletion returns its
\* failures so that they are retried, and objects that hang go in the end.
DeletionCompletes == api # None /\ api.deleting ~> api = None
=============================================================================
