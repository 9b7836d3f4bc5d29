-------------------------- MODULE TriggerUninstall --------------------------
(***************************************************************************)
(* The preparation of an uninstall: the trigger-uninstall command marks    *)
(* the controller's Deployment and then, again and again, the policies     *)
(* that still have finalizers, until it finds none; the controller, which  *)
(* reads the Deployment and the policies through caches, takes its         *)
(* finalizer off the policies instead of evaluating them.                  *)
(*                                                                         *)
(* A policy is its finalizers in order, whether its pruneObjectBehavior    *)
(* asks for one, and whether an evaluation gets as far as the finalizer:   *)
(* "invalid" is a policy without a remediationAction, "hub" one whose hub  *)
(* templates cannot be resolved.  The policies are evaluated concurrently. *)
(* Another controller may keep a finalizer of its own on them.             *)
(***************************************************************************)
EXTENDS UninstallPromise, SequencesExt

CONSTANTS
    NumNamespaces,  \* policyNamespaces: one, or two with --additional-namespace
    Namespace,      \* the namespace of each policy
    MaxDisturbances, \* bound: edits, changes by others, failed calls, crashes
    None

Foreign == "foreign"
Health == {"ok", "invalid", "hub"}
Policy == [fins : Seq({Own, Foreign}), prune : BOOLEAN, health : Health]
Position(s, e) == CHOOSE k \in 1 .. Len(s) : s[k] = e

WellFormed ==
    /\ NumNamespaces \in Nat \ {0}
    /\ Namespace \in [Policies -> 1 .. NumNamespaces]
    /\ MaxDisturbances \in Nat

ASSUME ConstantsAssumption == WellFormed

VARIABLES
    deployment, deploymentSeen,  \* the uninstall annotation, and the cached copy
    seen,     \* the cached copies of the policies
    marked,   \* policies whose new annotation the cache does not have yet
    behind,   \* policies whose cached copy misses what their last evaluation wrote
    queued,   \* policies with a request in the work queue
    pc, plc,                     \* per policy: the evaluation and its copy
    ns, todo, cleanedUp,         \* the trigger, with tpc
    touched,  \* of its todo, the policies that changed since it listed them
    disturbances                 \* counter of the bounded actions

caches == <<deploymentSeen, seen, behind>>
worker == <<pc, plc>>
trigger == <<tpc, ns, todo, cleanedUp>>
vars == <<deployment, caches, policies, marked, queued, worker, slipped, trigger, touched,
          disturbances>>

Init ==
    /\ deployment = FALSE /\ deploymentSeen = FALSE
    /\ policies = [p \in Policies |-> [fins |-> <<>>, prune |-> TRUE, health |-> "ok"]]
    /\ seen = policies /\ behind = {}
    /\ marked = {}
    /\ queued = Policies
    /\ pc = [p \in Policies |-> "idle"]
    /\ plc = [p \in Policies |-> None]
    /\ slipped = {}
    /\ tpc = "annotate" /\ ns = 1 /\ todo = {} /\ cleanedUp = TRUE
    /\ touched = {}
    /\ disturbances = 0

Disturb == disturbances < MaxDisturbances /\ disturbances' = disturbances + 1

Write(p, policy) ==
    /\ policies' = [policies EXCEPT ![p] = policy]
    /\ touched' = touched \cup ({p} \cap todo)

-----------------------------------------------------------------------------
(* The users, another controller, the caches *)

Edit(p) ==
    /\ Disturb
    /\ \E prune \in BOOLEAN, health \in Health :
          /\ <<prune, health>> # <<policies[p].prune, policies[p].health>>
          /\ Write(p, [policies[p] EXCEPT !.prune = prune, !.health = health])
    /\ UNCHANGED <<deployment, caches, marked, queued, worker, slipped, trigger>>

OtherController(p) ==
    /\ Disturb
    /\ Write(p, [policies[p] EXCEPT !.fins = IF Contains(@, Foreign)
                                        THEN RemoveAt(@, Position(@, Foreign))
                                        ELSE Append(@, Foreign)])
    /\ UNCHANGED <<deployment, caches, marked, queued, worker, slipped, trigger>>

DeploymentDelivers ==
    /\ deploymentSeen # deployment
    /\ deploymentSeen' = deployment
    /\ UNCHANGED <<deployment, seen, behind, policies, marked, queued, worker, slipped, trigger,
                   touched, disturbances>>

\* Mutant: the predicate does not know the uninstall annotation.
PolicyDeliversSpecOnly(p) ==
    /\ seen[p] # policies[p] \/ p \in marked
    /\ seen' = [seen EXCEPT ![p] = policies[p]]
    /\ marked' = marked \ {p} /\ behind' = behind \ {p}
    /\ queued' = IF policies[p].prune # seen[p].prune \/ policies[p].health # seen[p].health
                 THEN queued \cup {p} ELSE queued
    /\ UNCHANGED <<deployment, deploymentSeen, policies, worker, slipped, trigger, touched,
                   disturbances>>

\* The predicate lets through what changes the generation and the uninstall
\* annotation, not a change of the finalizers.
PolicyDelivers(p) ==
    /\ seen[p] # policies[p] \/ p \in marked
    /\ seen' = [seen EXCEPT ![p] = policies[p]]
    /\ marked' = marked \ {p} /\ behind' = behind \ {p}
    /\ queued' = IF p \in marked \/ policies[p].prune # seen[p].prune
                    \/ policies[p].health # seen[p].health
                 THEN queued \cup {p} ELSE queued
    /\ UNCHANGED <<deployment, deploymentSeen, policies, worker, slipped, trigger, touched,
                   disturbances>>

\* A watched object changes, or the evaluation interval is over.
Requeue(p) ==
    /\ p \notin queued /\ pc[p] = "idle"
    /\ queued' = queued \cup {p}
    /\ UNCHANGED <<deployment, caches, policies, marked, worker, slipped, trigger, touched,
                   disturbances>>

-----------------------------------------------------------------------------
(* Reconcile, as far as manageDeletionFinalizer *)

Return(p) ==
    /\ pc' = [pc EXCEPT ![p] = "idle"]
    /\ plc' = [plc EXCEPT ![p] = None]

ReturnErr(p) == Return(p) /\ queued' = queued \cup {p}

\* cleanupImmediately: the Deployment has the annotation, as far as the cache knows.
IsBeingUninstalled == deploymentSeen

\* cleanupImmediately, hub templates, shouldEvaluatePolicy, in this order;
\* the read of the Deployment may fail.  lastEvaluatedCache holds back an
\* evaluation from a copy without the last one's writes, unless it is an
\* uninstall.
ReconcileBegin(p) ==
    /\ pc[p] = "idle" /\ p \in queued
    /\ \/ /\ queued' = queued \ {p}
          /\ seen[p].health # "hub"
          /\ IF IsBeingUninstalled THEN seen[p].fins # <<>> ELSE p \notin behind
          /\ plc' = [plc EXCEPT ![p] = seen[p]]
          /\ pc' = [pc EXCEPT ![p] = "manage"]
          /\ UNCHANGED disturbances
       \/ /\ seen[p].health # "hub"
          /\ IsBeingUninstalled /\ seen[p].fins = <<>>
          /\ queued' = queued \ {p}
          /\ Return(p)
          /\ UNCHANGED disturbances
       \/ seen[p].health = "hub" /\ ReturnErr(p) /\ UNCHANGED disturbances
       \/ Disturb /\ ReturnErr(p)
    /\ UNCHANGED <<deployment, caches, policies, marked, slipped, trigger, touched>>

\* There is no remediationAction.
InvalidConfigPolicy(policy) == policy.health = "invalid"

\* The validation and the decision of manageDeletionFinalizer, which looks at
\* the Deployment again.
Decision(p) ==
    CASE InvalidConfigPolicy(plc[p]) -> "none"
      [] ~InvalidConfigPolicy(plc[p]) /\ plc[p].prune /\ ~IsBeingUninstalled ->
            IF HasOwn(plc[p]) THEN "none" ELSE "add"
      [] OTHER -> IF HasOwn(plc[p]) THEN "remove" ELSE "none"

\* removeObjFinalizerPatch removes the finalizer by its index in the copy.
OwnIndex(p) == Position(plc[p].fins, Own)

\* The JSON patch, made from the copy: the list of a policy that had no
\* finalizers is replaced.
Patched(p) ==
    IF Decision(p) = "remove" THEN RemoveAt(policies[p].fins, OwnIndex(p))
    ELSE IF plc[p].fins = <<>> THEN <<Own>>
    ELSE Append(policies[p].fins, Own)

\* The path of the patch is not there.
PatchFails(p) ==
    IF Decision(p) = "remove" THEN OwnIndex(p) > Len(policies[p].fins)
    ELSE plc[p].fins # <<>> /\ policies[p].fins = <<>>

ManageDeletionFinalizer(p) ==
    /\ pc[p] = "manage"
    /\ \/ /\ Decision(p) = "none"
          /\ Return(p)
          /\ UNCHANGED <<policies, behind, touched, slipped, queued, disturbances>>
       \/ /\ Decision(p) # "none" /\ ~PatchFails(p)
          /\ Write(p, [policies[p] EXCEPT !.fins = Patched(p)])
          /\ slipped' = IF Decision(p) = "add" /\ deployment THEN slipped \cup {p} ELSE slipped
          /\ behind' = behind \cup {p}
          /\ Return(p)
          /\ UNCHANGED <<queued, disturbances>>
       \/ /\ Decision(p) # "none" /\ PatchFails(p)
          /\ ReturnErr(p)
          /\ UNCHANGED <<policies, behind, touched, slipped, disturbances>>
       \/ /\ ~InvalidConfigPolicy(plc[p]) /\ (plc[p].prune \/ HasOwn(plc[p]))
          /\ Disturb
          /\ ReturnErr(p)
          /\ UNCHANGED <<policies, behind, touched, slipped>>
    /\ UNCHANGED <<deployment, deploymentSeen, seen, marked, trigger>>

\* A restart starts from fresh caches and reconciles every policy.
Crash ==
    /\ Disturb
    /\ pc' = [p \in Policies |-> "idle"]
    /\ plc' = [p \in Policies |-> None]
    /\ deploymentSeen' = deployment /\ seen' = policies /\ marked' = {} /\ behind' = {}
    /\ queued' = Policies
    /\ UNCHANGED <<deployment, policies, slipped, trigger, touched>>

-----------------------------------------------------------------------------
(* TriggerUninstall *)

controller == <<caches, queued, worker, slipped>>

\* Get and Update of the Deployment: a conflict or a timeout is retried, any
\* other error is final.
AnnotateDeployment ==
    /\ tpc = "annotate"
    /\ \/ deployment' = TRUE /\ tpc' = "check" /\ UNCHANGED disturbances
       \/ Disturb /\ tpc' \in {"annotate", "failed"} /\ UNCHANGED deployment
    /\ UNCHANGED <<controller, policies, marked, ns, todo, cleanedUp, touched>>

\* Mutant: cleanedUp is set for each namespace.
ListPoliciesOfLast ==
    /\ tpc = "check"
    /\ todo' = {p \in Policies : Namespace[p] = ns /\ policies[p].fins # <<>>}
    /\ cleanedUp' = (todo' = {})
    /\ touched' = {}
    /\ tpc' = "mark"
    /\ UNCHANGED <<deployment, controller, policies, marked, ns, disturbances>>

\* The policies of one namespace are listed.
ListPolicies ==
    /\ tpc = "check"
    /\ \/ /\ todo' = {p \in Policies : Namespace[p] = ns /\ policies[p].fins # <<>>}
          /\ cleanedUp' = (cleanedUp /\ todo' = {})
          /\ touched' = {}
          /\ tpc' = "mark"
          /\ UNCHANGED disturbances
       \/ Disturb /\ tpc' = "failed" /\ UNCHANGED <<todo, cleanedUp, touched>>
    /\ UNCHANGED <<deployment, controller, policies, marked, ns>>

\* The Update fails when the policy changed since the list, and that is final.
MarkPolicy(p) ==
    /\ tpc = "mark" /\ p \in todo
    /\ \/ /\ p \notin touched
          /\ marked' = marked \cup {p}
          /\ todo' = todo \ {p}
          /\ UNCHANGED <<tpc, touched, disturbances>>
       \/ /\ p \in touched
          /\ tpc' = "failed" /\ todo' = {} /\ touched' = {}
          /\ UNCHANGED <<marked, disturbances>>
       \/ Disturb /\ tpc' = "failed" /\ todo' = {} /\ touched' = {} /\ UNCHANGED marked
    /\ UNCHANGED <<deployment, controller, policies, ns, cleanedUp>>

\* The next namespace, the end, or five seconds of sleep and the next round.
NextNamespace ==
    /\ tpc = "mark" /\ todo = {}
    /\ \/ ns < NumNamespaces /\ ns' = ns + 1 /\ tpc' = "check" /\ UNCHANGED cleanedUp
       \/ ns = NumNamespaces /\ cleanedUp /\ tpc' = "done" /\ UNCHANGED <<ns, cleanedUp>>
       \/ ns = NumNamespaces /\ ~cleanedUp /\ ns' = 1 /\ cleanedUp' = TRUE /\ tpc' = "check"
    /\ UNCHANGED <<deployment, controller, policies, marked, todo, touched, disturbances>>

\* --timeout-seconds
Expire ==
    /\ tpc \in {"annotate", "check"} /\ tpc' = "failed"
    /\ UNCHANGED <<deployment, controller, policies, marked, ns, todo, cleanedUp, touched,
                   disturbances>>

Trigger == AnnotateDeployment \/ ListPolicies \/ (\E p \in Policies : MarkPolicy(p))
           \/ NextNamespace

Evaluate(p) == ReconcileBegin(p) \/ ManageDeletionFinalizer(p)

Next ==
    \/ \E p \in Policies : Edit(p) \/ OtherController(p) \/ PolicyDelivers(p) \/ Requeue(p)
                           \/ Evaluate(p)
    \/ DeploymentDelivers
    \/ Crash
    \/ Trigger \/ Expire

Spec == Init /\ [][Next]_vars

\* The informers, the workers and the command run on; the timeout is never due.
FairSpec ==
    /\ Spec
    /\ WF_vars(DeploymentDelivers) /\ WF_vars(Trigger)
    /\ \A p \in Policies : WF_vars(PolicyDelivers(p)) /\ WF_vars(Evaluate(p))

-----------------------------------------------------------------------------
(* Properties *)

Blocked(p) == policies[p].health # "ok" \/ Contains(policies[p].fins, Foreign)

\* TriggerUninstall ends, though evaluations work with stale copies of the
\* Deployment and the policies, fail and are lost in restarts: its loop marks
\* the policies again until each one was evaluated with a copy that is new
\* enough.  Not so when a policy keeps being invalid, without its hub
\* templates, or with a finalizer of another controller.
TriggerEnds ==
    (<>[](\A p \in Policies : ~Blocked(p)))
    => (tpc = "annotate" ~> tpc \in {"done", "failed"})
=============================================================================
