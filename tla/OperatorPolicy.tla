--------------------------- MODULE OperatorPolicy ---------------------------
(***************************************************************************)
(* One OperatorPolicy and the operator it installs or removes: Reconcile   *)
(* and handleResources, one action per handler, against OLM and users who  *)
(* change the operator's objects between any two of them.                  *)
(*                                                                         *)
(* The objects are one record, a field per kind.  The dynamic watcher      *)
(* follows the kinds that the last evaluation queried.  A CSV is its       *)
(* version, an install plan the CSV it installs, and 0 is no CSV.  Overlap *)
(* with other policies is module OperatorOverlap.                          *)
(***************************************************************************)
EXTENDS Naturals, FiniteSets

CONSTANTS
    Specs,        \* the specs the policy is given
    MaxVersion,   \* bound: versions in the catalog
    CatalogStates, GroupStates, Deployments, \* the states others give these objects
    Finalizers,   \* kinds whose objects wait for a finalizer when they are deleted
    MaxDisturbances, \* bound: edits and resets of the policy, changes of objects by
                     \* others than OLM, new versions, failing calls and restarts, together
    None

Csv == 1 .. MaxVersion
CsvOrNone == 0 .. MaxVersion

\* remove: what removalBehavior does not keep.  lenient: complianceConfig
\* makes upgrades, deployments and catalogs a matter of information.
\* versions: any if empty; 0 stands for a template without a result, which no
\* CSV matches.  group: spec.operatorGroup is given.  invalid: the parts that
\* have an error; no object is desired from spec.subscription or
\* spec.operatorGroup then, and each is missed on its own.
PolicySpec == [invalid : SUBSET {"sub", "og", "versions"},
               enforce : BOOLEAN, musthave : BOOLEAN, auto : BOOLEAN,
               versions : SUBSET CsvOrNone, group : BOOLEAN, lenient : BOOLEAN,
               remove : SUBSET {"og", "sub", "csv", "crd"}]
SubscriptionBuilt(s) == "sub" \notin s.invalid
GroupBuilt(s) == "og" \notin s.invalid

\* The conditions of the status.  A condition is only whether it is in order
\* ("good"); its reason and message may change while that stays the same.
Kind == {"valid", "og", "sub", "plan", "csv", "crd", "dep", "cat"}
State == {"", "Compliant", "NonCompliant"}
Status == [good : SUBSET Kind, state : State]
Policy == [spec : Specs, status : Status]

Group == {"none", "match", "differs", "immutable", "other", "many", "deleting"}
Subscription == [match : {"match", "differs", "immutable"}, owned : BOOLEAN,
                 auto : BOOLEAN, cur : CsvOrNone, inst : CsvOrNone,
                 res : {"fine", "failed", "neighbor"}, deleting : BOOLEAN]
Phase == {"none", "requires", "approved", "installing", "complete", "failed"}
Objects == [ns : BOOLEAN, offered : Csv, og : Group, sub : Subscription \cup {None},
            others : BOOLEAN, \* other Subscriptions in the namespace
            plan : [Csv -> Phase],
            csv : [Csv -> {"none", "pending", "succeeded", "deleting"}],
            crd : {"none", "present", "deleting"},
            dep : {"none", "down", "up"},
            cat : {"ready", "sick", "missing", "unknown"}]

ASSUME ConstantsAssumption ==
    /\ Specs \subseteq PolicySpec
    /\ MaxVersion \in Nat \ {0} /\ MaxDisturbances \in Nat
    /\ CatalogStates \subseteq {"ready", "sick", "missing", "unknown"}
    /\ GroupStates \subseteq Group /\ Deployments \subseteq {"none", "down", "up"}
    /\ Finalizers \subseteq {"og", "sub", "csv", "crd"}
    /\ None \notin Subscription \cup [cur : CsvOrNone, inst : CsvOrNone]

VARIABLES
    api, cache,  \* the policy on the API server and in the informer
    lag,         \* changes on the way to the informer: "none", "quiet" ones, or some that enqueue
    obj,         \* the operator's objects
    queue,       \* the policy is in the work queue
    watches,     \* kinds that the dynamic watcher follows
    parent,      \* the last compliance event of the parent policy
    pc,
    policy,      \* the worker's copy
    stale,       \* ... is not the latest version
    batch,       \* kinds queried in this evaluation
    ogCorrect,
    sub, csv,    \* what handleSubscription and handleCSV returned
    changed,     \* condChanged
    early,       \* a condition to emit from before an action
    failed,
    unsent,      \* history: the last change was not written, or not sent
    tampered,    \* history: others wrote the Subscription, or the spec was edited
    disturbances

locals == <<pc, policy, stale, batch, ogCorrect, sub, csv, changed, early, failed>>
history == <<unsent, tampered>>
vars == <<api, cache, lag, obj, queue, watches, parent, locals, history, disturbances>>

spec == policy.spec  \* in an evaluation

NoStatus == [good |-> {}, state |-> ""]

Init ==
    /\ api \in [spec : Specs, status : {NoStatus}]
    /\ cache = api /\ lag = "none"
    /\ obj \in [ns : BOOLEAN, offered : {1}, og : {"none"}, sub : {None}, others : {FALSE},
                plan : {[v \in Csv |-> "none"]}, csv : {[v \in Csv |-> "none"]},
                crd : {"none"}, dep : {"none"}, cat : {"ready"}]
    /\ queue = TRUE /\ watches = {} /\ parent = ""
    /\ pc = "idle" /\ policy = None /\ stale = FALSE /\ batch = {}
    /\ ogCorrect = FALSE /\ sub = None /\ csv = 0
    /\ changed = FALSE /\ early = FALSE /\ failed = FALSE
    /\ unsent = FALSE /\ tampered = FALSE
    /\ disturbances = 0

Disturb == disturbances < MaxDisturbances /\ disturbances' = disturbances + 1

\* The objects become o.  The dynamic watcher enqueues the policy if it follows
\* what changed, in this evaluation or since the last one.
Change(o) ==
    /\ obj' = o
    /\ queue' = (queue \/ \E k \in watches \cup batch' : o[k] # obj[k])

-----------------------------------------------------------------------------
(* Users *)

\* A write to the policy by others; the copy of a running evaluation is old.
WritePolicy(p) ==
    /\ Disturb
    /\ api' = p /\ lag' = "enqueue" /\ stale' = (stale \/ pc # "idle")
    /\ UNCHANGED <<cache, obj, queue, watches, pc, policy, batch, ogCorrect, sub, csv, changed,
                   early, failed, unsent>>

Edit ==
    /\ \E s \in Specs \ {api.spec} : WritePolicy([api EXCEPT !.spec = s])
    /\ tampered' = TRUE
    /\ UNCHANGED parent

\* The framework asks for a new event.
Reset ==
    /\ api.status.state # ""
    /\ WritePolicy([api EXCEPT !.status.state = ""])
    /\ parent' = ""
    /\ UNCHANGED tampered

\* The versions on the way arrive, in order.  A new generation and a reset
\* enqueue the policy, its own status updates do not.
Deliver ==
    /\ lag # "none" /\ lag' = "none"
    /\ cache' = api
    /\ queue' = (queue \/ lag = "enqueue")
    /\ UNCHANGED <<api, obj, watches, parent, locals, history, disturbances>>

\* Others than OLM change object k.
UserChange(k, x) ==
    /\ Disturb
    /\ obj.ns /\ obj[k] # x /\ UNCHANGED locals /\ Change([obj EXCEPT ![k] = x])
    /\ tampered' = (tampered \/ k = "sub")
    /\ UNCHANGED <<api, cache, lag, watches, parent, unsent>>

Users ==
    \/ \E x \in GroupStates : UserChange("og", x)
    \/ \E x \in CatalogStates : UserChange("cat", x)
    \/ obj.offered < MaxVersion /\ UserChange("offered", obj.offered + 1)
    \/ (\E v \in Csv : obj.csv[v] # "none") /\ \E x \in Deployments : UserChange("dep", x)
    \/ "other" \in GroupStates /\ UserChange("others", ~obj.others)
    \/ /\ obj.sub # None
       /\ \/ UserChange("sub", None)
          \/ \E m \in {"differs", "immutable"} : UserChange("sub", [obj.sub EXCEPT !.match = m])
          \/ \E r \in {"fine", "failed", "neighbor"} :
                UserChange("sub", [obj.sub EXCEPT !.res = r])

-----------------------------------------------------------------------------
(* OLM and the cluster *)

Olm(o) ==
    /\ UNCHANGED locals /\ Change(o)
    /\ UNCHANGED <<api, cache, lag, watches, parent, history, disturbances>>

\* The Subscription is resolved to the first or to the next version.
OlmResolve ==
    /\ obj.sub # None /\ obj.sub.cur < obj.offered /\ obj.og \notin {"none", "many"}
    /\ obj.sub.cur \in {obj.sub.inst} \cup {v \in Csv : obj.plan[v] = "requires"}
    /\ Olm([obj EXCEPT !.sub.cur = @ + 1])

\* A new install plan, for a CSV that is not there.
OlmPlan ==
    /\ obj.sub # None /\ obj.sub.cur \notin {0, obj.sub.inst}
    /\ obj.csv[obj.sub.cur] = "none"
    /\ obj.plan[obj.sub.cur] \in {"none", "complete", "failed"}
    /\ Olm([obj EXCEPT !.plan[obj.sub.cur] = IF obj.sub.auto THEN "approved" ELSE "requires"])

\* An approved plan makes its CSV, which replaces the older one, and its CRDs.
OlmInstall(v) ==
    /\ obj.plan[v] = "approved" /\ obj.csv[v] = "none"
    /\ Olm([obj EXCEPT !.plan[v] = "installing",
                       !.csv = [w \in Csv |-> IF w = v THEN "pending"
                                              ELSE IF @[w] = "deleting" THEN "deleting"
                                              ELSE "none"],
                       !.crd = IF @ = "none" THEN "present" ELSE @])

OlmInstalled(v) ==
    /\ obj.csv[v] = "pending"
    /\ obj.sub # None /\ obj.sub.inst < v /\ v <= obj.sub.cur
    /\ Olm([obj EXCEPT !.sub.inst = v])

OlmSucceeded(v) == obj.csv[v] = "pending" /\ Olm([obj EXCEPT !.csv[v] = "succeeded"])

OlmComplete(v) ==
    /\ obj.plan[v] = "installing"
    /\ \E x \in {"complete", "failed"} : Olm([obj EXCEPT !.plan[v] = x])

\* An object whose deletion waited for a finalizer goes.
Dying == {k \in {"og", "crd"} : obj[k] = "deleting"}
         \cup {k \in {"sub"} : obj.sub # None /\ obj.sub.deleting}
         \cup {k \in {"csv"} : \E v \in Csv : obj.csv[v] = "deleting"}
Terminated ==
    \E k \in Dying :
        Olm([obj EXCEPT ![k] = IF k = "sub" THEN None
                               ELSE IF k = "csv"
                               THEN [v \in Csv |-> IF @[v] = "deleting" THEN "none" ELSE @[v]]
                               ELSE "none"])

Cluster ==
    \/ OlmResolve \/ OlmPlan \/ Terminated
    \/ \E v \in Csv : \/ OlmInstall(v) \/ OlmInstalled(v)
                      \/ OlmSucceeded(v) \/ OlmComplete(v)

-----------------------------------------------------------------------------
(* updateStatus *)

\* mutant: a state of its own for an invalid policy
ComplianceInvalid(good) ==
    IF good = Kind THEN "Compliant" ELSE IF "valid" \in good THEN "NonCompliant" ELSE "Invalid"

\* calculateComplianceCondition
Compliance(good) == IF good = Kind THEN "Compliant" ELSE "NonCompliant"

updateStatus(p, k, ok) ==
    LET good == IF ok THEN p.status.good \cup {k} ELSE p.status.good \ {k}
    IN  [p EXCEPT !.status = [good |-> good, state |-> Compliance(good)]]

\* updateStatus also reports a change of the reason, the message, the related
\* objects or the generation alone.
MayReport(flag, p) == {flag \/ p.status.good # policy.status.good, TRUE}

\* What a handler makes of an object: the condition it reports and, if it acts,
\* the values that the object may have then, the condition that follows, and the
\* values that are left if the call, or a later one of several, fails.
Report(ok) == [ok |-> ok, to |-> {}, then |-> ok, part |-> {}]
ActOn(to, then) == [ok |-> FALSE, to |-> to, then |-> then, part |-> {}]

\* What is returned with the error of a call that acts.  Only the handlers that
\* delete return the early condition.  Those of several objects report again,
\* and return what that changed: nothing, unless another object is deleted or in
\* deletion; in the latter case the early condition is dropped.
FailureReports(k, p) ==
    \E c \in MayReport(FALSE, p) :
        \/ changed' = (changed \/ c) /\ early' = (early \/ (c /\ ~spec.musthave))
        \/ k \in {"csv", "crd"} /\ changed' \in {changed, TRUE} /\ early' = (early \/ c)
        \/ k \in {"csv", "crd"} /\ changed' = TRUE /\ early' = early

\* A handler of kind k with verdict v: it only reports; it acts and reports the
\* success; its call fails, which ends the evaluation.
Handle(k, v, next) ==
    LET p == updateStatus(policy, k, v.ok)
    IN  \/ /\ v.to = {}
           /\ policy' = p /\ changed' \in MayReport(changed, p)
           /\ pc' = next
           /\ UNCHANGED <<obj, queue, early, failed, disturbances>>
        \/ /\ \E x \in v.to : Change([obj EXCEPT ![k] = x, !.ns = obj.ns \/ k \in {"og", "sub"}])
           /\ policy' = updateStatus(p, k, v.then) /\ changed' = TRUE
           /\ early' \in IF v.then THEN MayReport(early, p) ELSE {early}
           /\ pc' = next
           /\ UNCHANGED <<failed, disturbances>>
        \/ /\ v.to # {} /\ Disturb
           /\ policy' = p /\ FailureReports(k, p)
           /\ failed' = TRUE
           /\ pc' = "status"
           /\ \/ UNCHANGED <<obj, queue>>
              \/ changed' /\ \E x \in v.part : Change([obj EXCEPT ![k] = x])

-----------------------------------------------------------------------------
(* Reconcile and handleResources *)

Return ==
    /\ pc' = "idle" /\ policy' = None /\ stale' = FALSE /\ batch' = {}
    /\ ogCorrect' = FALSE /\ sub' = None /\ csv' = 0
    /\ changed' = FALSE /\ early' = FALSE /\ failed' = FALSE

Begin ==
    /\ pc = "idle" /\ queue
    /\ queue' = FALSE
    /\ policy' = cache /\ stale' = (lag # "none")
    /\ pc' = "build"
    /\ UNCHANGED <<api, cache, lag, obj, watches, parent, batch, ogCorrect, sub, csv, early,
                   failed, history, disturbances>>

\* mutant: a reset status is not a change
BeginUnchanged == Begin /\ changed' = FALSE

\* "If the status was "reset", consider the condition changed."
ReconcileBegin == Begin /\ changed' = (cache.status.state = "")

handlersKeep == <<api, cache, lag, watches, parent, stale, history>>

\* The namespace is missed by musthave policies only, and not looked for when the
\* operator group can not be built.
buildResources ==
    /\ pc = "build"
    /\ batch' = IF GroupBuilt(spec) THEN batch \cup {"ns"} ELSE batch
    /\ Handle("valid", Report(spec.invalid = {} /\ (obj.ns \/ ~spec.musthave)), "og")
    /\ UNCHANGED <<handlersKeep, ogCorrect, sub, csv>>

\* A call that reads an object fails.
HandlerFails ==
    /\ pc \in {"build", "og", "sub", "plan", "csv", "crd", "dep", "cat"} /\ Disturb
    /\ pc' = "status" /\ failed' = TRUE
    /\ UNCHANGED <<handlersKeep, obj, queue, policy, batch, ogCorrect, sub, csv, changed, early>>

-----------------------------------------------------------------------------
(* handleOpGroup *)

\* A deleted object goes, or waits for a finalizer.
Deleted(k, dying, gone) == {IF k \in Finalizers THEN dying ELSE gone}

musthaveOpGroup ==
    IF spec.enforce /\ (obj.og = "none" \/ (spec.group /\ obj.og = "differs"))
    THEN ActOn({"match"}, TRUE)
    ELSE Report(\/ obj.og \in {"match", "deleting"}
                \/ ~spec.group /\ obj.og \in {"other", "differs", "immutable"})

\* Without a desired Subscription its own counts as another.
AnotherSubscription == obj.others \/ (~SubscriptionBuilt(spec) /\ obj.sub # None)

mustnothaveOpGroup ==
    LET kept == "og" \notin spec.remove \/ AnotherSubscription
        unwanted == obj.og \notin {"none", "many", "other"} /\ ~kept
    IN  IF unwanted /\ spec.enforce /\ obj.og # "deleting"
        THEN ActOn(Deleted("og", "deleting", "none"), TRUE)
        ELSE Report(obj.og # "many" /\ ~unwanted)

\* DeleteIfUnused lists the Subscriptions of the namespace.
handleOpGroup ==
    /\ pc = "og"
    /\ batch' = batch \cup
         (IF ~GroupBuilt(spec) THEN {}
          ELSE IF spec.musthave \/ "og" \notin spec.remove \/ obj.og \in {"none", "many"}
               THEN {"og"} ELSE {"og", "sub", "others"})
    /\ Handle("og", IF ~GroupBuilt(spec) THEN Report(FALSE)
                    ELSE IF spec.musthave THEN musthaveOpGroup ELSE mustnothaveOpGroup, "sub")
    /\ ogCorrect' = (spec.musthave /\ "og" \in policy'.status.good)
    /\ UNCHANGED <<handlersKeep, sub, csv>>

-----------------------------------------------------------------------------
(* handleSubscription *)

\* installPlanApproval of the desired Subscription
AutoApproval == spec.enforce /\ spec.auto /\ spec.versions = {}
desiredSub == [match |-> "match", owned |-> FALSE, auto |-> AutoApproval, cur |-> 0,
               inst |-> 0, res |-> "fine", deleting |-> FALSE]

\* "Preserve an existing subscription condition if it exists"
considerResolutionFailed == Report(obj.sub.res = "neighbor" /\ "sub" \in policy.status.good)

\* mutant: the annotation and the approval are not compared
updateNeededSpec == obj.sub.match # "match"

\* The annotation and the approval are looked at when enforced only.
updateNeeded ==
    \/ obj.sub.match # "match"
    \/ spec.enforce /\ (~obj.sub.owned \/ obj.sub.auto # AutoApproval)

musthaveSubscription ==
    IF obj.sub = None
    THEN IF spec.enforce /\ ogCorrect THEN ActOn({desiredSub}, TRUE) ELSE Report(FALSE)
    ELSE IF updateNeeded
    THEN IF spec.enforce /\ obj.sub.match # "immutable"
         THEN ActOn({[obj.sub EXCEPT !.match = "match", !.owned = TRUE,
                                     !.auto = AutoApproval]}, TRUE)
         ELSE Report(FALSE)
    ELSE IF obj.sub.res = "fine" THEN Report(TRUE) ELSE considerResolutionFailed

mustnothaveSubscription ==
    LET unwanted == obj.sub # None /\ "sub" \in spec.remove
    IN  IF unwanted /\ spec.enforce /\ ~obj.sub.deleting
        THEN ActOn(Deleted("sub", [obj.sub EXCEPT !.deleting = TRUE], None), TRUE)
        ELSE Report(~unwanted)

\* The Subscription that is returned: as found, or the desired one.
handleSubscription ==
    /\ pc = "sub"
    /\ batch' = IF SubscriptionBuilt(spec) THEN batch \cup {"sub"} ELSE batch
    /\ Handle("sub", IF ~SubscriptionBuilt(spec) THEN Report(FALSE)
                     ELSE IF spec.musthave THEN musthaveSubscription
                     ELSE mustnothaveSubscription, "plan")
    /\ sub' = IF ~SubscriptionBuilt(spec) THEN None
              ELSE IF obj.sub = None THEN [cur |-> 0, inst |-> 0]
              ELSE [cur |-> obj.sub.cur, inst |-> obj.sub.inst]
    /\ UNCHANGED <<handlersKeep, ogCorrect, csv>>

-----------------------------------------------------------------------------
(* handleInstallPlan *)

Allowed(s, v) == s.versions = {} \/ v \in s.versions

\* The newest plan with the current or the installed CSV; 0 if there is none.
\* A plan of the current CSV is never older than one of the installed CSV.
latestInstallPlan(at) ==
    IF at.cur # 0 /\ obj.plan[at.cur] # "none" THEN at.cur
    ELSE IF at.inst # 0 /\ obj.plan[at.inst] # "none" THEN at.inst
    ELSE 0

\* mutant: the versions are not compared
getCurrentCSVs ==
    IF spec.enforce /\ (spec.auto \/ sub.inst = 0) /\ sub.cur # 0 THEN {sub.cur} ELSE {}

getApprovedCSVs ==
    IF spec.enforce /\ (spec.auto \/ sub.inst = 0) /\ sub.cur # 0 /\ Allowed(spec, sub.cur)
    THEN {sub.cur} ELSE {}

\* The plan v waits for an approval that this policy gives.
Approves(v) ==
    /\ obj.plan[v] = "requires"
    /\ sub.inst = 0 \/ sub.inst # sub.cur
    /\ spec.enforce /\ (sub.inst = 0 \/ spec.auto)
    /\ {v} \subseteq getApprovedCSVs

musthaveInstallPlan(v) ==
    \/ obj.plan[v] \in {"complete", "approved"}
    \/ obj.plan[v] = "requires" /\ ((sub.inst # 0 /\ sub.inst = sub.cur) \/ spec.lenient)

handleInstallPlan ==
    /\ pc = "plan"
    /\ LET known == sub # None /\ (sub.cur # 0 \/ sub.inst # 0)
           v == IF known THEN latestInstallPlan(sub) ELSE 0
           approve == v # 0 /\ spec.musthave /\ Approves(v)
       IN  /\ batch' = IF known THEN batch \cup {"plan"} ELSE batch
           /\ \/ /\ ~approve
                 /\ Handle("plan", Report(/\ sub # None
                                          /\ v # 0 /\ spec.musthave => musthaveInstallPlan(v)),
                           "csv")
              \/ /\ approve
                 /\ Change([obj EXCEPT !.plan[v] = "approved"])
                 /\ policy' = updateStatus(policy, "plan", TRUE)
                 /\ changed' \in MayReport(changed, policy')
                 /\ pc' = "csv"
                 /\ UNCHANGED <<early, failed, disturbances>>
    /\ UNCHANGED <<handlersKeep, ogCorrect, sub, csv>>

-----------------------------------------------------------------------------
(* handleCSV, handleCRDs, handleDeployment, handleCatalogSource *)

foundCSV == IF sub # None /\ sub.inst # 0 /\ obj.csv[sub.inst] # "none" THEN sub.inst ELSE 0

musthaveCSV ==
    Report(foundCSV # 0 /\ Allowed(spec, foundCSV) /\ obj.csv[foundCSV] = "succeeded")

\* CSVs that are not in deletion get the value then.
CSVsThen(which, then) ==
    [v \in Csv |-> IF v \in which /\ obj.csv[v] # "deleting" THEN then ELSE obj.csv[v]]

\* The CSVs are deleted one by one; a failure leaves those that come after it.
DeleteCSVs(unwanted, done) ==
    LET then(which) == Deleted("csv", CSVsThen(which, "deleting"), CSVsThen(which, "none"))
    IN  [ok |-> FALSE, to |-> then(unwanted), then |-> done,
         part |-> UNION {then(some) : some \in SUBSET unwanted} \ then(unwanted)]

mustnothaveCSV ==
    LET unwanted == {v \in Csv : obj.csv[v] # "none" /\ "csv" \in spec.remove}
        deleting == {v \in unwanted : obj.csv[v] = "deleting"}
    IN  IF spec.enforce /\ unwanted # deleting
        THEN DeleteCSVs(unwanted, deleting = {})
        ELSE Report(unwanted = {})

handleCSV ==
    /\ pc = "csv"
    /\ batch' = IF sub # None THEN batch \cup {"csv"} ELSE batch
    /\ Handle("csv", IF sub = None THEN Report(FALSE)
                     ELSE IF spec.musthave THEN musthaveCSV ELSE mustnothaveCSV, "crd")
    /\ csv' = foundCSV
    /\ UNCHANGED <<handlersKeep, ogCorrect, sub>>

CRDVerdict ==
    LET unwanted == /\ sub # None /\ obj.crd # "none"
                    /\ ~spec.musthave /\ "crd" \in spec.remove
    IN  IF unwanted /\ spec.enforce /\ obj.crd # "deleting"
        THEN ActOn(Deleted("crd", "deleting", "none"), TRUE)
        ELSE Report(~unwanted)

handleCRDs ==
    /\ pc = "crd"
    /\ batch' = IF sub # None THEN batch \cup {"crd"} ELSE batch
    /\ Handle("crd", CRDVerdict, "dep")
    /\ UNCHANGED <<handlersKeep, ogCorrect, sub, csv>>

\* mutant: the Deployments are read without a watch
Unwatched == batch

DeploymentWatch == IF csv # 0 THEN batch \cup {"dep"} ELSE batch
handleDeployment ==
    /\ pc = "dep"
    /\ batch' = DeploymentWatch
    /\ Handle("dep", Report(\/ ~spec.musthave \/ csv = 0 \/ obj.dep # "down"
                            \/ spec.lenient), "cat")
    /\ UNCHANGED <<handlersKeep, ogCorrect, sub, csv>>

\* A catalog without a connection state gets a condition of another type, which
\* does not count: the last one is kept.
CatalogIsGood ==
    IF ~spec.musthave THEN TRUE
    ELSE IF sub = None THEN FALSE
    ELSE IF obj.cat = "unknown" THEN "cat" \in policy.status.good
    ELSE obj.cat = "ready" \/ spec.lenient

handleCatalogSource ==
    /\ pc = "cat"
    /\ batch' = IF sub # None THEN batch \cup {"cat"} ELSE batch
    /\ Handle("cat", Report(CatalogIsGood), "status")
    /\ UNCHANGED <<handlersKeep, ogCorrect, sub, csv>>

-----------------------------------------------------------------------------
(* The end of Reconcile *)

\* mutant: the policy is enqueued for its own status updates
LoudUpdate == "enqueue"

\* "Skip most pure status/metadata updates"
StatusUpdate == IF lag = "none" THEN "quiet" ELSE lag

\* The status is always written, as updateComplianceCondition stamps it with the
\* time: it conflicts when the copy is old, and makes no new version when only the
\* stamp changed and the second did not.  An early condition was a change, too.
WriteStatus ==
    /\ pc = "status" /\ pc' = "early"
    /\ \/ /\ ~changed /\ ~early /\ ~stale
          /\ UNCHANGED <<api, lag, failed, unsent, disturbances>>
       \/ /\ ~stale
          /\ api' = [api EXCEPT !.status = policy.status]
          /\ lag' = StatusUpdate
          /\ UNCHANGED <<failed, unsent, disturbances>>
       \/ /\ (stale /\ UNCHANGED disturbances) \/ Disturb
          /\ failed' = TRUE
          /\ unsent' = (unsent \/ changed \/ early)
          /\ UNCHANGED <<api, lag>>
    /\ UNCHANGED <<cache, obj, queue, watches, parent, policy, stale, batch, ogCorrect, sub, csv,
                   changed, early, tampered>>

\* The events for conditions from before an action: all are NonCompliant.
EmitEarly ==
    /\ pc = "early" /\ pc' = "final"
    /\ \/ /\ parent' = IF early THEN "NonCompliant" ELSE parent
          /\ UNCHANGED <<failed, unsent, disturbances>>
       \/ /\ early /\ Disturb /\ failed' = TRUE
          /\ unsent' = (unsent \/ ~changed)
          /\ UNCHANGED parent
    /\ UNCHANGED <<api, cache, lag, obj, queue, watches, policy, stale, batch, ogCorrect, sub, csv,
                   changed, early, tampered>>

\* The final event, EndQueryBatch, and the retry after any error.
EmitFinal ==
    /\ pc = "final"
    /\ \/ /\ ~changed
          /\ queue' = (queue \/ failed)
          /\ UNCHANGED <<parent, unsent, disturbances>>
       \/ /\ changed
          /\ parent' = Compliance(policy.status.good)
          /\ unsent' = (unsent /\ api.status # policy.status)
          /\ queue' = (queue \/ failed)
          /\ UNCHANGED disturbances
       \/ /\ changed /\ Disturb
          /\ unsent' = TRUE
          /\ queue' = TRUE
          /\ UNCHANGED parent
    /\ watches' = batch
    /\ Return
    /\ UNCHANGED <<api, cache, lag, obj, tampered>>

Restart ==
    /\ Disturb
    /\ queue' = TRUE /\ watches' = {} /\ cache' = api /\ lag' = "none"
    /\ unsent' = (unsent \/ (pc \in {"early", "final"} /\ (changed \/ early)))
    /\ Return
    /\ UNCHANGED <<api, obj, parent, tampered>>

-----------------------------------------------------------------------------

Worker ==
    \/ ReconcileBegin \/ buildResources \/ handleOpGroup \/ handleSubscription
    \/ handleInstallPlan \/ handleCSV \/ handleCRDs \/ handleDeployment
    \/ handleCatalogSource \/ WriteStatus \/ EmitEarly \/ EmitFinal

Next ==
    \/ Edit \/ Reset \/ Users \/ Cluster
    \/ Deliver \/ Worker \/ HandlerFails \/ Restart

Spec == Init /\ [][Next]_vars

\* The worker and the informer keep going; users, OLM and failures need not.
FairSpec == Spec /\ WF_vars(Worker) /\ WF_vars(Deliver)

DataOK ==
    /\ api \in Policy /\ cache \in Policy /\ policy \in Policy \cup {None}
    /\ obj \in Objects
    /\ parent \in State
    /\ sub \in [cur : CsvOrNone, inst : CsvOrNone] \cup {None} /\ csv \in CsvOrNone

FlagsOK ==
    /\ lag \in {"none", "quiet", "enqueue"}
    /\ queue \in BOOLEAN /\ stale \in BOOLEAN /\ ogCorrect \in BOOLEAN
    /\ changed \in BOOLEAN /\ early \in BOOLEAN /\ failed \in BOOLEAN
    /\ unsent \in BOOLEAN /\ tampered \in BOOLEAN
    /\ watches \subseteq DOMAIN obj /\ batch \subseteq DOMAIN obj
    /\ pc \in {"idle", "build", "og", "sub", "plan", "csv", "crd", "dep", "cat", "status",
               "early", "final"}
    /\ disturbances \in 0 .. MaxDisturbances

(* The types of the state. *)
TypeOK == DataOK /\ FlagsOK

\* Nothing is queued, on the way to the informer or running.
AtRest == pc = "idle" /\ ~queue /\ lag = "none"

\* The operator is as a musthave policy wants it.
PlanSettled(s) ==
    LET v == latestInstallPlan(obj.sub)
    IN  \/ v = 0 \/ obj.plan[v] \in {"complete", "approved"}
        \/ obj.plan[v] = "requires" /\ (s.lenient \/ obj.sub.inst = obj.sub.cur)
Installed(s) ==
    /\ obj.ns
    /\ obj.og \in {"match", "deleting"} \/ (~s.group /\ obj.og \notin {"none", "many"})
    /\ obj.sub # None
    /\ obj.sub.match = "match" /\ obj.sub.res = "fine"
    /\ s.enforce => obj.sub.owned
    /\ obj.sub.inst # 0 /\ obj.csv[obj.sub.inst] = "succeeded" /\ Allowed(s, obj.sub.inst)
    /\ PlanSettled(s)
    /\ s.lenient \/ (obj.dep # "down" /\ obj.cat = "ready")

\* Nothing is left that a mustnothave policy does not keep.
Removed(s) ==
    /\ \/ obj.og \in {"none", "other"}
       \/ obj.og # "many" /\ (obj.others \/ "og" \notin s.remove)
    /\ obj.sub = None \/ "sub" \notin s.remove
    /\ (\A v \in Csv : obj.csv[v] = "none") \/ "csv" \notin s.remove
    /\ obj.crd = "none" \/ "crd" \notin s.remove

(* Once nothing is left to do, the policy is Compliant exactly when the    *)
(* operator is installed, or removed, as the spec says: every object that  *)
(* matters is followed by the dynamic watcher until the next evaluation    *)
(* (the batches of Reconcile), in whatever order OLM makes its changes.    *)
(* Exceptions: a catalog without connection state, and a resolution        *)
(* failure of another Subscription, which keep an older condition.         *)
StatusIsAccurate ==
    AtRest /\ obj.cat # "unknown" /\ (obj.sub # None => obj.sub.res # "neighbor")
        => LET s == api.spec
           IN  api.status.state = "Compliant"
                 <=> s.invalid = {} /\ (IF s.musthave THEN Installed(s) ELSE Removed(s))

(* Once nothing is left to do, the parent policy was told the compliance   *)
(* that the status shows (Reconcile writes the status, then emits), unless *)
(* the last change could not be written or sent: a lost event is never     *)
(* repeated, because the next evaluation finds nothing changed.            *)
(* Deprecations are left out: updateDeprecationStatus drops the result of  *)
(* updateStatus, so with deprecationsPresent: NonCompliant the compliance  *)
(* may change without an event.                                            *)
ParentAgrees == AtRest /\ ~unsent => parent = api.status.state

(* While the spec stands and only the policy wrote the Subscription, no    *)
(* version is installed that spec.versions does not list: the Subscription *)
(* is Manual and no other InstallPlan is approved (buildSubscription,      *)
(* getApprovedCSVs), even from a Subscription read before OLM moved on.    *)
(* A list that resolves to something else than strings counts as empty.    *)
OnlyAllowedInstalled ==
    ~tampered /\ api.spec.versions # {} /\ obj.sub # None
        => obj.sub.inst = 0 \/ obj.sub.inst \in api.spec.versions

(* Once nothing is left to do, an enforced policy has done what it can:    *)
(* the Subscription is created, corrected and its first InstallPlan        *)
(* approved, or everything it removes is gone or on its way out; if one    *)
(* of the two objects can not be built, what does not need it.             *)
EnforcedIsDone ==
    AtRest /\ api.spec.enforce =>
        LET s == api.spec
        IN  IF ~SubscriptionBuilt(s)
            THEN GroupBuilt(s) /\ s.musthave => obj.og # "none"
            ELSE IF s.musthave
            THEN /\ GroupBuilt(s) => obj.og # "none" /\ (obj.og = "match" => obj.sub # None)
                 /\ obj.sub # None /\ obj.sub.match # "immutable" =>
                      /\ obj.sub.owned /\ obj.sub.match = "match"
                      /\ obj.sub.auto = (s.auto /\ s.versions = {})
                      /\ obj.sub.cur # 0 /\ Allowed(s, obj.sub.cur) /\ obj.sub.inst = 0
                            => obj.plan[obj.sub.cur] # "requires"
            ELSE /\ "sub" \in s.remove => obj.sub = None \/ obj.sub.deleting
                 /\ "csv" \in s.remove => \A v \in Csv : obj.csv[v] \in {"none", "deleting"}
                 /\ "crd" \in s.remove => obj.crd \in {"none", "deleting"}

(* The controller comes to rest: its own writes of the objects and of the  *)
(* status do not keep it busy for ever.                                    *)
Settles == []<>AtRest
=============================================================================
