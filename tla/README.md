# TLA+ verification of config-policy-controller

The config-policy-controller evaluates `ConfigurationPolicy` and `OperatorPolicy` objects against a Kubernetes
cluster, enforces or reports them, and tells the governance framework about the result. This directory holds TLA+
models of its core, TLC configurations that check them on small instances, and TLAPS proofs of what matters most.

## 1. Inventory

| Component | Source | State it keeps | Operations | Hard because |
|---|---|---|---|---|
| Namespace selector cache | `pkg/common/namespace_selection.go` | `selections`, `lock`, `updateChannel` | `Get`, `HasUpdate`, `Stop`, `Reconcile`, `update` | two kinds of threads; `Get` gives the lock up, `Reconcile` works on a snapshot, `update` sends under the lock |
| Policy scheduling and status | `controllers/configurationpolicy_controller.go` | `status` on the API server, `lastEvaluatedCache`, workqueue, watches | `Reconcile`, `shouldEvaluatePolicy`, `handleObjectTemplates`, `addForUpdate`, `updatePolicyStatus` | informer lag, conflicts, recreation under the worker's hands, events and status that fail separately |
| Related objects and pruning | same | `status.relatedObjects`, finalizer | `manageDeletionFinalizer`, `handleDeletion`, `updatedRelatedObjects`, `cleanUpChildObjects` | other users change the same objects; failures and restarts between creating, recording and deleting |
| Object evaluation | same | `processedPolicyCache`, watches | `handleObjects`, `handleSingleObj`, `enforceByCreating`, `enforceByDeleting`, `checkAndUpdateResource`, `setEvaluatedObject`, `alreadyEvaluated` | verdicts from a cache, others write the same object, conflicts, recreate with a time-out |
| Desired objects | same | none | `determineDesiredObjects`, `getMatchingNames` | selectors and templates combined, maps in random order, objects reused between rounds of a loop |
| Merge and comparison | same, `configurationpolicy_utils.go` | none | `handleKeys`, `mergeSpecs`, `mergeArrays`, `equalObjWithSort` | recursive, insensitive to order and to zero values, writes into its arguments |
| Hub templates | `controllers/hubtemplates.go` | a Secret with the last resolution | `resolveHubTemplates` | hub unreachable, Secret and policy of different generations, Secret read through a cache |
| Operator policies | `controllers/operatorpolicy_controller.go`, `operatorpolicy_status.go` | conditions, related objects, OLM objects | `Reconcile`, `handleResources`, one handler per kind | OLM acts at the same time; several policies on one Subscription |
| Uninstall trigger | `pkg/triggeruninstall` | annotations | `TriggerUninstall` | races with evaluations that set finalizers |
| Encryption, metrics, dry run, mappings, wiring | `encryption.go`, `metric.go`, `pkg/dryrun`, `pkg/mappings`, `main.go` | none of interest | | sequential or I/O |

How they interact. The Namespace reconciler and the policy workers share the selector cache; its updates wake
policies up through a bounded channel. Policy workers read policies from the informer cache and write status,
finalizers and events to the API server; their own writes come back through the informer. Objects of templates
are read through the dynamic watcher or directly, and its watches wake policies up. Users, the framework (which
resets `status.compliant`) and other controllers act at any time.

What makes them correct. An object is judged as it is and an enforced template prevails; a selected object is desired,
with its own values; a match has what the template asks for. A resolution from the hub is the policy's own and never
goes back. After an uninstall no finalizer is left. The cache follows the namespaces and no wake-up is lost. A status is the result of the
policy it is stored in, the parent was told about it, and it follows the spec and the objects in the end. Pruning
deletes what the policy created, all of it in the end, and nothing else. `PROJECT.json` lists the hazards of the
code, each at its line, and the properties that stand against it.

## 2. Modules

### NamespaceSelector

One step is one critical section of `r.lock`; only `update()` takes two (`BeginUpdate` writes the map and takes the
lock, `EndUpdate` sends and releases it), because it blocks on the channel in between. The Namespace reconciler runs
`Snapshot`, `ListNamespaces` (or its failure, which is retried), then per entry `ApplyUpdate`/`ApplySend` or
`ApplyNothing`. A worker handles a key with `Stop`, `SkipEvaluation` or `BeginEvaluation`. An evaluation makes one `Get`
for each object template (`Templates` of them), and a `Get` is `GetHit`, or `GetMiss`, `GetList`, `GetStore`, `GetSend`.
When it returns (`EndGet`), the status update between two batches of events may read the policy again, so that the
templates to come use a newer target and the status bears the newer generation. A target is abstracted to its kind (empty, unparsable
selector, unparsable pattern, proper) and the labels and names it matches. A namespace event changes the informer
cache, which `List` reads, and enqueues the singleton request. `Forward` is the source that moves channel events to
the policies' workqueue. Two histories: `raced`, a `Get` stored a list that was already out of date, and `torn`, the
templates of the last evaluation were not all evaluated for one target and the same namespaces.

### PolicyStatus

One policy name. `api` is the policy on the API server, `events` the versions the informer has not delivered,
`cache` the informer's copy; the worker holds its own copy `policy`. `Sync` is the informer with the predicates of
`SetupWithManager`. `ReconcileGone`, `ReconcileSkip` and `ReconcileBegin` are the three ways into `Reconcile`. The
template loop has one action per outcome of a template; templates with two event batches (`TwoBatches`) report
"noMatch" before the result. `AddForUpdate` enters `addForUpdate`; `SendComplianceEvent` and `Update...` are the
steps of `updatePolicyStatus` with its three attempts, each on a copy read from the informer cache again, so that a
newer generation or a recreated policy appears in the middle of an evaluation. `ReconcileEnd` drops or keeps
watches and schedules the next evaluation. The clock counts the seconds of RFC 3339, the resolution of
`status.lastEvaluated`. A condition is its reason; a spec asks for a value of each template's object. A verdict on an
object stays in `verdicts` (`processedPolicyCache`) until the object changes or `KeptVerdicts` drops it at the start of a
Reconcile, by the generation in the status, and `TemplateCached` takes it instead of a comparison (`Judge`).
History: `srcUid` (whose templates were evaluated), `srcGen` (the oldest generation a verdict in the status is about),
`unwritten`, `unsent`, `sameSecond`, `staleStart`, and `restamped`, a status was stamped with a generation that was read in
the middle of the evaluation.
Not here: the early returns for an invalid spec and for failed hub templates, the Terminating state, the evaluation
backoff (it only delays) and the time-out of a recreate.

### RelatedObjects

One policy with named musthave templates. An object is its UID; `mine` is the history of UIDs that the controller
created. The finalizer is handled by `Finalizer...`, templates by `Template...` and `Create...`,
`LoopDone` computes `updatedRelatedObjects`, and `Prune...`, `Delete`, `Verify` are `cleanUpChildObjects`, called
from the loop or from `handleDeletion` (`final`). Users create, replace and delete objects between any two steps.
The policy is read fresh when an evaluation begins (PolicyStatus checks that part). `TemplateUnwatchable` is the early
return for a kind that can not be watched, `CreateInNoNamespace` the failed creation whose error the namespace watch
replaces. `released` is the history of the policy's objects that it stopped to look after, `guarded` that an evaluation
wanted the finalizer. Not here: mustnothave and
unnamed templates, recreateOption, watch-cache lag for objects, finalizers of others.

### ObjectEvaluation

One policy on watches whose named templates are all about one object, which is the case in which they share its entry
of `processedPolicyCache`. `HandleObjects` reads the object from the watch cache (`seen`, which trails `obj`) and
`HandleSingleObj` dispatches: to `EnforceByCreating` and `WatchNamespace`, to `EnforceByDeleting`, to a cached verdict
(`AlreadyEvaluated`), or to `checkAndUpdateResource`, which is `Matches`, `DryRunSettles`, `DryRunPasses`, `Update`,
`RecreateDelete` and `RecreateCreate` with its three attempts; `Refetch` is the recursion after a conflict,
`UpdateRefused` any other error. Every call to the API server is a step of its own and sees the object as it is by
then. `Conclude` is the end of a template, `Finish` the status update, whose generation stamp may be newer than the
templates (module PolicyStatus). A kind of template says whether the object should exist, has a status, is immutable,
is recreated, and whether its difference is real ("plain"), dropped by the API server ("vacuous"), refused ("bad") or
made by Go templates ("templated"), which clear the cached verdicts. `LookupChanges` changes a value without a new
generation. History: `odd` (a verdict that rests on a failed read, or on a cached verdict about something else),
`refused`, `missed`.
Not here: unnamed templates (`DesiredObjects` has their matching), client-side validation for servers before 1.25,
diffs and messages.

### DesiredObjects, MergeSpecs and MatchingObjects

`DesiredObjects` is `determineDesiredObjects`: `SelectNamespaces`, `GetObject`, `ListObjects`, the loop of `NextNamespace`
and `ResolveName` in any order of the maps, `LoopDone`, and `FilterObject`, the filter of mustnothave templates, which
calls `GetMatchingNames`. In a round of the loop a name is skipped (`SkipName`), resolved (`AppendResolved`, or
`ResolveFails`) or copied from the object before (`AppendCopy`). `shared` are the namespaces whose entry of
`relevantNsNames` is one and the same Go map. A Go template is the variables it uses and the names for which it calls
`skipObject`; a resolved object remembers the context it was resolved with.
How a template is compared with objects is a parameter: `NamesThatMatch` are the names that `buildNameList` returns, and
`HasFields` says what a match should be. `ScenariosAssumption` asks one thing of them (`FindsMatches`): an object with
every field is found, unless the template has lists.
`MergeSpecs` has the comparison as operators with the code's names on JSON values: `HandleKeys`, `HandleSingleKey`,
`CompareSpecs`, `MergeSpecsHelper`, `MergeArrays`, `EqualObjWithSort`, `CheckFieldsWithSort`, `CheckListsMatch`, the
metadata helpers, `BuildNameList`, and what `fmt.Sprint` and the copy through JSON do to values. `Stored` is the API
server, `HasAll` the reference definition of a match.
`MatchingObjects` puts the two together and has the properties of the comparison. The run's `NamesThatMatch` is
`BuildNameList` and its `HasFields` is `HasAll`, so TLC evaluates the assumption for the code's comparison, over all
objects and lists of the run.

### LastResolution and HubTemplates

`LastResolution` is the abstract specification of hub templates: an evaluation works on the template as it was when the
reconcile began, as the hub answered for it at some time, and the answer never goes back. `HubTemplates` is
`resolveHubTemplates` with one action per call: `GetSecret`, `ResolveTemplate`, `CheckHub` (`ServerVersion`, then the
saved resolution or `ClearSecret`), `SaveSecret`; `UseSpec` and `ReturnErr` are its two ends. The Secret is read
through the client's cache; watches on the hub keep answering during an outage and are lost in a restart.
`Implements` is the refinement, `LastResolution!Spec` with `template <- api` and `evaluating <- policy`.

### TriggerUninstall

The command (`AnnotateDeployment`, `ListPolicies`, `MarkPolicy`, `NextNamespace`, `Expire`) composed with the controller's
reaction per policy: `ReconcileBegin` (`cleanupImmediately`, hub templates, `shouldEvaluatePolicy`) and
`ManageDeletionFinalizer`, which patches the finalizers by their index in a cached copy. The Deployment and the
policies reach the controller through caches; the predicate of `SetupWithManager` lets the annotation through and a
change of finalizers not. History: `slipped` (an evaluation that had not seen the Deployment's annotation set the
finalizer after it). `UninstallPromise` has what the command promises, the property `DoneMeansClean`.

### OperatorOverlap

Several OperatorPolicies that may want one Subscription. `api`, `cache` and `stream` are the policies on the API server,
in the informer and in between; `queue` is the workqueue of the one worker. An evaluation is `ReconcileBegin`
(reads the cached copy), `checkSubOverlap` (lists the cached policies and compares their
`status.resolvedSubscriptionLabel`), `handleSubscription` (creates, annotates or deletes the Subscription, or leaves it
alone because of an overlap) and `WriteStatus` (written, no new version, conflict or failure; every
evaluation stamps the status with its time, so that it is compared with its own copy only within one second). `Deliver` is the informer with
the predicates of `SetupWithManager` and `overlapMapper`, which maps an event to the policies that its object lists
as overlapping. A Subscription is the policy its managed-by annotation names. History: `slipped` (a policy left a label
before it had recorded the other one), `left` (a policy left a label, and what another one records may be from before
that, until that one is evaluated again without finding it).

### OperatorPolicy

One OperatorPolicy and its operator, with one action per handler of `handleResources`: `buildResources`,
`handleOpGroup`, `handleSubscription`, `handleInstallPlan`, `handleCSV`, `handleCRDs`, `handleDeployment`,
`handleCatalogSource`, each with its musthave and mustnothave side, then `WriteStatus`, `EmitEarly` and `EmitFinal`.
`HandlerFails` is a failing read, the last disjunct of `Handle` a failing write: `FailureReports` is what it leaves in
the worker's copy, and of several CSVs some may be deleted by then (`part`). `obj` has a field per kind of object;
`watches` are the kinds the dynamic watcher follows, `batch` the ones this evaluation has queried so far
(`StartQueryBatch`, `EndQueryBatch`). A condition is whether it is in order, a status the set of conditions in order and
the compliance `calculateComplianceCondition` derives from it; a handler may also find that only a reason, a message
or a related object changed (`MayReport`). `lag` says whether an update of the policy is still to reach the informer,
and whether it enqueues. OLM is external: it resolves, plans, installs approved plans, records the installed CSV,
and is modelled by the states the handlers tell apart. History: `unsent` (a status whose event or write failed),
`tampered` (the spec was edited or someone else wrote the Subscription).
A spec may have errors in `spec.subscription`, `spec.operatorGroup` and `spec.versions` (`invalid`). Without a
Subscription its handler only reports, and the operator group is looked for in the default namespace, taken to be the
operator's; without an operator group the namespace is not read, and the Subscription is still handled; with
versions that were not resolved, both are, and the list is one that no version is in, or empty when it resolved to
something else than strings.
Not here: templates and the defaults from PackageManifests and existing Subscriptions in `buildResources`, the
intervention for an unreferenced CSV, the deprecation condition, InstallPlans with several CSVs and approvals by other
policies, owner references of OperatorGroups, the lag of the dynamic watcher's cache, and the namespace that a failed
`createWithNamespace` may leave.

## 3. Runs

Bounds are the constants named `Max...` (and `NumNamespaces`); each was raised until the case it stands for happens: two changes of
namespaces (one during a `Get`, one after), two UIDs and two generations (recreation and edit), two seconds (equal
and different stamps), two failed calls (a status that was written in an attempt that is repeated, and an event that
is lost after it), three UIDs of objects (the policy's, a user's, a replacement), three policies for one
Subscription with an edit or deletion and a fault (an overlap that is recorded by one of two, and a third policy that
a recorded overlap still names), two versions of an operator (one the
policy allows and one it does not), two generations, two UIDs, two answers and two outages of the hub (a resolution
saved, lost and replaced), two policies in two namespaces for the uninstall, two templates with two values each on one
object. `MaxDisturbances` of OperatorPolicy counts everything that does not come from the
controller or OLM; one of them between any two handlers of any evaluation is what the run covers; its invariants, and those of
the proofs, also hold with two of them (36 million states, too many for a regular run), and the proofs are for any
number.

| Run | Shows |
|---|---|
| `NamespaceSelectorSafety` | a stale selection is about to be refreshed, a change is flagged, a flag is announced; all kinds of targets, failing lists |
| `NamespaceSelectorLiveness` | every `Get` returns although sends block under the lock; the entry of a deleted policy is gone in the end; every template of a policy is evaluated for the namespaces its selector matches, unless a `Get` stored an outdated list or the evaluation was torn; two policies of two templates, a channel of one |
| `PolicyStatusSafety` | edits, recreation, resets, restarts, every call that can fail: a status belongs to its policy, evaluations start from the newest status, the parent was told |
| `PolicyStatusLiveness` | with watches, durations and both mixed, cached verdicts, edits, resets, failing templates, events and status updates: the status reports the newest spec and the objects as they are, but for the exceptions below; up to two templates |
| `RelatedObjectsPrune` | through edits of templates, remediation action and pruning: created objects are recorded, and pruned with the policy |
| `RelatedObjectsFaults` | under every failure, restart, hang and uninstall: what is recorded as created was, only that is pruned, a deleted policy is released in the end |
| `OperatorOverlapSafety` | policies for one Subscription find each other although their lists are old; the only one for it manages it; a recorded overlap is current unless the other left unnoticed |
| `OperatorPolicySafety` | OLM works between any two handlers, with one disturbance and with errors in the Subscription, the operator group or the versions of a spec: at rest the status is the operator's, the parent knows it, an enforced policy has done what it can; no version outside `spec.versions` is installed; the controller comes to rest |
| `ObjectEvaluation` | every kind of template and two on one object, one change by others, one edit or looked-up value, one failure: at rest the verdicts are true although most come from the cache; an enforced template prevails |
| `DesiredObjects` | templates of every form over two namespaces with two names, in any order of the maps, and some 4000 pairs of a template and an object: what is selected is desired with its own values, a match has what the template asks for, one update is enough |
| `HubTemplates` | edits, recreation, outages, changing answers, a failure or a restart: the refinement of LastResolution, a resolution is saved before it is used, the policy follows the hub again |
| `TriggerUninstall` | two policies in two namespaces and one edit, foreign finalizer, failure or restart: a successful command left no finalizer behind, and the command ends |

Each run passes. The properties are the strongest that hold, and name their exceptions. Each
exception below is a counterexample TLC gives when it is dropped from the property:

* `StaleIsPending` and `FollowsUnlessRaced` except `raced`: a `Get` that listed the namespaces before an event stores
  the list after the Reconcile of that event, and the selection stays stale until the next one, while
  `namespace_selection.go:31-32` says the cache "should update when namespaces are created, deleted, or re-labeled".
* `ChangeIsFlagged` is about the namespaces only: two Reconciles that meet the same error between two `Get`s clear a
  flag that announced the error. `FollowsUnlessRaced` takes targets that parse and lists that succeed.
* `FollowsUnlessRaced` excepts, for policies that are not on watches, a `torn` evaluation. `Get` is called once per object
  template (`configurationpolicy_controller.go:1393`, in the loop at 1001) and clears the policy's one flag: a Reconcile
  between the Gets of two templates raises it, the second Get clears it, the policy that the Reconcile wakes up skips, and the
  first template stays on the old namespaces. The same happens to an edit of the selector that the status update between two
  batches of events reads: its generation counts as evaluated.
* `FreshStart` excepts two status updates in one second, which `lastEvaluatedCache` cannot tell apart.
* `ParentAgrees` excepts an event whose status was never written (three attempts failed, or a restart): the next
  evaluation may find the old compliance again and sends nothing.
* `EventuallyReported` has five exceptions. `RestsOnOlder`: the status update between two event batches reads a newer
  copy, whose generation then stamps a result of the old spec (`configurationpolicy_controller.go:3644`, `3693`, while
  `configurationpolicy_types.go:448-449` says "the generation of the ConfigurationPolicy object when it was last
  evaluated"). The evaluation of the edit finds that generation in the status, keeps the cached verdicts (276), takes the
  one on the old spec for its own (2337), and it stays until the object changes. `LeftUnwatched`: `usingWatch` is computed
  before the evaluation and the next one is scheduled after it, so a policy with watches for one compliance only can turn
  to it with neither a watch nor a timer. `staleStart`: an evaluation that began with a replaced status (`FreshStart`)
  can find its conditions unchanged, lose its three attempts to conflicts, and is not repeated. `unsent` and `unwritten`:
  an event or a status that fails is only logged, and on watches nothing retries it, although the comment at
  `configurationpolicy_controller.go:3677` expects a retry: the error does not leave `addForUpdate`. Intervals of `never`
  are not in this run: nothing evaluates such a policy again.
* `NothingLeftBehind` and `CreatedIsReported` except what the policy `released`. An evaluation that informs and finds the
  object compliant leaves its Properties nil (`configurationpolicy_controller.go:2386-2400`), and `updatedRelatedObjects`
  keeps old Properties only for a new entry that has some (line 1900): after enforce, inform, enforce the object that the
  policy created is recorded as not created, and is not pruned. This takes two edits and no failure, while
  `configurationpolicy_types.go:65-67` says "PruneObjectBehavior is used to remove objects that are managed by the policy
  upon either case", and lines 409-410 "CreatedByPolicy reports whether the object was created by the configuration
  policy". Also released are objects whose template goes while the policy informs or does not prune (their entries go,
  without a deletion), and those that are there when the policy is deleted while it informs, does not prune, or was just
  made to prune and has no finalizer yet.
* `NothingLeftBehind` holds without failing reads, deletions and status updates, template errors and restarts: a failed
  deletion of a detached object, for example, is only logged at `configurationpolicy_controller.go:1102` and the object
  is forgotten. Missing namespaces and kinds that can not be watched do no harm to it; a kind that can no longer be
  watched has its object pruned, although the template still asks for it.
* `OnlyOwnRecorded` excepts entries without a UID: when a creation fails because the namespace is missing or terminates,
  the error of the namespace watch, nil, replaces it (`configurationpolicy_controller.go:2577-2581`), and
  `handleSingleObj` records the object as created by the policy, with an empty UID, though there is no object. Nothing
  is pruned for such an entry, and it stays when somebody else creates the object.
* `PruneOnlyOwn` excepts an object that is replaced between the UID check and the deletion by name.
* `CreatedIsReported` holds without template errors (the entry is dropped, and found again as not created), without a
  failed read (the object is created again, which fails and leaves no Properties) and without a restart or a failed
  status update after the creation.

* `StaleOnlyIfSlipped` excepts a policy that is deleted, or edited, before it has recorded the overlap the other one
  recorded: its event maps to nobody, and the other stays "overlapping" until something else wakes it up, while
  `operatorpolicy_types.go:236-237` says "When no overlapping is detected, this list will be empty".
* `OverlapSeen` excepts records from before a policy left the label (`left`), of the two policies or of one that they
  record. Such a policy may have come back: an evaluation that finds the record it already has changes the time stamps
  only, and within one second nothing, and its event is mapped to the policies that it records, not to those that should
  record it. Two policies can then share a label for good without knowing each other, although a third one lists both. It
  takes two edits to get there, one more than the run allows; the proof attempt found it.
* OperatorPolicy's `ParentAgrees` excepts `unsent`: the status is written before the events are sent, so a failed event
  is not sent again, and neither is an early one that a failed deletion left without a change. Deprecations are
  not modelled: `updateDeprecationStatus` drops what `updateStatus` returns (`operatorpolicy_controller.go:1521`, 1559,
  1590, 1598), so with `deprecationsPresent: NonCompliant` the compliance may change without an event.
* `StatusIsAccurate` excepts a catalog without connection state, whose condition has a type that
  `calculateComplianceCondition` does not look at, and a resolution failure of another Subscription in the namespace,
  after which the older condition is kept.
* `OnlyAllowedInstalled` excepts edits of the spec (what was installed stays) and other writers of the Subscription.
  It is about the versions after their templates were resolved: a list that resolves to something else than strings makes
  the policy NonCompliant but counts as empty (`operatorpolicy_controller.go:811-813`, 824), so any version is approved.
* `VerdictIsTrue` excepts `odd` verdicts. The cache is keyed by the object and its resourceVersion: two templates on one
  object, a value that is looked up on the hub, and the status of a recreated object share a verdict that is about
  something else. A failed read counts as absence, and a failed dry run of a difference that the API server would
  drop counts as a mismatch. When the dry run succeeds and shows such a difference to be none, the object is Compliant,
  and cached so, even when its status is not what the template asks for (`configurationpolicy_controller.go:3285`
  returns without a look at `statusMismatch`): the false verdict stays until the object or the spec changes.
* `Enforced` excepts an update that was refused, which is a condition and no error, so nothing retries it on watches; and
  a namespace that came back between the failed create and its watch.
* `DesiredIsOwn` excepts several namespaces that share one map of names: a name that the object selector found in one of
  them is desired in all (`configurationpolicy_controller.go:1429`); and a templated name that is the same for all. It is
  overwritten when the object is copied for another namespace, or for the next name in the same one, because only the
  decoding path checks it (`configurationpolicy_controller.go:1778`). That an object with the templated name is among
  the desired ones is part of the property.
* `SelectedIsDesired` excepts the filter of mustnothave templates with lists: `mergeArrays` writes merged items into the
  template's own list, so what the second object is compared with depends on the first.
* `MatchIsSound` excepts mustonlyhave lists: an item with as many fields is equal when the template's own are zero values
  and missing in it (`checkFieldsWithSort`), while `configurationpolicy_types.go:169` says "match exactly".
* `Converges` counts a difference that a dry run shows to be none as the end: the API server drops a value that is
  empty, and the template's differs from it.
* `Implements` excepts, in `LastResolution` itself, a Secret read through a cache that trails it and an answer that does
  not unmarshal: its error is logged, nil is returned, and the policy is evaluated with what was unmarshalled.
* `SavedBeforeUsed` excepts a Secret that was cleared after a template error.
* `FollowsHub` takes a policy with an evaluation interval: without one, an evaluation of the saved
  resolution during an outage leaves no watch and no timer, and nothing wakes the policy up when the hub is back.
* `DoneMeansClean` excepts `slipped`. `TriggerEnds` excepts policies that stay invalid, without their hub templates, or
  with a finalizer of another controller: they are never evaluated as far as the finalizer, or wait for the other, and
  the command runs into its time-out.

All runs set `CHECK_DEADLOCK FALSE`: when the bounded users have done their share, the controller rests.

Fairness. NamespaceSelector: weak fairness for the reconciler and the forwarder, strong fairness for a worker,
because `sync.RWMutex` does not starve a waiter. PolicyStatus: the informer delivers, timers fire, the worker goes
on. RelatedObjects: the worker goes on, a policy in deletion is reconciled again (its failure is returned, so
controller-runtime retries), and a terminating object goes in the end. OperatorPolicy: the worker and the informer go
on; OLM need not. ObjectEvaluation: the worker and the watch go on, finalizers are released, a namespace comes back.
HubTemplates: the worker and the caches go on, intervals pass; the hub need not be accessible. TriggerUninstall: the
command, the caches and the workers go on, and its time-out is not due. Users, the clock and failures owe nothing.

## 4. Proofs

Eight modules, `<component>_proofs`, hold for every value of the constants that satisfies the module's named assumption
(`ConstantsAssumption`, `ScenariosAssumption`): any number of policies, namespaces, targets, objects and API versions, any
capacity, and any number of the disturbances and failures the runs bound. A theorem states a property that a run checks;
its inductive invariant was first checked by TLC on that run's instance. `TypeCorrect` (in six of the modules) says that the type invariant is inductive; for `PolicyStatus`,
`OperatorOverlap` and `OperatorPolicy` it is the base on which the others stand.

NamespaceSelector

* `TypeCorrect` includes that the lock is held exactly inside `update()` and that the channel never exceeds its capacity.
* `StaleSelectionsArePending`: `StaleIsPending` is not inductive. `StaleInv` adds that the list a Reconcile works with is
  current unless another one is queued (`ListIsCurrent`), and that an entry still to do is in the map as it was in
  the snapshot, or was replaced by a Get (`SnapshotIsCurrent`).
* `ChangesAreFlagged`: `FlagInv` adds what `answer` and the map have in common between a store and its send, and that a
  target that is not a proper selector selects nothing.
* `FlagsAreAnnounced`: `AnnounceInv` adds that what is stored during a send is the pending selection and that a pending
  selection is never flagged.

RelatedObjects

* `OwnershipIsTrue`: `OnlyOwnRecorded` with `TypeOK` is inductive: a `created` entry enters a list only with a UID that has
  just been created, or with none, and is otherwise copied. `PruneIsSafe` follows from it: the object that is about to be deleted
  had a recorded UID when it was looked at.
* `NothingLeft` and `CreationReported` assume `Lossless`: none of the faults that lose an entry (template errors, failed
  gets, deletions and status updates, a restart); any specs, a creation that fails, for whatever reason, an object that
  hangs in its deletion, a kind that can not be watched and an uninstall are allowed. `OursRemembered` says at each stage
  of an evaluation where the entry is of a live object that the policy created and did not release: in the list being
  built, or in the last status and still to be handled, found or cleaned up, unless a deleted policy informs. `CopyOK` ties
  the worker's copy of the status to the API server's and the finalizer to what an evaluation wanted, `UidsOK` makes a new
  object's UID one that no list names, and `Unhandled` keeps a template from being handled twice. The policy goes only when
  nothing is left to clean up, or when what is left is released.

HubTemplates

* `SavedFirst`: a resolution is saved before it is used. `Inv` says of each place an answer can be in that it is one the hub
  gave (`Given`), and orders the places, per generation of the template: the answer of the watch is the latest
  (`WatchLeads`), then the result an evaluation is about to use (`ResultLeads`), then the Secret, then the copies of
  the Secret and what was used (`SecretLeads`). The property is about the last two only, but an answer moves through all.
  `PlainOrNot`: whether a template asks the hub does not change while the template stands.
* `Refinement`: the initial states map to those of `LastResolution`, and every step to one of its steps or to a stutter.

TriggerUninstall (in `RelatedObjects_proofs`, as the instance `T`, with its assumption as the hypothesis `T!WellFormed`)

* `DoneClean`: "done" rests on lists that were read one namespace after the other. `CleanSoFar` says that, as long as no
  list of this round had a finalizer, the policies listed so far still have none, but for the slipped ones;
  `LoopAnnotated` (the loop runs only when the Deployment is annotated) is why no evaluation adds one unnoticed,
  `RoundStarted` and `RoundFinished` are where a round begins and ends.

PolicyStatus

* `StatusOwned`: the status that is stored was computed for the policy with this UID. `StatusBelongsToPolicy` is inductive
  together with what the worker's copy is at each stage (`WorkerOK`).
* `Fresh`: no evaluation starts from a status that was replaced, unless within one second. The versions from the informer's
  cache to the API server form a chain (`Chain`: it ends at the API server, UIDs only grow, the worker's copy is not
  ahead), and each version on it whose status was replaced is one that `lastEvaluatedCache` refuses (`Refused`). This
  needs that the status is written only once before the informer has caught up, which is what the refusal brings about.
* `ParentKnows`: the parent's last event agrees with the status. The invariant follows a report from the evaluation
  to the API server: a compliance is that of its conditions unless it was reset (`Honest`), the parent knows the stored one
  (`Settled`) and the one an evaluation starts from (`Consistent`), the second of two batches is reported (`BatchNeeded`), and
  a compliance that was reset is going to be noticed (`Answered`).

OperatorOverlap

* `RecordsCurrent`: a recorded overlap is current, or the other policy slipped away. `LeaversTell` is the part that matters:
  a policy that may still be taken to claim a label, because an older version of it is in the cache or on its way there,
  claims it, or a change on its way will make `overlapMapper` wake the others, or it slipped. `FoundOK` and
  `RecordedOK` carry this to what an evaluation found and to what the status records; `Latest` and `Base` are about
  the informer and the worker's copy.
* `RecordlessManages`: a policy that records no overlap and is the only one for its Subscription has it as it wants. It
  follows the Subscription from the write (`WrittenOK`) to the time after the evaluation (`ManagedOK`): it is as the
  policy wants it, or the policy is woken up, by the dynamic watch or by a request that is queued.
* `OverlapsSeen`: two enforced policies for one Subscription have recorded each other. If neither records anyone, both manage
  the Subscription (`ManagedOK`), which can not be as both want it. Otherwise `SeenInv` is needed. A record that is not
  marked in `left` is of a policy whose every version, seen or on the way, claims the label (`LeaversLeft`, `RecordsStand`,
  `PlacesOK`), and a policy that is not going to be evaluated records what it was last told (`Settled`): a policy that it
  sees to have recorded it (`TellersKnown`), one that a third policy has recorded together with it (`SharedKnown`),
  and a policy that another one has recorded, or that one knows it (`ThirdKnown`). At rest the three close the triangle
  of the two policies and the one that either of them has recorded (`ThirdTells`).

OperatorPolicy

* `AllowedOnly`: `VersionsOK`. As long as nobody tampers with the Subscription, the one the policy wrote is Manual, so a
  plan is approved by the controller only, and what is approved, or installed from a plan, is of an allowed version.
* `ParentTold`: `Base`. It says at each stage which conditions the worker's copy and the stored status share, that a
  condition that changed has an event waiting, and what an event sent early has told.
* `StatusAccurate`, `EnforcedDone`: `Accurate`. In an evaluation that nothing has disturbed, what the handlers that have run
  found is true of the objects as they are now, what they enforce is done, and all of this depends on objects that are
  in the batch of watches (`EvaluationOK`); between evaluations it still holds of the last one, for the objects
  that are watched (`RestOK`). A change of such an object queues a request, which is why the properties may ask for an
  idle policy only. The lemmas are one per handler (`...Found`: what it found is so; `...Evaluates`: the
  step keeps the invariant), `Unqueried` (an object no handler has asked for is not in what was judged) and `Quiet`
  (a step elsewhere changes nothing the evaluation depends on).

ObjectEvaluation

* `VerdictTrue`: at rest the reported verdicts are true. `CopiesOK`: a resourceVersion names one state of the object, so
  what the worker holds is either the object or an older version of it; `CacheOK`: a cached verdict is true of the object
  with its UID and resourceVersion, unless it was found without the status; `EvaluationOK`: as long as the watch has
  nothing more to tell and nothing is queued, the templates dealt with so far have a true verdict, or one marked `odd`, and
  the worker's copy is the object; `RestOK` is this of the status. It needs no bound on the templates that share the object.

DesiredObjects

Both theorems are for any templates, objects, namespaces and names, any order of the maps, any changes and failures, and
any comparison that satisfies `FindsMatches`.

* `DesiredOwn`: `OwnInv`. Every name in `relevant` is the template's own, or one the object selector found in that
  namespace or in one that shares its map, and its object is the one with that name and namespace (`RelevantInv`); the
  object that is copied is itself one of the desired ones, and of this namespace when the templates use it (`BaseInv`);
  what a desired object says of itself survives the copy (`IsOwn`), except a templated name that is the same for all, and
  then the object it was copied from still has it (`HasOriginal`). `Stages` is what is set up at each stage. The proof
  found that such a name is lost within one namespace, too.
* `SelectedDesired`: `SelInv`. What is wanted is in `relevant` (`WantedInv`); each name there is desired, was skipped, or is
  still ahead of the loop (`LoopInv`), which is why no copy, skip or shared map may end a loop early; and as long as nobody
  changes the objects those listed are found again (`ThereInv`), so that the filter, which compares in a new list, keeps
  them (`DoneInv`, by `FindsMatches`).

Only model-checked:

* liveness (`GetReturns`, `StoppedForGood`, `FollowsUnlessRaced`, `EventuallyReported`, `DeletionCompletes`, `Enforced`,
  `FollowsHub`, `TriggerEnds`, `Settles`), which the prover cannot reason about;
* `MatchIsSound` and `Converges`, and that the code's comparison satisfies `FindsMatches`: the comparison is recursive, and
  induction over data is out of the prover's reach.

## 5. Plan

* InstallPlans of several CSVs and their approval across policies; the intervention for an unreferenced CSV.

Not modelled and not planned: encryption (reads keys and calls the template library), metrics (nothing reads them back),
the dry run command (a sequential driver around one `Reconcile` with fake clients), mappings (a static table), the start-up
code of `main.go`, the wording of compliance messages and diffs, generated code. `PROJECT.json` has the reasons.
