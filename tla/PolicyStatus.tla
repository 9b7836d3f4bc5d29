---------------------------- MODULE PolicyStatus ----------------------------
(***************************************************************************)
(* How the ConfigurationPolicy controller schedules the evaluations of one *)
(* policy and reports their results: Reconcile, shouldEvaluatePolicy, the  *)
(* template loop of handleObjectTemplates, addConditionToStatus,           *)
(* addForUpdate and updatePolicyStatus, against an API server whose copy   *)
(* in the informer cache lags behind.                                      *)
(*                                                                         *)
(* Data is abstracted to what these functions tell apart.  A spec has a    *)
(* number of object templates, the value they ask for, a remediation       *)
(* action and, for each compliance, an evaluation interval that is watch,  *)
(* never or a duration.  Each template has an object of its own, with a    *)
(* value; the verdict on it is cached until the object or the spec is      *)
(* changed (module ObjectEvaluation has templates that share an object).   *)
(* A condition is its reason.                                              *)
(* Related objects and finalizers are in module RelatedObjects.            *)
(***************************************************************************)
EXTENDS Integers, Sequences, FiniteSets

CONSTANTS
    Specs,       \* the specs the policy is given
    MaxTemplates,
    Faults,      \* which environment actions a run allows
    MaxUid,      \* bound: creations of a policy with this name
    MaxGen,      \* bound: generations of one policy
    MaxTime,     \* bound: seconds of the clock
    MaxChanges,  \* bound: changes of the objects on the cluster
    MaxFaults,   \* bound: failed calls, crashes and resets
    None         \* the policy does not exist

Templates == 1 .. MaxTemplates
Uids == 1 .. MaxUid
Interval == {"watch", "never", "poll"}   \* poll: a duration
PolicySpec == [n : 0 .. MaxTemplates, asks : BOOLEAN, enforce : BOOLEAN,
               compliant : Interval, noncompliant : Interval]
FaultKind == {"statusFail", "eventFail", "templateError", "updateError",
              "crash", "reset", "delete"}

ASSUME ConstantsAssumption ==
    /\ MaxTemplates \in Nat \ {0} /\ Specs \subseteq PolicySpec
    /\ Faults \subseteq FaultKind
    /\ MaxUid \in Nat \ {0} /\ MaxGen \in Nat \ {0} /\ MaxTime \in Nat \ {0}
    /\ MaxChanges \in Nat /\ MaxFaults \in Nat

\* Reasons of conditions, and the compliance they come with.
CompliantReason == {"exists", "updated", "noTemplates"}
NonCompliantReason == {"noMatch", "updateFailed", "templateError"}
Reason == CompliantReason \cup NonCompliantReason \cup {"unknown"}
ComplianceState == {"", "Compliant", "NonCompliant", "Unknown"}

\* srcUid and srcGen are history: the policy whose templates were evaluated, and
\* the oldest generation that a verdict is about.
Status == [state : ComplianceState, details : Seq(Reason), time : 0 .. MaxTime,
           gen : 0 .. MaxGen, srcUid : 0 .. MaxUid, srcGen : 0 .. MaxGen]
Policy == [uid : Uids, gen : 1 .. MaxGen, spec : Specs, status : Status]
NoStatus == [state |-> "", details |-> <<>>, time |-> 0, gen |-> 0,
             srcUid |-> 0, srcGen |-> 0]

\* The entry of processedPolicyCache for the object of a template, at the version
\* it has; gen is history: the generation of the template that was compared.
Verdict == [uid : 0 .. MaxUid, gen : 0 .. MaxGen, reason : Reason]
NoVerdict == [uid |-> 0, gen |-> 0, reason |-> "unknown"]
NoVerdicts == [t \in Templates |-> NoVerdict]

ASSUME NoneAssumption == None \notin Policy

VARIABLES
    api,         \* the policy on the API server
    events,      \* its versions that the informer has not handled yet
    cache,       \* the policy in the informer cache
    objects,     \* cluster: the values of the templates' objects
    now,         \* the clock, in the seconds of RFC 3339
    queued,      \* the workqueue holds a request for the policy
    timer,       \* the RequeueAfter of a duration: none, pending or due
    watched,     \* templates whose objects the dynamic watcher watches
    lastEvaluated,  \* lastEvaluatedCache, 0 when there is no entry
    verdicts,    \* processedPolicyCache
    pc, policy,  \* the worker and its in-memory copy (policy.status included)
    evaluated,   \* the templates in the loop: uid, generation, number, value; and
                 \* (history) the oldest generation a verdict so far is about
    index, batch, after, tries, errs, usingWatch, statusUpdateNeeded,
    parent,      \* compliance in the last event the parent received
    unwritten,   \* history: that event announced a status that was not written
    unsent,      \* history: an event failed, and no status was written since
    sameSecond,  \* history: the stored status replaced one of the same second
    staleStart,  \* history: an evaluation began with a replaced status
    restamped,   \* history: a status was written with a generation that was read
                 \* in the middle of the evaluation
    uids, changes, faults   \* counters of the bounded actions

clusterVars == <<objects, now, uids, changes>>
schedVars == <<queued, timer, watched, lastEvaluated, verdicts>>
loopVars == <<evaluated, index, batch, errs, usingWatch, statusUpdateNeeded>>
history == <<parent, unwritten, unsent, sameSecond, staleStart, restamped>>
workerVars == <<pc, policy, after, tries, loopVars>>
vars == <<api, events, cache, clusterVars, schedVars, workerVars, history, faults>>

-----------------------------------------------------------------------------
(* addConditionToStatus *)

ReasonState(m) == CASE m \in CompliantReason -> "Compliant"
                    [] m \in NonCompliantReason -> "NonCompliant"
                    [] OTHER -> "Unknown"

\* Entries before index that were never reached are added as Unknown.
Padded(details, i) ==
    [j \in 1 .. (IF Len(details) < i THEN i ELSE Len(details)) |->
        IF j <= Len(details) THEN details[j] ELSE "unknown"]

AddCondition(details, i, m) == [Padded(details, i) EXCEPT ![i] = m]
UpdateNeeded(details, i, m) == Padded(details, i)[i] # m

-----------------------------------------------------------------------------
(* addForUpdate *)

Compliance(details) ==
    IF details = <<>> THEN "Unknown"
    ELSE IF \E i \in DOMAIN details : ReasonState(details[i]) = "NonCompliant"
         THEN "NonCompliant" ELSE "Compliant"

\* The generation is the one of the in-memory copy, which the previous status
\* update of the same evaluation may have read again.
Stamped(p) ==
    [p.status EXCEPT !.state = Compliance(p.status.details), !.time = now,
                     !.gen = p.gen,
                     !.srcUid = evaluated.uid, !.srcGen = evaluated.basis]

\* Always send an event if the compliance or the generation changed.
MustSend(p) == p.status.state # Compliance(p.status.details) \/ p.status.gen # p.gen

\* Entry of addForUpdate with a copy whose details are already up to date.
\* The worker goes on at pc = cont when the update is done.
AddForUpdate(p, send, cont) ==
    /\ policy' = [p EXCEPT !.status = Stamped(p)]
    /\ pc' = IF send \/ MustSend(p) THEN "event" ELSE "update"
    /\ after' = cont
    /\ tries' = 1

-----------------------------------------------------------------------------
Evaluation == [uid : 0 .. MaxUid, gen : 0 .. MaxGen, n : 0 .. MaxTemplates,
               asks : BOOLEAN, basis : 0 .. MaxGen]
NoEvaluation == [uid |-> 0, gen |-> 0, n |-> 0, asks |-> FALSE, basis |-> 0]

Init ==
    /\ api = None
    /\ events = <<>>
    /\ cache = None
    /\ objects \in [Templates -> BOOLEAN]
    /\ now = 1
    /\ queued = FALSE
    /\ timer = "none"
    /\ watched = {}
    /\ lastEvaluated = [u \in Uids |-> 0]
    /\ verdicts = NoVerdicts
    /\ pc = "idle"
    /\ policy = None
    /\ evaluated = NoEvaluation
    /\ index = 0
    /\ batch = "unknown"
    /\ after = "idle"
    /\ tries = 0
    /\ errs = FALSE
    /\ usingWatch = FALSE
    /\ statusUpdateNeeded = FALSE
    /\ parent = ""
    /\ unwritten = FALSE
    /\ unsent = FALSE
    /\ sameSecond = FALSE
    /\ staleStart = FALSE
    /\ restamped = FALSE
    /\ uids = 0
    /\ changes = 0
    /\ faults = 0

(* The users, the cluster and the clock *)

\* A write to the API server; one that changes nothing makes no new version.
Write(p) ==
    /\ api' = p
    /\ events' = IF p = api THEN events ELSE Append(events, p)

Create ==
    /\ api = None /\ uids < MaxUid
    /\ uids' = uids + 1
    /\ \E s \in Specs : Write([uid |-> uids + 1, gen |-> 1, spec |-> s,
                              status |-> NoStatus])
    /\ UNCHANGED <<cache, objects, now, changes, schedVars, workerVars, history,
                   faults>>

Edit ==
    /\ api # None /\ api.gen < MaxGen
    /\ \E s \in Specs \ {api.spec} :
           Write([api EXCEPT !.spec = s, !.gen = api.gen + 1])
    /\ UNCHANGED <<cache, clusterVars, schedVars, workerVars, history, faults>>

Delete ==
    /\ "delete" \in Faults /\ api # None
    /\ Write(None)
    /\ UNCHANGED <<cache, clusterVars, schedVars, workerVars, history, faults>>

Fault(kind) == kind \in Faults /\ faults < MaxFaults /\ faults' = faults + 1

\* The governance-policy-framework clears status.compliant.
ResetCompliance ==
    /\ Fault("reset")
    /\ api # None /\ api.status.state # ""
    /\ Write([api EXCEPT !.status.state = ""])
    /\ UNCHANGED <<cache, clusterVars, schedVars, workerVars, history>>

\* An object changes under the policy's hands: a watch event, if it is watched.
ObjectChange(t) ==
    /\ changes < MaxChanges
    /\ changes' = changes + 1
    /\ objects' = [objects EXCEPT ![t] = ~objects[t]]
    /\ verdicts' = [verdicts EXCEPT ![t] = NoVerdict]   \* of another resourceVersion
    /\ queued' = (queued \/ t \in watched)
    /\ UNCHANGED <<api, events, cache, now, uids, timer, watched, lastEvaluated,
                   workerVars, history, faults>>

Tick ==
    /\ now < MaxTime
    /\ now' = now + 1
    /\ UNCHANGED <<api, events, cache, objects, uids, changes, schedVars, workerVars,
                   history, faults>>

-----------------------------------------------------------------------------
(* The informer, with the predicates of SetupWithManager *)

Enqueues(old, new) ==
    \/ old = None \/ new = None
    \/ old.gen # new.gen
    \/ old.status.state # "" /\ new.status.state = ""

\* The informer handles the next version.  DeleteFunc drops the entries of the
\* policy that is gone.
Sync ==
    /\ events # <<>>
    /\ events' = Tail(events)
    /\ cache' = Head(events)
    /\ queued' = (queued \/ Enqueues(cache, cache'))
    /\ lastEvaluated' = IF cache' = None
                        THEN [lastEvaluated EXCEPT ![cache.uid] = 0] ELSE lastEvaluated
    /\ verdicts' = IF cache' = None THEN NoVerdicts ELSE verdicts
    /\ UNCHANGED <<api, clusterVars, timer, watched, workerVars, history, faults>>

-----------------------------------------------------------------------------
(* Reconcile: up to the start of the evaluation *)

IntervalFor(s, state) == IF state = "Compliant" THEN s.compliant ELSE s.noncompliant
WatchFor(s, state) == IntervalFor(s, state) = "watch"

\* Mutant: lastEvaluatedCache is not consulted.
NotSyncedNever(p) == FALSE

\* The status this controller wrote last has not reached the informer cache.
NotSynced(p) == lastEvaluated[p.uid] # 0 /\ lastEvaluated[p.uid] # p.status.time

\* shouldEvaluatePolicy.  The empty compliance state falls through to an
\* interval of zero; the evaluation backoff of a watch only delays.
ShouldEvaluate(p) ==
    /\ ~NotSynced(p)
    /\ \/ p.status.time = 0
       \/ p.status.gen # p.gen
       \/ p.status.state \in {"", "Unknown"}
       \/ WatchFor(p.spec, p.status.state)
       \/ IntervalFor(p.spec, p.status.state) = "poll" /\ timer = "due"

\* The policy is not found.
ReconcileGone ==
    /\ pc = "idle" /\ queued /\ cache = None
    /\ queued' = FALSE
    /\ watched' = {}
    /\ UNCHANGED <<api, events, cache, clusterVars, timer, lastEvaluated, verdicts,
                   workerVars, history, faults>>

\* Mutant: the verdicts on the old spec are kept.
KeptVerdictsAlways(p) == verdicts

\* The verdicts are dropped when the spec was updated, by the generation of the
\* last status.
KeptVerdicts(p) == IF p.status.gen # p.gen THEN NoVerdicts ELSE verdicts

\* The deferred RemoveWatcher of Reconcile, for the copy the worker ends with.
KeptWatches(p, w) == IF WatchFor(p.spec, p.status.state) THEN w ELSE {}

\* RequeueAfter does not replace a timer that is already running.
Requeued(s, state) ==
    IF IntervalFor(s, state) = "poll" /\ timer = "none" THEN "pending" ELSE timer

\* Nothing to do; a status that is not synced is looked at again in a second.
ReconcileSkip ==
    /\ pc = "idle" /\ queued /\ cache # None /\ ~ShouldEvaluate(cache)
    /\ queued' = NotSynced(cache)
    /\ timer' = IF NotSynced(cache) THEN timer
                ELSE Requeued(cache.spec, cache.status.state)
    /\ watched' = KeptWatches(cache, watched)
    /\ verdicts' = KeptVerdicts(cache)
    /\ UNCHANGED <<api, events, cache, clusterVars, lastEvaluated, workerVars, history,
                   faults>>

\* Details of templates that are gone are cut off.
Truncated(details, n) == SubSeq(details, 1, IF Len(details) < n THEN Len(details) ELSE n)

\* The API server has a newer evaluation of this very policy, not just a reset.
Replaced(p) ==
    /\ api # None /\ api.uid = p.uid
    /\ api.status \notin {p.status, [p.status EXCEPT !.state = ""]}

ReconcileBegin ==
    /\ pc = "idle" /\ queued /\ cache # None /\ ShouldEvaluate(cache)
    /\ queued' = FALSE
    /\ timer' = IF timer = "due" THEN "none" ELSE timer
    /\ pc' = "templates"
    /\ policy' = [cache EXCEPT !.status.details = Truncated(@, cache.spec.n)]
    /\ evaluated' = [uid |-> cache.uid, gen |-> cache.gen, n |-> cache.spec.n,
                     asks |-> cache.spec.asks, basis |-> cache.gen]
    /\ verdicts' = KeptVerdicts(cache)
    /\ index' = 1
    /\ errs' = FALSE
    /\ usingWatch' = WatchFor(cache.spec, cache.status.state)
    /\ statusUpdateNeeded' = FALSE
    /\ staleStart' = (staleStart \/ Replaced(cache))
    /\ UNCHANGED <<api, events, cache, clusterVars, watched, lastEvaluated, batch,
                   after, tries, parent, unwritten, unsent, sameSecond, restamped,
                   faults>>

-----------------------------------------------------------------------------
(* handleObjectTemplates: the loop over the templates *)

NoTemplates ==
    /\ pc = "templates" /\ evaluated.n = 0
    /\ LET details == <<"noTemplates">>
           needed == UpdateNeeded(policy.status.details, 1, "noTemplates")
       IN  AddForUpdate([policy EXCEPT !.status.details = details], needed, "end")
    /\ UNCHANGED <<api, events, cache, clusterVars, schedVars, loopVars, history, faults>>

\* The worker looks at the object of the template, under a watch if there is one.
Watches == watched' = IF usingWatch THEN watched \cup {index} ELSE watched

\* A template with one event: its condition is set and the loop goes on.
OneBatch(m) ==
    /\ policy' = [policy EXCEPT !.status.details = AddCondition(@, index, m)]
    /\ statusUpdateNeeded' = (\/ statusUpdateNeeded
                              \/ UpdateNeeded(policy.status.details, index, m))
    /\ index' = index + 1
    /\ UNCHANGED <<pc, batch, after, tries>>

\* A template with two events, noMatch and then m: the first is reported before
\* the second, unless m is a violation that is reported already.
TwoBatches(m) ==
    LET details == policy.status.details
        shown == [policy EXCEPT !.status.details = AddCondition(@, index, "noMatch")]
    IN  IF m \in NonCompliantReason /\ ~UpdateNeeded(details, index, m)
        THEN /\ index' = index + 1
             /\ UNCHANGED <<pc, policy, statusUpdateNeeded, batch, after, tries>>
        ELSE /\ batch' = m
             /\ UNCHANGED index
             /\ IF UpdateNeeded(details, index, "noMatch")
                THEN /\ statusUpdateNeeded' = TRUE
                     /\ AddForUpdate(shown, TRUE, "batch")
                ELSE /\ pc' = "batch"
                     /\ policy' = shown
                     /\ UNCHANGED <<statusUpdateNeeded, after, tries>>

InLoop == pc = "templates" /\ evaluated.n # 0 /\ index <= evaluated.n

\* The object is as the template asks, and is compared with it unless there is a
\* verdict of this policy on this version of the object.
Matches == objects[index] = evaluated.asks
Cached == verdicts[index].uid = policy.uid
Judge == InLoop /\ ~Cached /\ Watches

\* setEvaluatedObject
SetEvaluated(m) ==
    verdicts' = [verdicts EXCEPT ![index] = [uid |-> policy.uid, gen |-> evaluated.gen,
                                             reason |-> m]]

\* alreadyEvaluated: the cached verdict is one event.
TemplateCached ==
    /\ InLoop /\ Cached
    /\ OneBatch(verdicts[index].reason)
    /\ Watches
    /\ evaluated' = [evaluated EXCEPT !.basis = IF verdicts[index].gen < @
                                               THEN verdicts[index].gen ELSE @]
    /\ UNCHANGED <<api, events, cache, clusterVars, queued, timer, lastEvaluated, verdicts,
                   errs, usingWatch, history, faults>>

TemplateMatches ==
    /\ Judge /\ Matches
    /\ OneBatch("exists")
    /\ SetEvaluated("exists")
    /\ UNCHANGED <<api, events, cache, clusterVars, queued, timer, lastEvaluated,
                   evaluated, errs, usingWatch, history, faults>>

\* inform: the remediation action is the one of the in-memory copy.
TemplateInformed ==
    /\ Judge /\ ~Matches /\ ~policy.spec.enforce
    /\ OneBatch("noMatch")
    /\ SetEvaluated("noMatch")
    /\ UNCHANGED <<api, events, cache, clusterVars, queued, timer, lastEvaluated,
                   evaluated, errs, usingWatch, history, faults>>

\* enforce: the object is updated, which its watch reports back.
TemplateEnforced ==
    /\ Judge /\ ~Matches /\ policy.spec.enforce
    /\ TwoBatches("updated")
    /\ SetEvaluated("exists")
    /\ objects' = [objects EXCEPT ![index] = evaluated.asks]
    /\ queued' = (queued \/ usingWatch)
    /\ UNCHANGED <<api, events, cache, now, uids, changes, timer, lastEvaluated,
                   evaluated, errs, usingWatch, history, faults>>

\* The update, or its dry run, is refused, which is no error of the evaluation.  It
\* is tried again next time, unless the template itself or an immutable field is the
\* reason; such a template, and such a field, do not count as tried.
TemplateUpdateFails ==
    /\ Judge /\ ~Matches
    /\ "updateError" \in Faults
    /\ \/ TwoBatches("updateFailed") /\ (UNCHANGED verdicts \/ SetEvaluated("updateFailed"))
       \/ OneBatch("updateFailed") /\ SetEvaluated("updateFailed")
    /\ UNCHANGED <<api, events, cache, clusterVars, queued, timer, lastEvaluated,
                   evaluated, errs, usingWatch, history, faults>>

\* determineDesiredObjects fails: one event, and the evaluation returns an error.
TemplateFails ==
    /\ InLoop
    /\ Fault("templateError")
    /\ OneBatch("templateError")
    /\ errs' = TRUE
    /\ watched' = watched \ {index}   \* not queried in this batch
    /\ UNCHANGED <<api, events, cache, clusterVars, queued, timer, lastEvaluated,
                   verdicts, evaluated, usingWatch, history>>

\* The second batch, after the status update of the first.
SecondBatch ==
    /\ pc = "batch"
    /\ policy' = [policy EXCEPT !.status.details = AddCondition(@, index, batch)]
    /\ statusUpdateNeeded' = (\/ statusUpdateNeeded
                              \/ UpdateNeeded(policy.status.details, index, batch))
    /\ index' = index + 1
    /\ pc' = "templates"
    /\ batch' = "unknown" /\ after' = "idle" /\ tries' = 0
    /\ UNCHANGED <<api, events, cache, clusterVars, schedVars, evaluated, errs, usingWatch,
                   history, faults>>

LoopDone ==
    /\ pc = "templates" /\ evaluated.n # 0 /\ index > evaluated.n
    /\ AddForUpdate(policy, statusUpdateNeeded, "end")
    /\ UNCHANGED <<api, events, cache, clusterVars, schedVars, loopVars, history, faults>>

-----------------------------------------------------------------------------
(* updatePolicyStatus *)

SendComplianceEvent ==
    /\ pc = "event"
    /\ parent' = policy.status.state
    /\ unwritten' = TRUE
    /\ pc' = "update"
    /\ UNCHANGED <<api, events, cache, clusterVars, schedVars, policy, after, tries,
                   loopVars, unsent, sameSecond, staleStart, restamped, faults>>

\* Mutant: the status is written although the event was not sent.
SendComplianceEventIgnored ==
    /\ pc = "event"
    /\ Fault("eventFail")
    /\ pc' = "update"
    /\ UNCHANGED <<api, events, cache, clusterVars, schedVars, policy, after, tries,
                   loopVars, history>>

\* The error is logged by addForUpdate and the status is not written.
SendComplianceEventFails ==
    /\ pc = "event"
    /\ Fault("eventFail")
    /\ unsent' = TRUE
    /\ pc' = after
    /\ UNCHANGED <<api, events, cache, clusterVars, schedVars, policy, after, tries,
                   loopVars, parent, unwritten, sameSecond, staleStart, restamped>>

\* The copy that is refreshed from the informer cache before every attempt
Refreshed == [cache EXCEPT !.status = policy.status]

\* Mutant: the copy of the recreated policy is taken for the evaluated one.
RecreatedUnseen == FALSE

\* The policy was deleted and created again since it was evaluated.
Recreated == cache # None /\ cache.uid # policy.uid

\* The status update is skipped, and the evaluated UID is put back.
UpdateSkipped ==
    /\ pc = "update" /\ Recreated
    /\ policy' = [Refreshed EXCEPT !.uid = policy.uid]
    /\ lastEvaluated' = [lastEvaluated EXCEPT ![policy.uid] = policy.status.time]
    /\ pc' = after
    /\ UNCHANGED <<api, events, cache, clusterVars, queued, timer, watched, verdicts,
                   after, tries, loopVars, history, faults>>

\* The API server takes the update of a copy that has its resourceVersion.
UpdateWritten ==
    /\ pc = "update" /\ cache # None /\ ~Recreated
    /\ events = <<>>
    /\ policy' = Refreshed
    /\ Write(Refreshed)
    /\ unwritten' = (unwritten /\ policy.status.state # parent)
    /\ unsent' = FALSE
    /\ sameSecond' = (policy.status.time = api.status.time)
    /\ restamped' = (restamped \/ policy.status.gen # evaluated.gen)
    /\ lastEvaluated' = [lastEvaluated EXCEPT ![policy.uid] = policy.status.time]
    /\ pc' = after
    /\ UNCHANGED <<cache, clusterVars, queued, timer, watched, verdicts, after, tries,
                   loopVars, parent, staleStart, faults>>

\* Mutant: one attempt too many.
AttemptFailsLate ==
    /\ policy' = IF cache = None THEN policy ELSE Refreshed
    /\ tries' = tries + 1
    /\ pc' = IF tries > 3 THEN after ELSE "update"
    /\ UNCHANGED <<api, events, cache, clusterVars, schedVars, after, loopVars, history>>

\* An attempt fails: a conflict, a policy that is gone, or an error.  After the
\* third, addForUpdate logs the error and returns.
AttemptFails ==
    /\ policy' = IF cache = None THEN policy ELSE Refreshed
    /\ tries' = tries + 1
    /\ pc' = IF tries = 3 THEN after ELSE "update"
    /\ UNCHANGED <<api, events, cache, clusterVars, schedVars, after, loopVars, history>>

UpdateConflicts ==
    /\ pc = "update" /\ ~Recreated
    /\ cache = None \/ events # <<>>
    /\ AttemptFails
    /\ UNCHANGED faults

UpdateFails ==
    /\ pc = "update" /\ ~Recreated
    /\ Fault("statusFail")
    /\ AttemptFails

-----------------------------------------------------------------------------
(* Reconcile: after the evaluation *)

\* Reconcile returns, or dies: its locals are gone.
Return ==
    /\ pc' = "idle" /\ policy' = None /\ evaluated' = NoEvaluation
    /\ index' = 0 /\ batch' = "unknown" /\ after' = "idle" /\ tries' = 0
    /\ errs' = FALSE /\ usingWatch' = FALSE /\ statusUpdateNeeded' = FALSE

\* An error is requeued.  A duration is scheduled, a watch and never are not.
\* EndQueryBatch keeps the watches of this evaluation only.
ReconcileEnd ==
    /\ pc = "end"
    /\ Return
    /\ queued' = (queued \/ errs)
    /\ timer' = IF errs THEN timer ELSE Requeued(policy.spec, policy.status.state)
    /\ watched' = KeptWatches(policy, IF usingWatch THEN watched \cap (1 .. evaluated.n)
                                                    ELSE watched)
    /\ UNCHANGED <<api, events, cache, clusterVars, lastEvaluated, verdicts, history,
                   faults>>

\* A duration has elapsed since the last evaluation.
TimerFires ==
    /\ timer = "pending"
    /\ timer' = "due"
    /\ queued' = TRUE
    /\ UNCHANGED <<api, events, cache, clusterVars, watched, lastEvaluated, verdicts,
                   workerVars, history, faults>>

\* The controller restarts with empty caches and lists the policies again.
Crash ==
    /\ Fault("crash")
    /\ events' = <<>>
    /\ cache' = api
    /\ queued' = (api # None)
    /\ timer' = "none"
    /\ watched' = {}
    /\ lastEvaluated' = [u \in Uids |-> 0]
    /\ verdicts' = NoVerdicts
    /\ Return
    /\ UNCHANGED <<api, clusterVars, history>>

-----------------------------------------------------------------------------
Environment ==
    \/ Create \/ Edit \/ Delete \/ ResetCompliance \/ Tick \/ Crash
    \/ \E t \in Templates : ObjectChange(t)

Worker ==
    \/ ReconcileGone \/ ReconcileSkip \/ ReconcileBegin
    \/ NoTemplates \/ TemplateCached \/ TemplateMatches \/ TemplateInformed
    \/ TemplateEnforced \/ TemplateUpdateFails \/ TemplateFails \/ SecondBatch \/ LoopDone
    \/ SendComplianceEvent \/ SendComplianceEventFails
    \/ UpdateSkipped \/ UpdateWritten \/ UpdateConflicts \/ UpdateFails
    \/ ReconcileEnd

Next == Environment \/ Sync \/ TimerFires \/ Worker

Spec == Init /\ [][Next]_vars

\* The informer catches up and the worker goes on.  Nothing else is promised:
\* not that a policy, an object or the clock ever changes.
Fairness == WF_vars(Sync) /\ WF_vars(TimerFires) /\ WF_vars(Worker)

FairSpec == Spec /\ Fairness

-----------------------------------------------------------------------------
(* Properties *)

Evaluated(p) == p # None /\ p.status.time # 0

DataOK ==
    /\ api \in Policy \cup {None} /\ cache \in Policy \cup {None}
    /\ events \in Seq(Policy \cup {None})
    /\ now \in 1 .. MaxTime
    /\ timer \in {"none", "pending", "due"}
    /\ watched \subseteq Templates
    /\ lastEvaluated \in [Uids -> 0 .. MaxTime]
    /\ verdicts \in [Templates -> Verdict]
    /\ parent \in ComplianceState
    /\ uids \in 0 .. MaxUid /\ changes \in 0 .. MaxChanges /\ faults \in 0 .. MaxFaults

LocalsOK ==
    /\ pc \in {"idle", "templates", "batch", "event", "update", "end"}
    /\ policy \in Policy \cup {None}
    /\ (pc = "idle") <=> (policy = None)
    /\ evaluated \in Evaluation
    /\ index \in 0 .. MaxTemplates + 1
    /\ pc = "batch" \/ (pc \in {"event", "update"} /\ after = "batch")
          => index \in 1 .. evaluated.n
    /\ batch \in Reason
    /\ after \in {"idle", "batch", "end"}
    /\ pc \in {"event", "update"} => after # "idle"
    /\ tries \in 0 .. 4 /\ (pc = "update" => tries \in 1 .. 3)

FlagsOK ==
    /\ objects \in [Templates -> BOOLEAN]
    /\ queued \in BOOLEAN
    /\ errs \in BOOLEAN /\ usingWatch \in BOOLEAN /\ statusUpdateNeeded \in BOOLEAN
    /\ unwritten \in BOOLEAN /\ unsent \in BOOLEAN
    /\ sameSecond \in BOOLEAN /\ staleStart \in BOOLEAN /\ restamped \in BOOLEAN

\* Type invariant: the copies of the policy keep the shape of the API type, and
\* the worker's locals the shape of the Go variables.
TypeOK == DataOK /\ LocalsOK /\ FlagsOK

\* updatePolicyStatus: "If the UID has changed, then the policy has been deleted
\* and created again. Do not update the status, because it was calculated based
\* on a previous version."  However deletion, recreation, informer and the
\* retries interleave, a policy never carries a status of its predecessor.
StatusBelongsToPolicy ==
    Evaluated(api) => api.status.srcUid = api.uid

\* lastEvaluatedCache: "a workaround to account for race conditions where the
\* status is updated but the controller-runtime cache has not updated yet".  An
\* evaluation never starts from a status older than the one on the API server,
\* unless the latter replaced one that was stamped in the same second.
FreshStart ==
    [][pc = "idle" /\ pc' = "templates" => ~Replaced(cache) \/ sameSecond]_vars

AtRest == pc = "idle" /\ ~queued /\ events = <<>>

\* addForUpdate: "events will be sent if the compliance or policy generation
\* changes".  When all is at rest, the last event the parent policy received
\* says what the status of the policy says, after conflicts, compliance resets,
\* recreations and failed events, unless the status of that very event was
\* never written or an evaluation began with a replaced status (FreshStart).
\* A compliance that was reset is only left empty when the event that answers
\* the reset failed: addForUpdate logs that, and no evaluation follows.
ParentAgrees ==
    AtRest /\ Evaluated(api) /\ ~unwritten /\ ~staleStart
        => parent = api.status.state \/ (api.status.state = "" /\ unsent)

Reported(p) ==
    /\ p.status.gen = p.gen
    /\ p.status.state = IF \A t \in 1 .. p.spec.n : objects[t] = p.spec.asks
                        THEN "Compliant" ELSE "NonCompliant"

\* A verdict in the status is about an older generation than the one it bears,
\* which was once read in the middle of an evaluation.
RestsOnOlder(p) == restamped /\ p.status.gen # p.status.srcGen

\* Watches are registered by the compliance before an evaluation: a policy on
\* watches for one compliance only can turn to it without them.
LeftUnwatched(p) ==
    /\ WatchFor(p.spec, "Compliant") # WatchFor(p.spec, "NonCompliant")
    /\ WatchFor(p.spec, p.status.state) /\ ~(1 .. p.spec.n \subseteq watched)

\* With watch or a duration for each compliance state, the status in the end
\* reports the newest spec against the objects as they are, although most
\* verdicts come from the cache.  The exceptions: a verdict about an older
\* generation than the one the status was stamped with, a policy left unwatched,
\* an evaluation that began with a replaced status, so that its conflicts announce
\* nothing new (see FreshStart), and an event or a status that addForUpdate failed
\* to send or write, which it only logs.
EventuallyReported ==
    <>[](\/ api = None \/ Reported(api)
         \/ RestsOnOlder(api) \/ LeftUnwatched(api)
         \/ staleStart \/ unsent \/ unwritten)
=============================================================================
