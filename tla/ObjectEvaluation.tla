-------------------------- MODULE ObjectEvaluation --------------------------
(***************************************************************************)
(* The evaluation of named object templates on watches: handleObjects,     *)
(* handleSingleObj, enforceByCreating, enforceByDeleting,                  *)
(* checkAndUpdateResource and the cache of verdicts, processedPolicyCache. *)
(*                                                                         *)
(* One policy whose templates all name the same object, the case in which  *)
(* they share its cached verdict; each template is about a field of its    *)
(* own.  A template is of a kind that stays, and has a value that edits of *)
(* the spec, or of what hub templates look up, change.  The object is read *)
(* through the watch cache, a copy that trails the API server; every write *)
(* is checked against the object as it is by then.                         *)
(***************************************************************************)
EXTENDS Naturals, Sequences

CONSTANTS
    Kinds,       \* the templates the policy may have: sequences of kinds
    Values,      \* values of a field, Unset is none of them
    MaxChanges,  \* bound: changes of the object and its namespace by others
    MaxEdits,    \* bound: edits of the policy and of hub values
    MaxFaults,   \* bound: failed calls and crashes
    Unset, None

\* shape: "vacuous" differs from the object in a way the API server drops,
\* "bad" is refused by it, "templated" has a managed template.
Kind == [exist : BOOLEAN, status : BOOLEAN, immutable : BOOLEAN,
         recreate : {"None", "IfRequired", "Always"},
         shape : {"plain", "templated", "vacuous", "bad"}]

\* The object on the API server, or a copy of it: a field for each template.
Objects(templates) == [uid : Nat, rv : Nat, vals : [templates -> Values \cup {Unset}],
                       ready : BOOLEAN, deleting : BOOLEAN]

ASSUME ConstantsAssumption ==
    /\ Kinds \subseteq Seq(Kind) /\ Unset \notin Values
    /\ \A k \in Kinds : k # <<>> /\ None \notin Objects(DOMAIN k)
    /\ MaxChanges \in Nat /\ MaxEdits \in Nat /\ MaxFaults \in Nat

VARIABLES
    kinds,         \* the kinds of the policy's templates
    policy,        \* its generation, remediation action and the templates' values
    lastGen,       \* status.lastEvaluatedGeneration
    obj, clock,    \* the object; its changes so far, which number UIDs and resourceVersions
    ns, nsWatched, \* its namespace exists; the policy watches it
    seen, heard,   \* the object in the watch cache, and the clock of its last event
    queued,
    processed,     \* processedPolicyCache: what it holds of this policy, by UID
    reported,      \* the verdicts in the status
    pc, plc, index, existing, attempts, results, errs, batches,   \* the worker
    refused,       \* history: the last write to the object was refused
    missed,        \* history: the namespace came back before it was watched
    changes, edits, faults

Templates == DOMAIN kinds
Object == Objects(Templates)
world == <<policy, obj, clock, ns>>
watch == <<seen, heard>>
worker == <<pc, plc, index, existing, attempts, results, errs, batches>>
histories == <<refused, missed>>
counters == <<changes, edits, faults>>
vars == <<kinds, world, lastGen, nsWatched, watch, queued, processed, reported, worker,
          histories, counters>>

\* A verdict, and whether it rests on more than the code took into account.
Unknown == [ok |-> FALSE, odd |-> FALSE]

Init ==
    /\ kinds \in Kinds
    /\ policy \in [gen : {1}, enforce : BOOLEAN, vals : [Templates -> Values]]
    /\ lastGen = 0
    /\ obj = None /\ seen = None /\ clock = 0 /\ heard = 0
    /\ ns = TRUE /\ nsWatched = FALSE
    /\ queued = TRUE
    /\ processed = <<>>
    /\ reported = [t \in Templates |-> Unknown]
    /\ pc = "idle" /\ plc = None /\ index = 0 /\ existing = None /\ attempts = 0
    /\ results = reported /\ errs = FALSE /\ batches = FALSE
    /\ refused = FALSE /\ missed = FALSE
    /\ changes = 0 /\ edits = 0 /\ faults = 0

Fault == faults < MaxFaults /\ faults' = faults + 1 /\ UNCHANGED <<changes, edits>>

-----------------------------------------------------------------------------
(* Users, other controllers, the API server and the watches *)

\* Others write to the object: its fields, its status, a new object, or no
\* object, at once or when its finalizers are gone.
OthersWrite ==
    /\ changes < MaxChanges /\ changes' = changes + 1
    /\ \/ /\ obj # None
          /\ \/ \E t \in Templates, v \in Values \cup {Unset} :
                   v # obj.vals[t] /\ obj' = [obj EXCEPT !.vals[t] = v, !.rv = clock + 1]
             \/ /\ \E t \in Templates : kinds[t].status
                /\ obj' = [obj EXCEPT !.ready = ~@, !.rv = clock + 1]
             \/ ~obj.deleting /\ obj' = [obj EXCEPT !.deleting = TRUE, !.rv = clock + 1]
             \/ obj' = None
       \/ /\ obj = None /\ ns
          /\ \E v \in Values \cup {Unset} :
                obj' = [uid |-> clock + 1, rv |-> clock + 1, vals |-> [t \in Templates |-> v],
                        ready |-> FALSE, deleting |-> FALSE]
    /\ clock' = clock + 1
    /\ UNCHANGED <<kinds, policy, ns, nsWatched, lastGen, watch, queued, processed, reported,
                   worker, histories, edits, faults>>

Terminated ==
    /\ obj # None /\ obj.deleting
    /\ obj' = None /\ clock' = clock + 1
    /\ UNCHANGED <<kinds, policy, ns, nsWatched, lastGen, watch, queued, processed,
                   reported, worker, histories, counters>>

NamespaceGone ==
    /\ ns /\ changes < MaxChanges /\ changes' = changes + 1
    /\ ns' = FALSE /\ obj' = None
    /\ clock' = IF obj = None THEN clock ELSE clock + 1
    /\ UNCHANGED <<kinds, policy, nsWatched, lastGen, watch, queued, processed, reported,
                   worker, histories, edits, faults>>

NamespaceBack ==
    /\ ~ns /\ ns' = TRUE
    /\ queued' = (queued \/ nsWatched)
    /\ UNCHANGED <<kinds, policy, obj, clock, nsWatched, lastGen, watch, processed, reported,
                   worker, histories, counters>>

\* The watch catches up and its event triggers a reconcile.
WatchDelivers ==
    /\ heard # clock
    /\ seen' = obj /\ heard' = clock /\ queued' = TRUE
    /\ UNCHANGED <<kinds, world, nsWatched, lastGen, processed, reported, worker, histories,
                   counters>>

Edit ==
    /\ edits < MaxEdits /\ edits' = edits + 1
    /\ \/ policy' = [policy EXCEPT !.gen = @ + 1, !.enforce = ~@]
       \/ \E t \in Templates : \E v \in Values \ {policy.vals[t]} :
             policy' = [policy EXCEPT !.gen = @ + 1, !.vals[t] = v]
    /\ queued' = TRUE
    /\ UNCHANGED <<kinds, obj, clock, ns, nsWatched, lastGen, watch, processed, reported,
                   worker, histories, changes, faults>>

\* What hub or managed templates look up changes, which is no new generation.
LookupChanges ==
    /\ edits < MaxEdits /\ edits' = edits + 1
    /\ \E t \in Templates : \E v \in Values \ {policy.vals[t]} :
          policy' = [policy EXCEPT !.vals[t] = v]
    /\ queued' = TRUE
    /\ UNCHANGED <<kinds, obj, clock, ns, nsWatched, lastGen, watch, processed, reported,
                   worker, histories, changes, faults>>

-----------------------------------------------------------------------------
(* Reconcile and the loop over the templates *)

\* The spec was updated: the cached verdicts are dropped.
ReconcileBegin ==
    /\ pc = "idle" /\ queued
    /\ queued' = FALSE
    /\ plc' = policy
    /\ processed' = IF lastGen # policy.gen THEN <<>> ELSE processed
    /\ nsWatched' = FALSE
    /\ pc' = "read" /\ index' = 1
    /\ existing' = None /\ attempts' = 0 /\ errs' = FALSE /\ batches' = FALSE
    /\ results' = [t \in Templates |-> Unknown]
    /\ refused' = FALSE /\ missed' = FALSE
    /\ UNCHANGED <<kinds, world, lastGen, watch, reported, counters>>

\* Mutant: the error of an enforcement is not returned.
ConcludeSwallowsErrors(ok, odd, err) ==
    /\ results' = [results EXCEPT ![index] = [ok |-> ok, odd |-> odd]]
    /\ errs' = errs
    /\ existing' = None /\ attempts' = 0
    /\ IF index = Len(kinds) THEN pc' = "finish" /\ UNCHANGED index
       ELSE pc' = "read" /\ index' = index + 1
    /\ UNCHANGED plc

\* The verdict on this template is ready; the next template is due.
Conclude(ok, odd, err) ==
    /\ results' = [results EXCEPT ![index] = [ok |-> ok, odd |-> odd]]
    /\ errs' = (errs \/ err)
    /\ existing' = None /\ attempts' = 0
    /\ IF index = Len(kinds) THEN pc' = "finish" /\ UNCHANGED index
       ELSE pc' = "read" /\ index' = index + 1
    /\ UNCHANGED plc

\* setEvaluatedObject.  History: the template and value the verdict is about,
\* and whether it accounts for the object's status.
SetEvaluatedObject(o, ok, status) ==
    processed' = [u \in DOMAIN processed \cup {o.uid} |->
                    IF u = o.uid
                    THEN [rv |-> o.rv, ok |-> ok, of |-> <<index, plc.vals[index]>>,
                          status |-> status]
                    ELSE processed[u]]

\* Mutant: the resourceVersion is not compared.
AlreadyEvaluatedByUid(o) == o.uid \in DOMAIN processed

AlreadyEvaluated(o) == o.uid \in DOMAIN processed /\ processed[o.uid].rv = o.rv

\* A cached verdict that is not about this template and value, or passed over
\* the status.
Borrowed(o) == \/ processed[o.uid].of # <<index, plc.vals[index]>>
               \/ kinds[index].status /\ ~processed[o.uid].status

\* handleSingleObj as far as it calls nothing; read is the object, or None.
HandleSingleObj(read) ==
    LET kind == kinds[index]
        odd == read # seen
        cached == kind.shape # "templated" /\ read # None /\ AlreadyEvaluated(read)
    IN  CASE kind.exist /\ read = None /\ plc.enforce ->
               pc' = "create" /\ batches' = TRUE
               /\ UNCHANGED <<index, existing, attempts, results, errs, plc>>
          [] kind.exist /\ read = None /\ ~plc.enforce ->
               Conclude(FALSE, odd, FALSE) /\ UNCHANGED batches
          [] ~kind.exist /\ read # None /\ plc.enforce ->
               pc' = "delete"
               /\ UNCHANGED <<index, existing, attempts, results, errs, plc, batches>>
          [] ~kind.exist /\ read # None /\ ~plc.enforce ->
               Conclude(FALSE, odd, FALSE) /\ UNCHANGED batches
          [] ~kind.exist /\ read = None ->
               Conclude(TRUE, odd, FALSE) /\ UNCHANGED batches
          [] kind.exist /\ cached ->
               Conclude(processed[read.uid].ok, Borrowed(read), FALSE)
               /\ UNCHANGED batches
          [] kind.exist /\ read # None /\ ~cached ->
               pc' = "check" /\ existing' = read
               /\ UNCHANGED <<index, attempts, results, errs, plc, batches>>

\* handleObjects: a read that fails is taken for an object that is not there.  A
\* managed template clears the cached verdicts first.
HandleObjects ==
    /\ pc = "read"
    /\ \E read \in {seen, None} :
          /\ read = seen \/ (seen # None /\ faults < MaxFaults)
          /\ faults' = IF read = seen THEN faults ELSE faults + 1
          /\ processed' = IF kinds[index].shape = "templated" THEN <<>> ELSE processed
          /\ HandleSingleObj(read)
    /\ UNCHANGED <<kinds, world, lastGen, nsWatched, watch, queued, reported, histories,
                   changes, edits>>

\* The object as the template makes it.
Made == [uid |-> clock + 1, rv |-> clock + 1,
         vals |-> [t \in Templates |-> IF t = index THEN plc.vals[t] ELSE Unset],
         ready |-> FALSE, deleting |-> FALSE]

\* enforceByCreating: the error of a failed create is returned, unless it is
\* the namespace that is missing.  A new object's status was not checked.
EnforceByCreating ==
    /\ pc = "create"
    /\ \/ /\ obj = None /\ ns /\ kinds[index].shape # "bad"
          /\ obj' = Made /\ clock' = clock + 1
          /\ Conclude(~kinds[index].status, FALSE, FALSE)
          /\ refused' = FALSE
          /\ UNCHANGED counters
       \/ /\ obj # None \/ kinds[index].shape = "bad"
          /\ Conclude(FALSE, FALSE, TRUE)
          /\ UNCHANGED <<obj, clock, refused, counters>>
       \/ /\ ~ns /\ kinds[index].shape # "bad"
          /\ pc' = "watchns"
          /\ UNCHANGED <<obj, clock, index, existing, attempts, results, errs, plc, refused,
                         counters>>
       \/ /\ Fault
          /\ Conclude(FALSE, FALSE, TRUE)
          /\ UNCHANGED <<obj, clock, refused>>
    /\ UNCHANGED <<kinds, policy, ns, nsWatched, lastGen, watch, queued, processed, reported,
                   batches, missed>>

\* The namespace is watched for its return; a namespace that is back already
\* brings no event.
WatchNamespace ==
    /\ pc = "watchns"
    /\ \/ /\ nsWatched' = TRUE /\ missed' = ns
          /\ Conclude(FALSE, FALSE, FALSE)
          /\ UNCHANGED counters
       \/ /\ Fault
          /\ Conclude(FALSE, FALSE, TRUE)
          /\ UNCHANGED <<nsWatched, missed>>
    /\ UNCHANGED <<kinds, world, lastGen, watch, queued, processed, reported, batches, refused>>

\* A deleted object is gone, or waits for its finalizers.
Delete ==
    \/ /\ ~obj.deleting
       /\ obj' \in {None, [obj EXCEPT !.deleting = TRUE, !.rv = clock + 1]}
       /\ clock' = clock + 1
    \/ obj.deleting /\ UNCHANGED <<obj, clock>>

\* enforceByDeleting: a deleted object may wait for its finalizers; one that is
\* gone already is "completed" with an error.
EnforceByDeleting ==
    /\ pc = "delete"
    /\ \/ /\ obj # None
          /\ Delete
          /\ Conclude(TRUE, FALSE, FALSE)
          /\ UNCHANGED counters
       \/ /\ obj = None
          /\ Conclude(TRUE, FALSE, TRUE)
          /\ UNCHANGED <<obj, clock, counters>>
       \/ /\ Fault
          /\ Conclude(FALSE, FALSE, TRUE)
          /\ UNCHANGED <<obj, clock>>
    /\ UNCHANGED <<kinds, policy, ns, nsWatched, lastGen, watch, queued, processed, reported,
                   batches, histories>>

-----------------------------------------------------------------------------
(* checkAndUpdateResource *)

StatusMismatch == kinds[index].status /\ ~existing.ready

\* handleKeys: the fields differ from the template.
UpdateNeeded == \/ kinds[index].shape \in {"vacuous", "bad"}
                \/ existing.vals[index] # plc.vals[index]

checked == <<kinds, policy, ns, nsWatched, lastGen, watch, queued, reported, missed>>

\* The fields match: the verdict is about the status.
Matches ==
    /\ pc = "check" /\ ~UpdateNeeded
    /\ SetEvaluatedObject(existing, ~StatusMismatch, TRUE)
    /\ Conclude(~StatusMismatch, FALSE, FALSE)
    /\ UNCHANGED <<checked, obj, clock, batches, refused, counters>>

\* A conflict, in the dry run or in the update: the object is read again, and
\* checked again.
Refetch ==
    /\ pc \in {"check", "update"} /\ (pc = "check" => UpdateNeeded)
    /\ obj # None /\ obj.rv # existing.rv
    /\ existing' = obj
    /\ pc' = "check"
    /\ UNCHANGED <<checked, obj, clock, processed, plc, index, attempts, results, errs,
                   batches, refused, counters>>

\* Any other error of the dry run or the update, a failed read after a conflict
\* included, is a verdict and no error: nothing is retried or cached, and whether
\* the update would have changed anything is not known.
UpdateRefused ==
    /\ pc \in {"check", "update"} /\ (pc = "check" => UpdateNeeded)
    /\ \/ obj = None /\ UNCHANGED counters
       \/ obj # None /\ Fault
    /\ refused' = (obj # None)
    /\ Conclude(FALSE, kinds[index].shape = "vacuous", FALSE)
    /\ UNCHANGED <<checked, obj, clock, processed, batches>>

\* The outcomes of the dry run that settle the verdict: a bad request, a change
\* that an immutable field refuses and no recreation allows, an update that
\* changes nothing, and one that inform does not make.  When the update changes
\* nothing the object is compliant, and cached so, whatever its status.
DryRunSettles ==
    LET kind == kinds[index]
        vacuous == kind.shape = "vacuous"
        invalid == kind.shape = "plain" /\ kind.immutable
        passedOver == vacuous /\ StatusMismatch
    IN  /\ pc = "check" /\ UpdateNeeded
        /\ obj # None /\ obj.rv = existing.rv
        /\ \/ kind.shape \in {"vacuous", "bad"}
           \/ invalid /\ (~plc.enforce \/ kind.recreate = "None")
           \/ ~invalid /\ ~plc.enforce
        /\ SetEvaluatedObject(existing, vacuous, ~passedOver)
        /\ Conclude(vacuous, passedOver, FALSE)
        /\ UNCHANGED <<checked, obj, clock, batches, refused, counters>>

\* Enforced, and the dry run showed a change: update, or recreate.
DryRunPasses ==
    LET kind == kinds[index]
    IN  /\ pc = "check" /\ UpdateNeeded /\ plc.enforce
        /\ obj # None /\ obj.rv = existing.rv
        /\ kind.shape \in {"plain", "templated"}
        /\ \/ kind.recreate = "Always" /\ pc' = "redelete"
           \/ kind.recreate = "IfRequired" /\ kind.immutable /\ pc' = "redelete"
           \/ kind.recreate # "Always" /\ ~kind.immutable /\ pc' = "update"
        /\ batches' = TRUE
        /\ UNCHANGED <<checked, obj, clock, processed, plc, index, existing, attempts, results,
                       errs, refused, counters>>

Update ==
    /\ pc = "update"
    /\ obj # None /\ obj.rv = existing.rv
    /\ obj' = [obj EXCEPT !.vals[index] = plc.vals[index], !.rv = clock + 1]
    /\ clock' = clock + 1
    /\ refused' = FALSE
    /\ IF StatusMismatch THEN UNCHANGED processed
       ELSE SetEvaluatedObject(obj', TRUE, TRUE)
    /\ Conclude(~StatusMismatch, FALSE, FALSE)
    /\ UNCHANGED <<checked, batches, counters>>

\* The object is deleted to be created again; that it is gone is no error.
RecreateDelete ==
    /\ pc = "redelete"
    /\ \/ /\ \/ obj = None /\ UNCHANGED <<obj, clock>>
             \/ obj # None /\ Delete
          /\ pc' = "recreate"
          /\ UNCHANGED <<plc, index, existing, attempts, results, errs, refused, counters>>
       \/ /\ Fault
          /\ refused' = TRUE
          /\ Conclude(FALSE, FALSE, FALSE)
          /\ UNCHANGED <<obj, clock>>
    /\ UNCHANGED <<checked, processed, batches>>

TimedOut == attempts = 2

\* Three attempts wait for the old object to go.  The verdict, and the cached
\* one, know the status of the old object only.
RecreateCreate ==
    /\ pc = "recreate"
    /\ \/ /\ obj = None /\ ns
          /\ obj' = Made /\ clock' = clock + 1
          /\ refused' = FALSE
          /\ IF StatusMismatch THEN UNCHANGED processed
             ELSE SetEvaluatedObject(Made, TRUE, FALSE)
          /\ Conclude(~StatusMismatch, kinds[index].status, FALSE)
          /\ UNCHANGED counters
       \/ /\ obj # None /\ ~TimedOut
          /\ attempts' = attempts + 1
          /\ UNCHANGED <<obj, clock, processed, pc, plc, index, existing, results, errs,
                         refused, counters>>
       \/ /\ obj # None /\ TimedOut
          /\ Conclude(FALSE, FALSE, FALSE)
          /\ UNCHANGED <<obj, clock, processed, refused, counters>>
       \/ /\ ~ns
          /\ Conclude(FALSE, FALSE, FALSE)
          /\ UNCHANGED <<obj, clock, processed, refused, counters>>
       \/ /\ Fault
          /\ Conclude(FALSE, FALSE, FALSE)
          /\ UNCHANGED <<obj, clock, processed, refused>>
    /\ UNCHANGED <<checked, batches>>

-----------------------------------------------------------------------------

\* The status is written.  A second batch of events stamps it with the
\* generation that is current by then (module PolicyStatus).
Finish ==
    /\ pc = "finish"
    /\ reported' = results
    /\ lastGen' \in {plc.gen} \cup (IF batches THEN {policy.gen} ELSE {})
    /\ queued' = (queued \/ errs)
    /\ pc' = "idle" /\ plc' = None /\ index' = 0
    /\ existing' = None /\ attempts' = 0 /\ errs' = FALSE /\ batches' = FALSE
    /\ results' = [t \in Templates |-> Unknown]
    /\ UNCHANGED <<kinds, world, nsWatched, watch, processed, histories, counters>>

\* A restart: everything but the API server's state is lost.
Crash ==
    /\ Fault
    /\ processed' = <<>> /\ seen' = obj /\ heard' = clock /\ queued' = TRUE /\ nsWatched' = FALSE
    /\ pc' = "idle" /\ plc' = None /\ index' = 0
    /\ existing' = None /\ attempts' = 0 /\ errs' = FALSE /\ batches' = FALSE
    /\ results' = [t \in Templates |-> Unknown]
    /\ UNCHANGED <<kinds, world, lastGen, reported, histories>>

Worker ==
    \/ ReconcileBegin \/ HandleObjects
    \/ EnforceByCreating \/ WatchNamespace \/ EnforceByDeleting
    \/ Matches \/ Refetch \/ UpdateRefused \/ DryRunSettles \/ DryRunPasses
    \/ Update \/ RecreateDelete \/ RecreateCreate
    \/ Finish

Next ==
    \/ OthersWrite \/ Terminated \/ NamespaceGone \/ NamespaceBack
    \/ WatchDelivers
    \/ Edit \/ LookupChanges
    \/ Crash
    \/ Worker

Spec == Init /\ [][Next]_vars

\* The worker and the watch run on, finalizers are released, a namespace
\* comes back.
FairSpec ==
    /\ Spec
    /\ WF_vars(Worker) /\ WF_vars(WatchDelivers)
    /\ WF_vars(Terminated) /\ WF_vars(NamespaceBack)

-----------------------------------------------------------------------------
(* Properties *)

\* What the template wants of the object.
Holds(t) ==
    IF kinds[t].exist
    THEN /\ obj # None /\ kinds[t].shape # "bad"
         /\ kinds[t].shape = "vacuous" \/ obj.vals[t] = policy.vals[t]
         /\ kinds[t].status => obj.ready
    ELSE obj = None \/ (policy.enforce /\ obj.deleting)

AtRest == pc = "idle" /\ ~queued /\ heard = clock

\* When nothing is left to do, the status says of every template whether the
\* object is as the template wants it, after conflicts, refused writes,
\* recreations, restarts and changes by others, though most evaluations skip
\* the comparison (alreadyEvaluated).  The exceptions, marked odd, are verdicts
\* that rest on a failed read or on a cached verdict about another template,
\* another value or the status of a recreated object's predecessor, and those
\* of a dry run that changes nothing: it makes an object compliant whose status
\* differs, and its failure is a mismatch whether or not there was one.
VerdictIsTrue ==
    AtRest => \A t \in Templates : reported[t].odd \/ (reported[t].ok <=> Holds(t))

Repairable(t) == /\ policy.enforce /\ kinds[t].exist
                 /\ kinds[t].shape \in {"plain", "templated"}
                 /\ ~kinds[t].immutable \/ kinds[t].recreate # "None"

\* An enforced musthave template prevails over others' changes in the end,
\* through conflicts, failed creates and deletes that hang: an object that is
\* deleted in order to be recreated does come back.  Not so after a refused
\* update, which is not retried (handleSingleObj returns no error for it), a
\* namespace that came back unwatched, or a verdict that rests on too little.
Enforced ==
    \A t \in {1} :
        <>[]Repairable(t)
        => []<>(\/ obj # None /\ obj.vals[t] = policy.vals[t]
                \/ refused \/ missed \/ reported[t].odd)
=============================================================================
