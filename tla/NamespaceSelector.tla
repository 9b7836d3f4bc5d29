-------------------------- MODULE NamespaceSelector --------------------------
(***************************************************************************)
(* The cache of namespaceSelector results of pkg/common/namespace_         *)
(* selection.go, with the two kinds of threads that use it: the singleton  *)
(* Namespace reconciler, which refreshes every cached selection after a    *)
(* namespace event, and the workers of the ConfigurationPolicy controller, *)
(* which call HasUpdate, Get and Stop.                                     *)
(*                                                                         *)
(* Every critical section of r.lock is one step, except update(), which    *)
(* sends on a bounded channel while it holds the lock.  Get gives the lock *)
(* up between its lookup and its update, and Reconcile works on a snapshot *)
(* of the map: all the races of the component are between these steps.     *)
(***************************************************************************)
EXTENDS Integers, Sequences, FiniteSets

CONSTANTS
    Keys,         \* namespace/name keys of the ConfigurationPolicies
    Namespaces,   \* names of the namespaces of the target cluster
    Labels,       \* label sets a namespace can carry
    Targets,      \* the namespaceSelectors the policies are given
    Watching,     \* the policies whose evaluationInterval is watch
    Templates,    \* the object templates of a policy that call Get
    ChanCap,      \* capacity of updateChannel (20 in main.go)
    MaxChanges,   \* bound: namespace events
    MaxEdits,     \* bound: creations, edits and deletions of policies
    MaxFails,     \* bound: failing List calls
    Absent,       \* label of a namespace that does not exist
    NoTarget,     \* the policy does not exist
    NoSelection,  \* the key is not in the selections map
    Free,         \* r.lock is not held
    Rec           \* the thread of the Namespace reconciler

\* A Target is told apart by what the code does with it: IsEmpty, a label
\* selector that does not parse, a pattern that does not parse, or a proper one.
TargetKind == {"empty", "badSelector", "badPattern", "select"}
Target == [kind : TargetKind, labels : SUBSET Labels, names : SUBSET Namespaces]
Selection == [target : Targets, namespaces : SUBSET Namespaces,
              hasUpdate : BOOLEAN, err : BOOLEAN]

ASSUME ConstantsAssumption ==
    /\ Targets \subseteq Target /\ Watching \subseteq Keys
    /\ Templates \in Nat \ {0}
    /\ ChanCap \in Nat \ {0} /\ MaxChanges \in Nat
    /\ MaxEdits \in Nat /\ MaxFails \in Nat
    /\ Absent \notin Labels /\ NoTarget \notin Targets
    /\ NoSelection \notin Selection
    /\ Rec \notin Keys /\ Free \notin Keys /\ Rec # Free

VARIABLES
    nsLabels,     \* the namespaces in the informer cache that List reads
    queued,       \* the singleton request is in the reconciler's workqueue
    selections, lock, channel,
    rpc, oldSelections, todo, listed, rkey,   \* locals of Reconcile (rkey: Free
                                              \* but in a call of update)
    want,         \* the target in each policy's spec
    dirty,        \* status.lastEvaluatedGeneration is not the policy's generation
    polQueue,     \* workqueue of the ConfigurationPolicy controller
    gpc, pending, \* locals of Get, one call per policy at a time
    left,         \* the Gets that the evaluation still has to make after this one
    orphan,       \* the policy being evaluated was deleted meanwhile
    answer,       \* what the last Get of the policy returned
    raced,        \* history: Get stored a list that was already out of date
    torn,         \* history: the templates of the last evaluation were not all
                  \* evaluated for one target and the same namespaces
    changes, edits, fails

recVars == <<rpc, oldSelections, todo, listed, rkey>>
getVars == <<gpc, pending, left, orphan, torn>>
envVars == <<nsLabels, want, changes, edits>>
vars == <<nsLabels, queued, selections, lock, channel, recVars, want, dirty,
          polQueue, getVars, answer, raced, changes, edits, fails>>

-----------------------------------------------------------------------------
(* filter() and the equal computation inside Get *)

Selected(c, t) == {n \in Namespaces : c[n] \in t.labels}

\* Patterns are only parsed when there is a namespace to match them with.
filter(c, t) ==
    [namespaces |-> IF t.kind = "select" THEN Selected(c, t) \cap t.names ELSE {},
     err |-> \/ t.kind = "badSelector"
             \/ t.kind = "badPattern" /\ Selected(c, t) # {}]

NoSelections == [k \in Keys |-> NoSelection]

Init ==
    /\ nsLabels \in [Namespaces -> Labels \cup {Absent}]
    /\ queued = TRUE       \* the informer's initial list is a burst of creations
    /\ selections = NoSelections
    /\ lock = Free
    /\ channel = <<>>
    /\ rpc = "idle"
    /\ oldSelections = NoSelections
    /\ todo = {}
    /\ listed = nsLabels
    /\ rkey = Free
    /\ want = [k \in Keys |-> NoTarget]
    /\ dirty = [k \in Keys |-> FALSE]
    /\ polQueue = {}
    /\ gpc = [k \in Keys |-> "idle"]
    /\ pending = [k \in Keys |-> NoSelection]
    /\ left = [k \in Keys |-> 0]
    /\ orphan = [k \in Keys |-> FALSE]
    /\ answer = [k \in Keys |-> NoSelection]
    /\ raced = [k \in Keys |-> FALSE]
    /\ torn = [k \in Keys |-> FALSE]
    /\ changes = 0
    /\ edits = 0
    /\ fails = 0

-----------------------------------------------------------------------------
(* The cluster and the users *)

\* A namespace is created, deleted or re-labeled: the informer updates its
\* cache and the singleton request is enqueued.
NamespaceEvent(n) ==
    /\ changes < MaxChanges
    /\ changes' = changes + 1
    /\ \E l \in (Labels \cup {Absent}) \ {nsLabels[n]} :
           nsLabels' = [nsLabels EXCEPT ![n] = l]
    /\ queued' = TRUE
    /\ UNCHANGED <<selections, lock, channel, recVars, want, dirty, polQueue,
                   getVars, answer, raced, edits, fails>>

\* A policy is created, or its spec edited.
EditPolicy(k) ==
    /\ edits < MaxEdits
    /\ edits' = edits + 1
    /\ \E t \in Targets \ {want[k]} : want' = [want EXCEPT ![k] = t]
    /\ dirty' = [dirty EXCEPT ![k] = TRUE]
    /\ polQueue' = polQueue \cup {k}
    /\ UNCHANGED <<nsLabels, queued, selections, lock, channel, recVars, getVars,
                   answer, raced, changes, fails>>

DeletePolicy(k) ==
    /\ edits < MaxEdits /\ want[k] # NoTarget
    /\ edits' = edits + 1
    /\ want' = [want EXCEPT ![k] = NoTarget]
    /\ dirty' = [dirty EXCEPT ![k] = FALSE]
    /\ orphan' = [orphan EXCEPT ![k] = gpc[k] # "idle"]
    /\ polQueue' = polQueue \cup {k}
    /\ UNCHANGED <<nsLabels, queued, selections, lock, channel, recVars, gpc,
                   pending, left, torn, answer, raced, changes, fails>>

-----------------------------------------------------------------------------
(* update(), called by Get and by Reconcile: write the map under the lock,  *)
(* then send on the channel before the lock is given up.                    *)

BeginUpdate(holder, k, sel) ==
    /\ lock = Free
    /\ lock' = holder
    /\ selections' = [selections EXCEPT ![k] = sel]

\* Mutant: the send does not wait for room in the channel.
EndUpdateUnbounded(holder, k) ==
    /\ lock = holder
    /\ lock' = Free
    /\ channel' = Append(channel, k)

\* Mutant: no event is sent.
EndUpdateSilent(holder, k) ==
    /\ lock = holder
    /\ lock' = Free
    /\ UNCHANGED channel

EndUpdate(holder, k) ==
    /\ lock = holder
    /\ Len(channel) < ChanCap
    /\ lock' = Free
    /\ channel' = Append(channel, k)

\* Mutant: the receiver of the channel looks at the cache before it enqueues.
ForwardLocked ==
    /\ channel # <<>> /\ lock = Free
    /\ channel' = Tail(channel)
    /\ polQueue' = polQueue \cup {Head(channel)}
    /\ UNCHANGED <<nsLabels, queued, selections, lock, recVars, want, dirty,
                   getVars, answer, raced, changes, edits, fails>>

\* source.Channel with EnqueueRequestForObject: no lock is taken.
Forward ==
    /\ channel # <<>>
    /\ channel' = Tail(channel)
    /\ polQueue' = polQueue \cup {Head(channel)}
    /\ UNCHANGED <<nsLabels, queued, selections, lock, recVars, want, dirty,
                   getVars, answer, raced, changes, edits, fails>>

-----------------------------------------------------------------------------
(* Reconcile of the Namespace reconciler *)

\* Copy the map under the read lock.
Snapshot ==
    /\ rpc = "idle" /\ queued /\ lock = Free
    /\ queued' = FALSE
    /\ rpc' = "list"
    /\ oldSelections' = selections
    /\ todo' = {k \in Keys : selections[k] # NoSelection}
    /\ UNCHANGED <<selections, lock, channel, listed, rkey, envVars, dirty,
                   polQueue, getVars, answer, raced, fails>>

\* len(r.selections) is read without the lock, after the snapshot.
SkipEmpty ==
    /\ rpc = "list"
    /\ \A k \in Keys : selections[k] = NoSelection
    /\ rpc' = "idle"
    /\ oldSelections' = NoSelections /\ todo' = {}
    /\ UNCHANGED <<queued, selections, lock, channel, listed, rkey, envVars, dirty,
                   polQueue, getVars, answer, raced, fails>>

ListNamespaces ==
    /\ rpc = "list"
    /\ \E k \in Keys : selections[k] # NoSelection
    /\ rpc' = "apply"
    /\ listed' = nsLabels
    /\ UNCHANGED <<queued, selections, lock, channel, oldSelections, todo, rkey,
                   envVars, dirty, polQueue, getVars, answer, raced, fails>>

\* Mutant: a failed List is not returned, so the request is not retried.
ListNamespacesFailsQuietly ==
    /\ rpc = "list" /\ fails < MaxFails
    /\ \E k \in Keys : selections[k] # NoSelection
    /\ fails' = fails + 1
    /\ rpc' = "idle"
    /\ oldSelections' = NoSelections /\ todo' = {}
    /\ UNCHANGED <<queued, selections, lock, channel, listed, rkey, envVars, dirty,
                   polQueue, getVars, answer, raced>>

\* The error is returned and controller-runtime queues the request again.
ListNamespacesFails ==
    /\ rpc = "list" /\ fails < MaxFails
    /\ \E k \in Keys : selections[k] # NoSelection
    /\ fails' = fails + 1
    /\ rpc' = "idle"
    /\ queued' = TRUE
    /\ oldSelections' = NoSelections /\ todo' = {}
    /\ UNCHANGED <<selections, lock, channel, listed, rkey, envVars, dirty,
                   polQueue, getVars, answer, raced>>

\* Mutant: the entry is written without raising hasUpdate.
RefreshedUnflagged(k) ==
    LET f == filter(listed, oldSelections[k].target)
    IN  [target |-> oldSelections[k].target, namespaces |-> f.namespaces,
         hasUpdate |-> f.err /\ ~oldSelections[k].err, err |-> f.err]

\* The entry that Reconcile writes: after an error, hasUpdate only says that
\* the error is new.
Refreshed(k) ==
    LET f == filter(listed, oldSelections[k].target)
    IN  [target |-> oldSelections[k].target, namespaces |-> f.namespaces,
         hasUpdate |-> ~f.err \/ ~oldSelections[k].err, err |-> f.err]

NeedsRefresh(k) ==
    LET f == filter(listed, oldSelections[k].target)
    IN  f.err \/ f.namespaces # oldSelections[k].namespaces

\* One iteration over oldSelections that calls update()
ApplyUpdate(k) ==
    /\ rpc = "apply" /\ k \in todo /\ NeedsRefresh(k)
    /\ BeginUpdate(Rec, k, Refreshed(k))
    /\ rpc' = "send"
    /\ rkey' = k
    /\ todo' = todo \ {k}
    /\ raced' = [raced EXCEPT ![k] = FALSE]
    /\ UNCHANGED <<queued, channel, oldSelections, listed, envVars, dirty,
                   polQueue, getVars, answer, fails>>

ApplySend ==
    /\ rpc = "send"
    /\ EndUpdate(Rec, rkey)
    /\ rpc' = "apply"
    /\ rkey' = Free
    /\ UNCHANGED <<queued, selections, oldSelections, todo, listed, envVars, dirty,
                   polQueue, getVars, answer, raced, fails>>

\* One iteration that finds nothing to change
ApplyNothing(k) ==
    /\ rpc = "apply" /\ k \in todo /\ ~NeedsRefresh(k)
    /\ todo' = todo \ {k}
    /\ UNCHANGED <<queued, selections, lock, channel, rpc, oldSelections, listed,
                   rkey, envVars, dirty, polQueue, getVars, answer, raced, fails>>

EndReconcile ==
    /\ rpc = "apply" /\ todo = {}
    /\ rpc' = "idle"
    /\ oldSelections' = NoSelections
    /\ UNCHANGED <<queued, selections, lock, channel, todo, listed, rkey, envVars,
                   dirty, polQueue, getVars, answer, raced, fails>>

-----------------------------------------------------------------------------
(* The policy workers *)

HasUpdate(k) == selections[k] # NoSelection /\ selections[k].hasUpdate

\* Reconcile of a policy that is not found calls Stop.
Stop(k) ==
    /\ k \in polQueue /\ gpc[k] = "idle" /\ want[k] = NoTarget /\ lock = Free
    /\ polQueue' = polQueue \ {k}
    /\ selections' = [selections EXCEPT ![k] = NoSelection]
    /\ answer' = [answer EXCEPT ![k] = NoSelection]
    /\ raced' = [raced EXCEPT ![k] = FALSE]
    /\ UNCHANGED <<queued, lock, channel, recVars, envVars, dirty, getVars, fails>>

\* shouldEvaluatePolicy, as far as it concerns this component
ShouldEvaluate(k) ==
    \/ dirty[k]
    \/ want[k].kind # "empty" /\ HasUpdate(k)
    \/ k \in Watching

SkipEvaluation(k) ==
    /\ k \in polQueue /\ gpc[k] = "idle" /\ want[k] # NoTarget /\ lock = Free
    /\ ~ShouldEvaluate(k)
    /\ polQueue' = polQueue \ {k}
    /\ UNCHANGED <<queued, selections, lock, channel, recVars, envVars, dirty,
                   getVars, answer, raced, fails>>

\* What Get is asked for
Asked(t) == [target |-> t, namespaces |-> {}, hasUpdate |-> FALSE, err |-> FALSE]

\* The evaluation begins and reaches the first template that calls Get.
BeginEvaluation(k) ==
    /\ k \in polQueue /\ gpc[k] = "idle" /\ want[k] # NoTarget /\ lock = Free
    /\ ShouldEvaluate(k)
    /\ polQueue' = polQueue \ {k}
    /\ dirty' = [dirty EXCEPT ![k] = FALSE]
    /\ gpc' = [gpc EXCEPT ![k] = "get"]
    /\ pending' = [pending EXCEPT ![k] = Asked(want[k])]
    /\ left' = [left EXCEPT ![k] = Templates - 1]
    /\ orphan' = [orphan EXCEPT ![k] = FALSE]
    /\ torn' = [torn EXCEPT ![k] = FALSE]
    /\ UNCHANGED <<queued, selections, lock, channel, recVars, envVars, answer,
                   raced, fails>>

\* Mutant: a hit on the key alone, whatever the target it was computed for.
HitAnyTarget(k) == selections[k] # NoSelection

Hit(k) == selections[k] # NoSelection /\ selections[k].target = pending[k].target

\* An error of Get is an error of the policy's Reconcile: it is queued again.
Requeue(k, err) == IF err THEN polQueue \cup {k} ELSE polQueue

\* A Get of the same evaluation was answered before, and differently.
Differs(k, s) == left[k] # Templates - 1 /\ answer[k] # s

\* Get returned s, or a failed list.  Before the next template is looked at, or
\* the evaluation ends, the update of the status between two batches of events
\* may read the policy again: the templates to come use the target it has by
\* then, and the last update of the status bears its generation, unless it is
\* another policy of the same name.
EndGet(k, s, err) ==
    /\ answer' = [answer EXCEPT ![k] = s]
    /\ polQueue' = Requeue(k, err)
    /\ \E reread \in BOOLEAN :
           LET t == IF reread THEN want[k] ELSE pending[k].target
           IN  /\ t # NoTarget
               /\ dirty' = [dirty EXCEPT ![k] = dirty[k] /\ (reread => orphan[k])]
               /\ torn' = [torn EXCEPT ![k] = \/ torn[k] \/ Differs(k, s)
                                              \/ t # pending[k].target]
               /\ pending' = [pending EXCEPT
                                  ![k] = IF left[k] = 0 THEN NoSelection ELSE Asked(t)]
    /\ IF left[k] = 0
       THEN /\ gpc' = [gpc EXCEPT ![k] = "idle"]
            /\ orphan' = [orphan EXCEPT ![k] = FALSE]
            /\ UNCHANGED left
       ELSE /\ gpc' = [gpc EXCEPT ![k] = "get"]
            /\ left' = [left EXCEPT ![k] = left[k] - 1]
            /\ UNCHANGED orphan

\* Get finds the selection of this target and clears hasUpdate.
GetHit(k) ==
    /\ gpc[k] = "get" /\ lock = Free /\ Hit(k)
    /\ selections' = [selections EXCEPT ![k].hasUpdate = FALSE]
    /\ EndGet(k, [selections[k] EXCEPT !.hasUpdate = FALSE], selections[k].err)
    /\ UNCHANGED <<queued, lock, channel, recVars, envVars, raced, fails>>

\* Get misses and unlocks.  The empty target and the selector that does not
\* parse need no list of the namespaces.
GetMiss(k) ==
    /\ gpc[k] = "get" /\ lock = Free /\ ~Hit(k)
    /\ IF pending[k].target.kind \in {"empty", "badSelector"}
       THEN /\ gpc' = [gpc EXCEPT ![k] = "store"]
            /\ pending' = [pending EXCEPT
                               ![k].err = pending[k].target.kind = "badSelector"]
       ELSE /\ gpc' = [gpc EXCEPT ![k] = "list"]
            /\ UNCHANGED pending
    /\ UNCHANGED <<queued, selections, lock, channel, recVars, envVars, dirty,
                   polQueue, left, orphan, torn, answer, raced, fails>>

GetList(k) ==
    /\ gpc[k] = "list"
    /\ LET f == filter(nsLabels, pending[k].target)
       IN  pending' = [pending EXCEPT ![k].namespaces = f.namespaces,
                                      ![k].err = f.err]
    /\ gpc' = [gpc EXCEPT ![k] = "store"]
    /\ UNCHANGED <<queued, selections, lock, channel, recVars, envVars, dirty,
                   polQueue, left, orphan, torn, answer, raced, fails>>

\* Get returns the error of List and stores nothing.
GetListFails(k) ==
    /\ gpc[k] = "list" /\ fails < MaxFails
    /\ fails' = fails + 1
    /\ EndGet(k, NoSelection, TRUE)
    /\ UNCHANGED <<queued, selections, lock, channel, recVars, envVars, raced>>

GetStore(k) ==
    /\ gpc[k] = "store"
    /\ BeginUpdate(k, k, pending[k])
    /\ gpc' = [gpc EXCEPT ![k] = "send"]
    /\ raced' = [raced EXCEPT ![k] = pending[k].namespaces
                             # filter(nsLabels, pending[k].target).namespaces]
    /\ UNCHANGED <<queued, channel, recVars, envVars, dirty, polQueue, pending,
                   left, orphan, torn, answer, fails>>

GetSend(k) ==
    /\ gpc[k] = "send"
    /\ EndUpdate(k, k)
    /\ EndGet(k, pending[k], pending[k].err)
    /\ UNCHANGED <<queued, selections, recVars, envVars, raced, fails>>

-----------------------------------------------------------------------------
Reconcile ==
    \/ Snapshot \/ SkipEmpty \/ ListNamespaces \/ ListNamespacesFails
    \/ ApplySend \/ EndReconcile
    \/ \E k \in Keys : ApplyUpdate(k) \/ ApplyNothing(k)

Worker(k) ==
    \/ Stop(k) \/ SkipEvaluation(k) \/ BeginEvaluation(k)
    \/ GetHit(k) \/ GetMiss(k) \/ GetList(k) \/ GetListFails(k)
    \/ GetStore(k) \/ GetSend(k)

Environment ==
    \/ \E n \in Namespaces : NamespaceEvent(n)
    \/ \E k \in Keys : EditPolicy(k) \/ DeletePolicy(k)

Next == Environment \/ Forward \/ Reconcile \/ \E k \in Keys : Worker(k)

Spec == Init /\ [][Next]_vars

\* The two controllers keep running and a blocked send or lock is served once
\* it can be; namespaces, users and failures owe nothing.
Fairness ==
    /\ WF_vars(Forward)
    /\ WF_vars(Reconcile)
    /\ \A k \in Keys : SF_vars(Worker(k))

FairSpec == Spec /\ Fairness

-----------------------------------------------------------------------------
(* Properties *)

\* Type invariant: every variable keeps the shape of the Go value it models,
\* and the lock is held exactly by the thread that is inside update().
TypeOK ==
    /\ nsLabels \in [Namespaces -> Labels \cup {Absent}]
    /\ queued \in BOOLEAN
    /\ selections \in [Keys -> Selection \cup {NoSelection}]
    /\ lock \in Keys \cup {Rec, Free}
    /\ channel \in Seq(Keys) /\ Len(channel) <= ChanCap
    /\ rpc \in {"idle", "list", "apply", "send"}
    /\ oldSelections \in [Keys -> Selection \cup {NoSelection}]
    /\ todo \subseteq {k \in Keys : oldSelections[k] # NoSelection}
    /\ listed \in [Namespaces -> Labels \cup {Absent}]
    /\ rkey \in Keys \cup {Free} /\ (rpc = "send" => rkey \in Keys)
    /\ want \in [Keys -> Targets \cup {NoTarget}]
    /\ dirty \in [Keys -> BOOLEAN]
    /\ polQueue \subseteq Keys
    /\ gpc \in [Keys -> {"idle", "get", "list", "store", "send"}]
    /\ pending \in [Keys -> Selection \cup {NoSelection}]
    /\ \A k \in Keys : gpc[k] # "idle" => pending[k] # NoSelection
    /\ left \in [Keys -> 0 .. Templates - 1]
    /\ orphan \in [Keys -> BOOLEAN] /\ torn \in [Keys -> BOOLEAN]
    /\ answer \in [Keys -> Selection \cup {NoSelection}]
    /\ raced \in [Keys -> BOOLEAN]
    /\ changes \in 0 .. MaxChanges /\ edits \in 0 .. MaxEdits /\ fails \in 0 .. MaxFails
    /\ (lock = Rec) <=> (rpc = "send")
    /\ \A k \in Keys : (lock = k) <=> (gpc[k] = "send")

Fresh(k) == selections[k].namespaces = filter(nsLabels, selections[k].target).namespaces

\* The doc of SelectorReconciler, "keeps a cache of NamespaceSelector results,
\* which it should update when namespaces are created, deleted, or re-labeled",
\* as a safety property: a cached selection that does not match the namespaces
\* is about to be refreshed, because a Reconcile is queued or has the entry in
\* the snapshot it is working through.  The one exception is the selection that
\* a Get stored after the list it had read went out of date.
StaleIsPending ==
    \A k \in Keys : selections[k] # NoSelection /\ ~raced[k] =>
        Fresh(k) \/ queued \/ k \in todo

\* HasUpdate: "indicates when the cached selection for this namespace and name
\* has been changed since the last time that Get was called".  Whenever the
\* namespaces cached for a policy differ from what its last Get returned for the
\* same target, hasUpdate is set, whatever Reconcile and Get interleave.  It is
\* about the namespaces: two Reconciles that meet the same error between two Gets
\* clear a flag that only announced the error.
ChangeIsFlagged ==
    \A k \in Keys :
        /\ gpc[k] # "send" /\ answer[k] # NoSelection /\ selections[k] # NoSelection
        /\ selections[k].target = answer[k].target
        /\ selections[k].namespaces # answer[k].namespaces
        => selections[k].hasUpdate

\* No wake-up is lost between the map, the channel and the workqueue: a raised
\* hasUpdate has a request for its policy that is still to be looked at.  Only
\* the flag of a policy with an empty selector is of no interest to anyone.
FlagIsAnnounced ==
    \A k \in Keys : HasUpdate(k) /\ (want[k] = NoTarget \/ want[k].kind # "empty") =>
        \/ k \in polQueue
        \/ \E i \in DOMAIN channel : channel[i] = k
        \/ rpc = "send" /\ rkey = k
        \/ gpc[k] # "idle"

\* Liveness of the lock and the channel: update() blocks on a full channel with
\* the lock held, and still the Gets of every evaluation return.
GetReturns == \A k \in Keys : gpc[k] # "idle" ~> gpc[k] = "idle"

\* "Stop tells the SelectorReconciler to stop updating the cached selection":
\* a Reconcile under way may put the entry of a deleted policy back, but its
\* event brings Stop again, and the entry is gone for good in the end.
StoppedForGood ==
    \A k \in Keys : <>[](want[k] = NoTarget) => <>[](selections[k] = NoSelection)

Follows(k) == /\ answer[k] # NoSelection
              /\ answer[k].target = want[k]
              /\ answer[k].namespaces = filter(nsLabels, want[k]).namespaces
              /\ ~torn[k]

\* Once the namespaces and the policies rest, every template of a policy has been
\* evaluated for the namespaces its selector matches, unless a Get stored a list
\* that had gone out of date, or, for a policy that is not on watches, the
\* evaluation was torn: a Reconcile or an edit came between the Gets of two of its
\* templates.  The second Get clears the flag that the Reconcile raised, and the
\* status bears the generation of the edit, so nothing evaluates the first
\* template again.  It takes targets that parse and lists that succeed: a
\* Reconcile that meets an error can put an older target back with no flag, and
\* a policy that is not on watches is not evaluated again for it.
FollowsUnlessRaced ==
    \A k \in Keys :
        <>[](want[k] # NoTarget /\ ~raced[k] /\ (k \in Watching \/ ~torn[k]))
            => <>[]Follows(k)
=============================================================================
