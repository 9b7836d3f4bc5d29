-------------------------- MODULE OperatorOverlap --------------------------
(***************************************************************************)
(* Several OperatorPolicies that may want the same Subscription: how       *)
(* checkSubOverlap finds out through status.resolvedSubscriptionLabel, how *)
(* overlapMapper tells the others, and who writes the Subscription.        *)
(*                                                                         *)
(* Policies are read and listed from the informer cache, which follows the *)
(* API server with a delay; a status update made from an old copy          *)
(* conflicts.  The controller has one worker.  The rest of handleResources *)
(* (module OperatorPolicy) is left out: the operator group is correct and  *)
(* the removal behaviour of Subscriptions is Delete.                       *)
(***************************************************************************)
EXTENDS Naturals, Sequences, FiniteSets

CONSTANTS
    Policies,
    Subs,        \* Subscriptions, named by opLabelName
    Specs,       \* the specs the users write
    StartSpecs,  \* ... and those of policies that exist at the start
    MaxEdits,    \* bound: what users do
    MaxFaults,   \* bound: failed calls and restarts
    None, NoSub, Absent, Unmanaged

PolicySpec == [sub : Subs \cup {NoSub}, enforce : BOOLEAN, musthave : BOOLEAN]
Policy == [spec : Specs, label : Subs \cup {NoSub}, overlaps : SUBSET Policies]

ASSUME ConstantsAssumption ==
    /\ IsFiniteSet(Policies) /\ Specs \subseteq PolicySpec /\ StartSpecs \subseteq Specs
    /\ MaxEdits \in Nat /\ MaxFaults \in Nat
    /\ None \notin Policy /\ None \notin Policies
    /\ NoSub \notin Subs
    /\ Absent \notin Policies /\ Unmanaged \notin Policies /\ Absent # Unmanaged

VARIABLES
    api,       \* the policies on the API server
    cache,     \* ... and in the informer
    stream,    \* changes the informer has not received
    queue,     \* the work queue
    sub,       \* the Subscriptions: who the managed-by annotation names
    watches,   \* the Subscriptions the dynamic watcher follows for a policy
    pc, cur,
    policy,    \* the worker's copy
    stale,     \* the copy is not the latest version of the policy
    batch,     \* Subscriptions queried in this evaluation
    changed,   \* it changed the status
    failed,    \* it returned an error
    slipped,   \* history: <<p, q>>, q left a label and had not recorded p
    left,      \* history: <<p, q>>, q left a label, and what p records may be older
    edits, faults

locals == <<pc, cur, policy, stale, batch, changed, failed>>
vars == <<api, cache, stream, queue, sub, watches, locals, slipped, left,
          edits, faults>>

Fresh(s) == [spec |-> s, label |-> NoSub, overlaps |-> {}]

\* The controller starts; some policies exist.
Init ==
    /\ api \in [Policies -> {None} \cup {Fresh(s) : s \in StartSpecs}]
    /\ cache = api
    /\ stream = <<>>
    /\ queue = {p \in Policies : api[p] # None}
    /\ sub = [s \in Subs |-> Absent]
    /\ watches = [p \in Policies |-> {}]
    /\ pc = "idle" /\ cur = None /\ policy = None
    /\ stale = FALSE /\ batch = {} /\ changed = FALSE /\ failed = FALSE
    /\ slipped = {} /\ left = {}
    /\ edits = 0 /\ faults = 0

Fault == faults < MaxFaults /\ faults' = faults + 1

\* What checkSubOverlap sees of another policy.
Claims(obj, s) == obj # None /\ obj.spec.enforce /\ obj.label = s

\* The API server stores obj as p: a change on the way to the informer.
Store(p, obj) ==
    /\ api' = [api EXCEPT ![p] = obj]
    /\ stream' = Append(stream, [pol |-> p, obj |-> obj])
    /\ IF \E s \in Subs : Claims(api[p], s) /\ ~Claims(obj, s)
       THEN /\ slipped' = slipped \cup ((Policies \ (api[p].overlaps \cup {p})) \X {p})
            /\ left' = left \cup ((Policies \ {p}) \X {p})
       ELSE UNCHANGED <<slipped, left>>
Pending(p) == \E i \in DOMAIN stream : stream[i].pol = p

-----------------------------------------------------------------------------
(* Users *)

UserWrites(p, obj) ==
    /\ edits < MaxEdits /\ edits' = edits + 1
    /\ Store(p, obj)
    /\ stale' = (stale \/ cur = p)
    /\ UNCHANGED <<cache, queue, sub, watches, pc, cur, policy, batch, changed, failed,
                   faults>>

Create(p) == api[p] = None /\ \E s \in Specs : UserWrites(p, Fresh(s))
Edit(p) ==
    /\ api[p] # None
    /\ \E s \in Specs \ {api[p].spec} : UserWrites(p, [api[p] EXCEPT !.spec = s])
Delete(p) == api[p] # None /\ UserWrites(p, None)

-----------------------------------------------------------------------------
(* Events *)

\* Mutant: the Subscription of the running evaluation is not followed yet.
SetSubLate(s, v) ==
    /\ sub' = [sub EXCEPT ![s] = v]
    /\ queue' = queue \cup {p \in Policies : s \in watches[p]}

\* Subscription s becomes v; the dynamic watcher enqueues those that follow it,
\* from an earlier evaluation or from this one.
SetSub(s, v) ==
    /\ sub' = [sub EXCEPT ![s] = v]
    /\ queue' = queue \cup {p \in Policies : s \in watches[p] \/ (p = cur /\ s \in batch')}

UserDeletesSub(s) ==
    /\ sub[s] # Absent /\ edits < MaxEdits /\ edits' = edits + 1
    /\ UNCHANGED locals /\ SetSub(s, Absent)
    /\ UNCHANGED <<api, cache, stream, watches, slipped, left, faults>>

\* The policies an object's event is mapped to, other than the object itself.
overlapMapper(p, obj) == IF obj = None THEN {} ELSE obj.overlaps \ {p}

\* Mutant: only the new object is mapped.
MappedNew(p, old, new) == overlapMapper(p, new)

\* EnqueueRequestsFromMapFunc maps the old and the new object of an update.
Mapped(p, old, new) == overlapMapper(p, old) \cup overlapMapper(p, new)

\* The predicate of For: not a pure status update.
Watched(old, new) == old = None \/ new = None \/ old.spec # new.spec

\* The informer applies the next change and its handlers enqueue.
Deliver ==
    /\ stream # <<>>
    /\ LET p == Head(stream).pol
           old == cache[p]
           new == Head(stream).obj
       IN  /\ cache' = [cache EXCEPT ![p] = new]
           /\ queue' = queue \cup Mapped(p, old, new)
                             \cup (IF Watched(old, new) THEN {p} ELSE {})
    /\ stream' = Tail(stream)
    /\ UNCHANGED <<api, sub, watches, locals, slipped, left, edits, faults>>

-----------------------------------------------------------------------------
(* Reconcile *)

Return ==
    /\ pc' = "idle" /\ cur' = None /\ policy' = None
    /\ stale' = FALSE /\ batch' = {} /\ changed' = FALSE /\ failed' = FALSE

\* A policy that is gone is no longer watched for.
ReconcileBegin(p) ==
    /\ pc = "idle" /\ p \in queue
    /\ queue' = queue \ {p}
    /\ IF cache[p] = None
       THEN watches' = [watches EXCEPT ![p] = {}] /\ UNCHANGED <<locals, left>>
       ELSE /\ pc' = "check" /\ cur' = p /\ policy' = cache[p]
            /\ stale' = Pending(p)
            /\ left' = IF Pending(p) THEN left
                       ELSE left \ {<<p, q>> : q \in {q \in Policies \ cache[p].overlaps : ~Pending(q)}}
            /\ UNCHANGED <<watches, batch, changed, failed>>
    /\ UNCHANGED <<api, cache, stream, sub, slipped, edits, faults>>

\* The other enforced policies whose status has the label s, and this one.
Overlappers(s) == {cur} \cup {q \in Policies : Claims(cache[q], s)}

checkSubOverlap ==
    /\ pc = "check"
    /\ LET s == policy.spec.sub
           all == Overlappers(s)
           found == s # NoSub /\ policy.spec.enforce /\ all # {cur}
       IN  \/ /\ policy' = [policy EXCEPT !.label = s, !.overlaps = IF found THEN all ELSE {}]
              /\ pc' = IF found \/ s = NoSub THEN "write" ELSE "manage"
              /\ slipped' = slipped \ {<<cur, q>> : q \in {q \in Policies \ all : ~Pending(q)}}
              /\ UNCHANGED <<failed, faults>>
           \/ \* the list fails
              /\ Fault /\ s # NoSub /\ policy.spec.enforce
              /\ policy' = [policy EXCEPT !.label = s]
              /\ failed' = TRUE
              /\ pc' = "write"
              /\ UNCHANGED slipped
    /\ changed' = (policy' # policy)
    /\ UNCHANGED <<api, cache, stream, queue, sub, watches, cur, stale, batch,
                   left, edits>>

\* Mutant: the annotation names the Subscription.
DesiredMisnamed(v) ==
    IF ~policy.spec.musthave THEN Absent
    ELSE IF v = Absent THEN Unmanaged ELSE policy.spec.sub

\* Mutant: an existing Subscription is not annotated.
DesiredUnmarked(v) ==
    IF ~policy.spec.musthave THEN Absent
    ELSE IF v = Absent THEN Unmanaged ELSE v

\* What an enforced policy makes of a Subscription that is v: created without
\* the annotation, which the next evaluation adds, or deleted.
Desired(v) ==
    IF ~policy.spec.musthave THEN Absent
    ELSE IF v = Absent THEN Unmanaged ELSE cur

\* Without an overlap the Subscription is queried, and written if enforced.
handleSubscription ==
    /\ pc = "manage"
    /\ LET s == policy.spec.sub
       IN  /\ batch' = {s}
           /\ \/ /\ IF policy.spec.enforce /\ Desired(sub[s]) # sub[s]
                    THEN SetSub(s, Desired(sub[s])) /\ changed' = TRUE
                    ELSE UNCHANGED <<sub, queue, changed>>
                 /\ UNCHANGED <<failed, faults>>
              \/ \* the write fails
                 /\ Fault /\ policy.spec.enforce /\ Desired(sub[s]) # sub[s]
                 /\ failed' = TRUE
                 /\ UNCHANGED <<sub, queue, changed>>
    /\ pc' = "write"
    /\ UNCHANGED <<api, cache, stream, watches, cur, policy, stale, slipped,
                   left, edits>>

\* Reconcile ends: the status update, EndQueryBatch, and a retry on an error.
\* Every evaluation stamps the Compliant condition with its time, so a status that
\* is otherwise the same is written too: it conflicts when the copy is old, and
\* makes no new version in the same second only.
WriteStatus ==
    /\ pc = "write"
    /\ watches' = [watches EXCEPT ![cur] = batch]
    /\ \/ \* no new version
          /\ ~changed /\ ~stale
          /\ queue' = IF failed THEN queue \cup {cur} ELSE queue
          /\ UNCHANGED <<api, stream, slipped, left, faults>>
       \/ \* written
          /\ ~stale /\ Store(cur, policy)
          /\ queue' = IF failed THEN queue \cup {cur} ELSE queue
          /\ UNCHANGED faults
       \/ \* a conflict, or the call fails
          /\ (stale /\ UNCHANGED faults) \/ Fault
          /\ queue' = queue \cup {cur}
          /\ UNCHANGED <<api, stream, slipped, left>>
    /\ Return
    /\ UNCHANGED <<cache, sub, edits>>

\* A new process lists the policies and evaluates every one.
Restart ==
    /\ Fault
    /\ cache' = api /\ stream' = <<>>
    /\ queue' = {p \in Policies : api[p] # None}
    /\ watches' = [p \in Policies |-> {}]
    /\ Return
    /\ UNCHANGED <<api, sub, slipped, left, edits>>

-----------------------------------------------------------------------------

Users ==
    \/ \E p \in Policies : Create(p) \/ Edit(p) \/ Delete(p)
    \/ \E s \in Subs : UserDeletesSub(s)
Worker ==
    \/ \E p \in Policies : ReconcileBegin(p)
    \/ checkSubOverlap \/ handleSubscription \/ WriteStatus
Next == Users \/ Deliver \/ Worker \/ Restart

Spec == Init /\ [][Next]_vars

DataOK ==
    /\ api \in [Policies -> Policy \cup {None}]
    /\ cache \in [Policies -> Policy \cup {None}]
    /\ stream \in Seq([pol : Policies, obj : Policy \cup {None}])
    /\ queue \subseteq Policies
    /\ sub \in [Subs -> Policies \cup {Absent, Unmanaged}]
    /\ watches \in [Policies -> SUBSET Subs] /\ batch \subseteq Subs
    /\ pc \in {"idle", "check", "manage", "write"}
    /\ cur \in Policies \cup {None} /\ policy \in Policy \cup {None}
    /\ slipped \subseteq Policies \X Policies /\ left \subseteq Policies \X Policies
    /\ edits \in 0 .. MaxEdits /\ faults \in 0 .. MaxFaults

FlagsOK == stale \in BOOLEAN /\ changed \in BOOLEAN /\ failed \in BOOLEAN

(* The types of the state; the managed-by annotation names a policy. *)
TypeOK == DataOK /\ FlagsOK

\* Nothing is queued, on the way or running.
AtRest == pc = "idle" /\ queue = {} /\ stream = <<>>

Wants(p, s) == api[p] # None /\ api[p].spec.enforce /\ api[p].spec.sub = s
Musthave(p) == api[p].spec.musthave

\* What the policy records may be from before another one left the label.
Outdated(p) == api[p] # None /\ \E q \in api[p].overlaps \ {p} : <<p, q>> \in left

(* Once nothing is left to do, two enforced policies for one Subscription, *)
(* at least one of them musthave, have recorded each other in their        *)
(* overlappingPolicies (checkSubOverlap), however stale the lists were     *)
(* that they evaluated: policies that missed each other fight over the     *)
(* Subscription, or share a third policy that tells them.  Excepted are    *)
(* records that are about an earlier claim of a policy that left the label *)
(* and maybe came back: an evaluation that finds the record it has makes   *)
(* no new version in the same second, and nobody is told.                  *)
OverlapSeen ==
    AtRest => \A s \in Subs, p, q \in Policies :
        p # q /\ Wants(p, s) /\ Wants(q, s) /\ (Musthave(p) \/ Musthave(q))
            => \/ q \in api[p].overlaps
               \/ \E r \in {p, q} \cup api[p].overlaps \cup api[q].overlaps : Outdated(r)

(* A policy that records no overlap and is the only enforced one for its   *)
(* Subscription has it: a musthave policy wrote its own annotation last, a *)
(* mustnothave policy deleted it.                                          *)
AloneManages ==
    AtRest => \A s \in Subs, p \in Policies :
        /\ Wants(p, s) /\ api[p].overlaps = {}
        /\ \A q \in Policies \ {p} : ~Wants(q, s)
        => sub[s] = IF Musthave(p) THEN p ELSE Absent

(* A recorded overlap is current, or the other policy left the label       *)
(* without ever having recorded this one, so that overlapMapper had nobody *)
(* to tell.                                                                *)
StaleOnlyIfSlipped ==
    AtRest => \A p, q \in Policies :
        p # q /\ api[p] # None /\ q \in api[p].overlaps
            => Claims(api[q], api[p].label) \/ <<p, q>> \in slipped
=============================================================================
