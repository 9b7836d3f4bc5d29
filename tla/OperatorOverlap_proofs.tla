----------------------- MODULE OperatorOverlap_proofs -----------------------
(* Proofs about OperatorOverlap. *)
EXTENDS OperatorOverlap, SequenceTheorems, TLAPS

-----------------------------------------------------------------------------
(* The invariants *)

\* The worker has a policy and a copy of it exactly while it evaluates.
WorkerOK ==
    /\ pc = "idle" <=> cur = None
    /\ pc = "idle" <=> policy = None
    /\ pc = "manage" => policy.spec.sub \in Subs

Changes == 1 .. Len(stream)
From(q) == {i \in Changes : stream[i].pol = q}

\* The last version of a policy is the API server's.
Latest ==
    \A q \in Policies :
        \/ From(q) = {} /\ cache[q] = api[q]
        \/ \E i \in From(q) : (\A k \in From(q) : k <= i) /\ stream[i].obj = api[q]

\* A copy that is not stale is the latest version, but for what the evaluation
\* has changed in its status.
Base ==
    pc # "idle" /\ ~stale =>
        /\ From(cur) = {} /\ cache[cur] # None
        /\ policy.spec = cache[cur].spec
        /\ pc = "check" \/ ~changed => policy = api[cur]

Tells(obj, p) == obj # None /\ p \in obj.overlaps

\* A change of q is on the way that makes overlapMapper enqueue p, and no later
\* version of q claims the label l.
Hears(p, q, l) ==
    \/ Tells(cache[q], p) /\ From(q) # {} /\ \A k \in From(q) : ~Claims(stream[k].obj, l)
    \/ \E j \in From(q) : /\ Tells(stream[j].obj, p)
                          /\ \A k \in From(q) : k > j => ~Claims(stream[k].obj, l)

Claimed(q, l) == Claims(cache[q], l) \/ \E k \in From(q) : Claims(stream[k].obj, l)

\* q claims the label, or p will hear that it does not, or q slipped: so it is
\* for everyone who may still be taken to claim a label.
Told(p, q, l) == Claims(api[q], l) \/ <<p, q>> \in slipped \/ Hears(p, q, l)
LeaversTell == \A p, q \in Policies, l \in Subs : p # q /\ Claimed(q, l) => Told(p, q, l)

\* What the worker found is current, or there is a reason to look again.
FoundOK ==
    pc \in {"manage", "write"} /\ ~failed =>
        \A q \in Policies : q # cur /\ q \in policy.overlaps =>
            Told(cur, q, policy.label) \/ cur \in queue

\* The same of what is recorded.
Again(p) == p \in queue \/ cur = p
RecordedOK ==
    \A p, q \in Policies :
        p # q /\ api[p] # None /\ q \in api[p].overlaps =>
            Told(p, q, api[p].label) \/ Again(p) \/ cache[p] = None

Wish(p, spec) == IF spec.musthave THEN p ELSE Absent
Manages(p, spec) == spec.enforce /\ spec.sub \in Subs

\* The Subscription is as the worker wants it, or its events bring it back.
WrittenOK ==
    pc = "write" /\ ~failed /\ policy.overlaps = {} /\ Manages(cur, policy.spec) =>
        /\ policy.spec.sub \in batch
        /\ sub[policy.spec.sub] = Wish(cur, policy.spec) \/ cur \in queue

\* ... and as a policy wants it that has recorded no overlap.
Gone(p) == \E i \in From(p) : stream[i].obj = None
ManagedOK ==
    \A p \in Policies :
        /\ cache[p] # None /\ api[p] # None /\ api[p].overlaps = {}
        /\ Manages(p, cache[p].spec)
        => \/ Again(p) \/ Gone(p)
           \/ /\ cache[p].spec.sub \in watches[p]
              /\ sub[cache[p].spec.sub] = Wish(p, cache[p].spec)

\* Overlaps are only recorded with a label.
Labelled(obj) == obj # None /\ obj.overlaps # {} => obj.label \in Subs
LabelsOK ==
    /\ \A p \in Policies : Labelled(api[p])
    /\ pc \in {"manage", "write"} => Labelled(policy)

\* Every version of q that is seen or on the way claims l.
AllClaim(q, l) == Claims(cache[q], l) /\ \A k \in From(q) : Claims(stream[k].obj, l)

\* ... once the first j changes are delivered.
ClaimsBy(q, l, j) ==
    \/ AllClaim(q, l)
    \/ \E i \in From(q) : i < j /\ \A k \in From(q) : k >= i => Claims(stream[k].obj, l)

\* A policy that left a label is marked for all others as long as it may be seen
\* to claim it.
LeaversLeft ==
    \A p, q \in Policies, l \in Subs : p # q /\ <<p, q>> \notin left =>
        /\ Claims(cache[q], l) => AllClaim(q, l)
        /\ \A i \in From(q) : Claims(stream[i].obj, l) =>
              \A k \in From(q) : k > i => Claims(stream[k].obj, l)

\* What is recorded and not marked is about a claim that still stands; so it is
\* for what the worker found, unless it can not write it.
Stands(q) == \E l \in Subs : AllClaim(q, l)
RecordsStand ==
    \A p, q \in Policies : p # q /\ <<p, q>> \notin left =>
        /\ Tells(api[p], q) => Stands(q)
        /\ cur = p /\ pc \in {"manage", "write"} /\ ~stale /\ q \in policy.overlaps => Stands(q)

\* A change is on the way that For enqueues p for.
Comes(p) == \E i \in From(p) : Watched(cache[p], stream[i].obj)

\* What is recorded of p, or what the worker is about to record, is one of good,
\* or p will be evaluated again.
Settled(p, good) ==
    \/ p \in queue \/ Comes(p)
    \/ IF cur = p THEN pc = "check" \/ failed \/ stale \/ policy \in good
       ELSE api[p] \in good

\* p has recorded q, or does not claim the label l.
Knowing(q, l) == {obj \in Policy \cup {None} : ~Claims(obj, l) \/ q \in obj.overlaps}
Knows(p, q, l) == Settled(p, Knowing(q, l))

\* The label is the one that the spec asks for.
Named == {obj \in Policy \cup {None} : obj # None => obj.label = obj.spec.sub}
NamesOK == \A p \in Policies : Settled(p, Named)

\* The others that are recorded claim the same label.
Placing(q) ==
    {obj \in Policy \cup {None} : Tells(obj, q) => obj.label \in Subs /\ AllClaim(q, obj.label)}
PlacesOK == \A p, q \in Policies : p # q => <<p, q>> \in left \/ Settled(p, Placing(q))

\* A policy knows those that it sees to have recorded it.
TellersKnown ==
    \A p, q \in Policies, l \in Subs :
        p # q /\ Tells(cache[q], p) /\ Claims(cache[q], l) => Knows(p, q, l)

\* Two that a third one has recorded know each other, or will hear of the third.
SharedKnown ==
    \A p, q, r \in Policies, l \in Subs :
        /\ p # q /\ p # r /\ q # r
        /\ Tells(api[r], p) /\ Tells(api[r], q) /\ <<r, p>> \notin left /\ AllClaim(p, l)
        => Knows(q, p, l) \/ \E j \in From(r) : Tells(stream[j].obj, q)

\* Of a policy that q has recorded and any other one that claims its label, one
\* knows the other, or will hear of q when the other is seen.
ThirdKnown ==
    \A p, q, r \in Policies, l \in Subs :
        /\ p # q /\ p # r /\ q # r
        /\ Tells(api[q], r) /\ <<q, r>> \notin left /\ AllClaim(r, l)
        => \/ Knows(p, r, l)
           \/ /\ cur # p
              /\ \/ ~Claims(api[p], l)
                 \/ AllClaim(p, l) /\ Knows(r, p, l)
                 \/ \E j \in From(q) : Tells(stream[j].obj, r) /\ ClaimsBy(p, l, j)

\* An overlap is with another policy.
Peopled(p, obj) == obj # None /\ obj.overlaps # {} => \E q \in obj.overlaps : q # p
PeopledOK ==
    /\ \A p \in Policies : Peopled(p, api[p])
    /\ pc # "idle" /\ ~stale => Peopled(cur, policy)

SeenInv == /\ LeaversLeft /\ RecordsStand /\ NamesOK /\ PlacesOK /\ TellersKnown /\ SharedKnown
           /\ ThirdKnown /\ PeopledOK

Inv == /\ WorkerOK /\ Latest /\ Base /\ LeaversTell /\ LabelsOK /\ FoundOK /\ RecordedOK
       /\ WrittenOK /\ ManagedOK

-----------------------------------------------------------------------------
(* Types *)

LEMMA FlagsStep == FlagsOK /\ [Next]_vars => FlagsOK'
<1> SUFFICES ASSUME FlagsOK, [Next]_vars PROVE FlagsOK'
  OBVIOUS
<1> USE DEF FlagsOK, locals
<1>1. CASE Users
  BY <1>1, Zenon DEF Users, Create, Edit, Delete, UserWrites, UserDeletesSub
<1>2. CASE Deliver
  BY <1>2, Zenon DEF Deliver
<1>3. CASE \E p \in Policies : ReconcileBegin(p)
  BY <1>3, Zenon DEF ReconcileBegin, Pending
<1>4. CASE checkSubOverlap
  BY <1>4, Zenon DEF checkSubOverlap
<1>5. CASE handleSubscription
  BY <1>5, Zenon DEF handleSubscription
<1>6. CASE WriteStatus \/ Restart
  BY <1>6, Zenon DEF WriteStatus, Restart, Return
<1>7. CASE UNCHANGED vars
  BY <1>7, Zenon DEF vars
<1> QED
  BY <1>1, <1>2, <1>3, <1>4, <1>5, <1>6, <1>7 DEF Next, Worker

LEMMA FreshType ==
    ASSUME NEW s \in Specs
    PROVE  /\ Fresh(s) \in Policy /\ Fresh(s).overlaps = {} /\ Fresh(s).label = NoSub
           /\ Fresh(s).spec = s
  BY DEF Fresh, Policy

LEMMA EditedType ==
    ASSUME NEW p \in Policy, NEW s \in Specs
    PROVE  LET q == [p EXCEPT !.spec = s]
           IN  q \in Policy /\ q.spec = s /\ q.label = p.label /\ q.overlaps = p.overlaps
  BY DEF Policy

\* What users write.
LEMMA UserWritesEffect ==
    ASSUME DataOK, NEW p \in Policies, Create(p) \/ Edit(p) \/ Delete(p)
    PROVE  \E obj \in Policy \cup {None} :
              /\ UserWrites(p, obj) /\ obj # api[p]
              /\ obj # None /\ api[p] = None => obj.overlaps = {}
              /\ obj # None /\ api[p] # None
                    => /\ api[p] \in Policy
                       /\ obj.label = api[p].label /\ obj.overlaps = api[p].overlaps
<1>1. ASSUME Create(p)
      PROVE  \E obj \in Policy :
                UserWrites(p, obj) /\ api[p] = None /\ obj.overlaps = {}
  BY <1>1, FreshType DEF Create
<1>2. ASSUME Edit(p)
      PROVE  \E obj \in Policy :
                /\ UserWrites(p, obj) /\ api[p] \in Policy /\ obj # api[p]
                /\ obj.label = api[p].label /\ obj.overlaps = api[p].overlaps
  <2>1. PICK s \in Specs \ {api[p].spec} : UserWrites(p, [api[p] EXCEPT !.spec = s])
    BY <1>2 DEF Edit
  <2>2. api[p] \in Policy
    BY <1>2 DEF Edit, DataOK
  <2> DEFINE obj == [api[p] EXCEPT !.spec = s]
  <2>3. /\ obj \in Policy /\ obj.spec = s /\ obj.label = api[p].label
        /\ obj.overlaps = api[p].overlaps
    BY <2>1, <2>2, EditedType
  <2> HIDE DEF obj
  <2>4. UserWrites(p, obj) /\ obj.spec # api[p].spec
    BY <2>1, <2>3 DEF obj
  <2> QED
    BY <2>2, <2>3, <2>4
<1>3. ASSUME Delete(p)
      PROVE  UserWrites(p, None) /\ api[p] # None
  BY <1>3 DEF Delete
<1> QED
  BY <1>1, <1>2, <1>3, ConstantsAssumption


\* What the worker has in hand.
LEMMA InHand ==
    ASSUME DataOK, WorkerOK, pc # "idle"
    PROVE  /\ cur \in Policies /\ policy \in Policy /\ policy.spec \in PolicySpec
           /\ policy.spec.sub \in Subs \cup {NoSub}
<1>1. cur \in Policies /\ policy \in Policy
  BY DEF DataOK, WorkerOK
<1>2. policy.spec \in Specs /\ Specs \subseteq PolicySpec
  BY <1>1, ConstantsAssumption DEF Policy
<1> QED
  BY <1>1, <1>2 DEF PolicySpec

\* The check finds the others that the cache shows, or its list fails.
CheckFrame == <<api, cache, stream, queue, sub, watches, cur, stale, batch, edits>>
Unseen(all) == {<<cur, q>> : q \in {q \in Policies \ all : ~Pending(q)}}
Checked(s, all) ==
    /\ policy'.overlaps \in {all, {}} /\ slipped' = slipped \ Unseen(all)
    /\ pc' \in {"manage", "write"}
    /\ pc' = "manage" => s \in Subs
    /\ policy'.overlaps = {} /\ pc' = "write" => s = NoSub
    /\ policy'.overlaps # {} => s \in Subs
CheckFailed(s) == pc' = "write" /\ s \in Subs /\ slipped' = slipped

LEMMA CheckEffect ==
    ASSUME DataOK, WorkerOK, checkSubOverlap
    PROVE  LET s == policy.spec.sub
               all == Overlappers(s)
           IN  /\ pc = "check" /\ cur \in Policies /\ policy \in Policy
               /\ all \subseteq Policies /\ cur \in all
               /\ policy' \in Policy /\ policy'.spec = policy.spec /\ policy'.label = s
               /\ UNCHANGED CheckFrame
               /\ Checked(s, all) \/ (CheckFailed(s) /\ failed')
<1> DEFINE s == policy.spec.sub
           all == Overlappers(s)
           found == s # NoSub /\ policy.spec.enforce /\ all # {cur}
<1>1. pc = "check" /\ UNCHANGED CheckFrame
  BY DEF checkSubOverlap, CheckFrame
<1>2. cur \in Policies /\ policy \in Policy /\ s \in Subs \cup {NoSub}
  BY <1>1, InHand
<1>3. all \subseteq Policies /\ cur \in all
  BY <1>2 DEF Overlappers
<1> HIDE DEF all, s
<1>4. CASE /\ policy' = [policy EXCEPT !.label = s, !.overlaps = IF found THEN all ELSE {}]
           /\ pc' = IF found \/ s = NoSub THEN "write" ELSE "manage"
           /\ slipped' = slipped \ Unseen(all)
  <2> DEFINE o == IF found THEN all ELSE {}
  <2>1. o \in SUBSET Policies /\ (o = {} <=> ~found)
    BY <1>3
  <2>2. found => s # NoSub
    OBVIOUS
  <2> HIDE DEF o, found
  <2>3. policy' = [policy EXCEPT !.label = s, !.overlaps = o]
    BY <1>4 DEF o
  <2>4. policy' \in Policy /\ policy'.spec = policy.spec /\ policy'.label = s /\ policy'.overlaps = o
    BY <1>2, <2>1, <2>3 DEF Policy
  <2>5. o \in {all, {}}
    BY DEF o
  <2> QED
    BY <1>1, <1>2, <1>3, <1>4, <2>1, <2>2, <2>4, <2>5 DEF Checked, all, s
<1>5. CASE /\ policy' = [policy EXCEPT !.label = s] /\ s # NoSub
           /\ failed' = TRUE /\ pc' = "write" /\ slipped' = slipped
  <2>1. policy' \in Policy /\ policy'.spec = policy.spec /\ policy'.label = s
    BY <1>2, <1>5 DEF Policy
  <2> QED
    BY <1>1, <1>2, <1>3, <1>5, <2>1 DEF CheckFailed, all, s
<1> QED
  BY <1>4, <1>5, Zenon DEF checkSubOverlap, all, s, Unseen

LEMMA FaultType ==
    ASSUME DataOK, Fault \/ UNCHANGED faults
    PROVE  faults' \in 0 .. MaxFaults
  BY ConstantsAssumption DEF DataOK, Fault

LEMMA StoreType ==
    ASSUME DataOK, NEW p \in Policies, NEW obj \in Policy \cup {None}, Store(p, obj)
    PROVE  /\ api' \in [Policies -> Policy \cup {None}] /\ api' = [api EXCEPT ![p] = obj]
           /\ stream' \in Seq([pol : Policies, obj : Policy \cup {None}])
           /\ slipped \subseteq slipped' /\ slipped' \subseteq Policies \X Policies
<1>1. api' = [api EXCEPT ![p] = obj] /\ stream' = Append(stream, [pol |-> p, obj |-> obj])
  BY DEF Store
<1>2. slipped \subseteq slipped' /\ slipped' \subseteq Policies \X Policies
  BY DEF Store, DataOK
<1> QED
  BY <1>1, <1>2 DEF DataOK

LEMMA DesiredType ==
    ASSUME DataOK, WorkerOK, handleSubscription
    PROVE  LET s == policy.spec.sub
           IN  /\ pc = "manage" /\ pc' = "write" /\ s \in Subs /\ cur \in Policies
               /\ batch' = {s}
               /\ UNCHANGED <<api, cache, stream, watches, cur, policy, stale, slipped,
                              edits>>
               /\ \/ SetSub(s, Desired(sub[s])) /\ changed'
                  \/ /\ UNCHANGED <<sub, queue>>
                     /\ \/ failed' \/ ~policy.spec.enforce
                        \/ Desired(sub[s]) = sub[s]
               /\ Desired(sub[s]) \in Policies \cup {Absent, Unmanaged}
  BY InHand DEF handleSubscription, WorkerOK, Desired


LEMMA BeginEffect ==
    ASSUME DataOK, WorkerOK, NEW p \in Policies, ReconcileBegin(p)
    PROVE  /\ pc = "idle" /\ queue' = queue \ {p}
           /\ UNCHANGED <<api, cache, stream, sub, slipped, edits, faults>>
           /\ \/ /\ cache[p] = None /\ watches' = [watches EXCEPT ![p] = {}]
                 /\ UNCHANGED <<pc, cur, policy, batch>> /\ UNCHANGED <<stale, changed, failed>>
              \/ /\ cache[p] \in Policy /\ pc' = "check" /\ cur' = p /\ policy' = cache[p]
                 /\ UNCHANGED <<watches, batch>>
                 /\ ~stale' => ~Pending(p)
<1>1. /\ pc = "idle" /\ queue' = queue \ {p}
      /\ UNCHANGED <<api, cache, stream, sub, slipped, edits, faults>>
  BY DEF ReconcileBegin
<1>2. CASE cache[p] = None
  <2>1. watches' = [watches EXCEPT ![p] = {}] /\ UNCHANGED locals
    BY <1>2, Zenon DEF ReconcileBegin
  <2> QED
    BY <1>1, <1>2, <2>1, Zenon DEF locals
<1>3. CASE cache[p] # None
  <2>1. /\ pc' = "check" /\ cur' = p /\ policy' = cache[p] /\ UNCHANGED <<watches, batch>>
    BY <1>3, Zenon DEF ReconcileBegin
  <2>2. ~stale' => ~Pending(p)
    BY <1>3, Zenon DEF ReconcileBegin
  <2>3. cache[p] \in Policy
    BY <1>3 DEF DataOK
  <2> QED
    BY <1>1, <2>1, <2>2, <2>3, Zenon
<1> QED
  BY <1>2, <1>3

Idle == pc' = "idle" /\ cur' = None /\ policy' = None /\ batch' = {}

LEMMA WriteEffect ==
    ASSUME DataOK, WorkerOK, WriteStatus
    PROVE  /\ pc = "write" /\ cur \in Policies /\ policy \in Policy
           /\ watches' = [watches EXCEPT ![cur] = batch]
           /\ UNCHANGED <<cache, sub, edits>> /\ Idle
           /\ queue' \in {queue, queue \cup {cur}} /\ (failed => cur \in queue')
           /\ \/ ~changed /\ ~stale /\ UNCHANGED <<api, stream, slipped>>
              \/ ~stale /\ Store(cur, policy)
              \/ cur \in queue' /\ UNCHANGED <<api, stream, slipped>>
           /\ faults' \in 0 .. MaxFaults
<1>1. /\ pc = "write" /\ watches' = [watches EXCEPT ![cur] = batch]
      /\ UNCHANGED <<cache, sub, edits>> /\ Idle
  BY DEF WriteStatus, Return, Idle
<1>2. cur \in Policies /\ policy \in Policy
  BY <1>1, InHand
<1>3. faults' \in 0 .. MaxFaults
  <2>1. Fault \/ UNCHANGED faults
    BY Zenon DEF WriteStatus
  <2> QED
    BY <2>1, FaultType
<1>4. queue' \in {queue, queue \cup {cur}} /\ (failed => cur \in queue')
  <2>1. \/ queue' = queue \cup {cur}
        \/ queue' = IF failed THEN queue \cup {cur} ELSE queue
    BY Zenon DEF WriteStatus
  <2> QED
    BY <2>1
<1>5. \/ ~changed /\ ~stale /\ UNCHANGED <<api, stream, slipped>>
      \/ ~stale /\ Store(cur, policy)
      \/ cur \in queue' /\ UNCHANGED <<api, stream, slipped>>
  <2>1. \/ ~changed /\ ~stale /\ UNCHANGED <<api, stream, slipped>>
        \/ ~stale /\ Store(cur, policy)
        \/ queue' = queue \cup {cur} /\ UNCHANGED <<api, stream, slipped>>
    BY Zenon DEF WriteStatus
  <2> QED
    BY <2>1
<1> QED
  BY <1>1, <1>2, <1>3, <1>4, <1>5, Zenon

LEMMA DeliverEffect ==
    ASSUME DataOK, Deliver
    PROVE  /\ stream # <<>> /\ stream' = Tail(stream)
           /\ stream[1].pol \in Policies /\ stream[1].obj \in Policy \cup {None}
           /\ cache' = [cache EXCEPT ![stream[1].pol] = stream[1].obj]
           /\ queue' = queue \cup Mapped(stream[1].pol, cache[stream[1].pol], stream[1].obj)
                             \cup (IF Watched(cache[stream[1].pol], stream[1].obj)
                                   THEN {stream[1].pol} ELSE {})
           /\ Mapped(stream[1].pol, cache[stream[1].pol], stream[1].obj) \subseteq Policies
           /\ UNCHANGED <<api, sub, watches, locals, slipped, edits, faults>>
<1>1. stream # <<>> /\ stream \in Seq([pol : Policies, obj : Policy \cup {None}])
  BY DEF DataOK, Deliver
<1>2. stream[1] \in [pol : Policies, obj : Policy \cup {None}] /\ Head(stream) = stream[1]
  <2>1. Len(stream) \in Nat /\ Len(stream) # 0
    BY <1>1
  <2>2. 1 \in 1 .. Len(stream)
    BY <2>1
  <2>3. stream[1] \in [pol : Policies, obj : Policy \cup {None}]
    BY <1>1, <2>2, ElementOfSeq
  <2>4. Head(stream) = stream[1]
    BY <1>1
  <2> QED
    BY <2>3, <2>4
<1>3. cache[stream[1].pol] \in Policy \cup {None}
  BY <1>2 DEF DataOK
<1>4. Mapped(stream[1].pol, cache[stream[1].pol], stream[1].obj) \subseteq Policies
  BY <1>2, <1>3 DEF Mapped, overlapMapper, Policy
<1> QED
  BY <1>1, <1>2, <1>4 DEF Deliver

\* Only a policy that leaves a label, and an evaluation that begins, change left.
LEMMA LeftStep ==
    ASSUME DataOK, WorkerOK, [Next]_vars
    PROVE  /\ \/ UNCHANGED left
              \/ \E a \in Policies, obj \in Policy \cup {None} : Store(a, obj) /\ left \subseteq left'
              \/ \E p \in Policies : ReconcileBegin(p)
           /\ left' \subseteq Policies \X Policies
<1>1. ASSUME NEW a \in Policies, NEW obj \in Policy \cup {None}, Store(a, obj)
      PROVE  left \subseteq left' /\ left' \subseteq Policies \X Policies
  BY <1>1 DEF Store, DataOK
<1>2. CASE UNCHANGED left
  BY <1>2 DEF DataOK
<1>3. CASE \E p \in Policies : Create(p) \/ Edit(p) \/ Delete(p)
  <2>1. PICK p \in Policies, obj \in Policy \cup {None} : UserWrites(p, obj)
    BY <1>3, UserWritesEffect
  <2> QED
    BY <1>1, <2>1 DEF UserWrites
<1>4. CASE \E p \in Policies : ReconcileBegin(p)
  <2>1. left' \subseteq left
    BY <1>4 DEF ReconcileBegin
  <2> QED
    BY <1>4, <2>1 DEF DataOK
<1>5. CASE WriteStatus
  <2>1. cur \in Policies /\ policy \in Policy
    BY <1>5, WriteEffect
  <2>2. Store(cur, policy) \/ UNCHANGED left
    BY <1>5, Zenon DEF WriteStatus
  <2> QED
    BY <1>1, <1>2, <2>1, <2>2
<1>6. CASE \/ Deliver \/ checkSubOverlap \/ handleSubscription \/ Restart \/ UNCHANGED vars
          \/ \E s \in Subs : UserDeletesSub(s)
  <2>1. UNCHANGED left
    BY <1>6, Zenon DEF Deliver, checkSubOverlap, handleSubscription, Restart, vars, UserDeletesSub
  <2> QED
    BY <1>2, <2>1
<1> QED
  BY <1>3, <1>4, <1>5, <1>6, Zenon DEF Next, Users, Worker

LEMMA DataStep == DataOK /\ WorkerOK /\ [Next]_vars => DataOK'
<1> SUFFICES ASSUME DataOK, WorkerOK, [Next]_vars PROVE DataOK'
  OBVIOUS
<1>0. left' \subseteq Policies \X Policies
  BY LeftStep
<1>1. CASE \E p \in Policies : Create(p) \/ Edit(p) \/ Delete(p)
  <2>1. PICK p \in Policies, obj \in Policy \cup {None} : UserWrites(p, obj)
    BY <1>1, UserWritesEffect
  <2>2. /\ Store(p, obj) /\ edits' \in 0 .. MaxEdits
        /\ UNCHANGED <<cache, queue, sub, watches, pc, cur, policy, batch, faults>>
    BY <2>1, ConstantsAssumption DEF UserWrites, DataOK
  <2> QED
    BY <1>0, <2>2, StoreType DEF DataOK
<1>2. CASE \E s \in Subs : UserDeletesSub(s)
  <2>1. PICK s \in Subs : UserDeletesSub(s)
    BY <1>2
  <2>2. /\ sub' = [sub EXCEPT ![s] = Absent] /\ queue' \subseteq Policies
        /\ edits' \in 0 .. MaxEdits
        /\ UNCHANGED <<api, cache, stream, watches, pc, cur, policy, batch, slipped, faults>>
    BY <2>1, ConstantsAssumption DEF UserDeletesSub, SetSub, DataOK, locals
  <2> QED
    BY <1>0, <2>2 DEF DataOK
<1>3. CASE Deliver
  <2>1. /\ stream' \in Seq([pol : Policies, obj : Policy \cup {None}])
        /\ cache' \in [Policies -> Policy \cup {None}] /\ queue' \subseteq Policies
    <3>1. stream' \in Seq([pol : Policies, obj : Policy \cup {None}])
      <4>1. stream # <<>> /\ stream' = Tail(stream)
        BY <1>3, DeliverEffect
      <4> QED
        BY <4>1 DEF DataOK
    <3>2. cache' \in [Policies -> Policy \cup {None}]
      BY <1>3, DeliverEffect DEF DataOK
    <3>3. queue' \subseteq Policies
      BY <1>3, DeliverEffect DEF DataOK
    <3> QED
      BY <3>1, <3>2, <3>3
  <2>2. UNCHANGED <<api, sub, watches, pc, cur, policy, batch, slipped, edits, faults>>
    BY <1>3, DeliverEffect, Zenon DEF locals
  <2> QED
    BY <1>0, <2>1, <2>2 DEF DataOK
<1>4. CASE \E p \in Policies : ReconcileBegin(p)
  BY <1>0, <1>4, BeginEffect DEF DataOK
<1>5. CASE checkSubOverlap
  <2>1. /\ policy' \in Policy /\ UNCHANGED CheckFrame /\ pc' \in {"manage", "write"}
        /\ slipped' \subseteq slipped
    BY <1>5, CheckEffect DEF Checked, CheckFailed
  <2>2. faults' \in 0 .. MaxFaults
    BY <1>5, FaultType, Zenon DEF checkSubOverlap
  <2> QED
    BY <1>0, <2>1, <2>2 DEF DataOK, CheckFrame
<1>6. CASE handleSubscription
  <2> DEFINE s == policy.spec.sub
  <2>1. /\ pc' = "write" /\ s \in Subs /\ batch' = {s}
        /\ UNCHANGED <<api, cache, stream, watches, cur, policy, slipped, edits>>
        /\ SetSub(s, Desired(sub[s])) \/ UNCHANGED <<sub, queue>>
        /\ Desired(sub[s]) \in Policies \cup {Absent, Unmanaged}
    BY <1>6, DesiredType
  <2>2. faults' \in 0 .. MaxFaults
    BY <1>6, FaultType, Zenon DEF handleSubscription
  <2>3. sub' \in [Subs -> Policies \cup {Absent, Unmanaged}] /\ queue' \subseteq Policies
    BY <2>1 DEF DataOK, SetSub
  <2> QED
    BY <1>0, <2>1, <2>2, <2>3 DEF DataOK
<1>7. CASE WriteStatus
  <2>1. /\ watches' \in [Policies -> SUBSET Subs] /\ queue' \subseteq Policies
    BY <1>7, WriteEffect DEF DataOK
  <2>2. UNCHANGED <<cache, sub, edits>> /\ Idle /\ faults' \in 0 .. MaxFaults
    BY <1>7, WriteEffect
  <2>3. /\ api' \in [Policies -> Policy \cup {None}] /\ slipped' \subseteq Policies \X Policies
        /\ stream' \in Seq([pol : Policies, obj : Policy \cup {None}])
    <3>1. /\ cur \in Policies /\ policy \in Policy
          /\ UNCHANGED <<api, stream, slipped>> \/ Store(cur, policy)
      BY <1>7, WriteEffect
    <3> QED
      BY <3>1, StoreType DEF DataOK
  <2> QED
    BY <1>0, <2>1, <2>2, <2>3 DEF DataOK, Idle
<1>8. CASE Restart
  <2>1. faults' \in 0 .. MaxFaults
    BY <1>8, FaultType DEF Restart
  <2> QED
    BY <1>8, <2>1 DEF Restart, Return, DataOK
<1>9. CASE UNCHANGED vars
  BY <1>9 DEF vars, locals, DataOK
<1> QED
  BY <1>1, <1>2, <1>3, <1>4, <1>5, <1>6, <1>7, <1>8, <1>9 DEF Next, Users, Worker


LEMMA WorkerStep == DataOK /\ WorkerOK /\ [Next]_vars => WorkerOK'
<1> SUFFICES ASSUME DataOK, WorkerOK, [Next]_vars PROVE WorkerOK'
  OBVIOUS
<1>1. CASE UNCHANGED <<pc, cur, policy>>
  BY <1>1 DEF WorkerOK
<1>2. CASE Users \/ Deliver \/ UNCHANGED vars
  <2>1. UNCHANGED <<pc, cur, policy>>
    BY <1>2, Zenon DEF Users, Create, Edit, Delete, UserWrites, UserDeletesSub, Deliver, locals, vars
  <2> QED
    BY <1>1, <2>1
<1>3. CASE \E p \in Policies : ReconcileBegin(p)
  BY <1>3, BeginEffect, ConstantsAssumption DEF WorkerOK
<1>4. CASE checkSubOverlap
  <2>1. /\ pc' \in {"manage", "write"} /\ cur' = cur /\ cur \in Policies
        /\ policy' \in Policy /\ policy'.spec = policy.spec
        /\ pc' = "manage" => policy.spec.sub \in Subs
    BY <1>4, CheckEffect DEF Checked, CheckFailed, CheckFrame
  <2> QED
    BY <2>1, ConstantsAssumption DEF WorkerOK
<1>5. CASE handleSubscription
  <2>1. pc' = "write" /\ UNCHANGED <<cur, policy>> /\ pc = "manage"
    BY <1>5 DEF handleSubscription
  <2> QED
    BY <2>1 DEF WorkerOK
<1>6. CASE WriteStatus \/ Restart
  <2>1. pc' = "idle" /\ cur' = None /\ policy' = None
    BY <1>6 DEF WriteStatus, Restart, Return
  <2> QED
    BY <2>1 DEF WorkerOK
<1> QED
  BY <1>2, <1>3, <1>4, <1>5, <1>6 DEF Next, Worker

LEMMA InitTypes == Init => DataOK /\ FlagsOK /\ WorkerOK
<1> SUFFICES ASSUME Init PROVE DataOK /\ FlagsOK /\ WorkerOK
  OBVIOUS
<1>1. FlagsOK
  BY Zenon DEF Init, FlagsOK
<1>2. api \in [Policies -> Policy \cup {None}]
  BY FreshType, ConstantsAssumption DEF Init
<1>3. DataOK
  <2>1. /\ cache = api /\ stream = <<>> /\ sub = [s \in Subs |-> Absent]
        /\ queue = {p \in Policies : api[p] # None} /\ watches = [p \in Policies |-> {}]
        /\ pc = "idle" /\ cur = None /\ policy = None /\ batch = {} /\ slipped = {}
        /\ left = {} /\ edits = 0 /\ faults = 0
    BY Zenon DEF Init
  <2>2. 0 \in 0 .. MaxEdits /\ 0 \in 0 .. MaxFaults
    BY ConstantsAssumption
  <2> QED
    BY <1>2, <2>1, <2>2 DEF DataOK
<1>4. WorkerOK
  BY DEF Init, WorkerOK
<1> QED
  BY <1>1, <1>3, <1>4

\* TypeOK for any policies, Subscriptions and specs: what travels between the
\* API server, the informer and the worker are policies, and a Subscription's
\* managed-by annotation is absent or names a policy.
THEOREM TypeCorrect == Spec => []TypeOK
<1>1. Init => DataOK /\ FlagsOK /\ WorkerOK
  BY InitTypes
<1>2. DataOK /\ FlagsOK /\ WorkerOK /\ [Next]_vars => (DataOK /\ FlagsOK /\ WorkerOK)'
  BY DataStep, FlagsStep, WorkerStep
<1>3. DataOK /\ FlagsOK /\ WorkerOK => TypeOK
  BY DEF TypeOK
<1> QED
  BY <1>1, <1>2, <1>3, PTL DEF Spec

-----------------------------------------------------------------------------
(* The changes on the way to the informer *)

LEMMA FromType ==
    ASSUME DataOK, NEW q
    PROVE  /\ Len(stream) \in Nat /\ Changes = 1 .. Len(stream)
           /\ From(q) \subseteq Changes /\ From(q) \subseteq Nat \ {0}
           /\ \A i \in Changes : stream[i].pol \in Policies /\ stream[i].obj \in Policy \cup {None}
           /\ Pending(q) <=> From(q) # {}
<1>1. stream \in Seq([pol : Policies, obj : Policy \cup {None}])
  BY DEF DataOK
<1>2. \A i \in 1 .. Len(stream) : stream[i] \in [pol : Policies, obj : Policy \cup {None}]
  BY <1>1, ElementOfSeq
<1>3. DOMAIN stream = 1 .. Len(stream) /\ Len(stream) \in Nat
  BY <1>1
<1> QED
  BY <1>2, <1>3 DEF From, Changes, Pending

LEMMA StoreChanges ==
    ASSUME DataOK, NEW p \in Policies, NEW obj \in Policy \cup {None}, Store(p, obj)
    PROVE  LET m == Len(stream) + 1
           IN  /\ m \in Nat \ {0} /\ \A i \in Changes : i < m /\ stream'[i] = stream[i]
               /\ From(p)' = From(p) \cup {m} /\ stream'[m].obj = obj
               /\ \A q \in Policies \ {p} : From(q)' = From(q)
<1>1. stream \in Seq([pol : Policies, obj : Policy \cup {None}])
  BY DEF DataOK
<1>2. stream' = Append(stream, [pol |-> p, obj |-> obj])
  BY DEF Store
<1> DEFINE m == Len(stream) + 1
<1>3. /\ Len(stream') = m /\ m \in Nat \ {0} /\ stream'[m] = [pol |-> p, obj |-> obj]
      /\ \A i \in 1 .. Len(stream) : stream'[i] = stream[i]
  BY <1>1, <1>2, AppendProperties
<1>4. Len(stream) \in Nat
  BY <1>1
<1> HIDE DEF m
<1>5. \A i \in Changes' : i = m \/ i \in Changes
  BY <1>3, <1>4 DEF Changes, m
<1>6. /\ m \in Changes' /\ m \notin Changes
      /\ \A i \in Changes : i \in Changes' /\ i < m /\ stream'[i] = stream[i]
  BY <1>3, <1>4 DEF Changes, m
<1>7. stream'[m].pol = p /\ stream'[m].obj = obj
  BY <1>3
<1>8. From(p)' = From(p) \cup {m} /\ \A q \in Policies \ {p} : From(q)' = From(q)
  BY <1>5, <1>6, <1>7 DEF From
<1> QED
  BY <1>3, <1>6, <1>7, <1>8 DEF m

LEMMA DeliverChanges ==
    ASSUME DataOK, Deliver
    PROVE  /\ 1 \in Changes /\ 1 \in From(stream[1].pol)
           /\ \A q : 1 \in From(q) => q = stream[1].pol
           /\ \A q, i : i \in From(q)' => i \in Nat /\ i + 1 \in From(q) /\ i + 1 # 1
                                         /\ stream'[i].obj = stream[i + 1].obj
           /\ \A q, i : i \in From(q) /\ i # 1 => /\ i \in Nat /\ i - 1 \in From(q)'
                                                  /\ stream'[i - 1].obj = stream[i].obj
<1>1. stream \in Seq([pol : Policies, obj : Policy \cup {None}]) /\ stream # <<>>
      /\ stream' = Tail(stream)
  BY DeliverEffect DEF DataOK
<1>2. /\ Len(stream) \in Nat \ {0} /\ Len(stream') = Len(stream) - 1
      /\ \A i \in 1 .. Len(stream) - 1 : stream'[i] = stream[i + 1]
  BY <1>1
<1>3. 1 \in 1 .. Len(stream)
  BY <1>2
<1>4. \A i \in 1 .. Len(stream') :
         i \in Nat /\ i + 1 \in 1 .. Len(stream) /\ i + 1 # 1 /\ stream'[i] = stream[i + 1]
  BY <1>2
<1>5. \A i \in 1 .. Len(stream) :
         i # 1 => i \in Nat /\ i - 1 \in 1 .. Len(stream') /\ stream'[i - 1] = stream[i]
  <2>1. SUFFICES ASSUME NEW i \in 1 .. Len(stream), i # 1
                 PROVE  i \in Nat /\ i - 1 \in 1 .. Len(stream') /\ stream'[i - 1] = stream[i]
    OBVIOUS
  <2>2. i - 1 \in 1 .. Len(stream) - 1 /\ (i - 1) + 1 = i /\ i \in Nat
    BY <1>2, <2>1
  <2>3. stream'[i - 1] = stream[(i - 1) + 1]
    BY <1>2, <2>2
  <2> QED
    BY <1>2, <2>2, <2>3
<1> QED
  BY <1>3, <1>4, <1>5 DEF From, Changes


-----------------------------------------------------------------------------
(* Steps of the feed *)

\* What a step does to the versions of the policies and to who slipped.
LEMMA FeedStep ==
    ASSUME DataOK, WorkerOK, [Next]_vars
    PROVE  \/ UNCHANGED <<api, cache, stream>> /\ (UNCHANGED slipped \/ checkSubOverlap)
           \/ Deliver \/ Restart
           \/ \E a \in Policies, obj \in Policy \cup {None} : Store(a, obj) /\ UNCHANGED cache
<1>1. CASE \E p \in Policies : Create(p) \/ Edit(p) \/ Delete(p)
  BY <1>1, UserWritesEffect DEF UserWrites
<1>2. CASE \E s \in Subs : UserDeletesSub(s)
  BY <1>2, Zenon DEF UserDeletesSub
<1>3. CASE \E p \in Policies : ReconcileBegin(p)
  BY <1>3, Zenon DEF ReconcileBegin
<1>4. CASE checkSubOverlap
  BY <1>4, CheckEffect DEF CheckFrame
<1>5. CASE handleSubscription
  BY <1>5, Zenon DEF handleSubscription
<1>6. CASE WriteStatus
  BY <1>6, WriteEffect
<1>7. CASE UNCHANGED vars
  BY <1>7, Zenon DEF vars
<1> QED
  BY <1>1, <1>2, <1>3, <1>4, <1>5, <1>6, <1>7, Zenon DEF Next, Users, Worker

LEMMA RestartEffect ==
    ASSUME Restart
    PROVE  /\ cache' = api /\ UNCHANGED <<api, sub, slipped>> /\ pc' = "idle"
           /\ \A q : From(q)' = {}
           /\ queue' = {p \in Policies : api[p] # None}
<1>1. stream' = <<>> /\ pc' = "idle" /\ cache' = api /\ UNCHANGED <<api, sub, slipped>>
      /\ queue' = {p \in Policies : api[p] # None}
  BY Zenon DEF Restart, Return
<1>2. Changes' = {}
  BY <1>1 DEF Changes
<1> QED
  BY <1>1, <1>2 DEF From

\* Nothing new on the way.
LEMMA SameFeed ==
    ASSUME UNCHANGED <<api, cache, stream>>
    PROVE  /\ \A q : From(q)' = From(q)
           /\ \A p, q, l : Hears(p, q, l)' = Hears(p, q, l) /\ Claimed(q, l)' = Claimed(q, l)
           /\ \A p : Gone(p)' = Gone(p)
<1>1. Changes' = Changes
  BY DEF Changes
<1>2. \A q : From(q)' = From(q)
  BY <1>1 DEF From
<1>3. \A p, q, l : Hears(p, q, l)' = Hears(p, q, l) /\ Claimed(q, l)' = Claimed(q, l)
  BY <1>2 DEF Hears, Claimed
<1>4. \A p : Gone(p)' = Gone(p)
  BY <1>2 DEF Gone
<1> QED
  BY <1>2, <1>3, <1>4

LEMMA LatestStep == DataOK /\ WorkerOK /\ Latest /\ [Next]_vars => Latest'
<1> SUFFICES ASSUME DataOK, WorkerOK, Latest, [Next]_vars PROVE Latest'
  OBVIOUS
<1>1. CASE UNCHANGED <<api, cache, stream>>
  BY <1>1, SameFeed DEF Latest
<1>2. ASSUME NEW a \in Policies, NEW obj \in Policy \cup {None}, Store(a, obj), UNCHANGED cache
      PROVE  Latest'
  <2>1. ASSUME NEW q \in Policies \ {a}
        PROVE  \/ From(q)' = {} /\ cache'[q] = api'[q]
               \/ \E i \in From(q)' : (\A k \in From(q)' : k <= i) /\ stream'[i].obj = api'[q]
    <3>1. From(q)' = From(q) /\ api'[q] = api[q] /\ \A i \in From(q) : stream'[i] = stream[i]
      BY <1>2, StoreChanges, StoreType DEF From, DataOK
    <3> QED
      BY <1>2, <3>1 DEF Latest
  <2>2. \E i \in From(a)' : (\A k \in From(a)' : k <= i) /\ stream'[i].obj = api'[a]
    <3> DEFINE m == Len(stream) + 1
    <3>1. /\ m \in Nat \ {0} /\ \A i \in Changes : i < m
          /\ From(a)' = From(a) \cup {m} /\ stream'[m].obj = obj
      BY <1>2, StoreChanges
    <3>2. api'[a] = obj
      BY <1>2, StoreType DEF DataOK
    <3>3. \A i \in From(a) : i \in Nat /\ i < m
      BY <3>1, FromType
    <3> HIDE DEF m
    <3> QED
      BY <3>1, <3>2, <3>3
  <2> QED
    BY <2>1, <2>2 DEF Latest
<1>3. CASE Deliver
  <2>1. /\ cache' = [cache EXCEPT ![stream[1].pol] = stream[1].obj] /\ UNCHANGED api
        /\ stream[1].pol \in Policies
    BY <1>3, DeliverEffect
  <2>2. SUFFICES ASSUME NEW q \in Policies
                 PROVE  \/ From(q)' = {} /\ cache'[q] = api[q]
                        \/ \E i \in From(q)' :
                              (\A k \in From(q)' : k <= i) /\ stream'[i].obj = api[q]
    BY <2>1 DEF Latest
  <2>3. \A i \in From(q)' : i \in Nat /\ i + 1 \in From(q) /\ i + 1 # 1
    BY <1>3, DeliverChanges
  <2>4. CASE From(q) = {}
    <3>1. cache[q] = api[q]
      BY <2>4 DEF Latest
    <3>2. stream[1].pol # q
      BY <1>3, <2>4, DeliverChanges
    <3> QED
      BY <2>1, <2>3, <2>4, <3>1, <3>2 DEF DataOK
  <2>5. CASE From(q) # {}
    <3>1. PICK i \in From(q) : (\A k \in From(q) : k <= i) /\ stream[i].obj = api[q]
      BY <2>5 DEF Latest
    <3>2. CASE i = 1
      <4>1. From(q)' = {}
        <5>1. ASSUME NEW j \in From(q)' PROVE FALSE
          <6>1. j \in Nat /\ j + 1 <= 1 /\ j + 1 # 1
            BY <2>3, <3>1, <3>2
          <6> QED
            BY <6>1
        <5> QED
          BY <5>1
      <4>2. q = stream[1].pol
        BY <1>3, <3>2, DeliverChanges
      <4> QED
        BY <2>1, <3>1, <3>2, <4>1, <4>2 DEF DataOK
    <3>3. CASE i # 1
      <4>1. i \in Nat /\ i - 1 \in From(q)' /\ stream'[i - 1].obj = stream[i].obj
        BY <1>3, <3>3, DeliverChanges
      <4>2. \A k \in From(q)' : k <= i - 1
        <5>1. SUFFICES ASSUME NEW k \in From(q)' PROVE k <= i - 1
          OBVIOUS
        <5>2. k \in Nat /\ k + 1 <= i
          BY <2>3, <3>1
        <5> QED
          BY <4>1, <5>2
      <4> QED
        BY <3>1, <4>1, <4>2
    <3> QED
      BY <3>2, <3>3
  <2> QED
    BY <2>4, <2>5
<1>4. CASE Restart
  BY <1>4, RestartEffect DEF Latest
<1> QED
  BY <1>1, <1>2, <1>3, <1>4, FeedStep


\* What users do leaves the worker alone, but for the staleness of its copy.
LEMMA UsersEffect ==
    ASSUME DataOK, Users
    PROVE  /\ UNCHANGED <<cache, watches, pc, cur, policy, batch>>
           /\ UNCHANGED <<changed, failed>> /\ queue \subseteq queue'
           /\ \/ \E a \in Policies, obj \in Policy \cup {None} :
                    /\ Store(a, obj) /\ UNCHANGED <<queue, sub>> /\ (~stale' => ~stale /\ cur # a)
                    /\ obj # None /\ api[a] = None => obj.overlaps = {}
                    /\ obj # None /\ api[a] # None
                         => obj.label = api[a].label /\ obj.overlaps = api[a].overlaps
              \/ /\ UNCHANGED <<api, stream, slipped>> /\ (stale' => stale) /\ (stale => stale')
                 /\ \E s \in Subs : SetSub(s, Absent)
<1>1. ASSUME NEW p \in Policies, Create(p) \/ Edit(p) \/ Delete(p)
      PROVE  \E obj \in Policy \cup {None} :
                /\ Store(p, obj) /\ UNCHANGED <<queue, sub>> /\ (~stale' => ~stale /\ cur # p)
                /\ UNCHANGED <<cache, watches, pc, cur, policy, batch>>
                /\ UNCHANGED <<changed, failed>>
                /\ obj # None /\ api[p] = None => obj.overlaps = {}
                /\ obj # None /\ api[p] # None
                     => obj.label = api[p].label /\ obj.overlaps = api[p].overlaps
  <2>1. PICK obj \in Policy \cup {None} :
              /\ UserWrites(p, obj)
              /\ obj # None /\ api[p] = None => obj.overlaps = {}
              /\ obj # None /\ api[p] # None
                   => obj.label = api[p].label /\ obj.overlaps = api[p].overlaps
    BY <1>1, UserWritesEffect
  <2>2. /\ Store(p, obj) /\ UNCHANGED <<queue, sub>>
        /\ UNCHANGED <<cache, watches, pc, cur, policy, batch>>
        /\ UNCHANGED <<changed, failed>>
    BY <2>1, Zenon DEF UserWrites
  <2>3. ~stale' => ~stale /\ cur # p
    BY <2>1, Zenon DEF UserWrites
  <2> QED
    BY <2>1, <2>2, <2>3, Zenon
<1>2. ASSUME NEW s \in Subs, UserDeletesSub(s)
      PROVE  /\ UNCHANGED <<api, stream, slipped>> /\ (stale' => stale) /\ (stale => stale')
             /\ SetSub(s, Absent) /\ queue \subseteq queue'
             /\ UNCHANGED <<cache, watches, pc, cur, policy, batch>>
             /\ UNCHANGED <<changed, failed>>
  <2>1. /\ UNCHANGED <<api, stream, slipped>> /\ SetSub(s, Absent)
        /\ UNCHANGED <<cache, watches, pc, cur, policy, batch>>
    BY <1>2, Zenon DEF UserDeletesSub, locals
  <2>2. (stale' => stale) /\ (stale => stale')
    BY <1>2, Zenon DEF UserDeletesSub, locals
  <2>3. UNCHANGED <<changed, failed>>
    BY <1>2, Zenon DEF UserDeletesSub, locals
  <2>4. queue \subseteq queue'
    BY <2>1 DEF SetSub
  <2> QED
    BY <2>1, <2>2, <2>3, <2>4, Zenon
<1>3. CASE \E p \in Policies : Create(p) \/ Edit(p) \/ Delete(p)
  <2>1. PICK p \in Policies : Create(p) \/ Edit(p) \/ Delete(p)
    BY <1>3
  <2>2. PICK obj \in Policy \cup {None} :
                /\ Store(p, obj) /\ UNCHANGED <<queue, sub>> /\ (~stale' => ~stale /\ cur # p)
                /\ UNCHANGED <<cache, watches, pc, cur, policy, batch>>
                /\ UNCHANGED <<changed, failed>>
                /\ obj # None /\ api[p] = None => obj.overlaps = {}
                /\ obj # None /\ api[p] # None
                     => obj.label = api[p].label /\ obj.overlaps = api[p].overlaps
    BY <1>1, <2>1, Zenon
  <2>3. queue \subseteq queue'
    BY <2>2
  <2> QED
    BY <2>1, <2>2, <2>3, Zenon
<1>4. CASE \E s \in Subs : UserDeletesSub(s)
  BY <1>2, <1>4, Zenon
<1> QED
  BY <1>3, <1>4, Zenon DEF Users

LEMMA BaseStep == DataOK /\ WorkerOK /\ Latest /\ Base /\ [Next]_vars => Base'
<1> SUFFICES ASSUME DataOK, WorkerOK, Latest, Base, [Next]_vars PROVE Base'
  OBVIOUS
<1>1. CASE Users
  <2>1. SUFFICES ASSUME pc # "idle", ~stale'
                 PROVE  /\ From(cur)' = {} /\ cache[cur] # None /\ policy.spec = cache[cur].spec
                        /\ pc = "check" \/ ~changed => policy = api'[cur]
    BY <1>1, UsersEffect DEF Base
  <2>2. cur \in Policies
    BY <2>1, InHand
  <2>3. ~stale
    BY <1>1, <2>1, UsersEffect, Zenon
  <2>4. api'[cur] = api[cur] /\ From(cur)' = From(cur)
    <3>0. cur' = cur
      BY <1>1, UsersEffect
    <3>1. CASE UNCHANGED <<api, stream>>
      BY <3>0, <3>1 DEF From, Changes
    <3>2. CASE \E a \in Policies, obj \in Policy \cup {None} : Store(a, obj) /\ cur # a
      BY <2>2, <3>0, <3>2, StoreType, StoreChanges DEF DataOK
    <3> QED
      BY <1>1, <2>1, <3>1, <3>2, UsersEffect, Zenon
  <2> QED
    BY <2>1, <2>3, <2>4 DEF Base
<1>2. CASE Deliver
  <2>1. SUFFICES ASSUME pc # "idle", ~stale
                 PROVE  (\A i \in Changes' : stream'[i].pol # cur) /\ cache'[cur] = cache[cur]
    <3>1. UNCHANGED <<api, locals>>
      BY <1>2, DeliverEffect
    <3>2. UNCHANGED <<api, pc, cur, policy>> /\ changed' = changed /\ stale' = stale
      BY <3>1, Zenon DEF locals
    <3> QED
      BY <2>1, <3>2 DEF Base, From
  <2>2. cur \in Policies /\ From(cur) = {}
    BY <2>1, InHand DEF Base
  <2>3. stream[1].pol # cur
    BY <1>2, <2>2, DeliverChanges
  <2>4. \A i \in Changes' : stream'[i].pol # cur
    <3>1. cur' = cur
      BY <1>2, DeliverEffect, Zenon DEF locals
    <3>2. From(cur)' = {}
      BY <1>2, <2>2, <3>1, DeliverChanges
    <3> QED
      BY <3>1, <3>2 DEF From
  <2>5. cache'[cur] = cache[cur]
    BY <1>2, <2>2, <2>3, DeliverEffect DEF DataOK
  <2> QED
    BY <2>4, <2>5
<1>3. ASSUME NEW p \in Policies, ReconcileBegin(p) PROVE Base'
  <2>1. UNCHANGED <<api, cache, stream>> /\ pc = "idle"
    BY <1>3, BeginEffect
  <2>2. CASE UNCHANGED pc
    BY <2>1, <2>2 DEF Base
  <2>3. CASE /\ cache[p] \in Policy /\ pc' = "check" /\ cur' = p /\ policy' = cache[p]
             /\ ~stale' => ~Pending(p)
    <3>1. ~stale' => From(p) = {} /\ cache[p] = api[p]
      BY <2>3, FromType DEF Latest
    <3>2. From(p)' = From(p) /\ cache[p] # None
      BY <2>1, <2>3, SameFeed, ConstantsAssumption
    <3> QED
      BY <2>1, <2>3, <3>1, <3>2 DEF Base, From, Changes
  <2> QED
    BY <1>3, <2>2, <2>3, BeginEffect, Zenon
<1>4. CASE checkSubOverlap
  <2>1. /\ pc = "check" /\ UNCHANGED CheckFrame /\ policy'.spec = policy.spec
        /\ pc' \in {"manage", "write"}
    BY <1>4, CheckEffect DEF Checked, CheckFailed
  <2>2. UNCHANGED <<api, cache, stream, cur>> /\ stale' = stale
    BY <2>1, Zenon DEF CheckFrame
  <2>3. ~changed' => policy' = policy
    BY <1>4, Zenon DEF checkSubOverlap
  <2>4. From(cur)' = From(cur)
    BY <2>2 DEF From, Changes
  <2> QED
    BY <2>1, <2>2, <2>3, <2>4 DEF Base
<1>5. CASE handleSubscription
  <2>1. pc = "manage" /\ pc' = "write" /\ UNCHANGED <<api, cache, stream, cur, policy>>
    BY <1>5, Zenon DEF handleSubscription
  <2>2. stale' = stale /\ (changed' = TRUE \/ changed' = changed)
    BY <1>5, Zenon DEF handleSubscription
  <2>3. From(cur)' = From(cur)
    BY <2>1 DEF From, Changes
  <2> QED
    BY <2>1, <2>2, <2>3 DEF Base
<1>6. CASE WriteStatus \/ Restart
  <2>1. pc' = "idle"
    BY <1>6 DEF WriteStatus, Restart, Return
  <2> QED
    BY <2>1 DEF Base
<1>7. CASE UNCHANGED vars
  <2>1. /\ UNCHANGED <<api, cache, stream, pc, cur, policy>>
        /\ stale' = stale /\ changed' = changed
    BY <1>7, Zenon DEF vars, locals
  <2>2. From(cur)' = From(cur)
    BY <2>1 DEF From, Changes
  <2> QED
    BY <2>1, <2>2 DEF Base
<1> QED
  BY <1>1, <1>2, <1>3, <1>4, <1>5, <1>6, <1>7 DEF Next, Worker

LEMMA LabelsStep == DataOK /\ WorkerOK /\ LabelsOK /\ [Next]_vars => LabelsOK'
<1> SUFFICES ASSUME DataOK, WorkerOK, LabelsOK, [Next]_vars PROVE LabelsOK'
  OBVIOUS
<1>1. ASSUME NEW a \in Policies, NEW obj \in Policy \cup {None}, Store(a, obj), Labelled(obj)
      PROVE  \A p \in Policies : Labelled(api'[p])
  BY <1>1, StoreType DEF DataOK, LabelsOK
<1>2. CASE Users
  <2>1. UNCHANGED <<pc, policy>>
    BY <1>2, UsersEffect
  <2>2. \A p \in Policies : Labelled(api'[p])
    <3>1. CASE UNCHANGED api
      BY <3>1 DEF LabelsOK
    <3>2. ASSUME NEW a \in Policies, NEW obj \in Policy \cup {None}, Store(a, obj),
                 obj # None /\ api[a] = None => obj.overlaps = {},
                 obj # None /\ api[a] # None
                   => obj.label = api[a].label /\ obj.overlaps = api[a].overlaps
          PROVE  \A p \in Policies : Labelled(api'[p])
      <4>1. Labelled(obj)
        BY <3>2 DEF LabelsOK, Labelled
      <4> QED
        BY <1>1, <3>2, <4>1
    <3> QED
      BY <1>2, <3>1, <3>2, UsersEffect
  <2> QED
    BY <2>1, <2>2 DEF LabelsOK
<1>3. CASE UNCHANGED <<api, pc, policy>>
  BY <1>3 DEF LabelsOK
<1>4. CASE Deliver \/ UNCHANGED vars
  <2>1. UNCHANGED <<api, pc, policy>>
    BY <1>4, Zenon DEF Deliver, vars, locals
  <2> QED
    BY <1>3, <2>1
<1>5. CASE Restart \/ \E p \in Policies : ReconcileBegin(p)
  <2>1. UNCHANGED api /\ (UNCHANGED pc \/ pc' \in {"idle", "check"})
    BY <1>5, RestartEffect, BeginEffect, Zenon
  <2>2. pc' \in {"idle", "check"}
    BY <1>5, RestartEffect, BeginEffect
  <2> QED
    BY <2>1, <2>2 DEF LabelsOK
<1>6. CASE checkSubOverlap
  <2>1. UNCHANGED api /\ Labelled(policy')
    BY <1>6, CheckEffect DEF Checked, CheckFailed, CheckFrame, Labelled
  <2> QED
    BY <2>1 DEF LabelsOK
<1>7. CASE handleSubscription
  <2>1. pc = "manage" /\ UNCHANGED <<api, policy>>
    BY <1>7, Zenon DEF handleSubscription
  <2> QED
    BY <2>1 DEF LabelsOK
<1>8. CASE WriteStatus
  <2>1. pc = "write" /\ pc' = "idle" /\ cur \in Policies /\ policy \in Policy
        /\ (UNCHANGED api \/ Store(cur, policy))
    BY <1>8, WriteEffect DEF Idle
  <2>2. Labelled(policy)
    BY <2>1 DEF LabelsOK
  <2>3. \A p \in Policies : Labelled(api'[p])
    BY <1>1, <2>1, <2>2 DEF LabelsOK
  <2> QED
    BY <2>1, <2>3 DEF LabelsOK
<1> QED
  BY <1>2, <1>4, <1>5, <1>6, <1>7, <1>8 DEF Next, Worker


-----------------------------------------------------------------------------
(* Who is told *)

LEMMA StoreTold ==
    ASSUME DataOK, Latest, NEW a \in Policies, NEW obj \in Policy \cup {None}, Store(a, obj),
           UNCHANGED cache, NEW p \in Policies, NEW q \in Policies, p # q, NEW l \in Subs,
           Told(p, q, l)
    PROVE  Told(p, q, l)'
<1> DEFINE m == Len(stream) + 1
<1>1. /\ m \in Nat \ {0} /\ \A i \in Changes : i < m /\ stream'[i] = stream[i]
      /\ From(a)' = From(a) \cup {m} /\ stream'[m].obj = obj
      /\ \A r \in Policies \ {a} : From(r)' = From(r)
  BY StoreChanges
<1>2. \A r : From(r) \subseteq Changes /\ From(r) \subseteq Nat \ {0}
  BY FromType
<1> HIDE DEF m
<1>3. api' = [api EXCEPT ![a] = obj] /\ api \in [Policies -> Policy \cup {None}]
      /\ slipped \subseteq slipped'
  BY StoreType DEF DataOK
<1>4. CASE a # q
  <2>1. From(q)' = From(q) /\ api'[q] = api[q] /\ cache'[q] = cache[q]
        /\ \A i \in From(q) : stream'[i] = stream[i]
    BY <1>1, <1>2, <1>3, <1>4
  <2>2. Hears(p, q, l) => Hears(p, q, l)'
    BY <2>1 DEF Hears
  <2> QED
    BY <1>3, <2>1, <2>2 DEF Told
<1>5. CASE a = q /\ Claims(obj, l)
  BY <1>3, <1>5 DEF Told
<1>6. CASE a = q /\ ~Claims(obj, l)
  <2>1. From(q)' = From(q) \cup {m} /\ \A i \in From(q) : i < m /\ stream'[i] = stream[i]
    BY <1>1, <1>2, <1>6
  <2>2. ASSUME Hears(p, q, l) PROVE Hears(p, q, l)'
    <3>1. CASE Tells(cache[q], p) /\ From(q) # {} /\ \A k \in From(q) : ~Claims(stream[k].obj, l)
      BY <1>1, <1>6, <2>1, <3>1 DEF Hears
    <3>2. CASE \E j \in From(q) : /\ Tells(stream[j].obj, p)
                                  /\ \A k \in From(q) : k > j => ~Claims(stream[k].obj, l)
      BY <1>1, <1>6, <2>1, <3>2 DEF Hears
    <3> QED
      BY <2>2, <3>1, <3>2 DEF Hears
  <2>3. ASSUME Claims(api[q], l), <<p, q>> \notin slipped' PROVE Hears(p, q, l)'
    <3>1. slipped' = slipped \cup ((Policies \ (api[q].overlaps \cup {q})) \X {q})
      BY <1>6, <2>3 DEF Store
    <3>2. Tells(api[q], p)
      BY <2>3, <3>1 DEF Tells, Claims
    <3>3. CASE From(q) = {} /\ cache[q] = api[q]
      BY <1>1, <1>6, <2>1, <3>2, <3>3 DEF Hears
    <3>4. CASE \E i \in From(q) : (\A k \in From(q) : k <= i) /\ stream[i].obj = api[q]
      <4>1. PICK i \in From(q) : (\A k \in From(q) : k <= i) /\ stream[i].obj = api[q]
        BY <3>4
      <4>2. i \in From(q)' /\ Tells(stream'[i].obj, p)
        BY <2>1, <3>2, <4>1
      <4>3. \A k \in From(q) : ~(k > i)
        BY <1>2, <4>1
      <4>4. \A k \in From(q)' : k > i => ~Claims(stream'[k].obj, l)
        BY <1>1, <1>6, <2>1, <4>3
      <4> QED
        BY <4>2, <4>4 DEF Hears
    <3> QED
      BY <3>3, <3>4 DEF Latest
  <2> QED
    BY <1>3, <2>2, <2>3 DEF Told
<1> QED
  BY <1>4, <1>5, <1>6

\* The delivery shifts what is on the way.
LEMMA DeliverTold ==
    ASSUME DataOK, Deliver, NEW p \in Policies, NEW q \in Policies, p # q, NEW l, Told(p, q, l)
    PROVE  Told(p, q, l)' \/ p \in queue'
<1>1. /\ cache' = [cache EXCEPT ![stream[1].pol] = stream[1].obj] /\ UNCHANGED <<api, slipped>>
      /\ cache \in [Policies -> Policy \cup {None}]
      /\ Mapped(stream[1].pol, cache[stream[1].pol], stream[1].obj) \subseteq queue'
  BY DeliverEffect DEF DataOK
<1>2. /\ 1 \in From(stream[1].pol) /\ \A r : 1 \in From(r) => r = stream[1].pol
      /\ \A i : i \in From(q)' => i \in Nat /\ i + 1 \in From(q) /\ i + 1 # 1
                                  /\ stream'[i].obj = stream[i + 1].obj
      /\ \A i : i \in From(q) /\ i # 1 => i \in Nat /\ i - 1 \in From(q)'
                                          /\ stream'[i - 1].obj = stream[i].obj
  BY DeliverChanges
<1>3. SUFFICES ASSUME Hears(p, q, l), p \notin queue' PROVE Hears(p, q, l)'
  BY <1>1 DEF Told
<1>4. ASSUME NEW j \in From(q), Tells(stream[j].obj, p),
             \A k \in From(q) : k > j => ~Claims(stream[k].obj, l)
      PROVE  Hears(p, q, l)'
  <2>1. j # 1
    <3>1. ASSUME j = 1 PROVE p \in Mapped(stream[1].pol, cache[stream[1].pol], stream[1].obj)
      BY <1>2, <1>4, <3>1 DEF Mapped, overlapMapper, Tells
    <3> QED
      BY <1>1, <1>3, <3>1
  <2>2. j \in Nat /\ j - 1 \in From(q)' /\ Tells(stream'[j - 1].obj, p)
    BY <1>2, <1>4, <2>1
  <2>3. \A k \in From(q)' : k > j - 1 => ~Claims(stream'[k].obj, l)
    <3>1. SUFFICES ASSUME NEW k \in From(q)', k > j - 1 PROVE ~Claims(stream'[k].obj, l)
      OBVIOUS
    <3>2. k \in Nat /\ k + 1 \in From(q) /\ stream'[k].obj = stream[k + 1].obj
      BY <1>2
    <3>3. k + 1 > j
      BY <2>2, <3>1, <3>2
    <3> QED
      BY <1>4, <3>2, <3>3
  <2> QED
    BY <2>2, <2>3 DEF Hears
<1>5. ASSUME Tells(cache[q], p), From(q) # {}, \A k \in From(q) : ~Claims(stream[k].obj, l)
      PROVE  Hears(p, q, l)'
  <2>1. q # stream[1].pol
    <3>1. ASSUME q = stream[1].pol
          PROVE  p \in Mapped(stream[1].pol, cache[stream[1].pol], stream[1].obj)
      BY <1>5, <3>1 DEF Mapped, overlapMapper, Tells
    <3> QED
      BY <1>1, <1>3, <3>1
  <2>2. cache'[q] = cache[q] /\ 1 \notin From(q)
    BY <1>1, <1>2, <2>1
  <2>3. From(q)' # {}
    BY <1>2, <1>5, <2>2
  <2>4. \A k \in From(q)' : ~Claims(stream'[k].obj, l)
    BY <1>2, <1>5
  <2> QED
    BY <1>5, <2>2, <2>3, <2>4 DEF Hears
<1> QED
  BY <1>3, <1>4, <1>5 DEF Hears

\* A change that is delivered is not needed by one who still sees the claim.
LEMMA DeliverHears ==
    ASSUME DataOK, Deliver, Latest', NEW p \in Policies, NEW q \in Policies, p # q, NEW l,
           Hears(p, q, l), Claimed(q, l)', ~Claims(api'[q], l)
    PROVE  Hears(p, q, l)'
<1>1. /\ cache' = [cache EXCEPT ![stream[1].pol] = stream[1].obj] /\ UNCHANGED <<api, slipped>>
      /\ cache \in [Policies -> Policy \cup {None}]
  BY DeliverEffect DEF DataOK
<1>2. /\ 1 \in From(stream[1].pol) /\ \A r : 1 \in From(r) => r = stream[1].pol
      /\ \A i : i \in From(q)' => i \in Nat /\ i + 1 \in From(q) /\ i + 1 # 1
                                  /\ stream'[i].obj = stream[i + 1].obj
      /\ \A i : i \in From(q) /\ i # 1 => i \in Nat /\ i - 1 \in From(q)'
                                          /\ stream'[i - 1].obj = stream[i].obj
  BY DeliverChanges
<1>3. Claims(cache'[q], l) => From(q)' # {}
  BY DEF Latest
<1>4. ASSUME NEW j \in From(q), Tells(stream[j].obj, p),
             \A k \in From(q) : k > j => ~Claims(stream[k].obj, l)
      PROVE  Hears(p, q, l)'
  <2>1. ASSUME NEW k \in From(q)', k > j - 1, j \in Nat PROVE ~Claims(stream'[k].obj, l)
    <3>1. k \in Nat /\ k + 1 \in From(q) /\ stream'[k].obj = stream[k + 1].obj
      BY <1>2
    <3>2. k + 1 > j
      BY <2>1, <3>1
    <3> QED
      BY <1>4, <3>1, <3>2
  <2>2. CASE j = 1
    <3>1. \A k \in From(q)' : k > j - 1
      <4>1. \A k \in From(q)' : k \in Nat /\ k + 1 # 1
        BY <1>2
      <4> QED
        BY <2>2, <4>1
    <3>2. \A k \in From(q)' : ~Claims(stream'[k].obj, l)
      BY <2>1, <2>2, <3>1
    <3>3. Claims(cache'[q], l)
      BY <3>2 DEF Claimed
    <3>4. cache'[q] = stream[j].obj
      BY <1>1, <1>2, <1>4, <2>2
    <3> QED
      BY <1>3, <1>4, <3>2, <3>3, <3>4 DEF Hears
  <2>3. CASE j # 1
    <3>1. j \in Nat /\ j - 1 \in From(q)' /\ Tells(stream'[j - 1].obj, p)
      BY <1>2, <1>4, <2>3
    <3> QED
      BY <2>1, <3>1 DEF Hears
  <2> QED
    BY <2>2, <2>3
<1>5. ASSUME Tells(cache[q], p), From(q) # {}, \A k \in From(q) : ~Claims(stream[k].obj, l)
      PROVE  Hears(p, q, l)'
  <2>1. \A k \in From(q)' : ~Claims(stream'[k].obj, l)
    BY <1>2, <1>5
  <2>2. Claims(cache'[q], l)
    BY <2>1 DEF Claimed
  <2>3. q # stream[1].pol
    BY <1>1, <1>2, <1>5, <2>2
  <2> QED
    BY <1>1, <1>3, <1>5, <2>1, <2>2, <2>3 DEF Hears
<1> QED
  BY <1>4, <1>5 DEF Hears


\* With the feed unchanged, only the check may forget a slip: of one it can not see.
LEMMA SameTold ==
    ASSUME UNCHANGED <<api, cache, stream>>, slipped \subseteq slipped'
    PROVE  \A p, q, l : Told(p, q, l) => Told(p, q, l)'
  BY SameFeed DEF Told

LEMMA CheckTold ==
    ASSUME DataOK, WorkerOK, checkSubOverlap
    PROVE  \A p, q, l : Told(p, q, l) => \/ Told(p, q, l)'
                                         \/ /\ p = cur /\ q \notin Overlappers(policy.spec.sub)
                                            /\ ~Pending(q)
<1>1. /\ UNCHANGED <<api, cache, stream>>
      /\ slipped' = slipped \/ slipped' = slipped \ Unseen(Overlappers(policy.spec.sub))
  BY CheckEffect DEF CheckFrame, Checked, CheckFailed
<1>2. \A p, q : <<p, q>> \in Unseen(Overlappers(policy.spec.sub))
                   => p = cur /\ q \notin Overlappers(policy.spec.sub) /\ ~Pending(q)
  BY DEF Unseen
<1> QED
  BY <1>1, <1>2, SameFeed DEF Told

LEMMA LeaversStep ==
    DataOK /\ WorkerOK /\ Latest /\ Latest' /\ LeaversTell /\ [Next]_vars => LeaversTell'
<1> SUFFICES ASSUME DataOK, WorkerOK, Latest, Latest', LeaversTell, [Next]_vars,
                    NEW p \in Policies, NEW q \in Policies, NEW l \in Subs, p # q,
                    Claimed(q, l)'
             PROVE  Told(p, q, l)'
  BY DEF LeaversTell
<1>1. ASSUME UNCHANGED <<api, cache, stream>>, UNCHANGED slipped \/ checkSubOverlap
      PROVE  Told(p, q, l)'
  <2>1. Told(p, q, l)
    BY <1>1, SameFeed DEF LeaversTell
  <2>2. CASE UNCHANGED slipped
    BY <1>1, <2>1, <2>2, SameTold
  <2>3. CASE checkSubOverlap
    <3>1. ~Pending(q) => Claims(api[q], l)
      BY <1>1, SameFeed, FromType DEF Latest, Claimed
    <3> QED
      BY <1>1, <2>1, <2>3, <3>1, CheckTold DEF Told
  <2> QED
    BY <1>1, <2>2, <2>3
<1>2. CASE Deliver
  <2>1. Claimed(q, l)
    <3>1. CASE Claims(cache'[q], l)
      <4>1. cache'[q] \in {cache[q], stream[1].obj} /\ (cache'[q] # cache[q] => stream[1].pol = q)
        BY <1>2, DeliverEffect DEF DataOK
      <4>2. 1 \in From(stream[1].pol)
        BY <1>2, DeliverChanges
      <4> QED
        BY <3>1, <4>1, <4>2 DEF Claimed
    <3>2. CASE \E k \in From(q)' : Claims(stream'[k].obj, l)
      BY <1>2, <3>2, DeliverChanges DEF Claimed
    <3> QED
      BY <3>1, <3>2 DEF Claimed
  <2>2. UNCHANGED <<api, slipped>>
    BY <1>2, DeliverEffect
  <2>3. CASE Claims(api[q], l) \/ <<p, q>> \in slipped
    BY <2>2, <2>3 DEF Told
  <2>4. CASE Hears(p, q, l) /\ ~Claims(api[q], l)
    BY <1>2, <2>2, <2>4, DeliverHears DEF Told
  <2> QED
    BY <2>1, <2>3, <2>4 DEF LeaversTell, Told
<1>3. CASE Restart
  BY <1>3, RestartEffect DEF Claimed, Told
<1>4. ASSUME NEW a \in Policies, NEW obj \in Policy \cup {None}, Store(a, obj), UNCHANGED cache
      PROVE  Told(p, q, l)'
  <2>1. CASE Told(p, q, l)
    BY <1>4, <2>1, StoreTold
  <2>2. CASE a = q /\ Claims(obj, l)
    BY <1>4, <2>2, StoreType DEF Told, DataOK
  <2>3. CASE ~(a = q /\ Claims(obj, l)) /\ ~Told(p, q, l)
    <3> DEFINE m == Len(stream) + 1
    <3>1. /\ \A i \in Changes : stream'[i] = stream[i]
          /\ From(a)' = From(a) \cup {m} /\ stream'[m].obj = obj
          /\ \A r \in Policies \ {a} : From(r)' = From(r)
      BY <1>4, StoreChanges
    <3>2. From(q) \subseteq Changes
      BY FromType
    <3> HIDE DEF m
    <3>3. Claimed(q, l)
      BY <1>4, <2>3, <3>1, <3>2 DEF Claimed
    <3> QED
      BY <2>3, <3>3 DEF LeaversTell
  <2> QED
    BY <2>1, <2>2, <2>3
<1> QED
  BY <1>1, <1>2, <1>3, <1>4, FeedStep

-----------------------------------------------------------------------------
(* What is found and recorded *)

LEMMA FoundStep ==
    /\ DataOK /\ WorkerOK /\ Latest /\ LabelsOK /\ LeaversTell /\ FoundOK /\ [Next]_vars
    => FoundOK'
<1> SUFFICES ASSUME DataOK, WorkerOK, Latest, LabelsOK, LeaversTell, FoundOK, [Next]_vars
             PROVE  FoundOK'
  OBVIOUS
<1>1. ASSUME UNCHANGED <<pc, cur, policy>>, failed => failed', pc \in {"manage", "write"},
             \A q \in Policies : q # cur /\ policy.label \in Subs /\ Told(cur, q, policy.label)
                                    => Told(cur, q, policy.label)' \/ cur \in queue',
             queue \subseteq queue'
      PROVE  FoundOK'
  <2>1. SUFFICES ASSUME ~failed', NEW q \in Policies, q # cur, q \in policy.overlaps
                 PROVE  Told(cur, q, policy.label)' \/ cur \in queue'
    BY <1>1 DEF FoundOK
  <2>2. ~failed
    BY <1>1, <2>1, Zenon
  <2>3. policy.label \in Subs
    BY <1>1, <2>1 DEF LabelsOK, Labelled, WorkerOK
  <2> QED
    BY <1>1, <2>1, <2>2, <2>3 DEF FoundOK
<1>2. CASE pc' \notin {"manage", "write"}
  BY <1>2 DEF FoundOK
<1>3. CASE Users /\ pc \in {"manage", "write"}
  <2>1. cur \in Policies
    BY <1>3, InHand
  <2>2. UNCHANGED <<cache, pc, cur, policy>> /\ queue \subseteq queue'
    BY <1>3, UsersEffect
  <2>3. failed => failed'
    BY <1>3, UsersEffect, Zenon
  <2>4. ASSUME NEW q \in Policies, q # cur, policy.label \in Subs, Told(cur, q, policy.label)
        PROVE  Told(cur, q, policy.label)'
    <3>1. CASE UNCHANGED <<api, stream, slipped>>
      BY <2>2, <2>4, <3>1, SameTold
    <3>2. CASE \E a \in Policies, obj \in Policy \cup {None} : Store(a, obj)
      BY <2>1, <2>2, <2>4, <3>2, StoreTold
    <3> QED
      BY <1>3, <3>1, <3>2, UsersEffect
  <2> QED
    BY <1>1, <1>3, <2>2, <2>3, <2>4
<1>4. CASE Deliver /\ pc \in {"manage", "write"}
  <2>1. cur \in Policies
    BY <1>4, InHand
  <2>2. UNCHANGED <<pc, cur, policy>> /\ queue \subseteq queue'
    <3>1. UNCHANGED locals /\ queue \subseteq queue'
      BY <1>4, DeliverEffect
    <3> QED
      BY <3>1, Zenon DEF locals
  <2>3. failed => failed'
    BY <1>4, DeliverEffect, Zenon DEF locals
  <2> QED
    BY <1>1, <1>4, <2>1, <2>2, <2>3, DeliverTold
<1>5. CASE checkSubOverlap
  <2> DEFINE s == policy.spec.sub
             all == Overlappers(s)
  <2>1. /\ cur \in Policies /\ UNCHANGED CheckFrame /\ policy'.label = s
        /\ Checked(s, all) \/ (CheckFailed(s) /\ failed')
    BY <1>5, CheckEffect
  <2>2. SUFFICES ASSUME ~failed', NEW q \in Policies, NEW c, NEW l, c = cur', l = policy'.label,
                        q # c, q \in policy'.overlaps
                 PROVE  Told(c, q, l)'
    BY DEF FoundOK, Told, Hears
  <2>3. Checked(s, all)
    BY <2>1, <2>2, Zenon
  <2> HIDE DEF all
  <2>4. q \in all /\ s \in Subs /\ c = cur /\ l = s
    BY <2>1, <2>2, <2>3 DEF Checked, CheckFrame
  <2>5. Claimed(q, l)
    BY <2>2, <2>4 DEF all, Overlappers, Claimed
  <2>6. Told(c, q, l)
    BY <2>1, <2>2, <2>4, <2>5 DEF LeaversTell
  <2> QED
    BY <1>5, <2>4, <2>6, CheckTold DEF all
<1>6. CASE handleSubscription
  <2>1. /\ pc = "manage" /\ pc' = "write" /\ UNCHANGED <<api, cache, stream, slipped, cur, policy>>
    BY <1>6, Zenon DEF handleSubscription
  <2>2. failed => failed'
    BY <1>6, Zenon DEF handleSubscription
  <2>3. queue \subseteq queue'
    BY <1>6, DesiredType DEF SetSub
  <2>4. SUFFICES ASSUME ~failed', NEW q \in Policies, q # cur, q \in policy.overlaps
                 PROVE  Told(cur, q, policy.label)' \/ cur \in queue'
    BY <2>1 DEF FoundOK
  <2>5. ~failed
    BY <2>2, <2>4, Zenon
  <2> QED
    BY <2>1, <2>3, <2>4, <2>5, SameTold DEF FoundOK
<1>7. CASE UNCHANGED vars /\ pc \in {"manage", "write"}
  <2>1. UNCHANGED <<api, cache, stream, slipped, pc, cur, policy, queue>>
    BY <1>7, Zenon DEF vars, locals
  <2>2. failed => failed'
    BY <1>7, Zenon DEF vars, locals
  <2> QED
    BY <1>1, <1>7, <2>1, <2>2, SameTold
<1>8. CASE (Users \/ Deliver \/ UNCHANGED vars) /\ pc \notin {"manage", "write"}
  <2>1. UNCHANGED pc
    BY <1>8, UsersEffect, DeliverEffect, Zenon DEF vars, locals
  <2> QED
    BY <1>2, <1>8, <2>1
<1>9. CASE WriteStatus \/ Restart \/ \E p \in Policies : ReconcileBegin(p)
  <2>1. pc' \notin {"manage", "write"}
    BY <1>9, WriteEffect, RestartEffect, BeginEffect DEF Idle
  <2> QED
    BY <1>2, <2>1
<1> QED
  BY <1>3, <1>4, <1>5, <1>6, <1>7, <1>8, <1>9 DEF Next, Worker


LEMMA RecordedStep ==
    /\ DataOK /\ WorkerOK /\ Latest /\ Base /\ LabelsOK /\ FoundOK /\ RecordedOK /\ [Next]_vars
    => RecordedOK'
<1> SUFFICES ASSUME DataOK, WorkerOK, Latest, Base, LabelsOK, FoundOK, RecordedOK, [Next]_vars,
                    NEW p \in Policies, NEW q \in Policies, p # q, api'[p] # None,
                    q \in api'[p].overlaps, NEW l, l = api'[p].label
             PROVE  \/ Told(p, q, l)' \/ p \in queue' \/ cur' = p
                    \/ cache'[p] = None
  BY DEF RecordedOK, Again, Told, Hears
\* What was so before the step, if the record is as it was.
<1> DEFINE Before == Told(p, q, l) \/ p \in queue \/ cur = p \/ cache[p] = None
<1>1. UNCHANGED api => Before /\ l \in Subs
  BY DEF RecordedOK, Again, LabelsOK, Labelled
<1>2. CASE Users
  <2>1. UNCHANGED <<cache, cur>> /\ queue \subseteq queue'
    BY <1>2, UsersEffect
  <2>2. CASE UNCHANGED <<api, stream, slipped>>
    BY <1>1, <2>1, <2>2, SameTold
  <2>3. ASSUME NEW a \in Policies, NEW obj \in Policy \cup {None}, Store(a, obj),
               obj # None /\ api[a] = None => obj.overlaps = {},
               obj # None /\ api[a] # None
                 => obj.label = api[a].label /\ obj.overlaps = api[a].overlaps
        PROVE  \/ Told(p, q, l)' \/ p \in queue' \/ cur' = p
               \/ cache'[p] = None
    <3>1. api' = [api EXCEPT ![a] = obj] /\ api \in [Policies -> Policy \cup {None}]
      BY <2>3, StoreType DEF DataOK
    <3>2. api[p] # None /\ q \in api[p].overlaps /\ api[p].label = l
      BY <2>3, <3>1
    <3>3. Before /\ l \in Subs
      BY <3>2 DEF RecordedOK, Again, LabelsOK, Labelled
    <3> QED
      BY <2>1, <2>3, <3>3, StoreTold
  <2> QED
    BY <1>2, <2>2, <2>3, UsersEffect
<1>3. CASE Deliver
  <2>1. UNCHANGED <<api, locals>> /\ queue \subseteq queue'
    BY <1>3, DeliverEffect
  <2>2. cur' = cur
    BY <2>1, Zenon DEF locals
  <2>3. CASE cache[p] = None
    <3>1. CASE stream[1].pol = p
      <4>1. Watched(cache[p], stream[1].obj)
        BY <2>3 DEF Watched
      <4> QED
        BY <1>3, <3>1, <4>1, DeliverEffect
    <3>2. CASE stream[1].pol # p
      BY <1>3, <2>3, <3>2, DeliverEffect DEF DataOK
    <3> QED
      BY <3>1, <3>2
  <2> QED
    BY <1>1, <1>3, <2>1, <2>2, <2>3, DeliverTold
<1>4. ASSUME NEW b \in Policies, ReconcileBegin(b)
      PROVE  Told(p, q, l)' \/ p \in queue' \/ cur' = p \/ cache'[p] = None
  <2>1. UNCHANGED <<api, cache, stream, slipped>> /\ queue' = queue \ {b} /\ cur = None
        /\ (cache[b] = None \/ cur' = b)
    BY <1>4, BeginEffect DEF WorkerOK
  <2>2. p # None
    BY ConstantsAssumption
  <2> QED
    BY <1>1, <2>1, <2>2, SameTold
<1>5. CASE checkSubOverlap
  <2>1. UNCHANGED <<api, cache, queue, cur>>
    BY <1>5, CheckEffect, Zenon DEF CheckFrame
  <2> QED
    BY <1>1, <1>5, <2>1, CheckTold
<1>6. CASE handleSubscription
  <2>1. UNCHANGED <<api, cache, stream, slipped, cur>> /\ queue \subseteq queue'
    BY <1>6, DesiredType DEF SetSub
  <2> QED
    BY <1>1, <2>1, SameTold
<1>7. CASE WriteStatus
  <2>1. /\ pc = "write" /\ cur \in Policies /\ policy \in Policy /\ UNCHANGED cache
        /\ queue \subseteq queue' /\ (failed => cur \in queue')
        /\ \/ ~changed /\ ~stale /\ UNCHANGED <<api, stream, slipped>>
           \/ ~stale /\ Store(cur, policy)
           \/ cur \in queue' /\ UNCHANGED <<api, stream, slipped>>
    BY <1>7, WriteEffect
  <2>2. CASE p # cur
    <3>1. api'[p] = api[p]
      BY <2>1, <2>2, StoreType DEF DataOK
    <3>2. Before /\ l \in Subs
      BY <3>1 DEF RecordedOK, Again, LabelsOK, Labelled
    <3>3. Told(p, q, l) => Told(p, q, l)'
      BY <2>1, <3>2, StoreTold, SameTold
    <3> QED
      BY <2>1, <2>2, <3>2, <3>3
  <2>3. CASE p = cur /\ cur \notin queue'
    <3>1. \/ ~changed /\ ~stale /\ UNCHANGED <<api, stream, slipped>>
          \/ ~stale /\ Store(cur, policy)
      BY <2>1, <2>3, Zenon
    <3>2. api'[cur] = policy
      BY <2>1, <3>1, StoreType DEF DataOK, Base
    <3>3. ~failed
      BY <2>1, <2>3, Zenon
    <3>4. Told(p, q, l) /\ l \in Subs
      BY <2>1, <2>3, <3>2, <3>3 DEF FoundOK, LabelsOK, Labelled
    <3> QED
      BY <2>1, <3>1, <3>4, StoreTold, SameTold
  <2> QED
    BY <2>2, <2>3
<1>8. CASE Restart
  BY <1>8, RestartEffect
<1>9. CASE UNCHANGED vars
  <2>1. UNCHANGED <<api, cache, stream, slipped, cur, queue>>
    BY <1>9, Zenon DEF vars, locals
  <2> QED
    BY <1>1, <2>1, SameTold
<1> QED
  BY <1>2, <1>3, <1>4, <1>5, <1>6, <1>7, <1>8, <1>9 DEF Next, Worker

-----------------------------------------------------------------------------
(* The Subscription *)

LEMMA WrittenStep == DataOK /\ WorkerOK /\ WrittenOK /\ [Next]_vars => WrittenOK'
<1> SUFFICES ASSUME DataOK, WorkerOK, WrittenOK, [Next]_vars PROVE WrittenOK'
  OBVIOUS
<1>1. CASE pc' # "write"
  BY <1>1 DEF WrittenOK
<1>2. CASE Users
  <2>1. UNCHANGED <<pc, cur, policy, batch>> /\ queue \subseteq queue'
    BY <1>2, UsersEffect
  <2>2. failed' => failed
    BY <1>2, UsersEffect, Zenon
  <2>3. failed => failed'
    BY <1>2, UsersEffect, Zenon
  <2>4. SUFFICES ASSUME pc = "write", ~failed, policy.overlaps = {}, Manages(cur, policy.spec)
                 PROVE  /\ policy.spec.sub \in batch
                        /\ sub'[policy.spec.sub] = Wish(cur, policy.spec) \/ cur \in queue'
    BY <2>1, <2>3 DEF WrittenOK, Wish, Manages
  <2>5. /\ policy.spec.sub \in batch /\ policy.spec.sub \in Subs /\ cur \in Policies
        /\ sub[policy.spec.sub] = Wish(cur, policy.spec) \/ cur \in queue
    BY <2>4, InHand DEF WrittenOK, Manages
  <2>6. UNCHANGED sub \/ \E s \in Subs : SetSub(s, Absent)
    BY <1>2, UsersEffect
  <2> QED
    BY <2>1, <2>5, <2>6 DEF SetSub, DataOK
<1>3. CASE Deliver \/ UNCHANGED vars
  <2>1. UNCHANGED <<pc, cur, policy, batch, sub>>
    BY <1>3, DeliverEffect, Zenon DEF vars, locals
  <2>2. failed => failed'
    BY <1>3, DeliverEffect, Zenon DEF vars, locals
  <2>3. queue \subseteq queue'
    BY <1>3, DeliverEffect DEF vars
  <2>4. SUFFICES ASSUME pc = "write", ~failed, policy.overlaps = {}, Manages(cur, policy.spec)
                 PROVE  /\ policy.spec.sub \in batch
                        /\ sub[policy.spec.sub] = Wish(cur, policy.spec) \/ cur \in queue'
    BY <2>1, <2>2 DEF WrittenOK, Wish, Manages
  <2> QED
    BY <2>3, <2>4 DEF WrittenOK
<1>4. CASE checkSubOverlap
  <2>1. /\ policy'.spec = policy.spec
        /\ Checked(policy.spec.sub, Overlappers(policy.spec.sub)) \/ failed'
    BY <1>4, CheckEffect
  <2>2. SUFFICES ASSUME pc' = "write", ~failed', policy'.overlaps = {}
                 PROVE  policy'.spec.sub \notin Subs
    BY DEF WrittenOK, Manages
  <2>3. Checked(policy.spec.sub, Overlappers(policy.spec.sub))
    BY <2>1, <2>2, Zenon
  <2>4. policy.spec.sub = NoSub
    BY <2>2, <2>3 DEF Checked
  <2> QED
    BY <2>1, <2>4, ConstantsAssumption
<1>5. CASE handleSubscription
  <2> DEFINE s == policy.spec.sub
  <2>1. /\ s \in Subs /\ cur \in Policies /\ batch' = {s} /\ UNCHANGED <<cur, policy>>
        /\ \/ SetSub(s, Desired(sub[s]))
           \/ /\ UNCHANGED <<sub, queue>>
              /\ failed' \/ ~policy.spec.enforce \/ Desired(sub[s]) = sub[s]
    BY <1>5, DesiredType
  <2>2. SUFFICES ASSUME ~failed', Manages(cur, policy.spec)
                 PROVE  s \in batch' /\ (sub'[s] = Wish(cur, policy.spec) \/ cur \in queue')
    BY <2>1 DEF WrittenOK, Wish, Manages
  <2>3. CASE SetSub(s, Desired(sub[s]))
    BY <2>1, <2>3 DEF SetSub
  <2>4. CASE UNCHANGED <<sub, queue>> /\ Desired(sub[s]) = sub[s]
    <3>1. sub[s] = Wish(cur, policy.spec)
      BY <2>4, ConstantsAssumption DEF Desired, Wish
    <3> QED
      BY <2>1, <2>4, <3>1
  <2>5. policy.spec.enforce
    BY <2>2, Zenon DEF Manages
  <2> HIDE DEF s
  <2> QED
    BY <2>1, <2>2, <2>3, <2>4, <2>5, Zenon
<1>6. CASE WriteStatus \/ Restart \/ \E p \in Policies : ReconcileBegin(p)
  <2>1. pc' # "write"
    BY <1>6, WriteEffect, RestartEffect, BeginEffect DEF Idle
  <2> QED
    BY <1>1, <2>1
<1> QED
  BY <1>2, <1>3, <1>4, <1>5, <1>6 DEF Next, Worker


\* A Subscription changes: those that follow it look again.
LEMMA SetSubManaged ==
    ASSUME DataOK, NEW s \in Subs, NEW v, SetSub(s, v), NEW p \in Policies,
           NEW t \in Subs, t \in watches[p]
    PROVE  sub'[t] = sub[t] \/ p \in queue'
  BY DEF SetSub, DataOK

LEMMA ManagedStep ==
    /\ DataOK /\ WorkerOK /\ Latest /\ Base /\ WrittenOK /\ ManagedOK /\ [Next]_vars
    => ManagedOK'
<1> SUFFICES ASSUME DataOK, WorkerOK, Latest, Base, WrittenOK, ManagedOK, [Next]_vars,
                    NEW p \in Policies, cache'[p] # None, api'[p] # None,
                    api'[p].overlaps = {}, NEW t, t = cache'[p].spec.sub,
                    Manages(p, cache'[p].spec)
             PROVE  \/ p \in queue' \/ cur' = p \/ Gone(p)'
                    \/ t \in watches'[p] /\ sub'[t] = Wish(p, cache'[p].spec)
  BY DEF ManagedOK, Again, Manages, Wish
<1> DEFINE Before == \/ p \in queue \/ cur = p \/ Gone(p)
                     \/ t \in watches[p] /\ sub[t] = Wish(p, cache[p].spec)
<1>1. t \in Subs
  BY DEF Manages
<1>2. /\ cache[p] # None /\ cache[p].spec = cache'[p].spec /\ api[p] # None
      /\ api[p].overlaps = {}
      => Before
  BY DEF ManagedOK, Again, Manages
<1>3. CASE Users
  <2>1. UNCHANGED <<cache, watches, cur>> /\ queue \subseteq queue'
    BY <1>3, UsersEffect
  <2>2. ASSUME UNCHANGED <<api, stream, slipped>>, NEW s \in Subs, SetSub(s, Absent)
        PROVE  \/ p \in queue' \/ cur' = p \/ Gone(p)'
               \/ t \in watches'[p] /\ sub'[t] = Wish(p, cache'[p].spec)
    <3>1. Before
      BY <1>2, <2>1, <2>2
    <3> QED
      BY <1>1, <2>1, <2>2, <3>1, SetSubManaged, SameFeed
  <2>3. ASSUME NEW a \in Policies, NEW obj \in Policy \cup {None}, Store(a, obj), UNCHANGED sub,
               obj # None /\ api[a] # None
                 => obj.label = api[a].label /\ obj.overlaps = api[a].overlaps
        PROVE  \/ p \in queue' \/ cur' = p \/ Gone(p)'
               \/ t \in watches'[p] /\ sub'[t] = Wish(p, cache'[p].spec)
    <3>1. api' = [api EXCEPT ![a] = obj] /\ api \in [Policies -> Policy \cup {None}]
      BY <2>3, StoreType DEF DataOK
    <3>2. Gone(p) => Gone(p)'
      <4>1. /\ \A i \in Changes : stream'[i] = stream[i]
            /\ From(p) \subseteq From(p)' /\ From(p) \subseteq Changes
        BY <2>3, StoreChanges, FromType
      <4> QED
        BY <4>1 DEF Gone
    <3>3. api[p] # None => Before
      BY <1>2, <2>1, <2>3, <3>1
    <3>4. api[p] = None => Gone(p)
      BY <2>1 DEF Latest, Gone
    <3> QED
      BY <2>1, <2>3, <3>2, <3>3, <3>4
  <2> QED
    BY <1>3, <2>2, <2>3, UsersEffect
<1>4. CASE Deliver
  <2> DEFINE b == stream[1].pol
             new == stream[1].obj
  <2>1. /\ cache' = [cache EXCEPT ![b] = new] /\ UNCHANGED <<api, sub, watches>>
        /\ queue \subseteq queue' /\ (Watched(cache[b], new) => b \in queue')
        /\ cache \in [Policies -> Policy \cup {None}] /\ b \in Policies
    BY <1>4, DeliverEffect DEF DataOK
  <2>2. cur' = cur
    BY <1>4, DeliverEffect, Zenon DEF locals
  <2>3. /\ 1 \in From(b) /\ \A r : 1 \in From(r) => r = b
        /\ \A i : i \in From(p) /\ i # 1 => i - 1 \in From(p)' /\ stream'[i - 1].obj = stream[i].obj
    BY <1>4, DeliverChanges
  <2> HIDE DEF b
  <2>4. CASE p \notin queue'
    <3>1. cache[p] # None /\ cache[p].spec = cache'[p].spec
      BY <2>1, <2>4 DEF Watched
    <3>2. Before
      BY <1>2, <2>1, <3>1
    <3>3. ASSUME Gone(p) PROVE Gone(p)'
      <4>1. PICK i \in From(p) : stream[i].obj = None
        BY <3>3 DEF Gone
      <4>2. i # 1
        BY <2>1, <2>3, <4>1
      <4> QED
        BY <2>3, <4>1, <4>2 DEF Gone
    <3> QED
      BY <2>1, <2>2, <3>1, <3>2, <3>3
  <2> QED
    BY <2>4
<1>5. ASSUME NEW b \in Policies, ReconcileBegin(b)
      PROVE  \/ p \in queue' \/ cur' = p \/ Gone(p)'
             \/ t \in watches'[p] /\ sub'[t] = Wish(p, cache'[p].spec)
  <2>1. /\ UNCHANGED <<api, cache, stream, sub>> /\ queue' = queue \ {b} /\ cur = None
        /\ \/ cache[b] = None /\ watches' = [watches EXCEPT ![b] = {}]
           \/ cur' = b /\ UNCHANGED watches
    BY <1>5, BeginEffect DEF WorkerOK
  <2>2. p # None /\ watches \in [Policies -> SUBSET Subs]
    BY ConstantsAssumption DEF DataOK
  <2>3. Before
    BY <1>2, <2>1
  <2> QED
    BY <2>1, <2>2, <2>3, SameFeed
<1>6. CASE checkSubOverlap \/ UNCHANGED vars
  <2>1. UNCHANGED <<api, cache, stream, sub, cur, queue, watches>>
    BY <1>6, CheckEffect, Zenon DEF CheckFrame, vars, locals
  <2> QED
    BY <1>2, <2>1, SameFeed
<1>7. CASE handleSubscription
  <2>1. /\ UNCHANGED <<api, cache, stream, cur, watches>>
        /\ policy.spec.sub \in Subs
        /\ SetSub(policy.spec.sub, Desired(sub[policy.spec.sub])) \/ UNCHANGED <<sub, queue>>
    BY <1>7, DesiredType
  <2>2. queue \subseteq queue'
    BY <2>1 DEF SetSub
  <2>3. Before
    BY <1>2, <2>1
  <2>4. t \in watches[p] => sub'[t] = sub[t] \/ p \in queue'
    BY <1>1, <2>1, SetSubManaged
  <2> QED
    BY <2>1, <2>2, <2>3, <2>4, SameFeed
<1>8. CASE WriteStatus
  <2>1. /\ pc = "write" /\ cur \in Policies /\ policy \in Policy /\ UNCHANGED <<cache, sub>>
        /\ watches' = [watches EXCEPT ![cur] = batch]
        /\ queue \subseteq queue' /\ (failed => cur \in queue')
        /\ \/ ~changed /\ ~stale /\ UNCHANGED <<api, stream, slipped>>
           \/ ~stale /\ Store(cur, policy)
           \/ cur \in queue' /\ UNCHANGED <<api, stream, slipped>>
    BY <1>8, WriteEffect
  <2>2. watches \in [Policies -> SUBSET Subs]
    BY DEF DataOK
  <2>3. CASE p # cur
    <3>1. api'[p] = api[p] /\ watches'[p] = watches[p]
      BY <2>1, <2>2, <2>3, StoreType DEF DataOK
    <3>2. Before
      BY <1>2, <2>1, <2>3, <3>1
    <3>3. Gone(p) => Gone(p)'
      <4>1. CASE UNCHANGED <<api, stream>>
        BY <2>1, <4>1, SameFeed
      <4>2. CASE Store(cur, policy)
        <5>1. /\ \A i \in Changes : stream'[i] = stream[i]
              /\ From(p) \subseteq From(p)' /\ From(p) \subseteq Changes
          BY <2>1, <4>2, StoreChanges, FromType
        <5> QED
          BY <5>1 DEF Gone
      <4> QED
        BY <2>1, <4>1, <4>2, Zenon
    <3> QED
      BY <2>1, <2>3, <3>1, <3>2, <3>3
  <2>4. CASE p = cur /\ cur \notin queue'
    <3>1. \/ ~changed /\ ~stale /\ UNCHANGED <<api, stream, slipped>>
          \/ ~stale /\ Store(cur, policy)
      BY <2>1, <2>4, Zenon
    <3>2. api'[cur] = policy
      BY <2>1, <3>1, StoreType DEF DataOK, Base
    <3>3. policy.spec = cache[cur].spec
      BY <2>1, <3>1 DEF Base
    <3>4. ~failed
      BY <2>1, <2>4, Zenon
    <3>5. t \in batch /\ sub[t] = Wish(cur, policy.spec)
      BY <2>1, <2>4, <3>2, <3>3, <3>4 DEF WrittenOK
    <3> QED
      BY <2>1, <2>2, <2>4, <3>3, <3>5
  <2> QED
    BY <2>3, <2>4
<1>9. CASE Restart
  BY <1>9, RestartEffect
<1> QED
  BY <1>3, <1>4, <1>5, <1>6, <1>7, <1>8, <1>9 DEF Next, Worker

-----------------------------------------------------------------------------
(* Who claims a label *)

\* The API server has what every version on the way claims.
LEMMA AllClaimApi ==
    ASSUME Latest, NEW q \in Policies, NEW l, AllClaim(q, l)
    PROVE  Claims(api[q], l)
  BY DEF Latest, AllClaim

\* A claim stands until the policy leaves, which marks it.
LEMMA AllClaimStore ==
    ASSUME DataOK, Latest, NEW a \in Policies, NEW obj \in Policy \cup {None}, Store(a, obj),
           UNCHANGED cache, NEW q \in Policies, NEW l \in Subs
    PROVE  /\ AllClaim(q, l)' => AllClaim(q, l)
           /\ AllClaim(q, l) => \/ AllClaim(q, l)'
                                \/ /\ ~Claims(api'[q], l)
                                   /\ \A p \in Policies : p # q => <<p, q>> \in left'
<1> DEFINE m == Len(stream) + 1
<1>1. /\ \A i \in Changes : stream'[i] = stream[i]
      /\ From(a)' = From(a) \cup {m} /\ stream'[m].obj = obj
      /\ \A r \in Policies \ {a} : From(r)' = From(r)
  BY StoreChanges
<1>2. From(q) \subseteq Changes /\ From(q) \subseteq From(q)'
  BY <1>1, FromType
<1> HIDE DEF m
<1>3. AllClaim(q, l)' => AllClaim(q, l)
  BY <1>1, <1>2 DEF AllClaim
<1>4. ASSUME AllClaim(q, l), a # q \/ Claims(obj, l) PROVE AllClaim(q, l)'
  BY <1>1, <1>2, <1>4 DEF AllClaim
<1>5. ASSUME AllClaim(q, l), a = q, ~Claims(obj, l)
      PROVE  /\ ~Claims(api'[q], l)
             /\ \A p \in Policies : p # q => <<p, q>> \in left'
  <2>1. Claims(api[q], l) /\ api'[q] = obj
    BY <1>5, AllClaimApi, StoreType DEF DataOK
  <2> QED
    BY <1>5, <2>1 DEF Store
<1> QED
  BY <1>3, <1>4, <1>5

LEMMA AllClaimDeliver ==
    ASSUME DataOK, Deliver, NEW q \in Policies, NEW l
    PROVE  /\ AllClaim(q, l) => AllClaim(q, l)'
           /\ Stands(q) /\ AllClaim(q, l)' => AllClaim(q, l)
<1>1. /\ cache' = [cache EXCEPT ![stream[1].pol] = stream[1].obj]
      /\ cache \in [Policies -> Policy \cup {None}]
  BY DeliverEffect DEF DataOK
<1>2. /\ 1 \in From(stream[1].pol) /\ \A r : 1 \in From(r) => r = stream[1].pol
      /\ \A i : i \in From(q)' => i + 1 \in From(q) /\ stream'[i].obj = stream[i + 1].obj
  BY DeliverChanges
<1>3. \A k : AllClaim(q, k) => AllClaim(q, k)' /\ Claims(cache'[q], k)
  BY <1>1, <1>2 DEF AllClaim
<1>4. ASSUME Stands(q), AllClaim(q, l)' PROVE AllClaim(q, l)
  <2>1. PICK k \in Subs : AllClaim(q, k)
    BY <1>4 DEF Stands
  <2>2. k = l
    BY <1>3, <1>4, <2>1 DEF AllClaim, Claims
  <2> QED
    BY <2>1, <2>2
<1> QED
  BY <1>3, <1>4

LEMMA AllClaimStep ==
    ASSUME DataOK, WorkerOK, Latest, [Next]_vars, NEW q \in Policies, NEW l \in Subs
    PROVE  /\ Stands(q) /\ AllClaim(q, l)' => AllClaim(q, l)
           /\ AllClaim(q, l) => \/ AllClaim(q, l)'
                                \/ /\ ~Claims(api'[q], l)
                                   /\ \A p \in Policies : p # q => <<p, q>> \in left'
<1>1. CASE UNCHANGED <<api, cache, stream>>
  <2>1. AllClaim(q, l)' <=> AllClaim(q, l)
    BY <1>1, SameFeed DEF AllClaim
  <2> QED
    BY <2>1
<1>2. CASE Deliver
  BY <1>2, AllClaimDeliver
<1>3. CASE Restart
  <2>1. \A k \in Subs : AllClaim(q, k) => AllClaim(q, k)' /\ Claims(api[q], k)
    BY <1>3, RestartEffect, AllClaimApi DEF AllClaim
  <2>2. AllClaim(q, l)' => Claims(api[q], l)
    BY <1>3, RestartEffect DEF AllClaim
  <2>3. ASSUME Stands(q), AllClaim(q, l)' PROVE AllClaim(q, l)
    <3>1. PICK k \in Subs : AllClaim(q, k)
      BY <2>3 DEF Stands
    <3>2. k = l
      BY <2>1, <2>2, <2>3, <3>1 DEF Claims
    <3> QED
      BY <3>1, <3>2
  <2> QED
    BY <2>1, <2>3
<1>4. ASSUME NEW a \in Policies, NEW obj \in Policy \cup {None}, Store(a, obj), UNCHANGED cache
      PROVE  /\ AllClaim(q, l)' => AllClaim(q, l)
             /\ AllClaim(q, l) => \/ AllClaim(q, l)'
                                  \/ /\ ~Claims(api'[q], l)
                                     /\ \A p \in Policies : p # q => <<p, q>> \in left'
  BY <1>4, AllClaimStore
<1> QED
  BY <1>1, <1>2, <1>3, <1>4, FeedStep

\* Marks are removed when an evaluation begins, of others without a change on the
\* way that the policy does not record.
LEMMA BeginLeft ==
    ASSUME DataOK, WorkerOK, NEW b \in Policies, ReconcileBegin(b),
           NEW p \in Policies, NEW q \in Policies, <<p, q>> \in left, <<p, q>> \notin left'
    PROVE  /\ p = b /\ cache[p] \in Policy /\ From(p) = {} /\ From(q) = {}
           /\ q \notin cache[p].overlaps /\ cur' = p /\ pc' = "check"
<1>1. cache[b] # None /\ cur' = b /\ pc' = "check"
  BY DEF ReconcileBegin
<1>2. left' = IF Pending(b) THEN left
              ELSE left \ {<<b, r>> : r \in {r \in Policies \ cache[b].overlaps : ~Pending(r)}}
  BY <1>1 DEF ReconcileBegin
<1>3. p = b /\ ~Pending(b) /\ ~Pending(q) /\ q \notin cache[b].overlaps
  BY <1>2
<1> QED
  BY <1>1, <1>3, FromType DEF DataOK

\* A mark that is gone after a step was gone before it, but for these.
LEMMA LeftBefore ==
    ASSUME DataOK, WorkerOK, [Next]_vars, NEW p \in Policies, NEW q \in Policies,
           <<p, q>> \notin left'
    PROVE  \/ <<p, q>> \notin left
           \/ /\ ReconcileBegin(p) /\ cache[p] \in Policy /\ From(p) = {} /\ From(q) = {}
              /\ q \notin cache[p].overlaps /\ cur' = p /\ pc' = "check"
  BY LeftStep, BeginLeft

LEMMA StandsStep ==
    ASSUME DataOK, WorkerOK, Latest, [Next]_vars, NEW p \in Policies, NEW q \in Policies, p # q,
           <<p, q>> \notin left', Stands(q)
    PROVE  Stands(q)'
<1>1. PICK l \in Subs : AllClaim(q, l)
  BY DEF Stands
<1>2. AllClaim(q, l)'
  BY <1>1, AllClaimStep
<1> QED
  BY <1>2 DEF Stands

LEMMA LeaversLeftStep == DataOK /\ WorkerOK /\ Latest /\ LeaversLeft /\ [Next]_vars => LeaversLeft'
<1> SUFFICES ASSUME DataOK, WorkerOK, Latest, LeaversLeft, [Next]_vars,
                    NEW p \in Policies, NEW q \in Policies, NEW l \in Subs, p # q,
                    <<p, q>> \notin left'
             PROVE  /\ Claims(cache'[q], l) => AllClaim(q, l)'
                    /\ \A i \in From(q)' : Claims(stream'[i].obj, l) =>
                          \A k \in From(q)' : k > i => Claims(stream'[k].obj, l)
  BY DEF LeaversLeft
<1>1. CASE From(q)' = {}
  BY <1>1 DEF AllClaim
<1>2. CASE <<p, q>> \in left
  <2>1. UNCHANGED <<api, cache, stream>> /\ From(q) = {}
    BY <1>2, LeftBefore, BeginEffect
  <2> QED
    BY <1>1, <2>1, SameFeed
<1>3. CASE <<p, q>> \notin left
  <2>1. /\ Claims(cache[q], l) => AllClaim(q, l)
        /\ \A i \in From(q) : Claims(stream[i].obj, l) =>
              \A k \in From(q) : k > i => Claims(stream[k].obj, l)
    BY <1>3 DEF LeaversLeft
  <2>2. CASE UNCHANGED <<api, cache, stream>>
    BY <2>1, <2>2, SameFeed DEF AllClaim
  <2>3. CASE Restart
    BY <1>1, <2>3, RestartEffect
  <2>4. CASE Deliver
    <3>1. /\ cache' = [cache EXCEPT ![stream[1].pol] = stream[1].obj]
          /\ cache \in [Policies -> Policy \cup {None}]
      BY <2>4, DeliverEffect DEF DataOK
    <3>2. /\ 1 \in From(stream[1].pol) /\ \A r : 1 \in From(r) => r = stream[1].pol
          /\ \A i : i \in From(q)' => i \in Nat /\ i + 1 \in From(q) /\ i + 1 # 1
                                      /\ stream'[i].obj = stream[i + 1].obj
      BY <2>4, DeliverChanges
    <3>3. ASSUME NEW i \in From(q)', Claims(stream'[i].obj, l), NEW k \in From(q)', k > i
          PROVE  Claims(stream'[k].obj, l)
      <4>1. i + 1 \in From(q) /\ k + 1 \in From(q) /\ k + 1 > i + 1
        BY <3>2, <3>3
      <4> QED
        BY <2>1, <3>2, <3>3, <4>1
    <3>4. ASSUME Claims(cache'[q], l) PROVE AllClaim(q, l)'
      <4>1. CASE cache'[q] = cache[q]
        BY <2>1, <2>4, <3>4, <4>1, AllClaimDeliver
      <4>2. CASE q = stream[1].pol /\ cache'[q] = stream[1].obj
        <5>1. \A k \in From(q)' : k + 1 > 1
          BY <3>2
        <5> QED
          BY <2>1, <3>2, <3>4, <4>2, <5>1 DEF AllClaim
      <4> QED
        BY <3>1, <4>1, <4>2
    <3> QED
      BY <3>3, <3>4
  <2>5. ASSUME NEW a \in Policies, NEW obj \in Policy \cup {None}, Store(a, obj), UNCHANGED cache
        PROVE  /\ Claims(cache'[q], l) => AllClaim(q, l)'
               /\ \A i \in From(q)' : Claims(stream'[i].obj, l) =>
                     \A k \in From(q)' : k > i => Claims(stream'[k].obj, l)
    <3> DEFINE m == Len(stream) + 1
    <3>1. /\ m \in Nat \ {0} /\ \A i \in Changes : i < m /\ stream'[i] = stream[i]
          /\ From(a)' = From(a) \cup {m} /\ stream'[m].obj = obj
          /\ \A r \in Policies \ {a} : From(r)' = From(r)
      BY <2>5, StoreChanges
    <3>2. From(q) \subseteq Changes /\ From(q) \subseteq Nat
      BY FromType
    <3> HIDE DEF m
    <3>3. Claims(cache'[q], l) => AllClaim(q, l)'
      BY <2>1, <2>5, AllClaimStore
    <3>4. CASE a # q
      BY <2>1, <3>1, <3>2, <3>3, <3>4
    <3>5. CASE a = q
      <4>1. ASSUME NEW i \in From(q), Claims(stream[i].obj, l) PROVE Claims(obj, l)
        <5>1. PICK j \in From(q) : (\A k \in From(q) : k <= j) /\ stream[j].obj = api[q]
          BY <4>1 DEF Latest
        <5>2. i = j \/ j > i
          BY <3>2, <5>1
        <5>3. Claims(api[q], l)
          BY <2>1, <4>1, <5>1, <5>2
        <5> QED
          BY <2>5, <3>5, <5>3 DEF Store
      <4> QED
        BY <2>1, <3>1, <3>2, <3>3, <3>5, <4>1
    <3> QED
      BY <3>4, <3>5
  <2> QED
    BY <2>2, <2>3, <2>4, <2>5, FeedStep
<1> QED
  BY <1>2, <1>3

LEMMA CheckKeeps ==
    ASSUME DataOK, WorkerOK, checkSubOverlap
    PROVE  /\ policy'.overlaps \in {Overlappers(policy.spec.sub), {}, policy.overlaps}
           /\ policy'.overlaps # {} => \/ policy'.overlaps = policy.overlaps
                                       \/ \E q \in policy'.overlaps : q # cur
<1> DEFINE s == policy.spec.sub
           found == s # NoSub /\ policy.spec.enforce /\ Overlappers(s) # {cur}
           o == IF found THEN Overlappers(s) ELSE {}
<1>1. policy \in Policy
  BY InHand DEF checkSubOverlap
<1>2. o \in {Overlappers(s), {}} /\ (o # {} => o # {cur} /\ cur \in o)
  BY DEF Overlappers
<1>3. policy' = [policy EXCEPT !.label = s, !.overlaps = o] \/ policy' = [policy EXCEPT !.label = s]
  BY Zenon DEF checkSubOverlap
<1> HIDE DEF o, s
<1>4. policy'.overlaps \in {o, policy.overlaps}
  BY <1>1, <1>3 DEF Policy
<1> QED
  BY <1>2, <1>4 DEF s

\* Nothing but its own status update makes a policy record another one.
LEMMA TellsStep ==
    ASSUME DataOK, WorkerOK, [Next]_vars, NEW p \in Policies, NEW q, Tells(api'[p], q)
    PROVE  \/ Tells(api[p], q)
           \/ /\ WriteStatus /\ cur = p /\ pc = "write" /\ ~stale /\ cur' = None
              /\ Store(p, policy) /\ policy \in Policy /\ q \in policy.overlaps
<1>1. CASE UNCHANGED api
  BY <1>1
<1>2. CASE Users
  <2>1. ASSUME NEW a \in Policies, NEW obj \in Policy \cup {None}, Store(a, obj),
               obj # None /\ api[a] = None => obj.overlaps = {},
               obj # None /\ api[a] # None
                 => obj.label = api[a].label /\ obj.overlaps = api[a].overlaps
        PROVE  Tells(api[p], q)
    <3>1. api' = [api EXCEPT ![a] = obj]
      BY <2>1, StoreType
    <3>2. api \in [Policies -> Policy \cup {None}]
      BY DEF DataOK
    <3>3. CASE a = p
      <4>1. api'[p] = obj
        BY <3>1, <3>2, <3>3
      <4> QED
        BY <2>1, <3>3, <4>1, Zenon DEF Tells
    <3>4. CASE a # p
      <4>1. api'[p] = api[p]
        BY <3>1, <3>2, <3>4
      <4> QED
        BY <4>1, Zenon DEF Tells
    <3> QED
      BY <3>3, <3>4
  <2> QED
    BY <1>1, <1>2, <2>1, UsersEffect
<1>3. CASE WriteStatus
  <2>1. /\ pc = "write" /\ cur \in Policies /\ policy \in Policy /\ cur' = None
        /\ UNCHANGED api \/ (~stale /\ Store(cur, policy))
    BY <1>3, WriteEffect DEF Idle
  <2>2. CASE ~stale /\ Store(cur, policy)
    <3>1. api' = [api EXCEPT ![cur] = policy] /\ api \in [Policies -> Policy \cup {None}]
      BY <2>1, <2>2, StoreType DEF DataOK
    <3>2. CASE cur = p
      BY <1>3, <2>1, <2>2, <3>1, <3>2 DEF Tells
    <3>3. CASE cur # p
      BY <3>1, <3>3
    <3> QED
      BY <3>2, <3>3
  <2> QED
    BY <1>1, <2>1, <2>2
<1>4. CASE Deliver \/ Restart \/ (\E b \in Policies : ReconcileBegin(b)) \/ UNCHANGED vars
  <2>1. UNCHANGED api
    BY <1>4, Zenon DEF Deliver, Restart, ReconcileBegin, vars
  <2> QED
    BY <1>1, <2>1
<1>5. CASE checkSubOverlap \/ handleSubscription
  <2>1. UNCHANGED api
    BY <1>5, Zenon DEF checkSubOverlap, handleSubscription
  <2> QED
    BY <1>1, <2>1
<1> QED
  BY <1>2, <1>3, <1>4, <1>5 DEF Next, Worker

\* The worker's copy changes when an evaluation begins, in the check, and when it ends.
LEMMA CopyStep ==
    ASSUME DataOK, WorkerOK, [Next]_vars
    PROVE  \/ /\ UNCHANGED <<pc, cur, policy>> /\ (stale => stale') /\ (failed => failed')
           \/ checkSubOverlap
           \/ /\ handleSubscription /\ pc = "manage" /\ pc' = "write" /\ UNCHANGED <<cur, policy>>
              /\ (stale => stale') /\ (failed => failed')
           \/ cur' = None
           \/ pc' = "check" /\ cur = None /\ cur' \in Policies /\ ReconcileBegin(cur')
<1>1. CASE Users
  <2>1. UNCHANGED <<pc, cur, policy>>
    BY <1>1, UsersEffect
  <2>2. failed => failed'
    BY <1>1, UsersEffect, Zenon
  <2>3. stale => stale'
    BY <1>1, UsersEffect, Zenon
  <2> QED
    BY <2>1, <2>2, <2>3
<1>2. CASE Deliver \/ UNCHANGED vars
  <2>1. UNCHANGED <<pc, cur, policy>>
    BY <1>2, Zenon DEF Deliver, vars, locals
  <2>2. failed => failed'
    BY <1>2, Zenon DEF Deliver, vars, locals
  <2>3. stale => stale'
    BY <1>2, Zenon DEF Deliver, vars, locals
  <2> QED
    BY <2>1, <2>2, <2>3
<1>3. ASSUME NEW b \in Policies, ReconcileBegin(b)
      PROVE  cur' = None \/ (pc' = "check" /\ cur = None /\ cur' \in Policies /\ ReconcileBegin(cur'))
  BY <1>3, BeginEffect DEF WorkerOK
<1>4. CASE handleSubscription
  <2>1. pc = "manage" /\ pc' = "write" /\ UNCHANGED <<cur, policy>>
    BY <1>4, Zenon DEF handleSubscription
  <2>2. failed => failed'
    BY <1>4, Zenon DEF handleSubscription
  <2>3. stale => stale'
    BY <1>4, Zenon DEF handleSubscription
  <2> QED
    BY <1>4, <2>1, <2>2, <2>3
<1>5. CASE WriteStatus \/ Restart
  BY <1>5, Zenon DEF WriteStatus, Restart, Return
<1> QED
  BY <1>1, <1>2, <1>3, <1>4, <1>5 DEF Next, Worker

LEMMA RecordsStandStep ==
    DataOK /\ WorkerOK /\ Latest /\ Base /\ LeaversLeft /\ RecordsStand /\ [Next]_vars => RecordsStand'
<1> SUFFICES ASSUME DataOK, WorkerOK, Latest, Base, LeaversLeft, RecordsStand, [Next]_vars,
                    NEW p \in Policies, NEW q \in Policies, p # q, <<p, q>> \notin left'
             PROVE  /\ Tells(api'[p], q) => Stands(q)'
                    /\ cur' = p /\ pc' \in {"manage", "write"} /\ ~stale' /\ q \in policy'.overlaps
                          => Stands(q)'
  BY DEF RecordsStand
<1>1. Stands(q) => Stands(q)'
  BY StandsStep
<1>2. ASSUME Tells(api'[p], q) PROVE Stands(q)'
  <2>1. CASE <<p, q>> \in left
    <3>1. /\ UNCHANGED api /\ cache[p] \in Policy /\ From(p) = {} /\ q \notin cache[p].overlaps
      BY <2>1, LeftBefore, BeginEffect
    <3> QED
      BY <1>2, <3>1 DEF Latest, Tells
  <2>2. CASE <<p, q>> \notin left
    <3>1. Stands(q)
      BY <1>2, <2>2, TellsStep DEF RecordsStand
    <3> QED
      BY <1>1, <3>1
  <2> QED
    BY <2>1, <2>2
<1>3. ASSUME cur' = p, pc' \in {"manage", "write"}, ~stale', q \in policy'.overlaps
      PROVE  Stands(q)'
  <2>1. p # None /\ <<p, q>> \notin left
    BY <1>3, LeftBefore, ConstantsAssumption
  <2>2. CASE pc \in {"manage", "write"} /\ UNCHANGED <<cur, policy>> /\ (stale => stale')
    <3>1. ~stale
      BY <1>3, <2>2, Zenon
    <3> QED
      BY <1>1, <1>3, <2>1, <2>2, <3>1 DEF RecordsStand
  <2>3. CASE checkSubOverlap
    <3>1. /\ pc = "check" /\ UNCHANGED CheckFrame /\ policy \in Policy
          /\ policy'.overlaps \in {Overlappers(policy.spec.sub), {}, policy.overlaps}
          /\ policy.spec.sub \in Subs \cup {NoSub}
      BY <2>3, CheckEffect, CheckKeeps, InHand
    <3>2. UNCHANGED cur /\ stale' = stale
      BY <3>1, Zenon DEF CheckFrame
    <3>3. ~stale
      BY <1>3, <3>2, Zenon
    <3>4. CASE q \in policy.overlaps
      <4>1. api[cur] = policy
        BY <3>1, <3>3 DEF Base
      <4>2. Tells(api[p], q)
        BY <1>3, <3>1, <3>2, <3>4, <4>1, ConstantsAssumption DEF Tells
      <4> QED
        BY <1>1, <2>1, <4>2 DEF RecordsStand
    <3>5. CASE q \in Overlappers(policy.spec.sub)
      <4>1. Claims(cache[q], policy.spec.sub)
        BY <1>3, <3>2, <3>5 DEF Overlappers
      <4>2. policy.spec.sub \in Subs
        BY <1>3, <2>3, CheckEffect DEF Checked, CheckFailed
      <4>3. AllClaim(q, policy.spec.sub)
        BY <2>1, <4>1, <4>2 DEF LeaversLeft
      <4> QED
        BY <1>1, <4>2, <4>3 DEF Stands
    <3> QED
      BY <1>3, <3>1, <3>4, <3>5
  <2> QED
    BY <1>3, <2>1, <2>2, <2>3, CopyStep
<1> QED
  BY <1>2, <1>3

-----------------------------------------------------------------------------
(* Who will be evaluated again *)

\* For enqueues a policy for what users do with it.
LEMMA UserComes ==
    ASSUME DataOK, Latest, NEW p \in Policies, Create(p) \/ Edit(p) \/ Delete(p)
    PROVE  Comes(p)'
<1>1. PICK obj \in Policy \cup {None} : UserWrites(p, obj) /\ Watched(api[p], obj)
  <2>1. ASSUME Create(p) PROVE \E obj \in Policy : UserWrites(p, obj) /\ Watched(api[p], obj)
    BY <2>1, FreshType DEF Create, Watched
  <2>2. ASSUME Edit(p) PROVE \E obj \in Policy : UserWrites(p, obj) /\ Watched(api[p], obj)
    <3>1. PICK s \in Specs \ {api[p].spec} : UserWrites(p, [api[p] EXCEPT !.spec = s])
      BY <2>2 DEF Edit
    <3>2. api[p] \in Policy
      BY <2>2 DEF Edit, DataOK
    <3> DEFINE obj == [api[p] EXCEPT !.spec = s]
    <3>3. obj \in Policy /\ obj.spec = s
      BY <3>1, <3>2, EditedType
    <3> HIDE DEF obj
    <3>4. UserWrites(p, obj) /\ obj.spec # api[p].spec
      BY <3>1, <3>3 DEF obj
    <3> QED
      BY <3>3, <3>4 DEF Watched
  <2>3. ASSUME Delete(p) PROVE UserWrites(p, None) /\ Watched(api[p], None)
    BY <2>3 DEF Delete, Watched
  <2> QED
    BY <2>1, <2>2, <2>3
<1> DEFINE m == Len(stream) + 1
<1>2. Store(p, obj) /\ UNCHANGED cache
  BY <1>1 DEF UserWrites
<1>3. /\ \A i \in Changes : stream'[i] = stream[i]
      /\ From(p)' = From(p) \cup {m} /\ stream'[m].obj = obj
  BY <1>2, StoreChanges
<1>4. From(p) \subseteq Changes
  BY FromType
<1> HIDE DEF m
<1>5. CASE Watched(cache[p], obj)
  BY <1>2, <1>3, <1>5 DEF Comes
<1>6. CASE ~Watched(cache[p], obj)
  <2>1. Watched(cache[p], api[p]) /\ cache[p] # api[p]
    BY <1>1, <1>6 DEF Watched
  <2>2. PICK i \in From(p) : stream[i].obj = api[p]
    BY <2>1 DEF Latest
  <2> QED
    BY <1>2, <1>3, <1>4, <2>1, <2>2 DEF Comes
<1> QED
  BY <1>5, <1>6

LEMMA StoreComes ==
    ASSUME DataOK, NEW a \in Policies, NEW obj \in Policy \cup {None}, Store(a, obj),
           UNCHANGED cache, NEW p \in Policies, Comes(p)
    PROVE  Comes(p)'
<1>1. /\ \A i \in Changes : stream'[i] = stream[i]
      /\ From(p) \subseteq From(p)' /\ From(p) \subseteq Changes
  BY StoreChanges, FromType
<1> QED
  BY <1>1 DEF Comes

LEMMA ComesStep ==
    ASSUME DataOK, WorkerOK, [Next]_vars, NEW p \in Policies, Comes(p)
    PROVE  Comes(p)' \/ p \in queue' \/ Restart
<1>1. CASE UNCHANGED <<api, cache, stream>>
  BY <1>1, SameFeed DEF Comes
<1>2. CASE Deliver
  <2> DEFINE b == stream[1].pol
             new == stream[1].obj
  <2>1. /\ cache' = [cache EXCEPT ![b] = new] /\ (Watched(cache[b], new) => b \in queue')
        /\ cache \in [Policies -> Policy \cup {None}] /\ b \in Policies
    BY <1>2, DeliverEffect DEF DataOK
  <2>2. \A i : i \in From(p) /\ i # 1 => i - 1 \in From(p)' /\ stream'[i - 1].obj = stream[i].obj
    BY <1>2, DeliverChanges
  <2>3. 1 \in From(p) => p = b
    BY <1>2, DeliverChanges
  <2> HIDE DEF b
  <2>4. PICK i \in From(p) : Watched(cache[p], stream[i].obj)
    BY DEF Comes
  <2>5. CASE i = 1
    BY <2>1, <2>3, <2>4, <2>5
  <2>6. CASE i # 1 /\ cache'[p] = cache[p]
    BY <2>2, <2>4, <2>6 DEF Comes
  <2>7. CASE i # 1 /\ p = b /\ ~Watched(cache[b], new)
    <3>1. Watched(cache'[p], stream[i].obj)
      BY <2>1, <2>4, <2>7 DEF Watched
    <3> QED
      BY <2>2, <2>7, <3>1 DEF Comes
  <2> QED
    BY <2>1, <2>5, <2>6, <2>7
<1>3. ASSUME NEW a \in Policies, NEW obj \in Policy \cup {None}, Store(a, obj), UNCHANGED cache
      PROVE  Comes(p)'
  BY <1>3, StoreComes
<1> QED
  BY <1>1, <1>2, <1>3, FeedStep

\* Who is evaluated, and who leaves the queue.
LEMMA CurStep ==
    ASSUME DataOK, WorkerOK, [Next]_vars, NEW p \in Policies
    PROVE  /\ cur = p => cur' = p \/ WriteStatus \/ Restart
           /\ cur # p => cur' # p \/ ReconcileBegin(p)
           /\ p \in queue => p \in queue' \/ Restart \/ ReconcileBegin(p)
<1>0. p # None
  BY ConstantsAssumption
<1>1. CASE Users
  BY <1>1, UsersEffect
<1>2. CASE Deliver
  <2>1. UNCHANGED cur /\ queue \subseteq queue'
    BY <1>2, DeliverEffect DEF locals
  <2> QED
    BY <2>1
<1>3. ASSUME NEW b \in Policies, ReconcileBegin(b)
      PROVE  /\ cur # p
             /\ cur' # p \/ ReconcileBegin(p)
             /\ p \in queue => p \in queue' \/ ReconcileBegin(p)
  <2>1. cur = None /\ queue' = queue \ {b} /\ cur' \in {cur, b}
    BY <1>3, BeginEffect DEF WorkerOK
  <2> QED
    BY <1>0, <1>3, <2>1
<1>4. CASE checkSubOverlap
  <2>1. UNCHANGED <<cur, queue>>
    BY <1>4, Zenon DEF checkSubOverlap
  <2> QED
    BY <2>1
<1>5. CASE handleSubscription
  <2>1. UNCHANGED cur /\ queue \subseteq queue'
    BY <1>5, DesiredType DEF SetSub
  <2> QED
    BY <2>1
<1>6. CASE WriteStatus
  <2>1. cur' = None /\ queue \subseteq queue'
    BY <1>6, WriteEffect DEF Idle
  <2> QED
    BY <1>0, <1>6, <2>1
<1>7. CASE Restart
  <2>1. cur' = None
    BY <1>7, Zenon DEF Restart, Return
  <2> QED
    BY <1>0, <1>7, <2>1
<1>8. CASE UNCHANGED vars
  <2>1. UNCHANGED <<cur, queue>>
    BY <1>8, Zenon DEF vars, locals
  <2> QED
    BY <2>1
<1> QED
  BY <1>1, <1>2, <1>3, <1>4, <1>5, <1>6, <1>7, <1>8, Zenon DEF Next, Worker

\* What is recorded of a policy changes with its evaluation or by users.
LEMMA RecordStep ==
    ASSUME DataOK, WorkerOK, Latest, [Next]_vars, NEW p \in Policies, cur # p
    PROVE  api'[p] = api[p] \/ Comes(p)'
<1>1. CASE UNCHANGED api
  BY <1>1
<1>2. ASSUME NEW a \in Policies, Create(a) \/ Edit(a) \/ Delete(a)
      PROVE  api'[p] = api[p] \/ Comes(p)'
  <2>1. PICK obj \in Policy \cup {None} : UserWrites(a, obj)
    BY <1>2, UserWritesEffect
  <2>2. Store(a, obj)
    BY <2>1 DEF UserWrites
  <2>3. a # p => api'[p] = api[p]
    BY <2>2, StoreType DEF DataOK
  <2> QED
    BY <1>2, <2>2, <2>3, UserComes
<1>3. CASE WriteStatus
  <2>1. /\ cur \in Policies /\ policy \in Policy
        /\ UNCHANGED api \/ Store(cur, policy)
    BY <1>3, WriteEffect
  <2> QED
    BY <2>1, StoreType DEF DataOK
<1>4. CASE Deliver \/ Restart \/ (\E b \in Policies : ReconcileBegin(b)) \/ UNCHANGED vars
  <2>1. UNCHANGED api
    BY <1>4, Zenon DEF Deliver, Restart, ReconcileBegin, vars
  <2> QED
    BY <1>1, <2>1
<1>5. CASE checkSubOverlap \/ handleSubscription \/ \E s \in Subs : UserDeletesSub(s)
  <2>1. UNCHANGED api
    BY <1>5, Zenon DEF checkSubOverlap, handleSubscription, UserDeletesSub
  <2> QED
    BY <1>1, <2>1
<1> QED
  BY <1>2, <1>3, <1>4, <1>5 DEF Next, Users, Worker

\* A policy stays settled, if the check finds what it should.
LEMMA SettledStep ==
    ASSUME DataOK, WorkerOK, Latest, Base, [Next]_vars, NEW p \in Policies, NEW good,
           None \in good, Settled(p, good),
           checkSubOverlap /\ cur = p /\ ~stale => failed' \/ policy' \in good
    PROVE  Settled(p, good)'
<1>0. p # None
  BY ConstantsAssumption
<1>1. CASE Restart
  <2>1. p \in queue' \/ api'[p] = None
    BY <1>1, RestartEffect
  <2>2. cur' # p
    BY <1>0, <1>1, Zenon DEF Restart, Return
  <2> QED
    BY <2>1, <2>2, Zenon DEF Settled
<1>2. CASE p \in queue' \/ Comes(p)'
  BY <1>2, Zenon DEF Settled
<1>3. CASE ReconcileBegin(p) /\ ~Comes(p)'
  <2>1. /\ UNCHANGED <<api, cache, stream>>
        /\ \/ cache[p] = None /\ UNCHANGED cur /\ cur = None
           \/ cur' = p /\ pc' = "check"
    BY <1>3, BeginEffect DEF WorkerOK
  <2>2. CASE cur' = p /\ pc' = "check"
    BY <2>2, Zenon DEF Settled
  <2>3. CASE cache[p] = None /\ cur' # p
    <3>1. From(p)' = {}
      BY <1>3, <2>1, <2>3 DEF Comes, Watched
    <3>2. api'[p] = None
      BY <2>1, <2>3, <3>1, SameFeed DEF Latest
    <3> QED
      BY <2>3, <3>2, Zenon DEF Settled
  <2> QED
    BY <1>0, <2>1, <2>2, <2>3
\* Otherwise what is recorded, or about to be, stays as good as it was.
<1>4. CASE p \notin queue' /\ ~Comes(p)' /\ ~Restart /\ ~ReconcileBegin(p)
  <2>1. p \notin queue /\ ~Comes(p)
    <3>1. p \in queue => p \in queue' \/ Restart \/ ReconcileBegin(p)
      BY CurStep
    <3> QED
      BY <1>4, <3>1, ComesStep
  <2>2. IF cur = p THEN pc = "check" \/ failed \/ stale \/ policy \in good
                   ELSE api[p] \in good
    BY <2>1, Zenon DEF Settled
  <2>3. CASE cur = p
    <3>1. CASE UNCHANGED <<pc, cur, policy>> /\ (stale => stale') /\ (failed => failed')
      BY <2>2, <2>3, <3>1, Zenon DEF Settled
    <3>2. CASE checkSubOverlap
      <4>1. UNCHANGED CheckFrame
        BY <3>2, CheckEffect
      <4>2. cur' = cur /\ stale' = stale
        BY <4>1, Zenon DEF CheckFrame
      <4> QED
        BY <2>3, <3>2, <4>2, Zenon DEF Settled
    <3>3. CASE handleSubscription /\ pc = "manage" /\ UNCHANGED <<cur, policy>>
               /\ (stale => stale') /\ (failed => failed')
      BY <2>2, <2>3, <3>3, Zenon DEF Settled
    <3>4. CASE WriteStatus
      <4>1. /\ pc = "write" /\ cur \in Policies /\ policy \in Policy /\ cur' = None
            /\ (failed => cur \in queue')
            /\ \/ ~changed /\ ~stale /\ UNCHANGED api
               \/ ~stale /\ Store(cur, policy)
               \/ cur \in queue'
        BY <3>4, WriteEffect DEF Idle
      <4>2. cur \notin queue' /\ cur' # p
        BY <1>0, <1>4, <2>3, <4>1
      <4>3. ~failed /\ (\/ ~changed /\ ~stale /\ UNCHANGED api
                        \/ ~stale /\ Store(cur, policy))
        BY <4>1, <4>2, Zenon
      <4>4. CASE stale
        BY <2>3, <4>2, <4>3, <4>4, Zenon DEF Settled
      <4>5. CASE ~stale
        <5>1. policy \in good
          BY <2>2, <2>3, <4>1, <4>3, <4>5
        <5>2. api'[cur] = policy
          BY <4>1, <4>3, <4>5, StoreType DEF DataOK, Base
        <5> QED
          BY <2>3, <4>2, <5>1, <5>2, Zenon DEF Settled
      <4> QED
        BY <4>4, <4>5
    <3>5. CASE cur' = None /\ ~WriteStatus
      BY <1>0, <1>4, <2>3, <3>5, CurStep
    <3> QED
      BY <1>0, <2>3, <3>1, <3>2, <3>3, <3>4, <3>5, CopyStep
  <2>4. CASE cur # p
    <3>1. cur' # p
      BY <1>0, <1>4, <2>4, CurStep
    <3>2. api'[p] = api[p]
      BY <1>4, <2>4, RecordStep
    <3> QED
      BY <2>2, <2>4, <3>1, <3>2, Zenon DEF Settled
  <2> QED
    BY <2>3, <2>4
<1> QED
  BY <1>1, <1>2, <1>3, <1>4

LEMMA RestartSettled ==
    ASSUME DataOK, Restart, NEW p \in Policies, NEW good, None \in good
    PROVE  Settled(p, good)'
<1>1. p \in queue' \/ api'[p] = None
  BY RestartEffect
<1>2. cur' = None
  BY Zenon DEF Restart, Return
<1>3. cur' # p
  BY <1>2, ConstantsAssumption
<1> QED
  BY <1>1, <1>3, Zenon DEF Settled

LEMMA NamesStep == DataOK /\ WorkerOK /\ Latest /\ Base /\ NamesOK /\ [Next]_vars => NamesOK'
<1> SUFFICES ASSUME DataOK, WorkerOK, Latest, Base, NamesOK, [Next]_vars, NEW p \in Policies
             PROVE  Settled(p, Named)'
  BY DEF NamesOK
<1>1. ASSUME checkSubOverlap PROVE policy' \in Named
  BY <1>1, CheckEffect DEF Named
<1>2. None \in Named
  BY DEF Named
<1>3. Settled(p, Named)
  BY DEF NamesOK
<1> HIDE DEF Named
<1> QED
  BY <1>1, <1>2, <1>3, SettledStep

\* A check that does not fail finds those that claim the label.
LEMMA CheckFinds ==
    ASSUME DataOK, WorkerOK, checkSubOverlap, NEW q \in Policies, q # cur,
           policy.spec.sub \in Subs, policy.spec.enforce, Claims(cache[q], policy.spec.sub)
    PROVE  failed' \/ q \in policy'.overlaps
<1> DEFINE s == policy.spec.sub
<1>1. policy \in Policy
  BY InHand DEF checkSubOverlap
<1>2. q \in Overlappers(s) /\ Overlappers(s) # {cur} /\ s # NoSub
  BY ConstantsAssumption DEF Overlappers
<1>3. \/ policy' = [policy EXCEPT !.label = s,
                                  !.overlaps = IF s # NoSub /\ policy.spec.enforce /\ Overlappers(s) # {cur}
                                               THEN Overlappers(s) ELSE {}]
      \/ failed' = TRUE
  BY Zenon DEF checkSubOverlap
<1>4. CASE policy' = [policy EXCEPT !.label = s, !.overlaps = Overlappers(s)]
  BY <1>1, <1>2, <1>4 DEF Policy
<1> HIDE DEF s
<1>5. policy' = [policy EXCEPT !.label = s, !.overlaps = Overlappers(s)] \/ failed' = TRUE
  BY <1>2, <1>3, Zenon
<1> QED
  BY <1>4, <1>5, Zenon

LEMMA KnowsStep ==
    ASSUME DataOK, WorkerOK, Latest, Base, [Next]_vars, NEW p \in Policies, NEW q \in Policies,
           NEW l \in Subs, p # q, Claims(cache[q], l), Knows(p, q, l)
    PROVE  Knows(p, q, l)'
<1>1. ASSUME checkSubOverlap, cur = p PROVE failed' \/ policy' \in Knowing(q, l)
  <2>1. /\ policy' \in Policy /\ policy'.spec = policy.spec /\ policy'.label = policy.spec.sub
    BY <1>1, CheckEffect
  <2>2. CASE Claims(policy', l)
    <3>1. policy.spec.enforce /\ policy.spec.sub = l
      BY <2>1, <2>2 DEF Claims
    <3>2. failed' \/ q \in policy'.overlaps
      BY <1>1, <3>1, CheckFinds
    <3>3. q \in policy'.overlaps => policy' \in Knowing(q, l)
      BY <2>1 DEF Knowing
    <3> QED
      BY <3>2, <3>3, Zenon
  <2>3. CASE ~Claims(policy', l)
    BY <2>1, <2>3 DEF Knowing
  <2> QED
    BY <2>2, <2>3
<1>2. None \in Knowing(q, l)
  BY DEF Knowing, Claims
<1>3. Settled(p, Knowing(q, l))
  BY DEF Knows
<1>4. Settled(p, Knowing(q, l))'
  <2> HIDE DEF Knowing
  <2> QED
    BY <1>1, <1>2, <1>3, SettledStep
<1> QED
  BY <1>4 DEF Knows

LEMMA PlacesStep ==
    DataOK /\ WorkerOK /\ Latest /\ Base /\ LeaversLeft /\ PlacesOK /\ [Next]_vars => PlacesOK'
<1> SUFFICES ASSUME DataOK, WorkerOK, Latest, Base, LeaversLeft, PlacesOK, [Next]_vars,
                    NEW p \in Policies, NEW q \in Policies, p # q, <<p, q>> \notin left'
             PROVE  Settled(p, Placing(q))'
  BY DEF PlacesOK
<1>1. CASE <<p, q>> \in left
  <2>1. cur' = p /\ pc' = "check"
    BY <1>1, LeftBefore
  <2> QED
    BY <2>1, Zenon DEF Settled
<1>2. CASE <<p, q>> \notin left
  <2>1. SUFFICES ASSUME NEW good, good = Placing(q) PROVE Settled(p, Placing(q))'
    OBVIOUS
  <2>2. ASSUME checkSubOverlap, cur = p PROVE failed' \/ policy' \in good
    <3>1. /\ policy' \in Policy /\ policy'.label = policy.spec.sub
          /\ Checked(policy.spec.sub, Overlappers(policy.spec.sub)) \/ failed'
      BY <2>2, CheckEffect
    <3>2. ASSUME Checked(policy.spec.sub, Overlappers(policy.spec.sub)), Tells(policy', q)
          PROVE  policy.spec.sub \in Subs /\ AllClaim(q, policy.spec.sub)
      <4>1. policy.spec.sub \in Subs /\ q \in Overlappers(policy.spec.sub)
        BY <3>2 DEF Checked, Tells
      <4>2. Claims(cache[q], policy.spec.sub)
        BY <2>2, <4>1 DEF Overlappers
      <4> QED
        BY <1>2, <4>1, <4>2 DEF LeaversLeft
    <3>3. Checked(policy.spec.sub, Overlappers(policy.spec.sub)) => policy' \in good
      BY <2>1, <3>1, <3>2 DEF Placing
    <3> QED
      BY <3>1, <3>3, Zenon
  <2>3. None \in good
    BY <2>1 DEF Placing, Tells
  <2>4. Settled(p, good)
    BY <1>2, <2>1 DEF PlacesOK
  <2>5. Settled(p, good)'
    BY <2>2, <2>3, <2>4, SettledStep
  <2>6. good \subseteq Placing(q)'
    <3>1. SUFFICES ASSUME NEW obj \in Policy \cup {None}, Tells(obj, q), obj.label \in Subs,
                          AllClaim(q, obj.label)
                   PROVE  AllClaim(q, obj.label)'
      BY <2>1 DEF Placing, Tells
    <3>2. SUFFICES ASSUME NEW l \in Subs, AllClaim(q, l) PROVE AllClaim(q, l)'
      BY <3>1
    <3> QED
      BY <3>2, AllClaimStep
  <2> QED
    BY <2>5, <2>6, Zenon DEF Settled
<1> QED
  BY <1>1, <1>2

\* overlapMapper enqueues those that a change says are recorded.
LEMMA DeliverTellers ==
    ASSUME DataOK, Deliver, NEW q \in Policies, NEW p \in Policies, p # q, NEW j \in From(q),
           Tells(stream[j].obj, p), j = 1
    PROVE  p \in queue'
<1>1. q = stream[1].pol
  BY DeliverChanges
<1>2. p \in Mapped(q, cache[q], stream[1].obj)
  BY DEF Mapped, overlapMapper, Tells
<1> QED
  BY <1>1, <1>2, DeliverEffect

LEMMA RestartKnows ==
    ASSUME DataOK, Restart, NEW p \in Policies, NEW q, NEW l
    PROVE  Knows(p, q, l)'
<1>1. ASSUME NEW good, None \in good PROVE Settled(p, good)'
  BY <1>1, RestartSettled
<1>2. None \in Knowing(q, l)
  BY DEF Knowing, Claims
<1> QED
  BY <1>1, <1>2 DEF Knows

LEMMA TellersStep ==
    DataOK /\ WorkerOK /\ Latest /\ Base /\ TellersKnown /\ [Next]_vars => TellersKnown'
<1> SUFFICES ASSUME DataOK, WorkerOK, Latest, Base, TellersKnown, [Next]_vars,
                    NEW p \in Policies, NEW q \in Policies, NEW l \in Subs, p # q,
                    Tells(cache'[q], p), Claims(cache'[q], l)
             PROVE  Knows(p, q, l)'
  BY DEF TellersKnown
<1>1. CASE cache'[q] = cache[q]
  <2>1. Claims(cache[q], l) /\ Knows(p, q, l)
    BY <1>1 DEF TellersKnown
  <2> QED
    BY <2>1, KnowsStep
<1>2. CASE Restart
  BY <1>2, RestartKnows
<1>3. CASE Deliver /\ cache'[q] # cache[q]
  <2>1. q = stream[1].pol /\ cache'[q] = stream[1].obj /\ 1 \in From(q)
    BY <1>3, DeliverEffect, DeliverChanges DEF DataOK
  <2>2. p \in queue'
    BY <1>3, <2>1, DeliverTellers
  <2> QED
    BY <2>2, Zenon DEF Knows, Settled
<1> QED
  BY <1>1, <1>2, <1>3, FeedStep

\* Who is recorded and not marked was not marked before.
LEMMA LeftTold ==
    ASSUME DataOK, WorkerOK, Latest, [Next]_vars, NEW p \in Policies, NEW q \in Policies,
           Tells(api[p], q), <<p, q>> \notin left'
    PROVE  <<p, q>> \notin left
<1>1. CASE From(p) = {} /\ q \notin cache[p].overlaps
  BY <1>1 DEF Latest, Tells
<1> QED
  BY <1>1, LeftBefore

\* Those that a change on the way records will hear of it.
LEMMA TellStays ==
    ASSUME DataOK, WorkerOK, [Next]_vars, NEW r \in Policies, NEW q \in Policies, q # r,
           NEW j \in From(r), Tells(stream[j].obj, q)
    PROVE  \/ q \in queue' \/ Restart
           \/ \E i \in From(r)' : Tells(stream'[i].obj, q)
<1>1. CASE UNCHANGED <<api, cache, stream>>
  BY <1>1, SameFeed
<1>2. CASE Deliver /\ j = 1
  BY <1>2, DeliverTellers
<1>3. CASE Deliver /\ j # 1
  <2>1. j - 1 \in From(r)' /\ stream'[j - 1].obj = stream[j].obj
    BY <1>3, DeliverChanges
  <2> QED
    BY <2>1
<1>4. ASSUME NEW a \in Policies, NEW obj \in Policy \cup {None}, Store(a, obj)
      PROVE  \E i \in From(r)' : Tells(stream'[i].obj, q)
  <2>1. From(r) \subseteq From(r)' /\ stream'[j] = stream[j]
    BY <1>4, StoreChanges, FromType
  <2> QED
    BY <2>1
<1> QED
  BY <1>1, <1>2, <1>3, <1>4, FeedStep

LEMMA SharedStep ==
    /\ DataOK /\ WorkerOK /\ Latest /\ Base /\ RecordsStand /\ SharedKnown /\ [Next]_vars
    => SharedKnown'
<1> SUFFICES ASSUME DataOK, WorkerOK, Latest, Base, RecordsStand, SharedKnown, [Next]_vars,
                    NEW p \in Policies, NEW q \in Policies, NEW r \in Policies, NEW l \in Subs,
                    p # q, p # r, q # r, Tells(api'[r], p), Tells(api'[r], q),
                    <<r, p>> \notin left', AllClaim(p, l)'
             PROVE  Knows(q, p, l)' \/ \E j \in From(r)' : Tells(stream'[j].obj, q)
  BY DEF SharedKnown
<1>1. CASE Store(r, policy) /\ policy \in Policy
  <2> DEFINE m == Len(stream) + 1
  <2>1. m \in From(r)' /\ stream'[m].obj = policy /\ api'[r] = policy
    BY <1>1, StoreChanges, StoreType DEF DataOK
  <2> QED
    BY <2>1
<1>2. CASE Tells(api[r], p) /\ Tells(api[r], q)
  <2>1. <<r, p>> \notin left
    BY <1>2, LeftTold
  <2>2. AllClaim(p, l)
    BY <1>2, <2>1, AllClaimStep DEF RecordsStand
  <2>3. CASE Knows(q, p, l)
    BY <2>2, <2>3, KnowsStep DEF AllClaim
  <2>4. ASSUME NEW j \in From(r), Tells(stream[j].obj, q)
        PROVE  Knows(q, p, l)' \/ \E i \in From(r)' : Tells(stream'[i].obj, q)
    <3>1. q \in queue' => Knows(q, p, l)'
      BY Zenon DEF Knows, Settled
    <3> QED
      BY <2>4, <3>1, TellStays, RestartKnows
  <2> QED
    BY <1>2, <2>1, <2>2, <2>3, <2>4 DEF SharedKnown
<1> QED
  BY <1>1, <1>2, TellsStep

LEMMA ClaimsByStep ==
    ASSUME DataOK, WorkerOK, Latest, [Next]_vars, NEW p \in Policies, NEW l \in Subs,
           NEW j \in Changes, ClaimsBy(p, l, j), Claims(api'[p], l)
    PROVE  \/ Restart
           \/ IF ~Deliver THEN ClaimsBy(p, l, j)'
              ELSE IF j = 1 THEN AllClaim(p, l)' ELSE ClaimsBy(p, l, j - 1)'
<1>1. CASE AllClaim(p, l)
  BY <1>1, AllClaimStep DEF ClaimsBy
<1>2. ASSUME NEW i \in From(p), i < j, \A k \in From(p) : k >= i => Claims(stream[k].obj, l)
      PROVE  \/ Restart
             \/ IF ~Deliver THEN ClaimsBy(p, l, j)'
                ELSE IF j = 1 THEN AllClaim(p, l)' ELSE ClaimsBy(p, l, j - 1)'
  <2>1. i \in Nat \ {0} /\ j \in Nat \ {0} /\ From(p) \subseteq Changes /\ From(p) \subseteq Nat
    BY FromType
  <2>2. j # 1
    BY <1>2, <2>1
  <2>3. CASE UNCHANGED <<api, cache, stream>> /\ ~Deliver
    BY <1>2, <2>3, SameFeed DEF ClaimsBy, AllClaim
  <2>4. CASE Deliver
    <3>1. /\ \A k : k \in From(p)' => k \in Nat /\ k + 1 \in From(p)
                                      /\ stream'[k].obj = stream[k + 1].obj
          /\ 1 \in From(p) => p = stream[1].pol
          /\ i # 1 => i - 1 \in From(p)'
      BY <2>4, DeliverChanges
    <3>2. CASE i = 1
      <4>1. cache'[p] = stream[1].obj
        BY <2>4, <3>1, <3>2, DeliverEffect DEF DataOK
      <4>2. \A k \in From(p)' : Claims(stream'[k].obj, l)
        <5>1. \A k \in From(p)' : k + 1 >= i
          BY <3>1, <3>2
        <5> QED
          BY <1>2, <3>1, <5>1
      <4>3. Claims(cache'[p], l)
        BY <1>2, <3>2, <4>1
      <4> QED
        BY <2>2, <2>4, <4>2, <4>3 DEF ClaimsBy, AllClaim
    <3>3. CASE i # 1
      <4>1. i - 1 \in From(p)' /\ i - 1 < j - 1
        BY <1>2, <2>1, <3>1, <3>3
      <4>2. \A k \in From(p)' : k >= i - 1 => k + 1 >= i
        BY <2>1, <3>1
      <4>3. \A k \in From(p)' : k >= i - 1 => Claims(stream'[k].obj, l)
        BY <1>2, <3>1, <4>2
      <4> QED
        BY <2>2, <2>4, <4>1, <4>3 DEF ClaimsBy
    <3> QED
      BY <3>2, <3>3
  <2>5. ASSUME NEW a \in Policies, NEW obj \in Policy \cup {None}, Store(a, obj), ~Deliver
        PROVE  ClaimsBy(p, l, j)'
    <3> DEFINE m == Len(stream) + 1
    <3>1. /\ \A k \in Changes : stream'[k] = stream[k]
          /\ From(a)' = From(a) \cup {m} /\ stream'[m].obj = obj
          /\ \A r \in Policies \ {a} : From(r)' = From(r)
      BY <2>5, StoreChanges
    <3>2. a = p => Claims(obj, l)
      BY <2>5, StoreType DEF DataOK
    <3> HIDE DEF m
    <3>3. \A k \in From(p)' : k >= i => Claims(stream'[k].obj, l)
      BY <1>2, <2>1, <3>1, <3>2
    <3>4. i \in From(p)'
      BY <3>1
    <3> QED
      BY <1>2, <3>3, <3>4 DEF ClaimsBy
  <2> QED
    BY <2>3, <2>4, <2>5, FeedStep
<1> QED
  BY <1>1, <1>2 DEF ClaimsBy

LEMMA ThirdStep ==
    /\ DataOK /\ WorkerOK /\ Latest /\ Base /\ RecordsStand /\ ThirdKnown /\ [Next]_vars
    => ThirdKnown'
<1> SUFFICES ASSUME DataOK, WorkerOK, Latest, Base, RecordsStand, ThirdKnown, [Next]_vars,
                    NEW p \in Policies, NEW q \in Policies, NEW r \in Policies, NEW l \in Subs,
                    p # q, p # r, q # r, Tells(api'[q], r), <<q, r>> \notin left',
                    AllClaim(r, l)', ~Knows(p, r, l)'
             PROVE  /\ cur' # p
                    /\ \/ ~Claims(api'[p], l)
                       \/ AllClaim(p, l)' /\ Knows(r, p, l)'
                       \/ \E j \in From(q)' : Tells(stream'[j].obj, r) /\ ClaimsBy(p, l, j)'
  BY DEF ThirdKnown
<1>0. p # None /\ ~Restart
  BY RestartKnows, ConstantsAssumption
<1>1. CASE cur' = None /\ Store(q, policy) /\ policy \in Policy
  <2>1. PICK m \in From(q)' : stream'[m].obj = policy /\ \A i \in Changes : i < m
    BY <1>1, StoreChanges
  <2>2. api'[q] = policy /\ From(p)' = From(p)
    BY <1>1, StoreChanges, StoreType DEF DataOK
  <2>3. From(p) \subseteq Changes /\ From(p) \subseteq Nat
    BY FromType
  <2>4. CASE Claims(api'[p], l)
    <3>1. \/ From(p)' = {} /\ cache'[p] = api'[p]
          \/ \E i \in From(p)' : (\A k \in From(p)' : k <= i) /\ stream'[i].obj = api'[p]
      BY LatestStep DEF Latest
    <3>2. ASSUME NEW i \in From(p)', \A k \in From(p)' : k <= i, stream'[i].obj = api'[p]
          PROVE  ClaimsBy(p, l, m)'
      <4>1. i < m
        BY <2>1, <2>2, <2>3
      <4>2. \A k \in From(p)' : k >= i => k = i
        BY <2>2, <2>3, <3>2
      <4> QED
        BY <2>4, <3>2, <4>1, <4>2 DEF ClaimsBy
    <3>3. ClaimsBy(p, l, m)'
      BY <2>4, <3>1, <3>2 DEF ClaimsBy, AllClaim
    <3> QED
      BY <1>0, <1>1, <2>1, <2>2, <3>3
  <2> QED
    BY <1>0, <1>1, <2>4
<1>2. CASE Tells(api[q], r)
  <2>1. <<q, r>> \notin left
    BY <1>2, LeftTold
  <2>2. AllClaim(r, l)
    BY <1>2, <2>1, AllClaimStep DEF RecordsStand
  <2>3. ~Knows(p, r, l)
    BY <2>2, KnowsStep DEF AllClaim
  <2>4. /\ cur # p
        /\ \/ ~Claims(api[p], l)
           \/ AllClaim(p, l) /\ Knows(r, p, l)
           \/ \E j \in From(q) : Tells(stream[j].obj, r) /\ ClaimsBy(p, l, j)
    BY <1>2, <2>1, <2>2, <2>3 DEF ThirdKnown
  <2>5. cur' # p
    <3>1. CASE ReconcileBegin(p) /\ cur' = p
      <4>1. pc' = "check"
        BY <2>4, <3>1, BeginEffect
      <4> QED
        BY <3>1, <4>1, Zenon DEF Knows, Settled
    <3> QED
      BY <2>4, <3>1, CurStep
  <2>6. ~Comes(p)'
    BY Zenon DEF Knows, Settled
  <2>7. api'[p] = api[p]
    BY <2>4, <2>6, RecordStep
  <2>8. CASE AllClaim(p, l) /\ Knows(r, p, l) /\ Claims(api'[p], l)
    <3>1. AllClaim(p, l)'
      BY <2>8, AllClaimStep
    <3>2. Knows(r, p, l)'
      BY <2>8, KnowsStep DEF AllClaim
    <3> QED
      BY <2>5, <3>1, <3>2
  <2>9. ASSUME NEW j \in From(q), Tells(stream[j].obj, r), ClaimsBy(p, l, j), Claims(api'[p], l)
        PROVE  \/ AllClaim(p, l)' /\ Knows(r, p, l)'
               \/ \E i \in From(q)' : Tells(stream'[i].obj, r) /\ ClaimsBy(p, l, i)'
    <3>1. j \in Changes
      BY FromType
    <3>2. IF ~Deliver THEN ClaimsBy(p, l, j)'
          ELSE IF j = 1 THEN AllClaim(p, l)' ELSE ClaimsBy(p, l, j - 1)'
      BY <1>0, <2>9, <3>1, ClaimsByStep
    <3>3. CASE UNCHANGED <<api, cache, stream>> /\ ~Deliver
      BY <2>9, <3>2, <3>3, SameFeed
    <3>4. CASE Deliver /\ j = 1
      <4>1. r \in queue'
        BY <2>9, <3>4, DeliverTellers
      <4>2. Knows(r, p, l)'
        BY <4>1, Zenon DEF Knows, Settled
      <4> QED
        BY <3>2, <3>4, <4>2
    <3>5. CASE Deliver /\ j # 1
      <4>1. j - 1 \in From(q)' /\ stream'[j - 1].obj = stream[j].obj
        BY <3>5, DeliverChanges
      <4> QED
        BY <2>9, <3>2, <3>5, <4>1
    <3>6. ASSUME NEW a \in Policies, NEW obj \in Policy \cup {None}, Store(a, obj), ~Deliver
          PROVE  \E i \in From(q)' : Tells(stream'[i].obj, r) /\ ClaimsBy(p, l, i)'
      <4>1. j \in From(q)' /\ stream'[j] = stream[j]
        BY <3>1, <3>6, StoreChanges
      <4> QED
        BY <2>9, <3>2, <3>6, <4>1
    <3> QED
      BY <1>0, <3>3, <3>4, <3>5, <3>6, FeedStep
  <2> QED
    BY <2>4, <2>5, <2>7, <2>8, <2>9
<1> QED
  BY <1>1, <1>2, TellsStep

LEMMA PeopledStep ==
    DataOK /\ WorkerOK /\ Latest /\ Base /\ PeopledOK /\ [Next]_vars => PeopledOK'
<1> SUFFICES ASSUME DataOK, WorkerOK, Latest, Base, PeopledOK, [Next]_vars
             PROVE  PeopledOK'
  OBVIOUS
<1>1. ASSUME NEW p \in Policies PROVE Peopled(p, api'[p])
  <2>1. CASE \E q : Tells(api'[p], q) /\ ~Tells(api[p], q)
    <3>1. cur = p /\ pc = "write" /\ ~stale /\ Store(p, policy) /\ policy \in Policy
      BY <2>1, TellsStep
    <3>2. api'[p] = policy
      BY <3>1, StoreType DEF DataOK
    <3> QED
      BY <3>1, <3>2 DEF PeopledOK, Peopled
  <2>2. CASE UNCHANGED api
    BY <2>2 DEF PeopledOK
  <2>3. ASSUME NEW a \in Policies, NEW obj \in Policy \cup {None}, Store(a, obj),
               \/ obj = None \/ obj.overlaps = {} \/ Peopled(a, obj)
        PROVE  Peopled(p, api'[p])
    <3>1. api'[p] = IF a = p THEN obj ELSE api[p]
      BY <2>3, StoreType DEF DataOK
    <3> QED
      BY <2>3, <3>1 DEF PeopledOK, Peopled
  <2>4. CASE Users
    <3>1. ASSUME NEW a \in Policies, Create(a) \/ Edit(a) \/ Delete(a)
          PROVE  Peopled(p, api'[p])
      <4>1. PICK obj \in Policy \cup {None} :
              /\ UserWrites(a, obj)
              /\ obj # None /\ api[a] = None => obj.overlaps = {}
              /\ obj # None /\ api[a] # None => obj.overlaps = api[a].overlaps
        BY <3>1, UserWritesEffect
      <4>2. obj = None \/ obj.overlaps = {} \/ Peopled(a, obj)
        BY <4>1 DEF PeopledOK, Peopled
      <4> QED
        BY <2>3, <4>1, <4>2 DEF UserWrites
    <3>2. (\E s \in Subs : UserDeletesSub(s)) => UNCHANGED api
      BY Zenon DEF UserDeletesSub
    <3> QED
      BY <2>2, <2>4, <3>1, <3>2 DEF Users
  <2>5. CASE WriteStatus
    <3>1. /\ cur \in Policies /\ policy \in Policy /\ pc = "write"
          /\ UNCHANGED api \/ (~stale /\ Store(cur, policy))
      BY <2>5, WriteEffect
    <3>2. ~stale => Peopled(cur, policy)
      BY <3>1 DEF PeopledOK
    <3> QED
      BY <2>2, <2>3, <3>1, <3>2
  <2>6. CASE \/ Deliver \/ Restart \/ (\E b \in Policies : ReconcileBegin(b)) \/ UNCHANGED vars
             \/ checkSubOverlap \/ handleSubscription
    <3>1. UNCHANGED api
      BY <2>6, Zenon DEF Deliver, Restart, ReconcileBegin, vars, checkSubOverlap, handleSubscription
    <3> QED
      BY <2>2, <3>1
  <2> QED
    BY <2>4, <2>5, <2>6 DEF Next, Worker
<1>2. ASSUME pc' # "idle", ~stale' PROVE Peopled(cur', policy')
  <2>1. CASE pc # "idle" /\ UNCHANGED <<cur, policy>> /\ (stale => stale')
    <3>1. ~stale
      BY <1>2, <2>1, Zenon
    <3> QED
      BY <2>1, <3>1 DEF PeopledOK
  <2>2. CASE checkSubOverlap
    <3>1. pc = "check" /\ UNCHANGED CheckFrame /\ policy \in Policy
      BY <2>2, CheckEffect
    <3>2. UNCHANGED cur /\ stale' = stale
      BY <3>1, Zenon DEF CheckFrame
    <3>3. ~stale
      BY <1>2, <3>2, Zenon
    <3>4. Peopled(cur, policy)
      BY <3>1, <3>3 DEF PeopledOK
    <3> QED
      BY <2>2, <3>1, <3>2, <3>4, CheckKeeps, ConstantsAssumption DEF Peopled
  <2>3. CASE cur' \in Policies /\ ReconcileBegin(cur') /\ pc' = "check" /\ cur = None
    <3>1. cur' # None
      BY <2>3, ConstantsAssumption
    <3>2. policy' = cache[cur'] /\ ~Pending(cur')
      BY <1>2, <2>3, <3>1, BeginEffect
    <3>3. policy' = api[cur']
      BY <2>3, <3>2, FromType DEF Latest
    <3> QED
      BY <2>3, <3>3 DEF PeopledOK
  <2>4. cur' # None
    <3>1. WorkerOK'
      BY WorkerStep
    <3> QED
      BY <1>2, <3>1 DEF WorkerOK
  <2> QED
    BY <1>2, <2>1, <2>2, <2>3, <2>4, CopyStep
<1> QED
  BY <1>1, <1>2 DEF PeopledOK

LEMMA InitSeen == Init => SeenInv
<1> SUFFICES ASSUME Init PROVE SeenInv
  OBVIOUS
<1>1. /\ cache = api /\ stream = <<>> /\ pc = "idle" /\ cur = None
      /\ queue = {p \in Policies : api[p] # None}
      /\ \A p \in Policies : api[p] # None => api[p].overlaps = {}
  BY FreshType, ConstantsAssumption DEF Init
<1>2. \A q : From(q) = {}
  BY <1>1 DEF From, Changes
<1>3. \A p \in Policies : \A q : ~Tells(api[p], q)
  BY <1>1 DEF Tells
<1>4. ASSUME NEW p \in Policies, NEW good, None \in good PROVE Settled(p, good)
  BY <1>1, <1>4, ConstantsAssumption DEF Settled
<1>5. LeaversLeft
  BY <1>2 DEF LeaversLeft, AllClaim
<1>6. RecordsStand
  BY <1>1, <1>3 DEF RecordsStand
<1>7. NamesOK
  BY <1>4 DEF NamesOK, Named
<1>8. PlacesOK
  <2>1. \A q : None \in Placing(q)
    BY DEF Placing, Tells
  <2> QED
    BY <1>4, <2>1 DEF PlacesOK
<1>9. TellersKnown /\ SharedKnown /\ ThirdKnown
  BY <1>1, <1>3 DEF TellersKnown, SharedKnown, ThirdKnown
<1>10. PeopledOK
  BY <1>1 DEF PeopledOK, Peopled
<1> QED
  BY <1>5, <1>6, <1>7, <1>8, <1>9, <1>10 DEF SeenInv

-----------------------------------------------------------------------------
(* Theorems *)

LEMMA InitInv == Init => DataOK /\ FlagsOK /\ Inv
<1> SUFFICES ASSUME Init PROVE DataOK /\ FlagsOK /\ Inv
  OBVIOUS
<1>1. DataOK /\ FlagsOK /\ WorkerOK
  BY InitTypes
<1>2. /\ cache = api /\ stream = <<>> /\ pc = "idle"
      /\ queue = {p \in Policies : api[p] # None}
      /\ \A p \in Policies : api[p] # None => api[p].overlaps = {}
  BY FreshType, ConstantsAssumption DEF Init
<1>3. \A q : From(q) = {}
  BY <1>2 DEF From, Changes
<1>4. Latest
  BY <1>2, <1>3 DEF Latest
<1>5. Base /\ FoundOK /\ WrittenOK
  BY <1>2 DEF Base, FoundOK, WrittenOK
<1>6. LeaversTell
  BY <1>2, <1>3 DEF LeaversTell, Claimed, Told
<1>7. LabelsOK
  BY <1>2 DEF LabelsOK, Labelled
<1>8. RecordedOK /\ ManagedOK
  BY <1>2 DEF RecordedOK, ManagedOK, Again
<1> QED
  BY <1>1, <1>4, <1>5, <1>6, <1>7, <1>8 DEF Inv

\* The invariant is inductive.
LEMMA Inductive == Spec => [](DataOK /\ Inv)
<1>1. Init => DataOK /\ Inv
  BY InitInv
<1>2. DataOK /\ Inv /\ [Next]_vars => (DataOK /\ Inv)'
  BY DataStep, WorkerStep, LatestStep, BaseStep, LabelsStep, LeaversStep, FoundStep, RecordedStep,
     WrittenStep, ManagedStep DEF Inv
<1> QED
  BY <1>1, <1>2, PTL DEF Spec

\* StaleOnlyIfSlipped for any policies and Subscriptions, however many edits,
\* failed calls and restarts: at rest, a recorded overlap is current unless the
\* other policy left a label that it shared with a policy it had not recorded,
\* so that overlapMapper had nobody to tell.
THEOREM RecordsCurrent == Spec => []StaleOnlyIfSlipped
<1>1. ASSUME DataOK, Inv PROVE StaleOnlyIfSlipped
  <2>1. SUFFICES ASSUME AtRest, NEW p \in Policies, NEW q \in Policies, p # q, api[p] # None,
                        q \in api[p].overlaps
                 PROVE  Claims(api[q], api[p].label) \/ <<p, q>> \in slipped
    BY DEF StaleOnlyIfSlipped
  <2>2. queue = {} /\ cur # p
    BY <1>1, <2>1, ConstantsAssumption DEF AtRest, Inv, WorkerOK
  <2>3. \A r : From(r) = {}
    BY <2>1 DEF AtRest, From, Changes
  <2>4. cache[p] # None
    BY <1>1, <2>1, <2>3 DEF Inv, Latest
  <2>5. ~Hears(p, q, api[p].label)
    BY <2>3 DEF Hears
  <2> QED
    BY <1>1, <2>1, <2>2, <2>4, <2>5 DEF Inv, RecordedOK, Again, Told
<1> QED
  BY <1>1, Inductive, PTL

\* AloneManages for any policies and Subscriptions, however many edits, failed
\* calls and restarts: at rest, a policy that records no overlap has what it
\* wants, because handleSubscription wrote it and every later change of the
\* Subscription (SetSub) puts the policy back in the queue.
THEOREM RecordlessManages == Spec => []AloneManages
<1>1. ASSUME DataOK, Inv PROVE AloneManages
  <2>1. SUFFICES ASSUME AtRest, NEW s \in Subs, NEW p \in Policies, Wants(p, s),
                        api[p].overlaps = {}
                 PROVE  sub[s] = IF Musthave(p) THEN p ELSE Absent
    BY DEF AloneManages
  <2>2. queue = {} /\ cur # p
    BY <1>1, <2>1, ConstantsAssumption DEF AtRest, Inv, WorkerOK
  <2>3. \A r : From(r) = {}
    BY <2>1 DEF AtRest, From, Changes
  <2>4. cache[p] = api[p] /\ ~Gone(p)
    BY <1>1, <2>1, <2>3 DEF Inv, Latest, Gone
  <2>5. Manages(p, cache[p].spec) /\ api[p] # None /\ cache[p].spec.sub = s
    BY <2>1, <2>4 DEF Wants, Manages
  <2>6. sub[s] = Wish(p, cache[p].spec)
    BY <1>1, <2>1, <2>2, <2>4, <2>5 DEF Inv, ManagedOK, Again
  <2> QED
    BY <2>4, <2>6 DEF Wish, Musthave
<1> QED
  BY <1>1, Inductive, PTL

\* The second invariant is inductive, given the first.
LEMMA SeenInductive == Spec => []SeenInv
<1>1. Init => SeenInv
  BY InitSeen
<1>2. DataOK /\ Inv /\ SeenInv /\ [Next]_vars => SeenInv'
  BY LeaversLeftStep, RecordsStandStep, NamesStep, PlacesStep, TellersStep, SharedStep, ThirdStep,
     PeopledStep DEF Inv, SeenInv
<1> QED
  BY <1>1, <1>2, Inductive, PTL DEF Spec

\* What the invariant says once nothing is left to do.
LEMMA SeenAtRest ==
    ASSUME DataOK, Inv, SeenInv, AtRest, NEW p \in Policies
    PROVE  /\ cache[p] = api[p] /\ From(p) = {} /\ ~Gone(p) /\ ~Again(p)
           /\ \A good : Settled(p, good) => api[p] \in good
<1>1. queue = {} /\ cur # p
  BY ConstantsAssumption DEF AtRest, Inv, WorkerOK
<1>2. From(p) = {}
  BY DEF AtRest, From, Changes
<1>3. cache[p] = api[p] /\ ~Gone(p)
  BY <1>2 DEF Inv, Latest, Gone
<1>4. ~Comes(p) /\ ~Again(p)
  BY <1>1, <1>2 DEF Comes, Again
<1> QED
  BY <1>1, <1>2, <1>3, <1>4, Zenon DEF Settled

\* A third policy that one of two has recorded makes them know each other.
LEMMA ThirdTells ==
    ASSUME DataOK, Inv, SeenInv, AtRest, NEW l \in Subs,
           NEW p \in Policies, NEW q \in Policies, NEW r \in Policies, p # q, p # r, q # r,
           Claims(api[p], l), Claims(api[q], l), r \in api[q].overlaps,
           <<q, r>> \notin left, ~Outdated(p), ~Outdated(q), ~Outdated(r)
    PROVE  /\ p \in api[r].overlaps /\ q \in api[r].overlaps /\ Claims(api[r], l)
           /\ <<r, p>> \notin left /\ <<r, q>> \notin left
<1>1. /\ api[p] # None /\ api[q] # None
  BY DEF Claims
<1>2. AllClaim(r, l)
  <2>1. Settled(q, Placing(r))
    BY DEF SeenInv, PlacesOK
  <2>2. api[q] \in Placing(r)
    BY <1>1, <2>1, SeenAtRest
  <2> QED
    BY <1>1, <2>2 DEF Placing, Tells, Claims
<1>3. Claims(api[r], l) /\ api[r] # None
  BY <1>2, SeenAtRest DEF AllClaim, Claims
<1>4. AllClaim(p, l) /\ AllClaim(q, l)
  BY SeenAtRest DEF AllClaim
<1>5. ASSUME NEW a \in Policies, NEW b \in Policies, a # b, Knows(a, b, l),
             Claims(api[a], l)
      PROVE  b \in api[a].overlaps
  <2>1. api[a] \in Knowing(b, l)
    BY <1>5, SeenAtRest DEF Knows
  <2> QED
    BY <1>5, <2>1 DEF Knowing
<1>6. ASSUME NEW a \in Policies, NEW b \in Policies, a # b, a \in api[b].overlaps,
             Claims(api[a], l), Claims(api[b], l)
      PROVE  b \in api[a].overlaps
  <2>1. Tells(cache[b], a) /\ Claims(cache[b], l)
    BY <1>6, SeenAtRest DEF Tells, Claims
  <2>2. Knows(a, b, l)
    BY <1>6, <2>1 DEF SeenInv, TellersKnown
  <2> QED
    BY <1>5, <1>6, <2>2
<1>7. q \in api[r].overlaps
  BY <1>1, <1>3, <1>6
<1>8. r \in api[p].overlaps \/ p \in api[r].overlaps
  <2>1. Tells(api[q], r) /\ From(q) = {}
    BY <1>1, SeenAtRest DEF Tells
  <2>2. Knows(p, r, l) \/ ~Claims(api[p], l) \/ Knows(r, p, l)
    BY <1>2, <2>1 DEF SeenInv, ThirdKnown
  <2> QED
    BY <1>1, <1>3, <1>5, <2>2
<1>9. p \in api[r].overlaps
  BY <1>1, <1>3, <1>6, <1>8
<1> QED
  BY <1>3, <1>7, <1>9 DEF Outdated

\* OverlapSeen for any policies and Subscriptions, however many edits, failed
\* calls and restarts.  Two that recorded nobody both manage the Subscription
\* (AloneManages), which one of them must then have lost.  Otherwise one of them
\* has recorded another policy, which was not left since: the two have heard of
\* each other by it (overlapMapper), if not directly.
THEOREM OverlapsSeen == Spec => []OverlapSeen
<1>1. ASSUME DataOK, Inv, SeenInv PROVE OverlapSeen
  <2>1. SUFFICES ASSUME AtRest, NEW s \in Subs, NEW p \in Policies, NEW q \in Policies, p # q,
                        Wants(p, s), Wants(q, s), Musthave(p) \/ Musthave(q),
                        \A r \in {p, q} \cup api[p].overlaps \cup api[q].overlaps : ~Outdated(r),
                        q \notin api[p].overlaps
                 PROVE  FALSE
    BY DEF OverlapSeen
  <2>2. /\ api[p] \in Policy /\ api[q] \in Policy
        /\ api[p] # None /\ api[q] # None /\ ~Outdated(p) /\ ~Outdated(q)
    <3>1. ~Outdated(p) /\ ~Outdated(q)
      BY <2>1
    <3>2. api[p] # None /\ api[q] # None
      BY <2>1, Zenon DEF Wants
    <3>3. api[p] \in Policy /\ api[q] \in Policy
      BY <1>1, <3>2 DEF DataOK
    <3> QED
      BY <3>1, <3>2, <3>3 DEF Outdated
  <2>3. ASSUME NEW a \in Policies, Wants(a, s)
        PROVE  Claims(api[a], s)
    <3>1. api[a] \in Named
      BY <1>1, <2>1, <2>3, SeenAtRest DEF SeenInv, NamesOK
    <3> QED
      BY <2>3, <3>1 DEF Named, Wants, Claims
  <2>4. Claims(api[p], s) /\ Claims(api[q], s)
    BY <2>1, <2>2, <2>3
  <2>5. ASSUME NEW a \in Policies, Wants(a, s), api[a].overlaps = {}
        PROVE  sub[s] = Wish(a, api[a].spec)
    <3>1. cache[a] = api[a] /\ ~Again(a) /\ ~Gone(a)
      BY <1>1, <2>1, SeenAtRest
    <3>2. Manages(a, cache[a].spec) /\ api[a] # None
      BY <2>5, <3>1 DEF Wants, Manages
    <3> QED
      BY <1>1, <2>5, <3>1, <3>2 DEF Inv, ManagedOK, Wants
  <2>6. api[p].overlaps # {} \/ api[q].overlaps # {}
    <3>1. SUFFICES ASSUME api[p].overlaps = {}, api[q].overlaps = {} PROVE FALSE
      OBVIOUS
    <3>2. Wish(p, api[p].spec) = Wish(q, api[q].spec)
      BY <2>1, <2>2, <2>5, <3>1
    <3> QED
      BY <2>1, <3>2, ConstantsAssumption DEF Wish, Musthave
\* What one has recorded tells both.
  <2>7. ASSUME NEW a \in Policies, NEW b \in Policies, {a, b} = {p, q}, a # b,
               api[b].overlaps # {}, a \notin api[b].overlaps
        PROVE  FALSE
    <3>1. /\ api[a] \in Policy /\ api[b] \in Policy /\ Claims(api[a], s) /\ Claims(api[b], s)
          /\ ~Outdated(a) /\ ~Outdated(b)
      BY <2>2, <2>4, <2>7
    <3>2. PICK r \in api[b].overlaps : r # b
      BY <1>1, <2>7, <3>1 DEF SeenInv, PeopledOK, Peopled, Claims
    <3>3. r \in Policies /\ r # a /\ <<b, r>> \notin left /\ ~Outdated(r)
      <4>1. r \in Policies
        BY <3>1, <3>2 DEF Policy
      <4>2. r # a /\ ~Outdated(r)
        BY <2>1, <2>7, <3>2
      <4>3. <<b, r>> \notin left
        BY <3>1, <3>2 DEF Outdated, Claims
      <4> QED
        BY <4>1, <4>2, <4>3
    <3>4. /\ a \in api[r].overlaps /\ b \in api[r].overlaps /\ Claims(api[r], s)
          /\ <<r, a>> \notin left /\ <<r, b>> \notin left
      BY <1>1, <2>1, <2>7, <3>1, <3>2, <3>3, ThirdTells
    <3>5. \A x \in {a, b} : AllClaim(x, s)
      BY <1>1, <2>1, <3>1, SeenAtRest DEF AllClaim
    <3>6. Tells(api[r], a) /\ Tells(api[r], b) /\ From(r) = {}
      BY <1>1, <2>1, <3>3, <3>4, SeenAtRest DEF Tells, Claims
    <3>7. Knows(p, q, s)
      BY <1>1, <2>1, <2>7, <3>2, <3>3, <3>4, <3>5, <3>6 DEF SeenInv, SharedKnown
    <3>8. api[p] \in Knowing(q, s)
      BY <1>1, <2>1, <2>2, <3>7, SeenAtRest DEF Knows
    <3> QED
      BY <2>1, <2>4, <3>8 DEF Knowing
  <2>8. p \notin api[q].overlaps
    <3>1. SUFFICES ASSUME p \in api[q].overlaps PROVE FALSE
      OBVIOUS
    <3>2. Tells(cache[q], p) /\ Claims(cache[q], s)
      BY <1>1, <2>1, <2>2, <2>4, <3>1, SeenAtRest DEF Tells
    <3>3. Knows(p, q, s)
      BY <1>1, <2>1, <3>2 DEF SeenInv, TellersKnown
    <3>4. api[p] \in Knowing(q, s)
      BY <1>1, <2>1, <2>2, <3>3, SeenAtRest DEF Knows
    <3> QED
      BY <2>1, <2>4, <3>4 DEF Knowing
  <2> QED
    BY <2>1, <2>6, <2>7, <2>8
<1> QED
  BY <1>1, Inductive, SeenInductive, PTL
=============================================================================
