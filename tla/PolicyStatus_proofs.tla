------------------------ MODULE PolicyStatus_proofs -------------------------
(* Proofs about PolicyStatus. *)
EXTENDS PolicyStatus, SequenceTheorems, TLAPS

-----------------------------------------------------------------------------
(* Flags *)

LEMMA FlagsStep == FlagsOK /\ LocalsOK /\ [Next]_vars => FlagsOK'
<1> SUFFICES ASSUME FlagsOK, LocalsOK, [Next]_vars PROVE FlagsOK'
  OBVIOUS
<1> USE DEF FlagsOK, clusterVars, schedVars, loopVars, history, workerVars
<1>1. CASE Create \/ Edit \/ Delete \/ ResetCompliance \/ Tick
  BY <1>1, ZenonT(60) DEF Create, Edit, Delete, ResetCompliance, Tick
<1>2. CASE Crash
  BY <1>2, Zenon DEF Crash, Return
<1>3. CASE \E t \in Templates : ObjectChange(t)
  <2>1. PICK t \in Templates : ObjectChange(t)
    BY <1>3
  <2>2. objects' \in [Templates -> BOOLEAN]
    BY <2>1 DEF ObjectChange
  <2> QED
    BY <2>1, <2>2, Zenon DEF ObjectChange
<1>4. CASE Sync \/ TimerFires
  BY <1>4, ZenonT(60) DEF Sync, TimerFires
<1>5. CASE ReconcileGone \/ ReconcileSkip \/ ReconcileBegin
  BY <1>5, ZenonT(60) DEF ReconcileGone, ReconcileSkip, ReconcileBegin, NotSynced, WatchFor
<1>6. CASE NoTemplates \/ LoopDone \/ SecondBatch
  BY <1>6, ZenonT(60) DEF NoTemplates, LoopDone, SecondBatch
<1>7. CASE TemplateCached \/ TemplateMatches \/ TemplateInformed \/ TemplateFails
  BY <1>7, ZenonT(60) DEF TemplateCached, TemplateMatches, TemplateInformed, TemplateFails, OneBatch
<1>8. CASE TemplateEnforced
  <2>1. objects' \in [Templates -> BOOLEAN]
    BY <1>8 DEF TemplateEnforced, LocalsOK, Evaluation
  <2> QED
    BY <1>8, <2>1, Zenon DEF TemplateEnforced, TwoBatches
<1>9. CASE TemplateUpdateFails
  BY <1>9, Zenon DEF TemplateUpdateFails, OneBatch, TwoBatches
<1>10. CASE SendComplianceEvent \/ SendComplianceEventFails
  BY <1>10, Zenon DEF SendComplianceEvent, SendComplianceEventFails
<1>11. CASE UpdateSkipped \/ UpdateWritten \/ UpdateConflicts \/ UpdateFails
  BY <1>11, ZenonT(60) DEF UpdateSkipped, UpdateWritten, UpdateConflicts, UpdateFails, AttemptFails
<1>12. CASE ReconcileEnd
  BY <1>12, Zenon DEF ReconcileEnd, Return
<1>13. CASE UNCHANGED vars
  BY <1>13, Zenon DEF vars
<1> QED
  BY <1>1, <1>2, <1>3, <1>4, <1>5, <1>6, <1>7, <1>8, <1>9, <1>10, <1>11, <1>12, <1>13
     DEF Next, Environment, Worker

-----------------------------------------------------------------------------
(* Conditions and statuses *)

LEMMA PaddedType ==
    ASSUME NEW d \in Seq(Reason), NEW i \in Nat \ {0}
    PROVE  /\ Padded(d, i) \in Seq(Reason)
           /\ i \in 1 .. Len(Padded(d, i))
<1> DEFINE n == IF Len(d) < i THEN i ELSE Len(d)
           f == [j \in 1 .. n |-> IF j <= Len(d) THEN d[j] ELSE "unknown"]
<1>1. n \in Nat /\ i \in 1 .. n
  OBVIOUS
<1>2. \A j \in 1 .. n : (IF j <= Len(d) THEN d[j] ELSE "unknown") \in Reason
  BY DEF Reason
<1>3. f \in Seq(Reason) /\ Len(f) = n
  BY <1>1, <1>2, IsASeq
<1> QED
  BY <1>1, <1>3 DEF Padded

LEMMA AddConditionType ==
    ASSUME NEW d \in Seq(Reason), NEW i \in Nat \ {0}, NEW m \in Reason
    PROVE  AddCondition(d, i, m) \in Seq(Reason)
  BY PaddedType, ExceptSeq DEF AddCondition

LEMMA TruncatedType ==
    ASSUME NEW d \in Seq(Reason), NEW n \in Nat
    PROVE  Truncated(d, n) \in Seq(Reason)
  BY DEF Truncated

\* addForUpdate never leaves the compliance empty.
LEMMA ComplianceType ==
    ASSUME NEW d
    PROVE  Compliance(d) \in ComplianceState \ {""}
  BY DEF Compliance, ComplianceState

LEMMA WithDetails ==
    ASSUME NEW p \in Policy, NEW d \in Seq(Reason)
    PROVE  LET q == [p EXCEPT !.status.details = d]
           IN  /\ q \in Policy /\ q.status.details = d
               /\ q.uid = p.uid /\ q.gen = p.gen /\ q.spec = p.spec
               /\ q.status.state = p.status.state /\ q.status.time = p.status.time
               /\ q.status.gen = p.status.gen /\ q.status.srcUid = p.status.srcUid
  BY DEF Policy, Status

LEMMA WithStatus ==
    ASSUME NEW p \in Policy, NEW s \in Status
    PROVE  LET q == [p EXCEPT !.status = s]
           IN  /\ q \in Policy /\ q.status = s
               /\ q.uid = p.uid /\ q.gen = p.gen /\ q.spec = p.spec
  BY DEF Policy

-----------------------------------------------------------------------------
(* The worker's locals *)

\* Every evaluation is of one policy, whatever copy is read in its course.
Work == pc # "idle" => index # 0 /\ evaluated.uid = policy.uid

\* What addForUpdate has put in the status that is being reported.
Reporting ==
    pc \in {"event", "update"} =>
        /\ pc = "event" => tries = 1
        /\ policy.status.srcUid = policy.uid /\ policy.status.time # 0
        /\ policy.status.state = Compliance(policy.status.details)

LEMMA StampedType ==
    ASSUME NEW p \in Policy, DataOK, LocalsOK
    PROVE  /\ Stamped(p) \in Status
           /\ Stamped(p).state = Compliance(p.status.details)
           /\ Stamped(p).details = p.status.details
           /\ Stamped(p).time = now /\ Stamped(p).srcUid = evaluated.uid
<1>1. p.status \in Status /\ p.gen \in 0 .. MaxGen
  BY ConstantsAssumption DEF Policy
<1>2. now \in 0 .. MaxTime /\ evaluated.uid \in 0 .. MaxUid /\ evaluated.basis \in 0 .. MaxGen
  BY DEF DataOK, LocalsOK, Evaluation
<1>3. Compliance(p.status.details) \in ComplianceState
  BY ComplianceType
<1> QED
  BY <1>1, <1>2, <1>3 DEF Stamped, Status

LEMMA AddForUpdateEffect ==
    ASSUME NEW p \in Policy, NEW send, NEW cont, DataOK, LocalsOK, AddForUpdate(p, send, cont)
    PROVE  /\ policy' \in Policy /\ policy'.uid = p.uid
           /\ policy'.status.srcUid = evaluated.uid /\ policy'.status.time = now
           /\ policy'.status.details = p.status.details
           /\ policy'.status.state = Compliance(p.status.details)
           /\ pc' \in {"event", "update"} /\ after' = cont /\ tries' = 1
           /\ pc' = "update" => ~send /\ p.status.state = Compliance(p.status.details)
<1>1. policy' = [p EXCEPT !.status = Stamped(p)] /\ after' = cont /\ tries' = 1
  BY DEF AddForUpdate
<1>2. /\ policy' \in Policy /\ policy'.status = Stamped(p) /\ policy'.uid = p.uid
  BY <1>1, StampedType, WithStatus
<1>3. /\ pc' \in {"event", "update"}
      /\ pc' = "update" => ~send /\ p.status.state = Compliance(p.status.details)
  BY DEF AddForUpdate, MustSend
<1> QED
  BY <1>1, <1>2, <1>3, StampedType

\* updatePolicyStatus reads the policy again: its status and, as long as the
\* policy was not recreated, its UID are the evaluated ones.
LEMMA RefreshedType ==
    ASSUME DataOK, policy \in Policy, cache # None
    PROVE  /\ Refreshed \in Policy /\ Refreshed.status = policy.status
           /\ Refreshed.uid = cache.uid
           /\ ~Recreated => Refreshed.uid = policy.uid
<1>1. cache \in Policy /\ policy.status \in Status
  BY DEF DataOK, Policy
<1> QED
  BY <1>1, WithStatus DEF Refreshed, Recreated

\* One batch of events: the copy gets a condition.
LEMMA ConditionSet ==
    ASSUME NEW m \in Reason, LocalsOK, Work, policy \in Policy, pc # "idle"
    PROVE  LET q == [policy EXCEPT !.status.details = AddCondition(@, index, m)]
           IN  /\ q \in Policy /\ q.uid = policy.uid
               /\ q.status.state = policy.status.state
<1>1. index \in Nat \ {0} /\ policy.status.details \in Seq(Reason)
  BY ConstantsAssumption DEF LocalsOK, Work, Policy, Status
<1> DEFINE d == AddCondition(policy.status.details, index, m)
<1>2. d \in Seq(Reason)
  BY <1>1, AddConditionType
<1> HIDE DEF d
<1>3. LET q == [policy EXCEPT !.status.details = d]
      IN  /\ q \in Policy /\ q.uid = policy.uid /\ q.status.state = policy.status.state
  BY <1>2, WithDetails
<1> QED
  BY <1>3 DEF d

-----------------------------------------------------------------------------
(* What the template loop does, for all its steps *)

Loop == \/ NoTemplates \/ TemplateCached \/ TemplateMatches \/ TemplateInformed
        \/ TemplateEnforced \/ TemplateUpdateFails \/ TemplateFails \/ SecondBatch \/ LoopDone

\* A policy without templates is reported at once.
Unneeded == pc = "templates" /\ evaluated.n = 0 => ~statusUpdateNeeded

WorkerOK == LocalsOK /\ Work /\ Reporting /\ Unneeded

\* What is evaluated stays the same, whatever generation a verdict is about.
SameEvaluated ==
    evaluated' \in Evaluation /\ evaluated'.uid = evaluated.uid /\ evaluated'.n = evaluated.n

\* A step that only sets conditions of the copy.
Sets ==
    /\ pc \in {"templates", "batch"} /\ pc' \in {"templates", "batch"} /\ evaluated.n # 0
    /\ policy' \in Policy /\ policy'.uid = policy.uid
    /\ policy'.status.state = policy.status.state
    /\ statusUpdateNeeded => statusUpdateNeeded'
    /\ index' \in 1 .. MaxTemplates + 1 /\ (pc' = "batch" => index' \in 1 .. evaluated.n)
    /\ batch' \in Reason /\ SameEvaluated
    /\ after' \in {after, "idle"} /\ tries' \in {tries, 0}

\* A step that enters addForUpdate.
Reports ==
    /\ pc = "templates" /\ pc' \in {"event", "update"}
    /\ policy' \in Policy /\ policy'.uid = policy.uid
    /\ policy'.status.srcUid = evaluated.uid /\ policy'.status.time = now
    /\ policy'.status.state = Compliance(policy'.status.details)
    /\ after' \in {"batch", "end"} /\ tries' = 1
    /\ after' = "batch" => pc' = "event" /\ statusUpdateNeeded' /\ index \in 1 .. evaluated.n
    /\ pc' = "update" => ~statusUpdateNeeded /\ policy'.status.state = policy.status.state
    /\ batch' \in Reason /\ UNCHANGED <<index, evaluated>>

LEMMA OneBatchEffect ==
    ASSUME NEW m \in Reason, WorkerOK, InLoop, OneBatch(m), SameEvaluated
    PROVE  Sets
<1>1. policy \in Policy /\ pc = "templates" /\ index \in 1 .. evaluated.n
  BY ConstantsAssumption DEF WorkerOK, LocalsOK, Work, InLoop
<1>2. /\ policy' \in Policy /\ policy'.uid = policy.uid
      /\ policy'.status.state = policy.status.state
  BY <1>1, ConditionSet DEF WorkerOK, OneBatch
<1>3. statusUpdateNeeded => statusUpdateNeeded'
  BY Zenon DEF OneBatch
<1>4. /\ index' = index + 1 /\ pc' = pc /\ batch' = batch /\ after' = after /\ tries' = tries
  BY DEF OneBatch
<1>5. evaluated.n \in 0 .. MaxTemplates /\ batch \in Reason
  BY DEF WorkerOK, LocalsOK, Evaluation
<1>6. index' \in 1 .. MaxTemplates + 1
  BY <1>1, <1>4, <1>5, ConstantsAssumption
<1> QED
  BY <1>1, <1>2, <1>3, <1>4, <1>5, <1>6 DEF Sets, InLoop

LEMMA TwoBatchesEffect ==
    ASSUME NEW m \in Reason, DataOK, WorkerOK, InLoop, TwoBatches(m), evaluated' = evaluated
    PROVE  Sets \/ Reports
<1>1. /\ policy \in Policy /\ pc = "templates" /\ index \in 1 .. evaluated.n
      /\ evaluated.n \in 1 .. MaxTemplates /\ batch \in Reason
      /\ index \in 1 .. MaxTemplates + 1 /\ index + 1 \in 1 .. MaxTemplates + 1
  BY ConstantsAssumption DEF WorkerOK, LocalsOK, Evaluation, Work, InLoop
<1>a. SameEvaluated
  BY DEF SameEvaluated, WorkerOK, LocalsOK
<1> DEFINE shown == [policy EXCEPT !.status.details = AddCondition(@, index, "noMatch")]
<1>2. "noMatch" \in Reason
  BY DEF Reason, NonCompliantReason
<1>3. /\ shown \in Policy /\ shown.uid = policy.uid
      /\ shown.status.state = policy.status.state
  BY <1>1, <1>2, ConditionSet DEF WorkerOK
<1> HIDE DEF shown
<1>4. CASE index' = index + 1 /\ UNCHANGED <<pc, policy, statusUpdateNeeded, batch, after, tries>>
  BY <1>1, <1>a, <1>4 DEF Sets
<1>5. CASE /\ batch' = m /\ UNCHANGED index /\ statusUpdateNeeded' = TRUE
           /\ AddForUpdate(shown, TRUE, "batch")
  <2>1. /\ policy' \in Policy /\ policy'.uid = shown.uid
        /\ policy'.status.srcUid = evaluated.uid /\ policy'.status.time = now
        /\ policy'.status.state = Compliance(policy'.status.details)
        /\ pc' = "event" /\ after' = "batch" /\ tries' = 1
    BY <1>3, <1>5, AddForUpdateEffect DEF WorkerOK
  <2> QED
    BY <1>1, <1>3, <1>5, <2>1 DEF Reports
<1>6. CASE /\ batch' = m /\ UNCHANGED index /\ pc' = "batch" /\ policy' = shown
           /\ UNCHANGED <<statusUpdateNeeded, after, tries>>
  BY <1>1, <1>a, <1>3, <1>6 DEF Sets
<1> QED
  BY <1>4, <1>5, <1>6, Zenon DEF TwoBatches, shown

LEMMA LoopEffect ==
    ASSUME DataOK, WorkerOK, Loop
    PROVE  Sets \/ Reports
<1>1. {"exists", "noMatch", "updated", "updateFailed", "templateError", "noTemplates",
       "unknown"} \subseteq Reason
  BY DEF Reason, CompliantReason, NonCompliantReason
<1>a. evaluated' = evaluated => SameEvaluated
  BY DEF SameEvaluated, WorkerOK, LocalsOK
<1>2. CASE TemplateMatches
  BY <1>1, <1>a, <1>2, OneBatchEffect DEF TemplateMatches, Judge
<1>3. CASE TemplateInformed
  BY <1>1, <1>a, <1>3, OneBatchEffect DEF TemplateInformed, Judge
<1>4. CASE TemplateFails
  BY <1>1, <1>a, <1>4, OneBatchEffect DEF TemplateFails
<1>5. CASE TemplateEnforced
  BY <1>1, <1>5, TwoBatchesEffect DEF TemplateEnforced, Judge
<1>6. CASE TemplateUpdateFails
  <2>1. InLoop /\ evaluated' = evaluated /\ (TwoBatches("updateFailed") \/ OneBatch("updateFailed"))
    BY <1>6, Zenon DEF TemplateUpdateFails, Judge
  <2> QED
    BY <1>1, <1>a, <2>1, OneBatchEffect, TwoBatchesEffect
<1>b. CASE TemplateCached
  <2>1. InLoop /\ OneBatch(verdicts[index].reason)
    BY <1>b DEF TemplateCached
  <2>2. verdicts[index].reason \in Reason /\ verdicts[index].gen \in 0 .. MaxGen
    <3>1. index \in Templates
      BY <2>1, ConstantsAssumption DEF InLoop, Templates, WorkerOK, LocalsOK, Evaluation, Work
    <3> QED
      BY <3>1 DEF DataOK, Verdict
  <2>3. evaluated \in Evaluation
    BY DEF WorkerOK, LocalsOK
  <2>4. PICK b \in 0 .. MaxGen : evaluated' = [evaluated EXCEPT !.basis = b]
    <3>1. evaluated.basis \in 0 .. MaxGen
      BY <2>3 DEF Evaluation
    <3> QED
      BY <1>b, <2>2, <3>1, Zenon DEF TemplateCached
  <2>5. SameEvaluated
    BY <2>3, <2>4 DEF SameEvaluated, Evaluation
  <2> QED
    BY <2>1, <2>2, <2>5, OneBatchEffect
<1>7. CASE SecondBatch
  <2>1. /\ policy \in Policy /\ pc = "batch" /\ index \in 1 .. evaluated.n
        /\ evaluated.n \in 1 .. MaxTemplates /\ batch \in Reason
        /\ index + 1 \in 1 .. MaxTemplates + 1
    BY <1>7, ConstantsAssumption DEF SecondBatch, WorkerOK, LocalsOK, Evaluation, Work
  <2>2. /\ policy' \in Policy /\ policy'.uid = policy.uid
        /\ policy'.status.state = policy.status.state
    BY <1>7, <2>1, ConditionSet DEF WorkerOK, SecondBatch
  <2>3. statusUpdateNeeded => statusUpdateNeeded'
    BY <1>7, Zenon DEF SecondBatch
  <2> QED
    BY <1>1, <1>a, <1>7, <2>1, <2>2, <2>3 DEF SecondBatch, Sets
<1>8. CASE LoopDone
  <2>1. /\ policy \in Policy /\ pc = "templates" /\ batch \in Reason
        /\ AddForUpdate(policy, statusUpdateNeeded, "end")
        /\ UNCHANGED <<index, evaluated, batch>>
    BY <1>8 DEF LoopDone, WorkerOK, LocalsOK, loopVars
  <2> QED
    BY <2>1, AddForUpdateEffect DEF WorkerOK, Reports
<1>9. CASE NoTemplates
  <2> DEFINE d == <<"noTemplates">>
             q == [policy EXCEPT !.status.details = d]
  <2>1. /\ policy \in Policy /\ pc = "templates" /\ batch \in Reason /\ ~statusUpdateNeeded
        /\ UNCHANGED <<index, evaluated, batch>>
    BY <1>9 DEF NoTemplates, WorkerOK, LocalsOK, loopVars, Unneeded
  <2>2. d \in Seq(Reason)
    BY <1>1
  <2> HIDE DEF d
  <2>3. q \in Policy /\ q.uid = policy.uid /\ q.status.state = policy.status.state
    BY <2>1, <2>2, WithDetails
  <2> HIDE DEF q
  <2>4. AddForUpdate(q, UpdateNeeded(policy.status.details, 1, "noTemplates"), "end")
    BY <1>9, Zenon DEF NoTemplates, q, d
  <2> QED
    BY <2>1, <2>3, <2>4, AddForUpdateEffect DEF WorkerOK, Reports
<1> QED
  BY <1>2, <1>3, <1>4, <1>5, <1>6, <1>7, <1>8, <1>9, <1>b DEF Loop

\* Reconcile begins with a copy of the informer's policy.
LEMMA BeginEffect ==
    ASSUME DataOK, ReconcileBegin
    PROVE  /\ cache \in Policy /\ pc' = "templates"
           /\ policy' \in Policy /\ policy'.uid = cache.uid
           /\ policy'.status.state = cache.status.state
           /\ evaluated'.uid = cache.uid /\ evaluated' \in Evaluation
           /\ index' = 1 /\ ~statusUpdateNeeded' /\ UNCHANGED <<batch, after, tries>>
<1>1. cache \in Policy
  BY DEF DataOK, ReconcileBegin
<1>2. cache.status.details \in Seq(Reason) /\ cache.spec.n \in 0 .. MaxTemplates
  BY <1>1, ConstantsAssumption DEF Policy, Status, PolicySpec
<1>3. cache.uid \in 0 .. MaxUid /\ cache.gen \in 0 .. MaxGen
  BY <1>1, ConstantsAssumption DEF Policy, Uids
<1> DEFINE d == Truncated(cache.status.details, cache.spec.n)
           q == [cache EXCEPT !.status.details = d]
<1>4. d \in Seq(Reason)
  <2>1. cache.spec.n \in Nat
    BY <1>2, ConstantsAssumption
  <2> QED
    BY <1>2, <2>1, TruncatedType
<1>5. policy' = q
  BY DEF ReconcileBegin
<1> HIDE DEF d
<1>6. q \in Policy /\ q.uid = cache.uid /\ q.status.state = cache.status.state
  BY <1>1, <1>4, WithDetails
<1> HIDE DEF q
<1>7. cache.spec.asks \in BOOLEAN
  BY <1>1, ConstantsAssumption DEF Policy, PolicySpec
<1>8. evaluated'.uid = cache.uid /\ evaluated' \in Evaluation
  BY <1>2, <1>3, <1>7 DEF ReconcileBegin, Evaluation
<1> QED
  BY <1>1, <1>5, <1>6, <1>8 DEF ReconcileBegin

LEMMA WorkerStep == DataOK /\ WorkerOK /\ [Next]_vars => WorkerOK'
<1> SUFFICES ASSUME DataOK, WorkerOK, [Next]_vars PROVE WorkerOK'
  OBVIOUS
<1> USE DEF WorkerOK, LocalsOK, Work, Reporting, Unneeded
<1>1. CASE UNCHANGED workerVars
  <2>1. UNCHANGED <<pc, policy, evaluated, index, batch, after, tries, statusUpdateNeeded>>
    BY <1>1, Zenon DEF workerVars, loopVars
  <2> QED
    BY <2>1
<1>2. CASE \/ Create \/ Edit \/ Delete \/ ResetCompliance \/ Tick \/ Sync \/ TimerFires
           \/ ReconcileGone \/ ReconcileSkip \/ (\E t \in Templates : ObjectChange(t))
           \/ UNCHANGED vars
  <2>1. UNCHANGED workerVars
    BY <1>2, Zenon DEF Create, Edit, Delete, ResetCompliance, Tick, Sync, TimerFires,
       ReconcileGone, ReconcileSkip, ObjectChange, vars
  <2> QED
    BY <1>1, <2>1
<1>3. CASE Crash \/ ReconcileEnd
  <2>1. Return
    BY <1>3, Zenon DEF Crash, ReconcileEnd
  <2> QED
    BY <2>1, ConstantsAssumption DEF Return, NoEvaluation, Evaluation, Reason
<1>4. CASE ReconcileBegin
  BY <1>4, BeginEffect, NoneAssumption, ConstantsAssumption
<1>5. CASE Loop
  <2>1. CASE Sets
    BY <2>1, NoneAssumption, ConstantsAssumption DEF Sets, SameEvaluated
  <2>2. CASE Reports
    <3>1. evaluated.uid = policy.uid /\ now # 0 /\ index # 0
      BY <2>2 DEF Reports, DataOK
    <3> QED
      BY <2>2, <3>1, NoneAssumption DEF Reports
  <2> QED
    BY <1>5, <2>1, <2>2, LoopEffect
<1>6. CASE SendComplianceEvent
  BY <1>6 DEF SendComplianceEvent, loopVars
<1>7. CASE SendComplianceEventFails
  BY <1>7 DEF SendComplianceEventFails, loopVars
<1>8. ASSUME pc = "update", policy' \in Policy, policy'.uid = policy.uid,
             policy'.status = policy.status,
             pc' = after \/ (pc' = "update" /\ tries' \in 1 .. 3),
             tries' \in 0 .. 4, UNCHANGED <<after, loopVars>>
      PROVE  WorkerOK'
  BY <1>8, NoneAssumption DEF loopVars
<1>9. CASE UpdateSkipped
  <2>1. /\ pc = "update" /\ policy \in Policy /\ Refreshed \in Policy
        /\ Refreshed.status = policy.status
    BY <1>9, RefreshedType DEF UpdateSkipped, Recreated
  <2>2. LET q == [Refreshed EXCEPT !.uid = policy.uid]
        IN  q \in Policy /\ q.uid = policy.uid /\ q.status = policy.status
    BY <2>1 DEF Policy
  <2> QED
    BY <1>8, <1>9, <2>1, <2>2 DEF UpdateSkipped
<1>10. CASE UpdateWritten
  BY <1>8, <1>10, RefreshedType DEF UpdateWritten
<1>11. CASE UpdateConflicts \/ UpdateFails
  <2>1. pc = "update" /\ ~Recreated /\ AttemptFails /\ policy \in Policy
    BY <1>11 DEF UpdateConflicts, UpdateFails
  <2>2. policy' \in Policy /\ policy'.uid = policy.uid /\ policy'.status = policy.status
    BY <2>1, RefreshedType DEF AttemptFails
  <2>3. tries' = tries + 1 /\ pc' = (IF tries = 3 THEN after ELSE "update") /\ tries \in 1 .. 3
    BY <2>1 DEF AttemptFails
  <2> QED
    BY <1>8, <2>1, <2>2, <2>3 DEF AttemptFails
<1> QED
  BY <1>2, <1>3, <1>4, <1>5, <1>6, <1>7, <1>9, <1>10, <1>11
     DEF Next, Environment, Worker, Loop

-----------------------------------------------------------------------------
(* The API server, the informer and the schedule *)

\* What users make of the policy.
LEMMA CreatedType ==
    ASSUME DataOK, uids < MaxUid, NEW s \in Specs
    PROVE  [uid |-> uids + 1, gen |-> 1, spec |-> s, status |-> NoStatus] \in Policy
<1>1. NoStatus \in Status
  <2>1. <<>> \in Seq(Reason)
    OBVIOUS
  <2> QED
    BY <2>1, ConstantsAssumption DEF NoStatus, Status, ComplianceState
<1> QED
  BY <1>1, ConstantsAssumption DEF Policy, Uids, DataOK

LEMMA EditedType ==
    ASSUME NEW p \in Policy, p.gen < MaxGen, NEW s \in Specs
    PROVE  LET q == [p EXCEPT !.spec = s, !.gen = p.gen + 1]
           IN  q \in Policy /\ q.uid = p.uid /\ q.status = p.status
<1>1. p.gen + 1 \in 1 .. MaxGen
  BY ConstantsAssumption DEF Policy
<1> DEFINE g == p.gen + 1
<1> HIDE DEF g
<1>2. LET q == [p EXCEPT !.spec = s, !.gen = g]
      IN  q \in Policy /\ q.uid = p.uid /\ q.status = p.status
  BY <1>1 DEF Policy, g
<1> QED
  BY <1>2 DEF g

LEMMA ResetType ==
    ASSUME NEW p \in Policy
    PROVE  LET q == [p EXCEPT !.status.state = ""]
           IN  /\ q \in Policy /\ q.uid = p.uid
               /\ q.status = [p.status EXCEPT !.state = ""]
  BY DEF Policy, Status, ComplianceState

\* What the writes of the policy are, and that they are of this type.
LEMMA Writes ==
    ASSUME DataOK, WorkerOK
    PROVE  /\ Create => \E p \in Policy :
                 /\ Write(p) /\ api = None /\ uids < MaxUid /\ uids' = uids + 1
                 /\ p.uid = uids + 1 /\ p.status = NoStatus
           /\ Edit => \E p \in Policy :
                 Write(p) /\ api \in Policy /\ p.uid = api.uid /\ p.status = api.status
           /\ ResetCompliance => \E p \in Policy :
                 /\ Write(p) /\ api \in Policy /\ p.uid = api.uid
                 /\ api.status.state # "" /\ p.status = [api.status EXCEPT !.state = ""]
           /\ UpdateWritten => \E p \in Policy :
                 /\ Write(p) /\ p = Refreshed /\ policy' = p /\ cache \in Policy
                 /\ p.uid = policy.uid /\ p.uid = cache.uid /\ p.status = policy.status
<1>1. ASSUME Create
      PROVE  \E p \in Policy :
                 /\ Write(p) /\ api = None /\ uids < MaxUid /\ uids' = uids + 1
                 /\ p.uid = uids + 1 /\ p.status = NoStatus
  <2>1. PICK s \in Specs :
           Write([uid |-> uids + 1, gen |-> 1, spec |-> s, status |-> NoStatus])
    BY <1>1 DEF Create
  <2> DEFINE p == [uid |-> uids + 1, gen |-> 1, spec |-> s, status |-> NoStatus]
  <2>2. p \in Policy /\ p.uid = uids + 1 /\ p.status = NoStatus
    BY <1>1, CreatedType DEF Create
  <2>3. api = None /\ uids < MaxUid /\ uids' = uids + 1
    BY <1>1 DEF Create
  <2> HIDE DEF p
  <2> QED
    BY <2>1, <2>2, <2>3 DEF p
<1>2. ASSUME Edit
      PROVE  \E p \in Policy :
                 Write(p) /\ api \in Policy /\ p.uid = api.uid /\ p.status = api.status
  <2>1. PICK s \in Specs : Write([api EXCEPT !.spec = s, !.gen = api.gen + 1])
    BY <1>2 DEF Edit
  <2>2. api \in Policy /\ api.gen < MaxGen
    BY <1>2 DEF Edit, DataOK
  <2> DEFINE p == [api EXCEPT !.spec = s, !.gen = api.gen + 1]
  <2>3. p \in Policy /\ p.uid = api.uid /\ p.status = api.status
    BY <2>2, EditedType
  <2> HIDE DEF p
  <2> QED
    BY <2>1, <2>2, <2>3 DEF p
<1>3. ASSUME ResetCompliance
      PROVE  \E p \in Policy :
                 /\ Write(p) /\ api \in Policy /\ p.uid = api.uid
                 /\ api.status.state # "" /\ p.status = [api.status EXCEPT !.state = ""]
  <2>1. api \in Policy /\ api.status.state # "" /\ Write([api EXCEPT !.status.state = ""])
    BY <1>3 DEF ResetCompliance, DataOK
  <2> DEFINE p == [api EXCEPT !.status.state = ""]
  <2>2. p \in Policy /\ p.uid = api.uid /\ p.status = [api.status EXCEPT !.state = ""]
    BY <2>1, ResetType
  <2> HIDE DEF p
  <2> QED
    BY <2>1, <2>2 DEF p
<1>4. ASSUME UpdateWritten
      PROVE  \E p \in Policy :
                 /\ Write(p) /\ p = Refreshed /\ policy' = p /\ cache \in Policy
                 /\ p.uid = policy.uid /\ p.uid = cache.uid /\ p.status = policy.status
  <2>1. /\ cache # None /\ cache \in Policy /\ ~Recreated /\ policy \in Policy
        /\ policy' = Refreshed /\ Write(Refreshed)
    BY <1>4 DEF UpdateWritten, WorkerOK, LocalsOK, DataOK
  <2> QED
    BY <2>1, RefreshedType
<1> QED
  BY <1>1, <1>2, <1>3, <1>4

LEMMA WriteType ==
    ASSUME DataOK, NEW p \in Policy \cup {None}, Write(p)
    PROVE  api' \in Policy \cup {None} /\ events' \in Seq(Policy \cup {None})
  BY DEF DataOK, Write

LEMMA FaultType ==
    ASSUME DataOK, NEW kind, Fault(kind)
    PROVE  faults' \in 0 .. MaxFaults
  BY ConstantsAssumption DEF DataOK, Fault

LEMMA DataStep == DataOK /\ WorkerOK /\ [Next]_vars => DataOK'
<1> SUFFICES ASSUME DataOK, WorkerOK, [Next]_vars PROVE DataOK'
  OBVIOUS
<1> USE DEF DataOK
<1>0. ASSUME api' \in Policy \cup {None}, events' \in Seq(Policy \cup {None}),
             UNCHANGED <<cache, now, timer, watched, lastEvaluated, verdicts, parent, changes>>,
             uids' \in 0 .. MaxUid, faults' \in 0 .. MaxFaults
      PROVE  DataOK'
  BY <1>0
<1>1. CASE Create
  <2>1. uids' \in 0 .. MaxUid
    BY <1>1, ConstantsAssumption DEF Create
  <2> QED
    BY <1>0, <1>1, <2>1, Writes, WriteType DEF Create, schedVars, history
<1>2. CASE Edit
  BY <1>0, <1>2, Writes, WriteType DEF Edit, clusterVars, schedVars, history
<1>3. CASE Delete
  BY <1>0, <1>3, WriteType DEF Delete, clusterVars, schedVars, history
<1>4. CASE ResetCompliance
  <2>1. faults' \in 0 .. MaxFaults
    BY <1>4, FaultType DEF ResetCompliance
  <2> QED
    BY <1>0, <1>4, <2>1, Writes, WriteType DEF ResetCompliance, clusterVars, schedVars, history
<1>v. NoVerdict \in Verdict /\ NoVerdicts \in [Templates -> Verdict]
  BY ConstantsAssumption DEF NoVerdict, NoVerdicts, Verdict, Reason
<1>5. CASE \E t \in Templates : ObjectChange(t)
  <2>1. verdicts' \in [Templates -> Verdict]
    BY <1>5, <1>v DEF ObjectChange
  <2> QED
    BY <1>5, <2>1, ConstantsAssumption DEF ObjectChange, history
<1>6. CASE Tick \/ TimerFires
  BY <1>6, ConstantsAssumption DEF Tick, TimerFires, clusterVars, schedVars, history
<1>7. CASE Sync
  <2>1. Head(events) \in Policy \cup {None} /\ Tail(events) \in Seq(Policy \cup {None})
    BY <1>7, HeadTailProperties DEF Sync
  <2>2. lastEvaluated' \in [Uids -> 0 .. MaxTime]
    <3>1. \/ lastEvaluated' = lastEvaluated
          \/ lastEvaluated' = [lastEvaluated EXCEPT ![cache.uid] = 0]
      BY <1>7, Zenon DEF Sync
    <3>2. 0 \in 0 .. MaxTime
      BY ConstantsAssumption
    <3> QED
      BY <3>1, <3>2
  <2>3. /\ cache' = Head(events) /\ events' = Tail(events)
        /\ UNCHANGED <<api, now, timer, watched, parent, changes, uids, faults>>
    BY <1>7, Zenon DEF Sync, clusterVars, history
  <2>4. verdicts' \in [Templates -> Verdict]
    BY <1>7, <1>v, Zenon DEF Sync
  <2> QED
    BY <2>1, <2>2, <2>3, <2>4
<1>8. CASE Crash
  BY <1>8, <1>v, ConstantsAssumption DEF Crash, Fault, clusterVars, history
<1>9. CASE ReconcileGone \/ ReconcileSkip
  BY <1>9, <1>v DEF ReconcileGone, ReconcileSkip, Requeued, KeptWatches, KeptVerdicts, clusterVars,
     history
<1>10. CASE ReconcileBegin
  BY <1>10, <1>v DEF ReconcileBegin, KeptVerdicts, clusterVars
<1>11. CASE Loop
  <2>1. watched' \subseteq Templates
    <3>1. InLoop => index \in Templates
      BY ConstantsAssumption DEF InLoop, Templates, WorkerOK, LocalsOK, Evaluation, Work
    <3> QED
      BY <1>11, <3>1 DEF Loop, NoTemplates, TemplateCached, TemplateMatches, TemplateInformed, TemplateEnforced,
         TemplateUpdateFails, TemplateFails, SecondBatch, LoopDone, Judge, Watches, schedVars
  <2>2. faults' \in 0 .. MaxFaults
    <3>1. faults' = faults \/ Fault("templateError")
      BY <1>11, Zenon DEF Loop, NoTemplates, TemplateCached, TemplateMatches, TemplateInformed,
         TemplateEnforced, TemplateUpdateFails, TemplateFails, SecondBatch, LoopDone
    <3> QED
      BY <3>1, FaultType
  <2>3. UNCHANGED <<api, events, cache, now, timer, lastEvaluated, parent, uids, changes>>
    BY <1>11, Zenon DEF Loop, NoTemplates, TemplateCached, TemplateMatches, TemplateInformed, TemplateEnforced,
       TemplateUpdateFails, TemplateFails, SecondBatch, LoopDone, clusterVars, schedVars, history
  <2>4. verdicts' \in [Templates -> Verdict]
    <3>1. ASSUME NEW m \in Reason, InLoop, SetEvaluated(m)
          PROVE  verdicts' \in [Templates -> Verdict]
      <4>1. policy.uid \in 0 .. MaxUid /\ evaluated.gen \in 0 .. MaxGen
        BY <3>1, ConstantsAssumption DEF InLoop, WorkerOK, LocalsOK, Evaluation, Policy, Uids
      <4> QED
        BY <3>1, <4>1 DEF SetEvaluated, Verdict
    <3>2. \/ UNCHANGED verdicts
          \/ InLoop /\ \E m \in {"exists", "noMatch", "updateFailed"} : SetEvaluated(m)
      BY <1>11, Zenon DEF Loop, NoTemplates, TemplateCached, TemplateMatches, TemplateInformed,
         TemplateEnforced, TemplateUpdateFails, TemplateFails, SecondBatch, LoopDone, Judge,
         schedVars
    <3>3. {"exists", "noMatch", "updateFailed"} \subseteq Reason
      BY DEF Reason, CompliantReason, NonCompliantReason
    <3> QED
      BY <3>1, <3>2, <3>3
  <2> QED
    BY <2>1, <2>2, <2>3, <2>4
<1>12. CASE SendComplianceEvent
  BY <1>12 DEF SendComplianceEvent, clusterVars, schedVars, WorkerOK, LocalsOK, Policy, Status
<1>13. CASE SendComplianceEventFails
  BY <1>13, ConstantsAssumption DEF SendComplianceEventFails, Fault, clusterVars, schedVars
<1>14. CASE UpdateSkipped \/ UpdateWritten
  <2>1. policy \in Policy /\ policy.status.time \in 0 .. MaxTime
    BY <1>14 DEF UpdateSkipped, UpdateWritten, WorkerOK, LocalsOK, Policy, Status
  <2>2. lastEvaluated' \in [Uids -> 0 .. MaxTime]
    BY <1>14, <2>1 DEF UpdateSkipped, UpdateWritten
  <2>3. api' \in Policy \cup {None} /\ events' \in Seq(Policy \cup {None})
    BY <1>14, Writes, WriteType DEF UpdateSkipped
  <2>4. UNCHANGED <<cache, now, timer, watched, verdicts, parent, changes, uids, faults>>
    BY <1>14, Zenon DEF UpdateSkipped, UpdateWritten, clusterVars, history
  <2> QED
    BY <2>2, <2>3, <2>4
<1>15. CASE UpdateConflicts \/ UpdateFails
  BY <1>15, ConstantsAssumption DEF UpdateConflicts, UpdateFails, AttemptFails, Fault,
     clusterVars, schedVars, history
<1>16. CASE ReconcileEnd
  BY <1>16 DEF ReconcileEnd, Requeued, KeptWatches, clusterVars, history
<1>17. CASE UNCHANGED vars
  BY <1>17 DEF vars, clusterVars, schedVars, history
<1> QED
  BY <1>1, <1>2, <1>3, <1>4, <1>5, <1>6, <1>7, <1>8, <1>9, <1>10, <1>11, <1>12, <1>13, <1>14,
     <1>15, <1>16, <1>17 DEF Next, Environment, Worker, Loop

\* What the type of the state is inductive with.
Typed == DataOK /\ WorkerOK /\ FlagsOK

LEMMA TypedInit == Init => Typed
<1> SUFFICES ASSUME Init PROVE Typed
  OBVIOUS
<1>1. DataOK
  <2>1. <<>> \in Seq(Policy \cup {None}) /\ 1 \in 1 .. MaxTime /\ 0 \in 0 .. MaxTime
    BY ConstantsAssumption
  <2>2. /\ api = None /\ cache = None /\ events = <<>> /\ now = 1 /\ timer = "none"
        /\ watched = {} /\ lastEvaluated = [u \in Uids |-> 0] /\ parent = ""
        /\ verdicts = NoVerdicts
        /\ uids = 0 /\ changes = 0 /\ faults = 0
    BY Zenon DEF Init
  <2>3. 0 \in 0 .. MaxUid /\ 0 \in 0 .. MaxChanges /\ 0 \in 0 .. MaxFaults
    BY ConstantsAssumption
  <2>4. NoVerdicts \in [Templates -> Verdict]
    BY ConstantsAssumption DEF NoVerdicts, NoVerdict, Verdict, Reason
  <2> QED
    BY <2>1, <2>2, <2>3, <2>4 DEF DataOK, ComplianceState
<1>2. WorkerOK
  <2>1. /\ pc = "idle" /\ policy = None /\ index = 0 /\ batch = "unknown" /\ after = "idle"
        /\ tries = 0 /\ evaluated = NoEvaluation
    BY Zenon DEF Init, NoEvaluation
  <2>2. 0 \in 0 .. MaxUid /\ 0 \in 0 .. MaxGen /\ 0 \in 0 .. MaxTemplates
        /\ 0 \in 0 .. MaxTemplates + 1
    BY ConstantsAssumption
  <2> QED
    BY <2>1, <2>2 DEF WorkerOK, LocalsOK, Work, Reporting, Unneeded, Reason, NoEvaluation, Evaluation
<1>3. FlagsOK
  BY Zenon DEF Init, FlagsOK
<1> QED
  BY <1>1, <1>2, <1>3 DEF Typed

\* PolicyStatus keeps its types: for any specs, numbers of templates, UIDs,
\* generations, seconds and faults, the copies of the policy that travel between
\* the API server, the informer and the worker are policies, the loop stays
\* inside the templates, and the status update is tried three times at most.
THEOREM TypeCorrect == Spec => []TypeOK
<1>1. Typed /\ [Next]_vars => Typed'
  BY DataStep, WorkerStep, FlagsStep DEF Typed, WorkerOK
<1>2. Typed => TypeOK
  BY DEF Typed, TypeOK, WorkerOK
<1> QED
  BY <1>1, <1>2, TypedInit, PTL DEF Spec

-----------------------------------------------------------------------------
(* A status belongs to the policy it is on *)

LEMMA OwnedStep ==
    DataOK /\ WorkerOK /\ StatusBelongsToPolicy /\ [Next]_vars => StatusBelongsToPolicy'
<1> SUFFICES ASSUME DataOK, WorkerOK, StatusBelongsToPolicy, [Next]_vars
             PROVE  StatusBelongsToPolicy'
  OBVIOUS
<1> USE DEF StatusBelongsToPolicy, Evaluated
<1>1. CASE Create
  <2>1. PICK p \in Policy : Write(p) /\ p.status = NoStatus
    BY <1>1, Writes
  <2>2. api' = p
    BY <2>1 DEF Write
  <2>3. p.status.time = 0
    <3>1. NoStatus.time = 0
      BY DEF NoStatus
    <3> QED
      BY <2>1, <3>1
  <2> QED
    BY <2>2, <2>3
<1>2. CASE Edit
  BY <1>2, Writes, NoneAssumption DEF Write
<1>3. CASE Delete
  BY <1>3 DEF Delete, Write
<1>4. CASE ResetCompliance
  <2>1. PICK p \in Policy : /\ Write(p) /\ api \in Policy /\ p.uid = api.uid
                            /\ p.status = [api.status EXCEPT !.state = ""]
    BY <1>4, Writes
  <2>2. p.status.time = api.status.time /\ p.status.srcUid = api.status.srcUid
    BY <2>1 DEF Policy, Status
  <2> QED
    BY <2>1, <2>2, NoneAssumption DEF Write
<1>5. CASE UpdateWritten
  <2>1. PICK p \in Policy : Write(p) /\ p.uid = policy.uid /\ p.status = policy.status
    BY <1>5, Writes
  <2>2. policy.status.srcUid = policy.uid
    BY <1>5 DEF UpdateWritten, WorkerOK, Reporting
  <2> QED
    BY <2>1, <2>2 DEF Write
<1>6. CASE api' = api
  BY <1>6
<1>7. CASE \/ Tick \/ Crash \/ (\E t \in Templates : ObjectChange(t)) \/ Sync \/ TimerFires
           \/ ReconcileGone \/ ReconcileSkip \/ ReconcileBegin \/ SendComplianceEvent
           \/ SendComplianceEventFails \/ UpdateSkipped \/ UpdateConflicts \/ UpdateFails
           \/ ReconcileEnd \/ UNCHANGED vars
  BY <1>6, <1>7, Zenon DEF Tick, Crash, ObjectChange, Sync, TimerFires, ReconcileGone,
     ReconcileSkip, ReconcileBegin, SendComplianceEvent, SendComplianceEventFails,
     UpdateSkipped, UpdateConflicts, UpdateFails, AttemptFails, ReconcileEnd, vars
<1>8. CASE Loop
  BY <1>6, <1>8, Zenon DEF Loop, NoTemplates, TemplateCached, TemplateMatches, TemplateInformed,
     TemplateEnforced, TemplateUpdateFails, TemplateFails, SecondBatch, LoopDone
<1> QED
  BY <1>1, <1>2, <1>3, <1>4, <1>5, <1>7, <1>8 DEF Next, Environment, Worker, Loop

-----------------------------------------------------------------------------
(* The versions of the policy that are on their way to the worker *)

\* The informer's copy, and the versions it is going to receive.
Versions == 1 .. Len(events) + 1
Version == [i \in Versions |-> IF i = 1 THEN cache ELSE events[i - 1]]

\* The last of them is the API server's.
EndsAtApi == api = Version[Len(events) + 1]

\* UIDs are not used again: a policy that is deleted comes back with a new one.
Grow(V, n, max) ==
    /\ \A i \in 1 .. n : V[i] # None => V[i].uid <= max
    /\ \A i, j \in 1 .. n : i < j /\ V[i] # None /\ V[j] # None => V[i].uid <= V[j].uid
    /\ \A i, j, k \in 1 .. n :
          i < k /\ k < j /\ V[i] # None /\ V[k] = None /\ V[j] # None => V[i].uid < V[j].uid
    /\ \A i, j \in 1 .. n : j = i + 1 /\ V[i] = None => V[j] # None
UidsGrow == Grow(Version, Len(events) + 1, uids)

\* No version is older than the policy that is being evaluated.
WorkerBehind ==
    pc # "idle" => /\ policy.uid <= uids
                   /\ \A i \in Versions : Version[i] # None => policy.uid <= Version[i].uid

Chain == EndsAtApi /\ UidsGrow /\ WorkerBehind

LEMMA VersionType ==
    ASSUME DataOK
    PROVE  /\ Len(events) \in Nat
           /\ Version \in [1 .. Len(events) + 1 -> Policy \cup {None}]
           /\ Version[1] = cache /\ \A i \in 1 .. Len(events) : Version[i + 1] = events[i]
  BY DEF DataOK, Version, Versions

LEMMA GrowAppend ==
    ASSUME NEW n \in Nat \ {0}, NEW V, NEW W, NEW p, NEW max \in Nat, NEW max2 \in Nat,
           \A i \in 1 .. n : V[i] \in Policy \cup {None}, p \in Policy \cup {None},
           Grow(V, n, max), max <= max2,
           \A i \in 1 .. n : W[i] = V[i], W[n + 1] = p,
           p = None => V[n] # None,
           p # None => /\ p.uid <= max2
                       /\ (V[n] # None /\ p.uid = V[n].uid) \/ p.uid > max
    PROVE  Grow(W, n + 1, max2)
<1>1. \A i \in 1 .. n : V[i] # None => V[i].uid \in Nat
  BY ConstantsAssumption DEF Policy, Uids
<1>2. p # None => p.uid \in Nat
  BY ConstantsAssumption DEF Policy, Uids
<1>3. \A i \in 1 .. n + 1 : i \in 1 .. n \/ i = n + 1
  OBVIOUS
<1>4. \A i \in 1 .. n + 1 : W[i] # None => W[i].uid <= max2
  BY <1>1, <1>2, <1>3 DEF Grow
<1>5. \A i \in 1 .. n : V[i] # None /\ p # None => V[i].uid <= p.uid
  BY <1>1, <1>2 DEF Grow
<1>6. \A i, j \in 1 .. n + 1 : i < j /\ W[i] # None /\ W[j] # None => W[i].uid <= W[j].uid
  BY <1>1, <1>2, <1>3, <1>5 DEF Grow
<1>7. \A i, k \in 1 .. n : i < k /\ V[i] # None /\ V[k] = None /\ p # None => V[i].uid < p.uid
  BY <1>1, <1>2 DEF Grow
<1>8. \A i, j, k \in 1 .. n + 1 :
         i < k /\ k < j /\ W[i] # None /\ W[k] = None /\ W[j] # None => W[i].uid < W[j].uid
  BY <1>1, <1>2, <1>3, <1>7 DEF Grow
<1>9. \A i, j \in 1 .. n + 1 : j = i + 1 /\ W[i] = None => W[j] # None
  BY <1>3 DEF Grow
<1> QED
  BY <1>4, <1>6, <1>8, <1>9 DEF Grow

LEMMA GrowShift ==
    ASSUME NEW n \in Nat \ {0}, NEW V, NEW W, NEW max \in Nat, Grow(V, n + 1, max),
           \A i \in 1 .. n : W[i] = V[i + 1]
    PROVE  Grow(W, n, max)
<1>1. \A i \in 1 .. n : i + 1 \in 1 .. n + 1
  OBVIOUS
<1> QED
  BY <1>1 DEF Grow

\* A write puts one version at the end, or none when it changes nothing.
LEMMA VersionsAppend ==
    ASSUME DataOK, EndsAtApi, NEW p \in Policy \cup {None}, Write(p), cache' = cache
    PROVE  LET n == Len(events) + 1
               m == Len(events') + 1
           IN  /\ m = n \/ m = n + 1
               /\ m = n => p = api /\ Version' = Version
               /\ \A i \in 1 .. n : Version'[i] = Version[i]
               /\ Version'[m] = p
<1>1. events \in Seq(Policy \cup {None}) /\ Len(events) \in Nat
  BY DEF DataOK
<1>2. CASE p = api
  <2>1. events' = events
    BY <1>2 DEF Write
  <2> QED
    BY <1>1, <1>2, <2>1 DEF Version, Versions, EndsAtApi
<1>3. CASE p # api
  <2>1. events' = Append(events, p)
    BY <1>3 DEF Write
  <2>2. /\ Len(events') = Len(events) + 1 /\ events'[Len(events) + 1] = p
        /\ \A i \in 1 .. Len(events) : events'[i] = events[i]
    BY <1>1, <2>1, AppendProperties
  <2>3. Versions = 1 .. Len(events) + 1 /\ Versions' = 1 .. Len(events) + 2
    BY <1>1, <2>2 DEF Versions
  <2>4. ASSUME NEW i \in 1 .. Len(events) + 1 PROVE Version'[i] = Version[i]
    <3>1. i \in Versions /\ i \in Versions'
      BY <1>1, <2>3
    <3>2. CASE i = 1
      BY <3>1, <3>2 DEF Version
    <3>3. CASE i # 1
      <4>1. i - 1 \in 1 .. Len(events)
        BY <1>1, <3>3
      <4> QED
        BY <2>2, <3>1, <3>3, <4>1 DEF Version
    <3> QED
      BY <3>2, <3>3
  <2>5. Version'[Len(events) + 2] = p
    <3>1. Len(events) + 2 \in Versions' /\ Len(events) + 2 # 1
          /\ (Len(events) + 2) - 1 = Len(events) + 1
      BY <1>1, <2>3
    <3> QED
      BY <2>2, <3>1 DEF Version
  <2> QED
    BY <1>1, <2>2, <2>4, <2>5
<1> QED
  BY <1>2, <1>3

\* The informer takes the next version.
LEMMA VersionsShift ==
    ASSUME DataOK, Sync
    PROVE  /\ Len(events) \in Nat \ {0} /\ Len(events') + 1 = Len(events)
           /\ \A i \in 1 .. Len(events) : Version'[i] = Version[i + 1]
           /\ cache' = Version[2]
<1>1. events \in Seq(Policy \cup {None}) /\ events # <<>> /\ Len(events) \in Nat \ {0}
  BY DEF DataOK, Sync
<1>2. cache' = events[1] /\ events' = Tail(events)
  BY <1>1 DEF Sync
<1>3. /\ Len(events') = Len(events) - 1
      /\ \A i \in 1 .. Len(events) - 1 : events'[i] = events[i + 1]
  BY <1>1, <1>2
<1> QED
  BY <1>1, <1>2, <1>3 DEF Version, Versions

LEMMA VersionsReload ==
    ASSUME DataOK, Crash
    PROVE  Len(events') = 0 /\ Version'[1] = api /\ cache' = api /\ api' = api
  BY DEF Crash, Version, Versions

\* Steps that neither write nor read a version.
Frame == <<api, events, cache, uids, lastEvaluated, sameSecond>>

LEMMA SameVersions ==
    ASSUME UNCHANGED <<events, cache>>
    PROVE  Version' = Version /\ Versions' = Versions
  BY DEF Version, Versions

Quiet == /\ UNCHANGED <<Frame, pc, policy, staleStart, parent, unwritten, unsent,
                        statusUpdateNeeded, after>>
         /\ queued => queued' \/ cache = None \/ cache.status.state # ""

LEMMA QuietSteps ==
    ASSUME \/ Tick \/ (\E t \in Templates : ObjectChange(t)) \/ TimerFires \/ ReconcileGone
           \/ ReconcileSkip \/ UNCHANGED vars
    PROVE  Quiet
<1>1. UNCHANGED <<Frame, pc, policy, staleStart, parent, unwritten, unsent, statusUpdateNeeded,
                  after>>
  BY Zenon DEF Tick, ObjectChange, TimerFires, ReconcileGone, ReconcileSkip, vars, Frame,
     clusterVars, schedVars, workerVars, loopVars, history
<1>2. CASE Tick \/ (\E t \in Templates : ObjectChange(t)) \/ TimerFires \/ ReconcileGone
           \/ UNCHANGED vars
  <2>1. queued => queued' \/ cache = None
    BY <1>2, Zenon DEF Tick, ObjectChange, TimerFires, ReconcileGone, vars, schedVars
  <2> QED
    BY <1>1, <2>1 DEF Quiet
<1>3. CASE ReconcileSkip
  <2>1. queued' = NotSynced(cache) /\ ~ShouldEvaluate(cache)
    BY <1>3, Zenon DEF ReconcileSkip
  <2>2. queued' \/ cache.status.state # ""
    BY <2>1, Zenon DEF ShouldEvaluate
  <2> QED
    BY <1>1, <2>2 DEF Quiet
<1> QED
  BY <1>2, <1>3

LEMMA LoopFrame ==
    ASSUME Loop
    PROVE  /\ UNCHANGED <<Frame, staleStart, parent, unwritten, unsent>>
           /\ queued => queued'
<1>1. UNCHANGED <<Frame, staleStart, parent, unwritten, unsent>>
  BY Zenon DEF Loop, NoTemplates, TemplateCached, TemplateMatches, TemplateInformed, TemplateEnforced,
     TemplateUpdateFails, TemplateFails, SecondBatch, LoopDone, Frame, clusterVars, schedVars,
     history
<1>2. queued => queued'
  BY Zenon DEF Loop, NoTemplates, TemplateCached, TemplateMatches, TemplateInformed, TemplateEnforced,
     TemplateUpdateFails, TemplateFails, SecondBatch, LoopDone, schedVars
<1> QED
  BY <1>1, <1>2

LEMMA AttemptFrame ==
    ASSUME UpdateConflicts \/ UpdateFails
    PROVE  /\ pc = "update" /\ ~Recreated /\ AttemptFails
           /\ pc' \in {"update", after}
           /\ UNCHANGED <<Frame, queued, staleStart, parent, unwritten, unsent,
                          statusUpdateNeeded, after>>
  BY Zenon DEF UpdateConflicts, UpdateFails, AttemptFails, Frame, clusterVars, schedVars, loopVars,
     history

\* A step of the worker leaves the UID of its copy alone.
LEMMA SameUid ==
    ASSUME DataOK, WorkerOK, pc # "idle",
           \/ Loop \/ SendComplianceEvent \/ SendComplianceEventFails \/ UpdateSkipped
           \/ UpdateWritten \/ UpdateConflicts \/ UpdateFails
    PROVE  /\ policy' \in Policy /\ policy'.uid = policy.uid
           /\ ~Loop => policy'.status = policy.status
<1>0. policy \in Policy
  BY DEF WorkerOK, LocalsOK
<1>1. CASE Loop
  <2>1. CASE Sets
    BY <1>1, <2>1 DEF Sets
  <2>2. CASE Reports
    BY <1>1, <2>2 DEF Reports
  <2> QED
    BY <1>1, <2>1, <2>2, LoopEffect
<1>2. CASE SendComplianceEvent \/ SendComplianceEventFails
  BY <1>0, <1>2 DEF SendComplianceEvent, SendComplianceEventFails
<1>3. CASE UpdateSkipped
  <2>1. Refreshed \in Policy /\ Refreshed.status = policy.status
    BY <1>0, <1>3, RefreshedType DEF UpdateSkipped, Recreated
  <2>2. LET q == [Refreshed EXCEPT !.uid = policy.uid]
        IN  q \in Policy /\ q.uid = policy.uid /\ q.status = policy.status
    BY <1>0, <2>1 DEF Policy
  <2> QED
    BY <1>3, <2>2 DEF UpdateSkipped
<1>4. CASE UpdateWritten
  BY <1>4, Writes
<1>5. CASE UpdateConflicts \/ UpdateFails
  BY <1>0, <1>5, AttemptFrame, RefreshedType DEF AttemptFails
<1> QED
  BY <1>1, <1>2, <1>3, <1>4, <1>5

LEMMA ChainKept ==
    ASSUME Chain, UNCHANGED Frame,
           pc' # "idle" => pc # "idle" /\ policy'.uid = policy.uid
    PROVE  Chain'
<1>1. Version' = Version /\ Versions' = Versions /\ UNCHANGED <<api, events, uids>>
  BY SameVersions DEF Frame
<1> QED
  BY <1>1 DEF Chain, EndsAtApi, UidsGrow, WorkerBehind

LEMMA ChainAppend ==
    ASSUME DataOK, WorkerOK, DataOK', Chain, NEW p \in Policy \cup {None}, Write(p),
           cache' = cache,
           pc' # "idle" => pc # "idle" /\ policy'.uid = policy.uid,
           uids' \in Nat, uids <= uids',
           p = None => api # None,
           p # None => /\ p.uid <= uids'
                       /\ (api # None /\ p.uid = api.uid) \/ p.uid > uids
    PROVE  Chain'
<1> DEFINE n == Len(events) + 1
           m == Len(events') + 1
<1>1. /\ n \in Nat \ {0} /\ Versions = 1 .. n /\ Version \in [1 .. n -> Policy \cup {None}]
      /\ Versions' = 1 .. m
  BY VersionType DEF Versions
<1>2. /\ m = n \/ m = n + 1
      /\ m = n => p = api /\ Version' = Version
      /\ \A i \in 1 .. n : Version'[i] = Version[i]
      /\ Version'[m] = p
  BY VersionsAppend DEF Chain
<1>3. EndsAtApi'
  BY <1>2 DEF EndsAtApi, Write
<1>4. uids \in Nat /\ api = Version[n] /\ Grow(Version, n, uids)
  BY ConstantsAssumption DEF DataOK, Chain, EndsAtApi, UidsGrow
<1>5. UidsGrow'
  <2>1. CASE m = n
    <3>1. \A i \in 1 .. n : Version[i] # None => Version[i].uid \in Nat
      BY <1>1, ConstantsAssumption DEF Policy, Uids
    <3> QED
      BY <1>2, <1>4, <2>1, <3>1 DEF UidsGrow, Grow
  <2>2. CASE m = n + 1
    <3>1. Grow(Version', n + 1, uids')
      BY <1>1, <1>2, <1>4, <2>2, GrowAppend, ZenonT(60)
    <3> QED
      BY <2>2, <3>1 DEF UidsGrow
  <2> QED
    BY <1>2, <2>1, <2>2
<1>6. WorkerBehind'
  <2>1. SUFFICES ASSUME pc' # "idle"
                 PROVE  /\ policy.uid <= uids'
                        /\ \A i \in Versions' : Version'[i] # None => policy.uid <= Version'[i].uid
    BY DEF WorkerBehind
  <2>2. /\ policy.uid <= uids
        /\ \A i \in 1 .. n : Version[i] # None => policy.uid <= Version[i].uid
    BY <1>1, <2>1 DEF Chain, WorkerBehind
  <2>3. policy.uid \in Nat /\ (p # None => p.uid \in Nat)
    BY <2>1, ConstantsAssumption DEF WorkerOK, LocalsOK, Policy, Uids
  <2>4. p # None => policy.uid <= p.uid
    BY <1>1, <1>4, <2>2, <2>3
  <2>5. \A i \in Versions' : i \in 1 .. n \/ (i = m /\ Version'[i] = p)
    BY <1>1, <1>2
  <2> QED
    BY <1>2, <1>4, <2>2, <2>3, <2>4, <2>5
<1> QED
  BY <1>3, <1>5, <1>6 DEF Chain

LEMMA ChainStep == DataOK /\ WorkerOK /\ Chain /\ [Next]_vars => Chain'
<1> SUFFICES ASSUME DataOK, WorkerOK, Chain, [Next]_vars PROVE Chain'
  OBVIOUS
<1>0. DataOK' /\ uids \in Nat
  BY DataStep, ConstantsAssumption DEF DataOK
<1>1. CASE \/ Tick \/ (\E t \in Templates : ObjectChange(t)) \/ TimerFires \/ ReconcileGone
           \/ ReconcileSkip \/ UNCHANGED vars
  BY <1>1, QuietSteps, ChainKept DEF Quiet
<1>2. CASE Create
  <2>1. PICK p \in Policy : Write(p) /\ uids' = uids + 1 /\ p.uid = uids + 1
    BY <1>2, Writes
  <2>2. cache' = cache /\ pc' = pc /\ policy' = policy
    BY <1>2 DEF Create, workerVars
  <2> QED
    BY <1>0, <2>1, <2>2, ChainAppend, NoneAssumption
<1>3. CASE Edit \/ ResetCompliance
  <2>1. PICK p \in Policy : Write(p) /\ api \in Policy /\ p.uid = api.uid
    BY <1>3, Writes
  <2>2. cache' = cache /\ pc' = pc /\ policy' = policy /\ uids' = uids
    BY <1>3 DEF Edit, ResetCompliance, workerVars, clusterVars
  <2>3. p.uid <= uids
    BY <1>0, <2>1, VersionType, NoneAssumption DEF Chain, EndsAtApi, UidsGrow, Grow
  <2> QED
    BY <1>0, <2>1, <2>2, <2>3, ChainAppend, NoneAssumption
<1>4. CASE Delete
  <2>1. Write(None) /\ api # None /\ cache' = cache /\ pc' = pc /\ policy' = policy /\ uids' = uids
    BY <1>4 DEF Delete, workerVars, clusterVars
  <2> QED
    BY <1>0, <2>1, ChainAppend
<1>5. CASE UpdateWritten
  <2>1. PICK p \in Policy : Write(p) /\ p.uid = cache.uid /\ cache \in Policy
    BY <1>5, Writes
  <2>2. cache' = cache /\ pc = "update" /\ uids' = uids /\ events = <<>>
    BY <1>5 DEF UpdateWritten, clusterVars
  <2>3. policy'.uid = policy.uid
    BY <1>5, <2>2, SameUid
  <2>4. api = cache
    BY <2>2, VersionType DEF Chain, EndsAtApi
  <2>5. p.uid <= uids
    BY <2>1, <2>4, VersionType, NoneAssumption DEF Chain, EndsAtApi, UidsGrow, Grow
  <2> QED
    BY <1>0, <2>1, <2>2, <2>3, <2>4, <2>5, ChainAppend, NoneAssumption
<1>6. CASE Sync
  <2> DEFINE n == Len(events)
  <2>1. /\ n \in Nat \ {0} /\ Len(events') + 1 = n
        /\ \A i \in 1 .. n : Version'[i] = Version[i + 1]
    BY <1>6, VersionsShift
  <2>2. Versions = 1 .. n + 1 /\ Versions' = 1 .. n
    BY <2>1 DEF Versions
  <2>3. api' = api /\ uids' = uids /\ pc' = pc /\ policy' = policy
    BY <1>6 DEF Sync, clusterVars, workerVars
  <2>4. EndsAtApi'
    BY <2>1, <2>3 DEF Chain, EndsAtApi
  <2>5. UidsGrow'
    <3>1. Grow(Version', n, uids)
      BY <1>0, <2>1, GrowShift DEF Chain, UidsGrow
    <3> QED
      BY <2>1, <2>3, <3>1 DEF UidsGrow
  <2>6. WorkerBehind'
    BY <2>1, <2>2, <2>3 DEF Chain, WorkerBehind
  <2> QED
    BY <2>4, <2>5, <2>6 DEF Chain
<1>7. CASE Crash
  <2>1. /\ Len(events') = 0 /\ Version'[1] = api /\ api' = api /\ pc' = "idle" /\ uids' = uids
    BY <1>7, VersionsReload DEF Crash, Return, clusterVars
  <2>2. api # None => api.uid <= uids
    BY VersionType DEF Chain, EndsAtApi, UidsGrow, Grow
  <2> QED
    BY <2>1, <2>2 DEF Chain, EndsAtApi, UidsGrow, WorkerBehind, Grow
<1>8. CASE ReconcileBegin
  <2>1. policy'.uid = cache.uid /\ cache \in Policy
    BY <1>8, BeginEffect
  <2>2. UNCHANGED <<api, events, cache, uids>>
    BY <1>8 DEF ReconcileBegin, clusterVars
  <2>3. Version' = Version /\ Versions' = Versions
    BY <2>2, SameVersions
  <2>4. /\ cache.uid <= uids
        /\ \A i \in Versions : Version[i] # None => cache.uid <= Version[i].uid
    <3>1. cache.uid \in Nat /\ Version[1] # None /\ Version[1] = cache
      BY <2>1, VersionType, NoneAssumption, ConstantsAssumption DEF Policy, Uids
    <3> QED
      BY <1>0, <3>1, VersionType DEF Chain, UidsGrow, Grow, Versions
  <2> QED
    BY <2>1, <2>2, <2>3, <2>4 DEF Chain, EndsAtApi, UidsGrow, WorkerBehind
<1>9. CASE Loop
  <2>1. pc # "idle"
    BY <1>9, LoopEffect DEF Sets, Reports
  <2> QED
    BY <1>9, <2>1, LoopFrame, SameUid, ChainKept
<1>10. CASE SendComplianceEvent \/ SendComplianceEventFails
  <2>1. UNCHANGED Frame /\ pc = "event"
    BY <1>10, Zenon DEF SendComplianceEvent, SendComplianceEventFails, Frame, clusterVars,
       schedVars, history
  <2> QED
    BY <1>10, <2>1, SameUid, ChainKept
<1>11. CASE UpdateSkipped
  <2>1. UNCHANGED <<api, events, cache, uids>> /\ pc = "update"
    BY <1>11 DEF UpdateSkipped, clusterVars
  <2>2. Version' = Version /\ Versions' = Versions /\ policy'.uid = policy.uid
    BY <1>11, <2>1, SameVersions, SameUid
  <2> QED
    BY <2>1, <2>2 DEF Chain, EndsAtApi, UidsGrow, WorkerBehind
<1>12. CASE UpdateConflicts \/ UpdateFails
  BY <1>12, AttemptFrame, SameUid, ChainKept
<1>13. CASE ReconcileEnd
  <2>1. UNCHANGED Frame /\ pc' = "idle"
    BY <1>13, Zenon DEF ReconcileEnd, Return, Frame, clusterVars, schedVars, history
  <2> QED
    BY <2>1, ChainKept
<1> QED
  BY <1>1, <1>2, <1>3, <1>4, <1>5, <1>6, <1>7, <1>8, <1>9, <1>10, <1>11, <1>12, <1>13
     DEF Next, Environment, Worker, Loop

-----------------------------------------------------------------------------
(* An evaluation does not start from a replaced status *)

Current(v) == api # None /\ v # None /\ v.uid = api.uid
Cleared(s) == [s EXCEPT !.state = ""]
SameButReset(v) == api.status \in {v.status, Cleared(v.status)}

\* A version whose status was replaced is one that lastEvaluatedCache refuses:
\* there is at most one status write on the way to the informer.
Refused ==
    \A i \in Versions : Current(Version[i]) =>
        \/ SameButReset(Version[i]) \/ sameSecond
        \/ lastEvaluated[api.uid] # 0 /\ lastEvaluated[api.uid] # Version[i].status.time

LEMMA ClearedTwice ==
    ASSUME NEW s \in Status
    PROVE  Cleared(s) \in Status /\ Cleared(Cleared(s)) = Cleared(s)
  BY DEF Cleared, Status, ComplianceState

LEMMA VersionUid ==
    ASSUME DataOK, Chain, NEW i \in Versions, Version[i] # None
    PROVE  /\ Version[i] \in Policy /\ Version[i].uid \in Nat
           /\ uids \in Nat /\ Version[i].uid <= uids
<1>1. i \in 1 .. Len(events) + 1 /\ Version[i] \in Policy
  BY VersionType DEF Versions
<1>2. Version[i].uid \in Nat /\ uids \in Nat
  BY <1>1, ConstantsAssumption DEF Policy, Uids, DataOK
<1>3. Version[i].uid <= uids
  BY <1>1 DEF Chain, UidsGrow, Grow
<1> QED
  BY <1>1, <1>2, <1>3

\* The versions on the way, seen from a new one.
LEMMA CurrentAppended ==
    ASSUME DataOK, WorkerOK, DataOK', Chain, NEW p \in Policy \cup {None}, Write(p),
           cache' = cache,
           \/ p = None
           \/ p # None /\ p.uid > uids
           \/ p # None /\ api # None /\ p.uid = api.uid,
           NEW i \in Versions', Current(Version[i])'
    PROVE  /\ p # None /\ api' = p
           /\ \/ Version'[i] = p
              \/ i \in Versions /\ Version'[i] = Version[i] /\ Current(Version[i]) /\ p.uid = api.uid
<1> DEFINE n == Len(events) + 1
           m == Len(events') + 1
<1>1. /\ n \in Nat \ {0} /\ Versions = 1 .. n /\ Version \in [1 .. n -> Policy \cup {None}]
      /\ Versions' = 1 .. m
  BY VersionType DEF Versions
<1>2. /\ m = n \/ m = n + 1
      /\ \A k \in 1 .. n : Version'[k] = Version[k]
      /\ Version'[m] = p
  BY VersionsAppend DEF Chain
<1>3. api' = p /\ p # None /\ Version'[i] # None /\ Version'[i].uid = p.uid
  BY DEF Current, Write
<1>4. CASE i = m
  BY <1>2, <1>3, <1>4
<1>5. CASE i # m
  <2>1. i \in 1 .. n /\ Version'[i] = Version[i]
    BY <1>1, <1>2, <1>5
  <2>2. Version[i].uid <= uids /\ Version[i].uid \in Nat /\ uids \in Nat
    BY <1>1, <1>3, <2>1, VersionUid
  <2>3. api # None /\ p.uid = api.uid
    BY <1>3, <2>1, <2>2
  <2> QED
    BY <1>1, <1>3, <2>1, <2>3 DEF Current
<1> QED
  BY <1>4, <1>5

LEMMA RefusedAppend ==
    ASSUME DataOK, WorkerOK, DataOK', Chain, Refused, NEW p \in Policy \cup {None}, Write(p),
           UNCHANGED <<cache, lastEvaluated, sameSecond>>,
           \/ p = None
           \/ p # None /\ p.uid > uids
           \/ /\ p # None /\ api # None /\ p.uid = api.uid
              /\ p.status \in {api.status, Cleared(api.status)}
    PROVE  Refused'
<1> SUFFICES ASSUME NEW i \in Versions', Current(Version[i])'
             PROVE  \/ SameButReset(Version[i])' \/ sameSecond'
                    \/ /\ lastEvaluated'[api'.uid] # 0
                       /\ lastEvaluated'[api'.uid] # Version'[i].status.time
  BY DEF Refused
<1>1. /\ p # None /\ api' = p
      /\ \/ Version'[i] = p
         \/ i \in Versions /\ Version'[i] = Version[i] /\ Current(Version[i]) /\ p.uid = api.uid
  BY CurrentAppended
<1>2. CASE Version'[i] = p
  BY <1>1, <1>2 DEF SameButReset
<1>3. CASE i \in Versions /\ Version'[i] = Version[i] /\ Current(Version[i]) /\ p.uid = api.uid
  <2>1. /\ api \in Policy /\ api.uid <= uids /\ api.uid \in Nat /\ uids \in Nat
    <3>1. api = Version[Len(events) + 1] /\ Len(events) + 1 \in Versions /\ api # None
      BY <1>3, VersionType DEF Chain, EndsAtApi, Versions, Current
    <3> QED
      BY <3>1, VersionUid
  <2>2. p.status \in {api.status, Cleared(api.status)}
    BY <1>1, <1>3, <2>1
  <2>3. CASE SameButReset(Version[i])
    <3>1. Version[i] \in Policy /\ Version[i].status \in Status
      BY <1>3, VersionUid DEF Current, Policy
    <3>2. p.status \in {Version[i].status, Cleared(Version[i].status)}
      BY <2>2, <2>3, <3>1, ClearedTwice DEF SameButReset
    <3> QED
      BY <1>1, <1>3, <3>2 DEF SameButReset
  <2> QED
    BY <1>1, <1>3, <2>3 DEF Refused
<1> QED
  BY <1>1, <1>2, <1>3

LEMMA RefusedStep == DataOK /\ WorkerOK /\ Chain /\ Refused /\ [Next]_vars => Refused'
<1> SUFFICES ASSUME DataOK, WorkerOK, Chain, Refused, [Next]_vars PROVE Refused'
  OBVIOUS
<1>0. DataOK'
  BY DataStep
<1>1. ASSUME UNCHANGED Frame PROVE Refused'
  <2>1. Version' = Version /\ Versions' = Versions
        /\ UNCHANGED <<api, lastEvaluated, sameSecond>>
    BY <1>1, SameVersions DEF Frame
  <2> QED
    BY <2>1 DEF Refused, Current, SameButReset
<1>2. CASE Create
  <2>1. PICK p \in Policy : Write(p) /\ p.uid = uids + 1
    BY <1>2, Writes
  <2>2. UNCHANGED <<cache, lastEvaluated, sameSecond>>
    BY <1>2 DEF Create, schedVars, history
  <2>3. p.uid > uids /\ p # None
    BY <2>1, NoneAssumption, ConstantsAssumption DEF DataOK
  <2> QED
    BY <1>0, <2>1, <2>2, <2>3, RefusedAppend
<1>3. CASE Edit \/ ResetCompliance
  <2>1. PICK p \in Policy : /\ Write(p) /\ api \in Policy /\ p.uid = api.uid
                            /\ p.status \in {api.status, Cleared(api.status)}
    BY <1>3, Writes DEF Cleared
  <2>2. UNCHANGED <<cache, lastEvaluated, sameSecond>>
    BY <1>3 DEF Edit, ResetCompliance, schedVars, history
  <2> QED
    BY <1>0, <2>1, <2>2, RefusedAppend, NoneAssumption
<1>4. CASE Delete
  <2>1. Write(None) /\ UNCHANGED <<cache, lastEvaluated, sameSecond>>
    BY <1>4 DEF Delete, schedVars, history
  <2> QED
    BY <1>0, <2>1, RefusedAppend
<1>5. CASE UpdateWritten
  <2>1. PICK p \in Policy : /\ Write(p) /\ p.uid = cache.uid /\ p.uid = policy.uid
                            /\ cache \in Policy /\ p.status = policy.status
    BY <1>5, Writes
  <2>2. /\ cache' = cache /\ events = <<>> /\ pc = "update"
        /\ lastEvaluated' = [lastEvaluated EXCEPT ![policy.uid] = policy.status.time]
        /\ sameSecond' = (policy.status.time = api.status.time)
    BY <1>5 DEF UpdateWritten
  <2>3. api = cache /\ Versions = {1} /\ Version[1] = cache
    BY <2>2, VersionType DEF Chain, EndsAtApi, Versions
  <2>4. lastEvaluated'[p.uid] = p.status.time /\ p.status.time # 0
    BY <2>1, <2>2 DEF WorkerOK, Reporting, DataOK, Policy
  <2>5. ASSUME NEW i \in Versions', Current(Version[i])'
        PROVE  \/ SameButReset(Version[i])' \/ sameSecond'
               \/ /\ lastEvaluated'[api'.uid] # 0
                  /\ lastEvaluated'[api'.uid] # Version'[i].status.time
    <3>1. api' = p /\ (Version'[i] = p \/ Version'[i] = cache)
      BY <1>0, <2>1, <2>2, <2>3, <2>5, CurrentAppended, NoneAssumption
    <3>2. CASE Version'[i] = p
      BY <3>1, <3>2 DEF SameButReset
    <3>3. CASE Version'[i] = cache
      <4>1. sameSecond' \/ p.status.time # cache.status.time
        BY <2>1, <2>2, <2>3, Zenon
      <4> QED
        BY <2>4, <3>1, <3>3, <4>1
    <3> QED
      BY <3>1, <3>2, <3>3
  <2> QED
    BY <2>5 DEF Refused
<1>6. CASE Sync
  <2> DEFINE n == Len(events)
  <2>1. /\ n \in Nat \ {0} /\ Len(events') + 1 = n
        /\ \A i \in 1 .. n : Version'[i] = Version[i + 1]
        /\ cache' = Version[2]
    BY <1>6, VersionsShift
  <2>2. Versions = 1 .. n + 1 /\ Versions' = 1 .. n /\ Version[1] = cache
    BY <2>1, VersionType DEF Versions
  <2>3. UNCHANGED <<api, sameSecond>>
    BY <1>6 DEF Sync, history
  <2>4. ASSUME NEW i \in Versions', Current(Version[i])'
        PROVE  \/ SameButReset(Version[i])' \/ sameSecond'
               \/ /\ lastEvaluated'[api'.uid] # 0
                  /\ lastEvaluated'[api'.uid] # Version'[i].status.time
    <3>1. i + 1 \in Versions /\ Version'[i] = Version[i + 1] /\ Current(Version[i + 1])
      BY <2>1, <2>2, <2>3, <2>4 DEF Current
    <3>2. lastEvaluated'[api.uid] = lastEvaluated[api.uid]
      <4>1. CASE cache' # None
        BY <1>6, <4>1 DEF Sync
      <4>2. CASE cache' = None
        <5>1. Version[2] = None /\ Version[i + 1] # None /\ 1 \in 1 .. n + 1 /\ 2 \in 1 .. n + 1
          BY <2>1, <3>1, <4>2 DEF Current
        <5>2. cache # None
          BY <2>2, <5>1 DEF Chain, UidsGrow, Grow
        <5>3. i + 1 \in 1 .. n + 1 /\ 1 < 2 /\ 2 < i + 1
          BY <2>1, <2>2, <3>1, <5>1
        <5>4. cache.uid < Version[i + 1].uid
          BY <2>2, <5>1, <5>2, <5>3 DEF Chain, UidsGrow, Grow
        <5>5. cache.uid \in Uids /\ api.uid \in Uids /\ api.uid # cache.uid
          BY <3>1, <5>2, <5>4, ConstantsAssumption DEF Current, DataOK, Policy, Uids
        <5> QED
          BY <1>6, <4>2, <5>5 DEF Sync, DataOK
      <4> QED
        BY <4>1, <4>2
    <3> QED
      BY <2>3, <3>1, <3>2 DEF Refused, SameButReset
  <2> QED
    BY <2>4 DEF Refused
<1>7. CASE Crash
  <2>1. Len(events') = 0 /\ Version'[1] = api /\ api' = api /\ Versions' = {1}
    BY <1>0, <1>7, VersionsReload DEF Versions
  <2> QED
    BY <2>1 DEF Refused, SameButReset
<1>8. CASE UpdateSkipped
  <2>1. /\ UNCHANGED <<api, events, cache, sameSecond>> /\ pc = "update"
        /\ lastEvaluated' = [lastEvaluated EXCEPT ![policy.uid] = policy.status.time]
        /\ cache # None /\ cache.uid # policy.uid
    BY <1>8 DEF UpdateSkipped, Recreated, history
  <2>2. Version' = Version /\ Versions' = Versions
    BY <2>1, SameVersions
  <2>3. ASSUME NEW i \in Versions, Current(Version[i])
        PROVE  lastEvaluated'[api.uid] = lastEvaluated[api.uid]
    <3>0. policy.uid \in Uids /\ cache.uid \in Uids /\ api.uid \in Uids
      BY <2>1, <2>3 DEF Current, DataOK, WorkerOK, LocalsOK, Policy
    <3>1. policy.uid \in Nat /\ cache.uid \in Nat /\ api.uid \in Nat
      BY <3>0, ConstantsAssumption DEF Uids
    <3>2. policy.uid <= cache.uid
      BY <2>1, VersionType DEF Chain, WorkerBehind, Versions
    <3>3. cache.uid <= Version[i].uid
      <4>1. Version[1] = cache /\ 1 \in 1 .. Len(events) + 1 /\ i \in 1 .. Len(events) + 1
        BY <2>3, VersionType DEF Versions
      <4>2. CASE i = 1
        BY <3>1, <4>1, <4>2
      <4>3. CASE i # 1
        <5>1. 1 < i /\ Version[i] # None
          BY <2>3, <4>1, <4>3 DEF Current
        <5> QED
          BY <2>1, <4>1, <5>1 DEF Chain, UidsGrow, Grow
      <4> QED
        BY <4>2, <4>3
    <3>4. policy.uid # api.uid
      <4>1. Version[i].uid = api.uid
        BY <2>3 DEF Current
      <4> QED
        BY <2>1, <3>1, <3>2, <3>3, <4>1
    <3> QED
      BY <2>1, <3>0, <3>4 DEF DataOK
  <2> QED
    BY <2>1, <2>2, <2>3 DEF Refused, Current, SameButReset
<1>9. CASE \/ Tick \/ (\E t \in Templates : ObjectChange(t)) \/ TimerFires \/ ReconcileGone
           \/ ReconcileSkip \/ UNCHANGED vars
  BY <1>1, <1>9, QuietSteps DEF Quiet
<1>10. CASE Loop
  BY <1>1, <1>10, LoopFrame
<1>11. CASE SendComplianceEvent \/ SendComplianceEventFails \/ ReconcileEnd \/ ReconcileBegin
  <2>1. UNCHANGED Frame
    BY <1>11, Zenon DEF SendComplianceEvent, SendComplianceEventFails, ReconcileEnd,
       ReconcileBegin, Frame, clusterVars, schedVars, history
  <2> QED
    BY <1>1, <2>1
<1>12. CASE UpdateConflicts \/ UpdateFails
  BY <1>1, <1>12, AttemptFrame
<1> QED
  BY <1>2, <1>3, <1>4, <1>5, <1>6, <1>7, <1>8, <1>9, <1>10, <1>11, <1>12
     DEF Next, Environment, Worker, Loop

-----------------------------------------------------------------------------
(* What the parent was told *)

\* A compliance that was not reset is the one of the conditions.
Honest ==
    \A i \in Versions : Version[i] # None /\ Version[i].status.state # "" =>
        Version[i].status.state = Compliance(Version[i].status.details)

\* The parent knows the compliance on the API server, also one that was reset
\* since.
Settled ==
    ~unwritten /\ ~staleStart =>
        \A i \in Versions :
            Current(Version[i]) /\ SameButReset(Version[i]) /\ Version[i].status.state # ""
                => parent = Version[i].status.state

\* The compliance an evaluation starts from is known to the parent, unless
\* addForUpdate is going to send an event anyway.
Consistent ==
    ~unwritten /\ ~staleStart /\ Current(policy) =>
        /\ pc \in {"templates", "batch"} /\ ~statusUpdateNeeded
              => policy.status.state \in {"", parent}
        /\ pc = "update" => policy.status.state = parent

\* After the first of two batches the loop will report the second.
BatchNeeded == pc \in {"event", "update"} /\ after = "batch" => statusUpdateNeeded

\* The steps that leave the copies and what the parent knows alone.
Told == <<api, events, cache, parent, unwritten>>

LEMMA HonestStep == DataOK /\ WorkerOK /\ Chain /\ Honest /\ [Next]_vars => Honest'
<1> SUFFICES ASSUME DataOK, WorkerOK, Chain, Honest, [Next]_vars PROVE Honest'
  OBVIOUS
<1>0. DataOK' /\ Len(events) \in Nat
  BY DataStep, VersionType
<1>1. ASSUME UNCHANGED <<events, cache>> PROVE Honest'
  <2>1. Version' = Version /\ Versions' = Versions
    BY <1>1, SameVersions
  <2> QED
    BY <2>1 DEF Honest
<1>2. ASSUME NEW p \in Policy \cup {None}, Write(p), cache' = cache,
             p # None /\ p.status.state # "" => p.status.state = Compliance(p.status.details)
      PROVE  Honest'
  <2> DEFINE n == Len(events) + 1
             m == Len(events') + 1
  <2>1. /\ m = n \/ m = n + 1
        /\ \A i \in 1 .. n : Version'[i] = Version[i]
        /\ Version'[m] = p
    BY <1>2, VersionsAppend DEF Chain
  <2>2. Versions = 1 .. n /\ Versions' = 1 .. m /\ n \in Nat
    BY <1>0 DEF Versions
  <2>3. \A i \in Versions' : (i \in Versions /\ Version'[i] = Version[i]) \/ Version'[i] = p
    BY <2>1, <2>2
  <2> QED
    BY <1>2, <2>3 DEF Honest
<1>3. CASE Create
  <2>1. PICK p \in Policy : Write(p) /\ p.status = NoStatus
    BY <1>3, Writes
  <2>2. NoStatus.state = ""
    BY DEF NoStatus
  <2>3. cache' = cache
    BY <1>3 DEF Create
  <2> QED
    BY <1>2, <2>1, <2>2, <2>3
<1>4. CASE Edit
  <2>1. PICK p \in Policy : Write(p) /\ api \in Policy /\ p.status = api.status
    BY <1>4, Writes
  <2>2. api = Version[Len(events) + 1] /\ Len(events) + 1 \in Versions /\ cache' = cache
    BY <1>0, <1>4 DEF Chain, EndsAtApi, Versions, Edit
  <2> QED
    BY <1>2, <2>1, <2>2, NoneAssumption DEF Honest
<1>5. CASE ResetCompliance
  <2>1. PICK p \in Policy : Write(p) /\ api \in Policy /\ p.status = [api.status EXCEPT !.state = ""]
    BY <1>5, Writes
  <2>2. p.status.state = ""
    BY <2>1 DEF Policy, Status
  <2>3. cache' = cache
    BY <1>5 DEF ResetCompliance
  <2> QED
    BY <1>2, <2>1, <2>2, <2>3
<1>6. CASE Delete
  BY <1>2, <1>6 DEF Delete
<1>7. CASE UpdateWritten
  <2>1. PICK p \in Policy : Write(p) /\ p.status = policy.status
    BY <1>7, Writes
  <2>2. policy.status.state = Compliance(policy.status.details) /\ cache' = cache
    BY <1>7 DEF UpdateWritten, WorkerOK, Reporting
  <2> QED
    BY <1>2, <2>1, <2>2
<1>8. CASE Sync
  <2>1. /\ Len(events') + 1 = Len(events)
        /\ \A i \in 1 .. Len(events) : Version'[i] = Version[i + 1]
    BY <1>8, VersionsShift
  <2>2. \A i \in Versions' : i + 1 \in Versions /\ Version'[i] = Version[i + 1]
    BY <1>0, <2>1 DEF Versions
  <2> QED
    BY <2>2 DEF Honest
<1>9. CASE Crash
  <2>1. Version'[1] = api /\ Versions' = {1}
    BY <1>9, VersionsReload DEF Versions
  <2>2. api = Version[Len(events) + 1] /\ Len(events) + 1 \in Versions
    BY <1>0 DEF Chain, EndsAtApi, Versions
  <2> QED
    BY <2>1, <2>2 DEF Honest
<1>10. CASE Loop
  BY <1>1, <1>10, LoopFrame DEF Frame
<1>11. CASE \/ Tick \/ (\E t \in Templates : ObjectChange(t)) \/ TimerFires \/ ReconcileGone
            \/ ReconcileSkip \/ ReconcileBegin \/ SendComplianceEvent
            \/ SendComplianceEventFails \/ UpdateSkipped \/ UpdateConflicts \/ UpdateFails
            \/ ReconcileEnd \/ UNCHANGED vars
  <2>1. UNCHANGED <<events, cache>>
    BY <1>11, Zenon DEF Tick, ObjectChange, TimerFires, ReconcileGone, ReconcileSkip,
       ReconcileBegin, SendComplianceEvent, SendComplianceEventFails, UpdateSkipped,
       UpdateConflicts, UpdateFails, AttemptFails, ReconcileEnd, vars
  <2> QED
    BY <1>1, <2>1
<1> QED
  BY <1>3, <1>4, <1>5, <1>6, <1>7, <1>8, <1>9, <1>10, <1>11
     DEF Next, Environment, Worker, Loop

LEMMA BatchStep == DataOK /\ WorkerOK /\ BatchNeeded /\ [Next]_vars => BatchNeeded'
<1> SUFFICES ASSUME DataOK, WorkerOK, BatchNeeded, [Next]_vars PROVE BatchNeeded'
  OBVIOUS
<1> USE DEF BatchNeeded
<1>1. CASE \/ Create \/ Edit \/ Delete \/ ResetCompliance \/ Tick \/ Sync \/ TimerFires
           \/ ReconcileGone \/ ReconcileSkip \/ (\E t \in Templates : ObjectChange(t))
           \/ UNCHANGED vars
  <2>1. UNCHANGED <<pc, after, statusUpdateNeeded>>
    BY <1>1, Zenon DEF Create, Edit, Delete, ResetCompliance, Tick, Sync, TimerFires,
       ReconcileGone, ReconcileSkip, ObjectChange, vars, workerVars, loopVars
  <2> QED
    BY <2>1, Zenon
<1>2. CASE Crash \/ ReconcileEnd \/ ReconcileBegin
  <2>1. pc' \in {"idle", "templates"}
    BY <1>2 DEF Crash, ReconcileEnd, ReconcileBegin, Return
  <2> QED
    BY <2>1
<1>3. CASE Loop
  BY <1>3, LoopEffect DEF Sets, Reports
<1>4. CASE SendComplianceEvent
  <2>1. pc = "event" /\ UNCHANGED <<after, statusUpdateNeeded>>
    BY <1>4, Zenon DEF SendComplianceEvent, loopVars
  <2> QED
    BY <2>1, Zenon
<1>5. CASE SendComplianceEventFails \/ UpdateSkipped \/ UpdateWritten
  <2>1. pc' \in {"batch", "end"}
    BY <1>5 DEF SendComplianceEventFails, UpdateSkipped, UpdateWritten, WorkerOK, LocalsOK
  <2> QED
    BY <2>1
<1>6. CASE UpdateConflicts \/ UpdateFails
  <2>1. pc = "update" /\ UNCHANGED <<after, statusUpdateNeeded>>
    BY <1>6, AttemptFrame
  <2> QED
    BY <2>1, Zenon
<1> QED
  BY <1>1, <1>2, <1>3, <1>4, <1>5, <1>6 DEF Next, Environment, Worker, Loop

\* The last version is the API server's.
LEMMA ApiIsVersion ==
    ASSUME DataOK, Chain
    PROVE  Len(events) + 1 \in Versions /\ api = Version[Len(events) + 1]
  BY VersionType DEF Chain, EndsAtApi, Versions

LEMMA SettledStep ==
    /\ DataOK /\ WorkerOK /\ Chain /\ Honest /\ Consistent /\ Settled /\ [Next]_vars => Settled'
<1> SUFFICES ASSUME DataOK, WorkerOK, Chain, Honest, Consistent, Settled, [Next]_vars
             PROVE  Settled'
  OBVIOUS
<1>0. DataOK' /\ Len(events) \in Nat
  BY DataStep, VersionType
<1>1. ASSUME UNCHANGED Told, staleStart => staleStart' PROVE Settled'
  <2>1. Version' = Version /\ Versions' = Versions /\ api' = api
    BY <1>1, SameVersions DEF Told
  <2>2. parent' = parent /\ unwritten' = unwritten
    BY <1>1 DEF Told
  <2> QED
    BY <1>1, <2>1, <2>2, Zenon DEF Settled, Current, SameButReset
<1>2. CASE Create
  <2>1. PICK p \in Policy : Write(p) /\ p.uid = uids + 1 /\ p.status = NoStatus
    BY <1>2, Writes
  <2>2. cache' = cache /\ p # None /\ p.uid > uids /\ NoStatus.state = ""
    <3>1. NoStatus.state = ""
      BY DEF NoStatus
    <3>2. cache' = cache
      BY <1>2 DEF Create
    <3>3. uids \in Nat
      BY ConstantsAssumption DEF DataOK
    <3>4. p.uid > uids
      BY <2>1, <3>3
    <3> QED
      BY <3>1, <3>2, <3>4, NoneAssumption
  <2>3. ASSUME NEW i \in Versions', Current(Version[i])'
        PROVE  Version'[i].status.state = ""
    <3>1. \/ Version'[i] = p
          \/ Current(Version[i]) /\ api # None
      BY <1>0, <2>1, <2>2, <2>3, CurrentAppended DEF Current
    <3>2. api = None
      BY <1>2 DEF Create
    <3> QED
      BY <2>1, <2>2, <3>1, <3>2
  <2> QED
    BY <2>3 DEF Settled
<1>3. CASE Delete
  <2>1. api' = None
    BY <1>3 DEF Delete, Write
  <2> QED
    BY <2>1 DEF Settled, Current
<1>4. CASE Edit \/ ResetCompliance
  <2>1. PICK p \in Policy : /\ Write(p) /\ api \in Policy /\ p.uid = api.uid
                            /\ \/ p.status = api.status
                               \/ p.status = Cleared(api.status) /\ api.status.state # ""
    BY <1>4, Writes DEF Cleared
  <2>2. cache' = cache /\ UNCHANGED <<parent, unwritten, staleStart>>
    BY <1>4, Zenon DEF Edit, ResetCompliance, history
  <2>3. ASSUME ~unwritten, ~staleStart,
               NEW i \in Versions', Current(Version[i])', SameButReset(Version[i])',
               Version'[i].status.state # ""
        PROVE  parent = Version'[i].status.state
    <3>1. /\ api' = p
          /\ \/ Version'[i] = p
             \/ i \in Versions /\ Version'[i] = Version[i] /\ Current(Version[i])
      BY <1>0, <2>1, <2>2, <2>3, CurrentAppended, NoneAssumption
    <3>2. api.status.state # "" => parent = api.status.state
      <4>1. Current(api) /\ SameButReset(api)
        BY <2>1, NoneAssumption DEF Current, SameButReset
      <4> QED
        BY <2>3, <4>1, ApiIsVersion DEF Settled
    <3>3. Cleared(api.status).state = "" /\ api.status \in Status
      BY <2>1 DEF Cleared, Policy, Status
    <3>4. CASE Version'[i] = p
      BY <2>1, <2>3, <3>2, <3>3, <3>4
    <3>5. CASE i \in Versions /\ Version'[i] = Version[i] /\ Current(Version[i])
      <4>1. Version[i] \in Policy /\ Version[i].status \in Status
        BY <3>5, VersionUid DEF Current, Policy
      <4>2. p.status \in {Version[i].status, Cleared(Version[i].status)}
        BY <2>3, <3>1, <3>5 DEF SameButReset
      <4>3. CASE p.status = api.status
        BY <2>3, <3>5, <4>2, <4>3 DEF Settled, SameButReset
      <4>4. CASE p.status = Cleared(api.status) /\ api.status.state # ""
        <5>1. p.status = Cleared(Version[i].status)
          BY <2>3, <3>3, <3>5, <4>2, <4>4
        <5>2. Version[i].status.details = api.status.details
          BY <3>3, <4>1, <4>4, <5>1 DEF Cleared, Status
        <5>3. Version[i].status.state = Compliance(Version[i].status.details)
          BY <2>3, <3>5 DEF Honest, Current
        <5>4. api.status.state = Compliance(api.status.details)
          BY <2>1, <4>4, ApiIsVersion, NoneAssumption DEF Honest
        <5> QED
          BY <3>2, <3>5, <4>4, <5>2, <5>3, <5>4
      <4> QED
        BY <2>1, <4>3, <4>4
    <3> QED
      BY <3>1, <3>4, <3>5
  <2> QED
    BY <2>2, <2>3, Zenon DEF Settled
<1>5. CASE UpdateWritten
  <2>1. PICK p \in Policy : /\ Write(p) /\ p.uid = cache.uid /\ p.uid = policy.uid
                            /\ cache \in Policy /\ p.status = policy.status
    BY <1>5, Writes
  <2>2. /\ cache' = cache /\ events = <<>> /\ pc = "update"
        /\ UNCHANGED <<parent, staleStart>>
        /\ unwritten' = (unwritten /\ policy.status.state # parent)
    BY <1>5, Zenon DEF UpdateWritten
  <2>3. api = cache /\ Versions = {1} /\ Version[1] = cache
    BY <2>2, VersionType DEF Chain, EndsAtApi, Versions
  <2>4. ~unwritten' /\ ~staleStart => parent = policy.status.state
    <3>1. SUFFICES ASSUME ~unwritten', ~staleStart PROVE parent = policy.status.state
      OBVIOUS
    <3>2. CASE unwritten
      BY <2>2, <3>1, <3>2, Zenon
    <3>3. CASE ~unwritten
      <4>1. Current(policy)
        BY <2>1, <2>2, <2>3, NoneAssumption DEF Current, WorkerOK, LocalsOK
      <4> QED
        BY <2>2, <3>1, <3>3, <4>1 DEF Consistent
    <3> QED
      BY <3>2, <3>3
  <2>5. p.status.state # ""
    BY <2>1, <2>2, ComplianceType DEF WorkerOK, Reporting
  <2>6. ASSUME ~unwritten', ~staleStart,
               NEW i \in Versions', Current(Version[i])', SameButReset(Version[i])',
               Version'[i].status.state # ""
        PROVE  parent = Version'[i].status.state
    <3>1. api' = p /\ (Version'[i] = p \/ Version'[i] = cache)
      BY <1>0, <2>1, <2>2, <2>3, <2>6, CurrentAppended, NoneAssumption
    <3>2. CASE Version'[i] = p
      BY <2>1, <2>4, <2>6, <3>2
    <3>3. CASE Version'[i] = cache
      <4>1. Cleared(cache.status).state = ""
        BY <2>1 DEF Cleared, Policy, Status
      <4>2. p.status = cache.status
        BY <2>5, <2>6, <3>1, <3>3, <4>1 DEF SameButReset
      <4> QED
        BY <2>1, <2>4, <2>6, <3>3, <4>2
    <3> QED
      BY <3>1, <3>2, <3>3
  <2> QED
    BY <2>2, <2>6, Zenon DEF Settled
<1>6. CASE Sync
  <2>1. /\ Len(events') + 1 = Len(events)
        /\ \A i \in 1 .. Len(events) : Version'[i] = Version[i + 1]
    BY <1>6, VersionsShift
  <2>2. \A i \in Versions' : i + 1 \in Versions /\ Version'[i] = Version[i + 1]
    BY <1>0, <2>1 DEF Versions
  <2>3. UNCHANGED <<api, parent, unwritten, staleStart>>
    BY <1>6, Zenon DEF Sync, history
  <2> QED
    BY <2>2, <2>3, Zenon DEF Settled, Current, SameButReset
<1>7. CASE Crash
  <2>1. Version'[1] = api /\ Versions' = {1} /\ api' = api
    BY <1>7, VersionsReload DEF Versions
  <2>2. UNCHANGED <<parent, unwritten, staleStart>>
    BY <1>7, Zenon DEF Crash, history
  <2>3. ASSUME ~unwritten, ~staleStart, Current(api), api.status.state # ""
        PROVE  parent = api.status.state
    BY <2>3, ApiIsVersion DEF Settled, SameButReset
  <2> QED
    BY <2>1, <2>2, <2>3, Zenon DEF Settled, Current
<1>8. CASE SendComplianceEvent
  <2>1. unwritten'
    BY <1>8, Zenon DEF SendComplianceEvent
  <2> QED
    BY <2>1 DEF Settled
<1>9. CASE Loop
  <2>1. UNCHANGED Told /\ staleStart' = staleStart
    BY <1>9, LoopFrame DEF Frame, Told
  <2> QED
    BY <1>1, <2>1, Zenon
<1>10. CASE \/ Tick \/ (\E t \in Templates : ObjectChange(t)) \/ TimerFires \/ ReconcileGone
            \/ ReconcileSkip \/ ReconcileBegin \/ SendComplianceEventFails \/ UpdateSkipped
            \/ UpdateConflicts \/ UpdateFails \/ ReconcileEnd \/ UNCHANGED vars
  <2>1. UNCHANGED Told
    BY <1>10, Zenon DEF Tick, ObjectChange, TimerFires, ReconcileGone, ReconcileSkip,
       ReconcileBegin, SendComplianceEventFails, UpdateSkipped, UpdateConflicts, UpdateFails,
       AttemptFails, ReconcileEnd, vars, Told, history
  <2>2. staleStart => staleStart'
    BY <1>10, Zenon DEF Tick, ObjectChange, TimerFires, ReconcileGone, ReconcileSkip,
       ReconcileBegin, SendComplianceEventFails, UpdateSkipped, UpdateConflicts, UpdateFails,
       AttemptFails, ReconcileEnd, vars, history
  <2> QED
    BY <1>1, <2>1, <2>2
<1> QED
  BY <1>2, <1>3, <1>4, <1>5, <1>6, <1>7, <1>8, <1>9, <1>10
     DEF Next, Environment, Worker, Loop


LEMMA ConsistentStep ==
    /\ DataOK /\ WorkerOK /\ Chain /\ BatchNeeded /\ Settled /\ Consistent /\ [Next]_vars
        => Consistent'
<1> SUFFICES ASSUME DataOK, WorkerOK, Chain, BatchNeeded, Settled, Consistent, [Next]_vars
             PROVE  Consistent'
  OBVIOUS
<1>1. ASSUME UNCHANGED <<policy, pc, parent, unwritten, staleStart, statusUpdateNeeded>>,
             Current(policy)' => Current(policy)
      PROVE  Consistent'
  BY <1>1, Zenon DEF Consistent
<1>2. CASE \/ Create \/ Edit \/ Delete \/ ResetCompliance \/ Sync \/ Tick
           \/ (\E t \in Templates : ObjectChange(t)) \/ TimerFires \/ ReconcileGone
           \/ ReconcileSkip \/ UNCHANGED vars
  <2>1. UNCHANGED <<policy, pc, parent, unwritten, staleStart, statusUpdateNeeded>>
    BY <1>2, Zenon DEF Create, Edit, Delete, ResetCompliance, Sync, Tick, ObjectChange,
       TimerFires, ReconcileGone, ReconcileSkip, vars, workerVars, loopVars, history
  <2>2. CASE Create
    <3>1. PICK p \in Policy : Write(p) /\ p.uid = uids + 1
      BY <2>2, Writes
    <3>2. CASE policy = None
      BY <1>1, <2>1, <3>2 DEF Current
    <3>3. CASE policy # None
      <4>1. policy.uid <= uids /\ policy.uid \in Nat /\ uids \in Nat
        BY <3>3, ConstantsAssumption DEF Chain, WorkerBehind, WorkerOK, LocalsOK, DataOK,
           Policy, Uids
      <4>2. api'.uid # policy.uid
        BY <3>1, <4>1 DEF Write
      <4> QED
        BY <1>1, <2>1, <4>2 DEF Current
    <3> QED
      BY <3>2, <3>3
  <2>3. CASE Edit \/ ResetCompliance
    <3>1. PICK p \in Policy : Write(p) /\ api \in Policy /\ p.uid = api.uid
      BY <2>3, Writes
    <3>2. Current(policy)' => Current(policy)
      BY <2>1, <3>1, NoneAssumption DEF Current, Write
    <3> QED
      BY <1>1, <2>1, <3>2
  <2>4. CASE Delete
    <3>1. ~Current(policy)'
      BY <2>4 DEF Delete, Write, Current
    <3> QED
      BY <1>1, <2>1, <3>1
  <2>5. CASE \/ Sync \/ Tick \/ (\E t \in Templates : ObjectChange(t)) \/ TimerFires
             \/ ReconcileGone \/ ReconcileSkip \/ UNCHANGED vars
    <3>1. api' = api
      BY <2>5, Zenon DEF Sync, Tick, ObjectChange, TimerFires, ReconcileGone, ReconcileSkip, vars
    <3>2. Current(policy)' => Current(policy)
      BY <2>1, <3>1 DEF Current
    <3> QED
      BY <1>1, <2>1, <3>2
  <2> QED
    BY <1>2, <2>2, <2>3, <2>4, <2>5
<1>3. CASE Crash \/ ReconcileEnd
  <2>1. policy' = None
    BY <1>3 DEF Crash, ReconcileEnd, Return
  <2> QED
    BY <2>1 DEF Consistent, Current
<1>4. CASE ReconcileBegin
  <2>1. /\ cache \in Policy /\ pc' = "templates" /\ policy'.uid = cache.uid
        /\ policy'.status.state = cache.status.state
    BY <1>4, BeginEffect
  <2>2. api' = api /\ UNCHANGED <<parent, unwritten>>
    BY <1>4, Zenon DEF ReconcileBegin
  <2>3. ~staleStart' => ~staleStart /\ ~Replaced(cache)
    BY <1>4, Zenon DEF ReconcileBegin
  <2>4. ASSUME ~unwritten, ~staleStart', Current(policy)', cache.status.state # ""
        PROVE  cache.status.state = parent
    <3>1. Current(cache) /\ SameButReset(cache)
      BY <2>1, <2>2, <2>3, <2>4, NoneAssumption DEF Current, Replaced, SameButReset, Cleared
    <3>2. Version[1] = cache /\ 1 \in Versions
      BY VersionType DEF Versions
    <3> QED
      BY <2>3, <2>4, <3>1, <3>2 DEF Settled
  <2>5. ~unwritten' => ~unwritten
    BY <2>2, Zenon
  <2>6. ~unwritten' /\ ~staleStart' /\ Current(policy)' => policy'.status.state \in {"", parent'}
    BY <2>1, <2>2, <2>4, <2>5
  <2> QED
    BY <2>1, <2>6 DEF Consistent
<1>5. CASE Loop
  <2>1. UNCHANGED <<api, staleStart, parent, unwritten>>
    BY <1>5, LoopFrame DEF Frame
  <2>2. pc # "idle" /\ policy \in Policy /\ policy'.uid = policy.uid
    BY <1>5, LoopEffect DEF Sets, Reports, WorkerOK, LocalsOK
  <2>3. SUFFICES ASSUME ~unwritten, ~staleStart, Current(policy)'
                 PROVE  /\ pc' \in {"templates", "batch"} /\ ~statusUpdateNeeded'
                               => policy'.status.state \in {"", parent}
                        /\ pc' = "update" => policy'.status.state = parent
    BY <2>1, Zenon DEF Consistent
  <2>4. Current(policy)
    BY <2>1, <2>2, <2>3, NoneAssumption DEF Current
  <2>5. pc \in {"templates", "batch"} /\ ~statusUpdateNeeded => policy.status.state \in {"", parent}
    BY <2>3, <2>4 DEF Consistent
  <2>6. CASE Sets
    BY <2>5, <2>6 DEF Sets
  <2>7. CASE Reports
    <3>1. policy'.status.state # ""
      BY <2>7, ComplianceType DEF Reports
    <3> QED
      BY <2>5, <2>7, <3>1 DEF Reports
  <2> QED
    BY <1>5, <2>6, <2>7, LoopEffect
<1>6. CASE SendComplianceEvent
  <2>1. unwritten'
    BY <1>6, Zenon DEF SendComplianceEvent
  <2> QED
    BY <2>1 DEF Consistent
<1>7. CASE SendComplianceEventFails \/ UpdateSkipped \/ UpdateWritten
  <2>1. pc \in {"event", "update"} /\ pc' = after /\ pc' \in {"batch", "end"}
    BY <1>7 DEF SendComplianceEventFails, UpdateSkipped, UpdateWritten, WorkerOK, LocalsOK
  <2>2. statusUpdateNeeded' = statusUpdateNeeded
    BY <1>7, Zenon DEF SendComplianceEventFails, UpdateSkipped, UpdateWritten, loopVars
  <2>3. pc' = "batch" => statusUpdateNeeded'
    BY <2>1, <2>2, Zenon DEF BatchNeeded
  <2> QED
    BY <2>1, <2>3 DEF Consistent
<1>8. CASE UpdateConflicts \/ UpdateFails
  <2>1. /\ pc = "update" /\ pc' \in {"update", after}
        /\ UNCHANGED <<api, staleStart, parent, unwritten, statusUpdateNeeded, after>>
    BY <1>8, AttemptFrame DEF Frame
  <2>2. /\ policy \in Policy /\ policy'.uid = policy.uid /\ policy'.status = policy.status
    <3>1. ~Loop
      BY <2>1, LoopEffect DEF Sets, Reports
    <3> QED
      BY <1>8, <2>1, <3>1, SameUid DEF WorkerOK, LocalsOK
  <2>3. Current(policy)' => Current(policy)
    BY <2>1, <2>2, NoneAssumption DEF Current
  <2>4. pc' = "batch" => statusUpdateNeeded
    BY <2>1 DEF BatchNeeded
  <2>5. pc' \in {"update", "batch", "end"}
    BY <2>1 DEF WorkerOK, LocalsOK
  <2> QED
    BY <2>1, <2>2, <2>3, <2>4, <2>5 DEF Consistent
<1> QED
  BY <1>2, <1>3, <1>4, <1>5, <1>6, <1>7, <1>8 DEF Next, Environment, Worker, Loop


\* A compliance that was reset is going to be noticed: a request or a version
\* is waiting, an evaluation that will send an event is under way, or the event
\* failed or its status was not written.
Coming == \E i \in 1 .. Len(events) : events[i] = None \/ events[i].status.state # ""
Answering == pc = "event" \/ (pc \in {"templates", "batch"} /\ policy.status.state = "")
Answered ==
    cache # None /\ cache.status.state = "" =>
        queued \/ unsent \/ unwritten \/ Answering \/ Coming

LEMMA ComingKept ==
    ASSUME DataOK, NEW p \in Policy \cup {None}, Write(p), Coming
    PROVE  Coming'
<1>1. PICK i \in 1 .. Len(events) : events[i] = None \/ events[i].status.state # ""
  BY DEF Coming
<1>2. i \in 1 .. Len(events') /\ events'[i] = events[i]
  <2>1. CASE events' = events
    BY <2>1
  <2>2. CASE events' = Append(events, p)
    BY <2>2 DEF DataOK
  <2> QED
    BY <2>1, <2>2 DEF Write
<1> QED
  BY <1>1, <1>2 DEF Coming

LEMMA AnsweredStep == DataOK /\ WorkerOK /\ Chain /\ Answered /\ [Next]_vars => Answered'
<1> SUFFICES ASSUME DataOK, WorkerOK, Chain, Answered, [Next]_vars PROVE Answered'
  OBVIOUS
<1>1. ASSUME UNCHANGED <<events, cache, unsent, unwritten>>, queued => queued',
             Answering => Answering' \/ unsent' \/ unwritten'
      PROVE  Answered'
  BY <1>1, Zenon DEF Answered, Coming
<1>2. CASE Create \/ Edit \/ Delete \/ ResetCompliance
  <2>1. \E p \in Policy \cup {None} : Write(p)
    BY <1>2, Writes DEF Delete
  <2>2. Coming => Coming'
    BY <2>1, ComingKept
  <2>3. UNCHANGED <<cache, queued, unsent, unwritten, pc, policy>>
    BY <1>2, Zenon DEF Create, Edit, Delete, ResetCompliance, schedVars, workerVars, history
  <2> QED
    BY <2>2, <2>3, Zenon DEF Answered, Answering
<1>3. CASE Sync
  <2>1. UNCHANGED <<unsent, unwritten, pc, policy>>
    BY <1>3, Zenon DEF Sync, workerVars, history
  <2>2. queued' = (queued \/ Enqueues(cache, cache'))
    BY <1>3, Zenon DEF Sync
  <2>3. SUFFICES ASSUME cache' # None, cache'.status.state = ""
                 PROVE  queued' \/ unsent' \/ unwritten' \/ Answering' \/ Coming'
    BY DEF Answered
  <2>4. CASE cache = None \/ cache.status.state # ""
    <3>1. Enqueues(cache, cache')
      BY <2>3, <2>4 DEF Enqueues
    <3> QED
      BY <2>2, <3>1, Zenon
  <2>5. CASE cache # None /\ cache.status.state = ""
    <3>1. Coming => Coming'
      <4>1. SUFFICES ASSUME Coming PROVE Coming'
        OBVIOUS
      <4>2. PICK i \in 1 .. Len(events) : events[i] = None \/ events[i].status.state # ""
        BY <4>1 DEF Coming
      <4>3. events \in Seq(Policy \cup {None}) /\ events' = Tail(events) /\ events # <<>>
            /\ cache' = events[1]
        BY <1>3 DEF Sync, DataOK
      <4>4. i # 1
        BY <2>3, <4>2, <4>3
      <4>5. i - 1 \in 1 .. Len(events') /\ events'[i - 1] = events[i]
        <5>1. /\ Len(events') = Len(events) - 1
              /\ \A j \in 1 .. Len(events) - 1 : events'[j] = events[j + 1]
          BY <4>3
        <5>2. i \in 1 .. Len(events) /\ Len(events) \in Nat
          BY <4>3
        <5>3. i - 1 \in 1 .. Len(events) - 1 /\ (i - 1) + 1 = i
          BY <4>4, <5>2
        <5> QED
          BY <5>1, <5>3
      <4> QED
        BY <4>2, <4>5 DEF Coming
    <3> QED
      BY <2>1, <2>2, <2>5, <3>1, Zenon DEF Answered, Answering
  <2> QED
    BY <2>4, <2>5
<1>4. CASE \/ Tick \/ (\E t \in Templates : ObjectChange(t)) \/ TimerFires \/ ReconcileGone
           \/ ReconcileSkip \/ UNCHANGED vars
  <2>1. /\ UNCHANGED <<Frame, pc, policy, unsent, unwritten>>
        /\ queued => queued' \/ cache = None \/ cache.status.state # ""
    BY <1>4, QuietSteps, Zenon DEF Quiet
  <2>2. UNCHANGED <<events, cache>>
    BY <2>1, Zenon DEF Frame
  <2> QED
    BY <2>1, <2>2, Zenon DEF Answered, Answering, Coming
<1>5. CASE ReconcileBegin
  <2>1. pc' = "templates" /\ policy'.status.state = cache.status.state /\ cache' = cache
    BY <1>5, BeginEffect DEF ReconcileBegin
  <2> QED
    BY <2>1 DEF Answered, Answering
<1>6. CASE Loop
  <2>1. UNCHANGED <<events, cache, unsent, unwritten>> /\ (queued => queued')
    BY <1>6, LoopFrame, Zenon DEF Frame
  <2>2. Answering => Answering'
    <3>1. CASE Sets
      BY <3>1 DEF Sets, Answering
    <3>2. CASE Reports
      <4>1. policy'.status.state # ""
        BY <3>2, ComplianceType DEF Reports
      <4> QED
        BY <3>2, <4>1 DEF Reports, Answering
    <3> QED
      BY <1>6, <3>1, <3>2, LoopEffect
  <2> QED
    BY <1>1, <2>1, <2>2, Zenon
<1>7. CASE SendComplianceEvent \/ SendComplianceEventFails
  BY <1>7, Zenon DEF SendComplianceEvent, SendComplianceEventFails, Answered
<1>8. CASE UpdateSkipped \/ UpdateConflicts \/ UpdateFails \/ ReconcileEnd
  <2>1. pc \in {"update", "end"}
    BY <1>8 DEF UpdateSkipped, UpdateConflicts, UpdateFails, ReconcileEnd
  <2>2. UNCHANGED <<events, cache, unsent, unwritten>>
    BY <1>8, Zenon DEF UpdateSkipped, UpdateConflicts, UpdateFails, AttemptFails,
       ReconcileEnd, history
  <2>3. queued => queued'
    BY <1>8, Zenon DEF UpdateSkipped, UpdateConflicts, UpdateFails, AttemptFails,
       ReconcileEnd, schedVars
  <2>4. ~Answering
    BY <2>1 DEF Answering
  <2> QED
    BY <1>1, <2>2, <2>3, <2>4, Zenon
<1>9. CASE UpdateWritten
  <2>1. PICK p \in Policy : Write(p) /\ p.status = policy.status
    BY <1>9, Writes
  <2>2. events = <<>> /\ cache' = cache
    BY <1>9 DEF UpdateWritten
  <2>3. p.status.state # ""
    BY <1>9, <2>1, ComplianceType DEF UpdateWritten, WorkerOK, Reporting
  <2>4. api = cache
    <3>1. Len(events) = 0
      BY <2>2
    <3> QED
      BY <3>1, VersionType DEF Chain, EndsAtApi
  <2>5. SUFFICES ASSUME cache.status.state = "" PROVE Coming'
    BY <2>2 DEF Answered
  <2>6. events' = Append(<<>>, p)
    BY <2>1, <2>2, <2>3, <2>4, <2>5 DEF Write
  <2>7. Len(events') = 1 /\ events'[1] = p
    BY <2>6
  <2>8. 1 \in 1 .. Len(events')
    BY <2>7
  <2> QED
    BY <2>3, <2>7, <2>8, Zenon DEF Coming
<1>10. CASE Crash
  <2>1. queued' = (api # None) /\ cache' = api
    BY <1>10, Zenon DEF Crash
  <2>2. cache' # None => queued'
    BY <2>1, Zenon
  <2> QED
    BY <2>2 DEF Answered
<1> QED
  BY <1>2, <1>3, <1>4, <1>5, <1>6, <1>7, <1>8, <1>9, <1>10
     DEF Next, Environment, Worker, Loop


-----------------------------------------------------------------------------
(* The theorems *)

IInv == /\ Typed /\ StatusBelongsToPolicy /\ Chain /\ Refused
        /\ Honest /\ BatchNeeded /\ Settled /\ Consistent /\ Answered

LEMMA IInvInit == Init => IInv
<1> SUFFICES ASSUME Init PROVE IInv
  OBVIOUS
<1>1. /\ api = None /\ cache = None /\ events = <<>> /\ pc = "idle" /\ policy = None /\ uids = 0
  BY Zenon DEF Init
<1>2. Typed
  BY TypedInit
<1>3. Len(events) = 0 /\ Versions = {1} /\ Version[1] = None
  BY <1>1 DEF Versions, Version
<1>4. Chain
  BY <1>1, <1>3 DEF Chain, EndsAtApi, UidsGrow, Grow, WorkerBehind
<1>5. StatusBelongsToPolicy /\ Refused /\ Honest /\ Settled /\ Consistent
  BY <1>1, <1>3, Zenon DEF StatusBelongsToPolicy, Evaluated, Refused, Honest, Settled, Consistent,
     Current
<1>6. BatchNeeded /\ Answered
  BY <1>1 DEF BatchNeeded, Answered
<1> QED
  BY <1>2, <1>4, <1>5, <1>6 DEF IInv

LEMMA Inductive == Spec => []IInv
<1>1. IInv /\ [Next]_vars => IInv'
  <2> SUFFICES ASSUME IInv, [Next]_vars PROVE IInv'
    OBVIOUS
  <2>1. Typed'
    BY DataStep, WorkerStep, FlagsStep DEF IInv, Typed, WorkerOK
  <2>2. StatusBelongsToPolicy' /\ Chain' /\ Refused' /\ Honest' /\ BatchNeeded'
    BY OwnedStep, ChainStep, RefusedStep, HonestStep, BatchStep DEF IInv, Typed
  <2>3. Settled' /\ Consistent' /\ Answered'
    BY SettledStep, ConsistentStep, AnsweredStep DEF IInv, Typed
  <2> QED
    BY <2>1, <2>2, <2>3 DEF IInv
<1> QED
  BY <1>1, IInvInit, PTL DEF Spec

\* updatePolicyStatus never puts the status of a deleted policy on the one that
\* was created in its place, whatever the informer's delay, the conflicts and
\* the retries.
THEOREM StatusOwned == Spec => []StatusBelongsToPolicy
<1>1. IInv => StatusBelongsToPolicy
  BY DEF IInv
<1> QED
  BY <1>1, Inductive, PTL

\* lastEvaluatedCache does what its comment promises: no evaluation starts from
\* a status that the controller has replaced, but for two statuses that are
\* stamped in one second.
THEOREM Fresh == Spec => FreshStart
<1>1. ASSUME IInv, [Next]_vars, pc = "idle", pc' = "templates"
      PROVE  ~Replaced(cache) \/ sameSecond
  <2>0. DataOK /\ WorkerOK /\ Refused
    BY <1>1 DEF IInv, Typed
  <2>1. ReconcileBegin
    <3>1. ~Loop
      BY <1>1, <2>0, LoopEffect DEF Sets, Reports
    <3>2. pc' # pc
      BY <1>1
    <3>3. ~Crash
      BY <1>1 DEF Crash, Return
    <3>4. ~(\/ SendComplianceEvent \/ SendComplianceEventFails \/ UpdateSkipped \/ UpdateWritten
            \/ UpdateConflicts \/ UpdateFails \/ ReconcileEnd)
      BY <1>1 DEF SendComplianceEvent, SendComplianceEventFails, UpdateSkipped, UpdateWritten,
         UpdateConflicts, UpdateFails, ReconcileEnd
    <3>5. ~(\/ Create \/ Edit \/ Delete \/ ResetCompliance \/ Tick \/ Sync \/ TimerFires
            \/ ReconcileGone \/ ReconcileSkip \/ (\E t \in Templates : ObjectChange(t))
            \/ UNCHANGED vars)
      BY <3>2, Zenon DEF Create, Edit, Delete, ResetCompliance, Tick, Sync, TimerFires,
         ReconcileGone, ReconcileSkip, ObjectChange, vars, workerVars
    <3> QED
      BY <1>1, <3>1, <3>3, <3>4, <3>5 DEF Next, Environment, Worker, Loop
  <2>2. cache # None /\ ~NotSynced(cache)
    BY <2>1 DEF ReconcileBegin, ShouldEvaluate
  <2>3. Version[1] = cache /\ 1 \in Versions
    BY <2>0, VersionType DEF Versions
  <2>4. ASSUME Replaced(cache) PROVE sameSecond
    <3>1. Current(cache) /\ ~SameButReset(cache)
      BY <2>2, <2>4 DEF Replaced, Current, SameButReset, Cleared
    <3>2. sameSecond \/ NotSynced(cache)
      BY <2>0, <2>3, <3>1 DEF Refused, NotSynced, Current
    <3> QED
      BY <2>2, <3>2
  <2> QED
    BY <2>4
<1>2. IInv /\ [Next]_vars
        => [pc = "idle" /\ pc' = "templates" => ~Replaced(cache) \/ sameSecond]_vars
  BY <1>1
<1> QED
  BY <1>2, Inductive, PTL DEF Spec, FreshStart

\* addForUpdate and updatePolicyStatus keep the parent policy informed: at rest
\* its last event says what the status says, whatever was lost, reset, deleted
\* or retried on the way, but for the cases that ParentAgrees names.
THEOREM ParentKnows == Spec => []ParentAgrees
<1>1. ASSUME IInv PROVE ParentAgrees
  <2>1. SUFFICES ASSUME AtRest, api # None, ~unwritten, ~staleStart
                 PROVE  parent = api.status.state \/ (api.status.state = "" /\ unsent)
    BY DEF ParentAgrees, Evaluated
  <2>2. DataOK /\ Chain /\ Settled /\ Answered
    BY <1>1 DEF IInv, Typed
  <2>3. events = <<>> /\ pc = "idle" /\ ~queued
    BY <2>1 DEF AtRest
  <2>4. Len(events) = 0
    BY <2>3
  <2>5. api = cache /\ Version[1] = cache /\ 1 \in Versions
    BY <2>2, <2>4, VersionType DEF Chain, EndsAtApi, Versions
  <2>6. CASE api.status.state # ""
    <3>1. Current(api) /\ SameButReset(api)
      BY <2>1 DEF Current, SameButReset
    <3> QED
      BY <2>1, <2>2, <2>5, <2>6, <3>1 DEF Settled
  <2>7. CASE api.status.state = ""
    <3>1. ~Answering
      BY <2>3 DEF Answering
    <3>2. ~Coming
      BY <2>4 DEF Coming
    <3>3. unsent
      BY <2>1, <2>2, <2>3, <2>5, <2>7, <3>1, <3>2, Zenon DEF Answered
    <3> QED
      BY <2>7, <3>3
  <2> QED
    BY <2>6, <2>7
<1> QED
  BY <1>1, Inductive, PTL
=============================================================================
