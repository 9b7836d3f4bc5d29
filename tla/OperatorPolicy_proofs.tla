------------------------ MODULE OperatorPolicy_proofs ------------------------
(* Proofs about OperatorPolicy. *)
EXTENDS OperatorPolicy, TLAPS

-----------------------------------------------------------------------------
(* Types *)

Field == {"ns", "offered", "og", "sub", "others", "plan", "csv", "crd", "dep", "cat"}

LEMMA FieldsOfObjects == ASSUME DataOK PROVE DOMAIN obj = Field
  BY DEF DataOK, Objects, Field

LEMMA UpdateStatusType ==
    ASSUME NEW p \in Policy, NEW k \in Kind, NEW ok \in BOOLEAN
    PROVE  /\ updateStatus(p, k, ok) \in Policy
           /\ updateStatus(p, k, ok).spec = p.spec
           /\ updateStatus(p, k, ok).status =
                 [good  |-> IF ok THEN p.status.good \cup {k} ELSE p.status.good \ {k},
                  state |-> Compliance(IF ok THEN p.status.good \cup {k}
                                       ELSE p.status.good \ {k})]
           /\ updateStatus(p, k, ok).status.state
                = Compliance(updateStatus(p, k, ok).status.good)
  BY DEF updateStatus, Policy, Status, State, Compliance

\* What a handler of kind k may decide.
Value(k) == IF k = "og" THEN Group
            ELSE IF k = "sub" THEN Subscription \cup {None}
            ELSE IF k = "csv" THEN [Csv -> {"none", "pending", "succeeded", "deleting"}]
            ELSE {"none", "present", "deleting"}
Verdict(k, v) ==
    /\ v.ok \in BOOLEAN /\ v.then \in BOOLEAN
    /\ v.to = {} \/ (/\ k \in {"og", "sub", "csv", "crd"} /\ v.ok = FALSE
                     /\ v.to \cup v.part \subseteq Value(k)
                     /\ \A x \in v.to : x # obj[k])

\* The objects with another value of one kind.
LEMMA UpdatedObjects ==
    ASSUME NEW o \in Objects, NEW k \in {"og", "sub", "csv", "crd"}, NEW x \in Value(k)
    PROVE  /\ [o EXCEPT ![k] = x] \in Objects
           /\ [o EXCEPT ![k] = x].ns = o.ns
           /\ \A b \in BOOLEAN : [o EXCEPT ![k] = x, !.ns = b] \in Objects
<1>1. CASE k = "og"
  BY <1>1 DEF Value, Objects
<1>2. CASE k = "sub"
  BY <1>2 DEF Value, Objects
<1>3. CASE k = "csv"
  BY <1>3 DEF Value, Objects
<1>4. CASE k = "crd"
  BY <1>4 DEF Value, Objects
<1> QED
  BY <1>1, <1>2, <1>3, <1>4

LEMMA HandledObjects ==
    ASSUME TypeOK, NEW k \in Kind, NEW v, NEW next, Verdict(k, v), Handle(k, v, next)
    PROVE  obj' \in Objects /\ queue' \in BOOLEAN
<1>1. CASE UNCHANGED <<obj, queue>>
  BY <1>1 DEF TypeOK, DataOK, FlagsOK
<1>2. ASSUME v.to # {},
             \E x \in v.to : Change([obj EXCEPT ![k] = x, !.ns = obj.ns \/ k \in {"og", "sub"}])
      PROVE  obj' \in Objects /\ queue' \in BOOLEAN
  <2>1. PICK x \in v.to : Change([obj EXCEPT ![k] = x, !.ns = obj.ns \/ k \in {"og", "sub"}])
    BY <1>2
  <2>2. x \in Value(k) /\ k \in {"og", "sub", "csv", "crd"}
    BY <1>2, <2>1 DEF Verdict
  <2>3. queue' \in BOOLEAN
    BY <2>1, Zenon DEF Change, TypeOK, FlagsOK
  <2> DEFINE b == obj.ns \/ k \in {"og", "sub"}
  <2>4. obj' = [obj EXCEPT ![k] = x, !.ns = b]
    BY <2>1 DEF Change
  <2>5. obj \in Objects /\ b \in BOOLEAN
    BY DEF TypeOK, DataOK, Objects
  <2> HIDE DEF b
  <2> QED
    BY <2>2, <2>3, <2>4, <2>5, UpdatedObjects
<1>3. ASSUME v.to # {}, \E x \in v.part : Change([obj EXCEPT ![k] = x])
      PROVE  obj' \in Objects /\ queue' \in BOOLEAN
  <2>1. PICK x \in v.part : Change([obj EXCEPT ![k] = x])
    BY <1>3
  <2>2. x \in Value(k) /\ k \in {"og", "sub", "csv", "crd"}
    BY <1>3, <2>1 DEF Verdict
  <2>3. queue' \in BOOLEAN
    BY <2>1, Zenon DEF Change, TypeOK, FlagsOK
  <2>4. obj' = [obj EXCEPT ![k] = x] /\ obj \in Objects
    BY <2>1 DEF Change, TypeOK, DataOK
  <2> QED
    BY <2>2, <2>3, <2>4, UpdatedObjects
<1> QED
  BY <1>1, <1>2, <1>3, Zenon DEF Handle

\* What a handler does to the worker's copy and flags.
LEMMA Handled ==
    ASSUME TypeOK, policy \in Policy, NEW k \in Kind, NEW v, NEW next, Verdict(k, v),
           Handle(k, v, next)
    PROVE  /\ policy' \in Policy /\ policy'.spec = policy.spec
           /\ policy'.status.state = Compliance(policy'.status.good)
           /\ changed' \in BOOLEAN /\ early' \in BOOLEAN /\ failed' \in BOOLEAN
           /\ pc' \in {next, "status"} /\ (pc' = next \/ failed')
           /\ disturbances' \in 0 .. MaxDisturbances
           /\ failed => failed'
           /\ changed => changed'
<1> DEFINE p == updateStatus(policy, k, v.ok)
<1>1. p \in Policy /\ p.spec = policy.spec /\ p.status.state = Compliance(p.status.good)
  BY UpdateStatusType DEF Verdict
<1>2. updateStatus(p, k, v.then) \in Policy /\ updateStatus(p, k, v.then).spec = policy.spec
      /\ updateStatus(p, k, v.then).status.state = Compliance(updateStatus(p, k, v.then).status.good)
  BY <1>1, UpdateStatusType DEF Verdict
<1>3. policy' \in {p, updateStatus(p, k, v.then)}
  BY DEF Handle
<1>4. \A q : \A flag \in BOOLEAN : MayReport(flag, q) \subseteq BOOLEAN /\ (flag => MayReport(flag, q) = {TRUE})
  BY DEF MayReport
<1>5. /\ changed' \in BOOLEAN /\ early' \in BOOLEAN /\ failed' \in BOOLEAN
      /\ failed => failed'
      /\ changed => changed'
  <2>1. /\ early' \in BOOLEAN /\ changed' \in BOOLEAN
        /\ changed => changed'
    <3>1. CASE FailureReports(k, p)
      BY <1>4, <3>1, Zenon DEF FailureReports, TypeOK, FlagsOK
    <3>2. CASE changed' \in MayReport(changed, p) /\ early' = early
      BY <3>2, Zenon DEF MayReport, TypeOK, FlagsOK
    <3>3. CASE changed' = TRUE /\ early' \in IF v.then THEN MayReport(early, p) ELSE {early}
      BY <1>4, <3>3 DEF TypeOK, FlagsOK
    <3> QED
      BY <3>1, <3>2, <3>3, Zenon DEF Handle
  <2>2. failed' \in BOOLEAN /\ (failed => failed')
    BY Zenon DEF Handle, TypeOK, FlagsOK
  <2> QED
    BY <2>1, <2>2
<1>6. pc' = next \/ (pc' = "status" /\ failed')
  BY Zenon DEF Handle
<1>7. disturbances' = disturbances \/ Disturb
  BY Zenon DEF Handle
<1>8. disturbances' \in 0 .. MaxDisturbances
  BY <1>7, ConstantsAssumption DEF Disturb, TypeOK, FlagsOK
<1> QED
  BY <1>1, <1>2, <1>3, <1>5, <1>6, <1>8

\* The verdicts of the handlers that act.
GroupVerdict == IF ~GroupBuilt(spec) THEN Report(FALSE)
                ELSE IF spec.musthave THEN musthaveOpGroup ELSE mustnothaveOpGroup
SubscriptionVerdict == IF ~SubscriptionBuilt(spec) THEN Report(FALSE)
                       ELSE IF spec.musthave THEN musthaveSubscription
                       ELSE mustnothaveSubscription
CSVVerdict == IF sub = None THEN Report(FALSE)
              ELSE IF spec.musthave THEN musthaveCSV ELSE mustnothaveCSV

LEMMA ReportVerdict == ASSUME NEW k, NEW ok \in BOOLEAN PROVE Verdict(k, Report(ok))
  BY DEF Verdict, Report

LEMMA GroupVerdictType == ASSUME TypeOK, policy \in Policy PROVE Verdict("og", GroupVerdict)
<1> USE DEF Report, ActOn, Deleted, Value, Group
<1>1. obj.og \in Group /\ obj.others \in BOOLEAN
  BY DEF TypeOK, DataOK, Objects
<1>2. Verdict("og", musthaveOpGroup)
  BY <1>1 DEF Verdict, musthaveOpGroup
<1>3. Verdict("og", mustnothaveOpGroup)
  BY <1>1 DEF Verdict, mustnothaveOpGroup
<1> QED
  BY <1>2, <1>3, ReportVerdict DEF GroupVerdict

LEMMA SubscriptionType ==
    ASSUME TypeOK
    PROVE  /\ desiredSub \in Subscription /\ AutoApproval \in BOOLEAN
           /\ obj.sub # None => /\ obj.sub \in Subscription
                                /\ [obj.sub EXCEPT !.match = "match", !.owned = TRUE,
                                                   !.auto = AutoApproval] \in Subscription
                                /\ [obj.sub EXCEPT !.deleting = TRUE] \in Subscription
<1>1. AutoApproval \in BOOLEAN
  BY DEF AutoApproval
<1>2. desiredSub \in Subscription
  BY <1>1, ConstantsAssumption DEF desiredSub, Subscription, CsvOrNone
<1>3. obj.sub \in Subscription \cup {None}
  BY DEF TypeOK, DataOK, Objects
<1> HIDE DEF AutoApproval
<1>4. ASSUME NEW s \in Subscription, NEW a \in BOOLEAN
      PROVE  /\ [s EXCEPT !.match = "match", !.owned = TRUE, !.auto = a] \in Subscription
             /\ [s EXCEPT !.deleting = TRUE] \in Subscription
  BY DEF Subscription
<1> QED
  BY <1>1, <1>2, <1>3, <1>4

LEMMA SubscriptionVerdictType ==
    ASSUME TypeOK, policy \in Policy
    PROVE  Verdict("sub", SubscriptionVerdict)
<1> USE DEF Report, ActOn, Deleted, Value
<1>1. obj.sub \in Subscription \cup {None} /\ None \notin Subscription
  BY ConstantsAssumption DEF TypeOK, DataOK, Objects
<1>2. Verdict("sub", musthaveSubscription)
  <2>1. CASE obj.sub = None
    BY <1>1, <2>1, SubscriptionType DEF Verdict, musthaveSubscription
  <2>2. CASE obj.sub # None /\ updateNeeded /\ spec.enforce /\ obj.sub.match # "immutable"
    <3> DEFINE x == [obj.sub EXCEPT !.match = "match", !.owned = TRUE, !.auto = AutoApproval]
    <3>1. x \in Subscription /\ obj.sub \in Subscription
      BY <2>2, SubscriptionType
    <3>2. x.match = "match" /\ x.owned = TRUE /\ x.auto = AutoApproval
      BY <3>1 DEF Subscription
    <3>3. x # obj.sub
      BY <2>2, <3>2 DEF updateNeeded
    <3>4. musthaveSubscription = ActOn({x}, TRUE)
      BY <2>2 DEF musthaveSubscription
    <3> HIDE DEF x
    <3> QED
      BY <3>1, <3>3, <3>4 DEF Verdict
  <2>3. CASE obj.sub # None /\ ~(updateNeeded /\ spec.enforce /\ obj.sub.match # "immutable")
    BY <2>3 DEF Verdict, musthaveSubscription, considerResolutionFailed
  <2> QED
    BY <2>1, <2>2, <2>3
<1>3. Verdict("sub", mustnothaveSubscription)
  <2>1. CASE obj.sub # None /\ "sub" \in spec.remove /\ spec.enforce /\ ~obj.sub.deleting
    <3> DEFINE x == [obj.sub EXCEPT !.deleting = TRUE]
    <3>1. x \in Subscription /\ obj.sub \in Subscription
      BY <2>1, SubscriptionType
    <3>2. x.deleting = TRUE
      BY <3>1 DEF Subscription
    <3>3. mustnothaveSubscription = ActOn(Deleted("sub", x, None), TRUE)
      BY <2>1 DEF mustnothaveSubscription
    <3> HIDE DEF x
    <3> QED
      BY <2>1, <3>1, <3>2, <3>3 DEF Verdict
  <2>2. CASE ~(obj.sub # None /\ "sub" \in spec.remove /\ spec.enforce /\ ~obj.sub.deleting)
    BY <2>2 DEF Verdict, mustnothaveSubscription
  <2> QED
    BY <2>1, <2>2
<1> QED
  BY <1>2, <1>3, ReportVerdict DEF SubscriptionVerdict

LEMMA CSVVerdictType == ASSUME TypeOK, policy \in Policy PROVE Verdict("csv", CSVVerdict)
<1>1. Verdict("csv", musthaveCSV)
  BY ReportVerdict DEF musthaveCSV
<1> DEFINE unwanted == {v \in Csv : obj.csv[v] # "none" /\ "csv" \in spec.remove}
           deleting == {v \in unwanted : obj.csv[v] = "deleting"}
<1>2. obj.csv \in [Csv -> {"none", "pending", "succeeded", "deleting"}]
  BY DEF TypeOK, DataOK, Objects
<1>3. ASSUME NEW w, NEW x \in {"none", "deleting"}
      PROVE  /\ CSVsThen(w, x) \in Value("csv")
             /\ \A v \in Csv : v \in w /\ obj.csv[v] # "deleting" => CSVsThen(w, x)[v] = x
  BY <1>2 DEF CSVsThen, Value
<1>4. ASSUME unwanted # deleting PROVE Verdict("csv", DeleteCSVs(unwanted, deleting = {}))
  <2>1. PICK v \in unwanted : obj.csv[v] # "none" /\ obj.csv[v] # "deleting"
    BY <1>4
  <2> DEFINE then(which) == Deleted("csv", CSVsThen(which, "deleting"), CSVsThen(which, "none"))
  <2> HIDE DEF unwanted, deleting
  <2>2. v \in Csv
    BY <2>1 DEF unwanted
  <2>3. \A w : then(w) \subseteq Value("csv")
    BY <1>3 DEF Deleted
  <2>4. \A x \in then(unwanted) : x # obj.csv
    <3>1. CSVsThen(unwanted, "deleting") # obj.csv /\ CSVsThen(unwanted, "none") # obj.csv
      BY <1>3, <2>1, <2>2
    <3> QED
      BY <3>1 DEF Deleted
  <2>5. UNION {then(some) : some \in SUBSET unwanted} \subseteq Value("csv")
    BY <2>3
  <2> DEFINE c == DeleteCSVs(unwanted, deleting = {})
             done == deleting = {}
             rest == UNION {then(some) : some \in SUBSET unwanted} \ then(unwanted)
  <2>6. c = [ok |-> FALSE, to |-> then(unwanted), then |-> done, part |-> rest]
    BY DEF DeleteCSVs
  <2>7. done \in BOOLEAN /\ rest \subseteq Value("csv")
    BY <2>5
  <2> HIDE DEF then, rest, done, c
  <2>8. c.ok = FALSE /\ c.then \in BOOLEAN /\ c.to = then(unwanted) /\ c.part = rest
    BY <2>6, <2>7
  <2>9. Verdict("csv", c)
    BY <2>3, <2>4, <2>7, <2>8 DEF Verdict
  <2> QED
    BY <2>9 DEF c
<1>5. Verdict("csv", mustnothaveCSV)
  BY <1>4, ReportVerdict DEF mustnothaveCSV
<1> QED
  BY <1>1, <1>5, ReportVerdict DEF CSVVerdict

LEMMA CRDVerdictType == ASSUME TypeOK, policy \in Policy PROVE Verdict("crd", CRDVerdict)
<1>1. obj.crd \in {"none", "present", "deleting"}
  BY DEF TypeOK, DataOK, Objects
<1> QED
  BY <1>1 DEF Verdict, CRDVerdict, Report, ActOn, Deleted, Value

-----------------------------------------------------------------------------
(* Changes of the objects by others *)

Elsewhere ==
    /\ UNCHANGED <<api, cache, lag, watches, parent, locals, unsent>>
    /\ obj' \in Objects /\ queue' \in BOOLEAN /\ (queue => queue')
    /\ ~queue' => \A k \in watches \cup batch : obj'[k] = obj[k]
    /\ tampered' \in BOOLEAN /\ (tampered => tampered')
    /\ disturbances' \in 0 .. MaxDisturbances

LEMMA ChangeElsewhere ==
    ASSUME TypeOK, NEW o \in Objects, UNCHANGED locals, Change(o)
    PROVE  /\ obj' = o /\ queue' \in BOOLEAN /\ (queue => queue')
           /\ ~queue' => \A k \in watches \cup batch : obj'[k] = obj[k]
<1>1. batch' = batch
  BY DEF locals
<1>2. obj' = o /\ queue' = (queue \/ \E k \in watches \cup batch : o[k] # obj[k])
  BY <1>1 DEF Change
<1> QED
  BY <1>2, Zenon DEF TypeOK, FlagsOK

LEMMA UserChangeElsewhere ==
    ASSUME TypeOK, NEW k, NEW x, UserChange(k, x), [obj EXCEPT ![k] = x] \in Objects
    PROVE  Elsewhere
<1> DEFINE o == [obj EXCEPT ![k] = x]
<1>1. o \in Objects
  OBVIOUS
<1> HIDE DEF o
<1>2. UNCHANGED locals /\ Change(o)
  BY DEF UserChange, o
<1>3. UNCHANGED <<api, cache, lag, watches, parent, unsent>>
  BY DEF UserChange
<1>4. tampered' \in BOOLEAN /\ (tampered => tampered')
  BY Zenon DEF UserChange, TypeOK, FlagsOK
<1>5. disturbances' \in 0 .. MaxDisturbances
  BY ConstantsAssumption DEF UserChange, Disturb, TypeOK, FlagsOK
<1> QED
  BY <1>1, <1>2, <1>3, <1>4, <1>5, ChangeElsewhere DEF Elsewhere

LEMMA UsersElsewhere == ASSUME TypeOK, Users PROVE Elsewhere
<1>1. obj \in Objects /\ obj.sub \in Subscription \cup {None}
  BY DEF TypeOK, DataOK, Objects
<1>2. CASE \E x \in GroupStates : UserChange("og", x)
  BY <1>1, <1>2, UserChangeElsewhere, ConstantsAssumption DEF Objects
<1>3. CASE \E x \in CatalogStates : UserChange("cat", x)
  BY <1>1, <1>3, UserChangeElsewhere, ConstantsAssumption DEF Objects
<1>4. CASE obj.offered < MaxVersion /\ UserChange("offered", obj.offered + 1)
  <2>1. obj.offered + 1 \in Csv
    BY <1>1, <1>4, ConstantsAssumption DEF Objects, Csv
  <2>2. [obj EXCEPT !.offered = obj.offered + 1] \in Objects
    BY <1>1, <2>1 DEF Objects
  <2> QED
    BY <1>4, <2>2, UserChangeElsewhere
<1>5. CASE \E x \in Deployments : UserChange("dep", x)
  BY <1>1, <1>5, UserChangeElsewhere, ConstantsAssumption DEF Objects
<1>6. CASE UserChange("others", ~obj.others)
  BY <1>1, <1>6, UserChangeElsewhere DEF Objects
<1>7. ASSUME NEW x \in Subscription \cup {None}, UserChange("sub", x) PROVE Elsewhere
  BY <1>1, <1>7, UserChangeElsewhere DEF Objects
<1>8. ASSUME NEW s \in Subscription, NEW m \in {"differs", "immutable"},
             NEW r \in {"fine", "failed", "neighbor"}
      PROVE  [s EXCEPT !.match = m] \in Subscription /\ [s EXCEPT !.res = r] \in Subscription
  BY DEF Subscription
<1> QED
  BY <1>1, <1>2, <1>3, <1>4, <1>5, <1>6, <1>7, <1>8 DEF Users

LEMMA OlmElsewhere == ASSUME TypeOK, NEW o \in Objects, Olm(o) PROVE Elsewhere
  BY ChangeElsewhere DEF Olm, Elsewhere, history, TypeOK, FlagsOK

LEMMA ResolvedObjects == ASSUME TypeOK, OlmResolve PROVE Elsewhere
<1> DEFINE o == [obj EXCEPT !.sub.cur = @ + 1]
<1>1. obj.sub \in Subscription /\ obj.sub.cur \in CsvOrNone /\ obj.offered \in Csv
      /\ obj.sub.cur < obj.offered
  BY DEF OlmResolve, TypeOK, DataOK, Objects, Subscription
<1>2. obj.sub.cur + 1 \in CsvOrNone
  BY <1>1, ConstantsAssumption DEF Csv, CsvOrNone
<1>3. [obj.sub EXCEPT !.cur = @ + 1] \in Subscription
  BY <1>1, <1>2 DEF Subscription
<1>4. o = [obj EXCEPT !.sub = [obj.sub EXCEPT !.cur = @ + 1]] /\ obj \in Objects
  BY DEF TypeOK, DataOK, Objects
<1>5. o \in Objects
  BY <1>3, <1>4 DEF Objects
<1> QED
  BY <1>5, OlmElsewhere DEF OlmResolve

LEMMA PlannedObjects == ASSUME TypeOK, OlmPlan PROVE Elsewhere
<1> DEFINE x == IF obj.sub.auto THEN "approved" ELSE "requires"
           o == [obj EXCEPT !.plan[obj.sub.cur] = x]
<1>1. obj \in Objects /\ x \in Phase
  BY DEF TypeOK, DataOK, Phase
<1> HIDE DEF x
<1>2. o \in Objects
  BY <1>1 DEF Objects
<1> QED
  BY <1>2, OlmElsewhere DEF OlmPlan, x

LEMMA InstalledObjects ==
    ASSUME TypeOK, NEW v \in Csv,
           OlmInstall(v) \/ OlmInstalled(v) \/ OlmSucceeded(v) \/ OlmComplete(v)
    PROVE  Elsewhere
<1>1. obj \in Objects
  BY DEF TypeOK, DataOK
<1>2. CASE OlmInstall(v)
  <2> DEFINE c == [w \in Csv |-> IF w = v THEN "pending"
                                 ELSE IF obj.csv[w] = "deleting" THEN "deleting" ELSE "none"]
             d == IF obj.crd = "none" THEN "present" ELSE obj.crd
             o == [obj EXCEPT !.plan[v] = "installing", !.csv = c, !.crd = d]
  <2>1. c \in [Csv -> {"none", "pending", "succeeded", "deleting"}]
        /\ d \in {"none", "present", "deleting"}
    BY <1>1 DEF Objects
  <2> HIDE DEF c, d
  <2>2. o \in Objects
    BY <1>1, <2>1 DEF Objects, Phase
  <2>3. Olm(o)
    BY <1>1, <1>2 DEF OlmInstall, c, d, Objects
  <2> QED
    BY <2>2, <2>3, OlmElsewhere
<1>3. CASE OlmInstalled(v)
  <2> DEFINE o == [obj EXCEPT !.sub.inst = v]
  <2>1. obj.sub \in Subscription /\ v \in CsvOrNone
    BY <1>1, <1>3 DEF OlmInstalled, Objects, Csv, CsvOrNone
  <2>2. [obj.sub EXCEPT !.inst = v] \in Subscription
    BY <2>1 DEF Subscription
  <2>3. o = [obj EXCEPT !.sub = [obj.sub EXCEPT !.inst = v]]
    BY <1>1 DEF Objects
  <2>4. o \in Objects
    BY <1>1, <2>2, <2>3 DEF Objects
  <2> QED
    BY <1>3, <2>4, OlmElsewhere DEF OlmInstalled
<1>4. CASE OlmSucceeded(v)
  <2>1. [obj EXCEPT !.csv[v] = "succeeded"] \in Objects
    BY <1>1 DEF Objects
  <2> QED
    BY <1>4, <2>1, OlmElsewhere DEF OlmSucceeded
<1>5. CASE OlmComplete(v)
  <2>1. PICK x \in {"complete", "failed"} : Olm([obj EXCEPT !.plan[v] = x])
    BY <1>5 DEF OlmComplete
  <2>2. [obj EXCEPT !.plan[v] = x] \in Objects
    BY <1>1 DEF Objects, Phase
  <2> QED
    BY <2>1, <2>2, OlmElsewhere
<1> QED
  BY <1>2, <1>3, <1>4, <1>5

LEMMA TerminatedObjects ==
    ASSUME TypeOK, Terminated
    PROVE  \E k, x :
              /\ k \in Dying /\ k \in {"og", "sub", "csv", "crd"} /\ x \in Value(k)
              /\ Olm([obj EXCEPT ![k] = x])
              /\ k = "sub" => x = None
              /\ k = "csv" => \A v \in Csv : x[v] \in {obj.csv[v], "none"}
<1>1. PICK k \in Dying :
        Olm([obj EXCEPT ![k] = IF k = "sub" THEN None
                               ELSE IF k = "csv"
                               THEN [v \in Csv |-> IF obj[k][v] = "deleting" THEN "none"
                                                   ELSE obj[k][v]]
                               ELSE "none"])
  BY DEF Terminated
<1> DEFINE x == IF k = "sub" THEN None
                ELSE IF k = "csv"
                THEN [v \in Csv |-> IF obj[k][v] = "deleting" THEN "none" ELSE obj[k][v]]
                ELSE "none"
<1>2. k \in {"og", "sub", "csv", "crd"}
  BY DEF Dying
<1>3. obj.csv \in [Csv -> {"none", "pending", "succeeded", "deleting"}]
  BY DEF TypeOK, DataOK, Objects
<1>4. x \in Value(k) /\ (k = "csv" => \A v \in Csv : x[v] \in {obj.csv[v], "none"})
  BY <1>2, <1>3 DEF Value, Group
<1>5. k = "sub" => x = None
  OBVIOUS
<1>6. Olm([obj EXCEPT ![k] = x])
  BY <1>1
<1> HIDE DEF x
<1> QED
  BY <1>2, <1>4, <1>5, <1>6

LEMMA ClusterElsewhere == ASSUME TypeOK, Cluster PROVE Elsewhere
<1>1. CASE Terminated
  BY <1>1, TerminatedObjects, UpdatedObjects, OlmElsewhere DEF TypeOK, DataOK
<1> QED
  BY <1>1, ResolvedObjects, PlannedObjects, InstalledObjects DEF Cluster

-----------------------------------------------------------------------------
(* The types are preserved *)

Running == pc # "idle"
Typed == TypeOK /\ (Running => policy \in Policy)

Found == [cur : CsvOrNone, inst : CsvOrNone] \cup {None}

LEMMA TypedHandler ==
    ASSUME Typed, Running, NEW k \in Kind, NEW v,
           NEW next \in {"og", "sub", "plan", "csv", "crd", "dep", "cat", "status"},
           Verdict(k, v), Handle(k, v, next), UNCHANGED handlersKeep,
           batch' \subseteq Field, ogCorrect' \in BOOLEAN, sub' \in Found, csv' \in CsvOrNone
    PROVE  Typed'
<1>1. TypeOK /\ policy \in Policy
  BY DEF Typed
<1>2. obj' \in Objects /\ queue' \in BOOLEAN /\ DOMAIN obj = Field
  BY <1>1, HandledObjects, FieldsOfObjects DEF TypeOK
<1>3. DOMAIN obj' = Field
  BY <1>2 DEF Objects, Field
<1>4. /\ policy' \in Policy
      /\ changed' \in BOOLEAN /\ early' \in BOOLEAN /\ failed' \in BOOLEAN
      /\ pc' \in {next, "status"} /\ disturbances' \in 0 .. MaxDisturbances
  BY <1>1, Handled
<1>5. DataOK'
  BY <1>1, <1>2, <1>4 DEF TypeOK, DataOK, handlersKeep, Found
<1>6. pc' \in {"idle", "build", "og", "sub", "plan", "csv", "crd", "dep", "cat", "status",
               "early", "final"}
  BY <1>4
<1>7. UNCHANGED <<watches, lag, stale, unsent, tampered>>
  BY DEF handlersKeep, history
<1>8. watches' \subseteq DOMAIN obj'
  BY <1>1, <1>2, <1>3, <1>7 DEF TypeOK, FlagsOK
<1>9. FlagsOK'
  BY <1>1, <1>2, <1>3, <1>4, <1>6, <1>7, <1>8, Zenon DEF TypeOK, FlagsOK
<1> QED
  BY <1>4, <1>5, <1>9 DEF Typed, TypeOK

LEMMA TypedElsewhere == ASSUME Typed, Elsewhere PROVE Typed'
<1>1. DataOK' /\ DOMAIN obj' = DOMAIN obj
  BY DEF Elsewhere, locals, Typed, TypeOK, DataOK, Objects
<1>2. FlagsOK'
  BY <1>1, ZenonT(60) DEF Elsewhere, locals, Typed, TypeOK, FlagsOK
<1> QED
  BY <1>1, <1>2 DEF Typed, TypeOK, Running, Elsewhere, locals

Environment == Edit \/ Reset \/ Deliver \/ Restart
LEMMA TypedEnvironment == ASSUME Typed, Environment PROVE Typed'
<1> USE DEF Typed, TypeOK
<1>1. CASE Edit
  <2>1. /\ DataOK' /\ (Running' => policy' \in Policy)
        /\ obj' = obj /\ disturbances' \in 0 .. MaxDisturbances
    BY <1>1, ConstantsAssumption DEF Edit, WritePolicy, Disturb, DataOK, Policy, Running, FlagsOK
  <2>2. FlagsOK'
    BY <1>1, <2>1, ZenonT(60) DEF Edit, WritePolicy, FlagsOK
  <2> QED
    BY <2>1, <2>2
<1>2. CASE Reset
  <2> DEFINE reset == [api EXCEPT !.status.state = ""]
  <2>3. api \in Policy /\ api.status \in Status
    BY DEF DataOK, Policy
  <2>4. [api.status EXCEPT !.state = ""] \in Status
    BY <2>3 DEF Status, State
  <2>5. reset = [api EXCEPT !.status = [api.status EXCEPT !.state = ""]]
    BY <2>3 DEF Policy
  <2>6. reset \in Policy
    BY <2>3, <2>4, <2>5 DEF Policy
  <2> HIDE DEF reset
  <2>7. WritePolicy(reset) /\ parent' = ""
    BY <1>2 DEF Reset, reset
  <2>8. api' \in Policy /\ UNCHANGED <<cache, policy, obj, sub, csv, pc>> /\ parent' \in State
    BY <2>6, <2>7 DEF WritePolicy, State
  <2>9. disturbances' \in 0 .. MaxDisturbances
    <3>1. Disturb
      BY <2>7, Zenon DEF WritePolicy
    <3>2. disturbances \in 0 .. MaxDisturbances
      BY Zenon DEF FlagsOK
    <3> QED
      BY <3>1, <3>2, ConstantsAssumption DEF Disturb
  <2>1. /\ DataOK' /\ (Running' => policy' \in Policy)
        /\ obj' = obj /\ disturbances' \in 0 .. MaxDisturbances
    BY <2>8, <2>9 DEF DataOK, Running
  <2>2. FlagsOK'
    BY <1>2, <2>1, ZenonT(60) DEF Reset, WritePolicy, FlagsOK
  <2> QED
    BY <2>1, <2>2
<1>3. CASE Deliver
  <2>1. DataOK' /\ obj' = obj /\ (Running' => policy' \in Policy)
    BY <1>3 DEF Deliver, locals, DataOK, Running
  <2>2. FlagsOK'
    BY <1>3, <2>1, ZenonT(60) DEF Deliver, locals, history, FlagsOK
  <2> QED
    BY <2>1, <2>2
<1>4. CASE Restart
  <2>1. DataOK' /\ obj' = obj /\ disturbances' \in 0 .. MaxDisturbances /\ pc' = "idle"
    BY <1>4, ConstantsAssumption DEF Restart, Return, Disturb, DataOK, FlagsOK, CsvOrNone
  <2>2. FlagsOK'
    BY <1>4, <2>1, Zenon DEF Restart, Return, FlagsOK
  <2> QED
    BY <2>1, <2>2 DEF Running
<1> QED
  BY <1>1, <1>2, <1>3, <1>4 DEF Environment

Handlers == \/ buildResources \/ handleOpGroup \/ handleSubscription \/ handleInstallPlan
            \/ handleCSV \/ handleCRDs \/ handleDeployment \/ handleCatalogSource

LEMMA PassedOnType == ASSUME Typed PROVE foundCSV \in CsvOrNone
  BY ConstantsAssumption DEF foundCSV, Typed, TypeOK, DataOK, CsvOrNone

LEMMA CatalogType == CatalogIsGood \in BOOLEAN
<1>1. CASE ~spec.musthave
  BY <1>1 DEF CatalogIsGood
<1>2. CASE spec.musthave /\ sub = None
  BY <1>2 DEF CatalogIsGood
<1>3. CASE spec.musthave /\ sub # None /\ obj.cat = "unknown"
  BY <1>3 DEF CatalogIsGood
<1>4. CASE spec.musthave /\ sub # None /\ obj.cat # "unknown"
  BY <1>4 DEF CatalogIsGood
<1> QED
  BY <1>1, <1>2, <1>3, <1>4

LEMMA TypedHandlers == ASSUME Typed, Handlers PROVE Typed'
<1>1. /\ Running /\ TypeOK /\ policy \in Policy /\ batch \subseteq Field
      /\ ogCorrect \in BOOLEAN /\ sub \in Found /\ csv \in CsvOrNone
  BY FieldsOfObjects DEF Handlers, buildResources, handleOpGroup, handleSubscription,
     handleInstallPlan, handleCSV, handleCRDs, handleDeployment, handleCatalogSource,
     Running, Typed, TypeOK, DataOK, FlagsOK, Found
<1>2. CASE buildResources
  BY <1>1, <1>2, ReportVerdict, TypedHandler DEF buildResources, Kind, Field
<1>3. CASE handleOpGroup
  <2>1. ogCorrect' \in BOOLEAN
    BY <1>3 DEF handleOpGroup
  <2>2. batch' \subseteq Field
    BY <1>1, <1>3 DEF handleOpGroup, Field
  <2>3. Handle("og", GroupVerdict, "sub") /\ UNCHANGED <<handlersKeep, sub, csv>>
    BY <1>3 DEF handleOpGroup, GroupVerdict
  <2> QED
    BY <1>1, <2>1, <2>2, <2>3, GroupVerdictType, TypedHandler DEF Kind
<1>4. CASE handleSubscription
  <2>1. sub' \in Found
    BY <1>1, <1>4, ConstantsAssumption
       DEF handleSubscription, TypeOK, DataOK, Objects, Subscription, Found, CsvOrNone
  <2>2. batch' \subseteq Field
    BY <1>1, <1>4 DEF handleSubscription, Field
  <2>3. /\ Handle("sub", SubscriptionVerdict, "plan")
        /\ UNCHANGED <<handlersKeep, ogCorrect, csv>>
    BY <1>4 DEF handleSubscription, SubscriptionVerdict
  <2> QED
    BY <1>1, <2>1, <2>2, <2>3, SubscriptionVerdictType, TypedHandler DEF Kind
<1>5. CASE handleInstallPlan
  <2>1. batch' \subseteq Field /\ UNCHANGED <<handlersKeep, ogCorrect, sub, csv>>
    BY <1>1, <1>5 DEF handleInstallPlan, Field
  <2>2. CASE \E ok \in BOOLEAN : Handle("plan", Report(ok), "csv")
    BY <1>1, <2>1, <2>2, ReportVerdict, TypedHandler DEF Kind
  <2>3. CASE \E v : /\ Change([obj EXCEPT !.plan[v] = "approved"])
                    /\ policy' = updateStatus(policy, "plan", TRUE)
                    /\ changed' \in MayReport(changed, policy')
                    /\ pc' = "csv"
                    /\ UNCHANGED <<early, failed, disturbances>>
    <3>1. PICK v : Change([obj EXCEPT !.plan[v] = "approved"])
      BY <2>3
    <3>2. obj' = [obj EXCEPT !.plan[v] = "approved"]
      BY <3>1 DEF Change
    <3>3. queue' \in BOOLEAN
      BY <3>1, Zenon DEF Change, Typed, TypeOK, FlagsOK
    <3>4. obj' \in Objects /\ DOMAIN obj' = DOMAIN obj
      BY <1>1, <3>2 DEF TypeOK, DataOK, Objects, Phase
    <3>5. policy' \in Policy
      BY <1>1, <2>3, UpdateStatusType DEF Kind
    <3>6. changed' \in BOOLEAN
      BY <2>3 DEF MayReport
    <3>7. DataOK'
      BY <1>1, <2>1, <3>4, <3>5 DEF TypeOK, DataOK, handlersKeep
    <3>8. UNCHANGED <<watches, lag, stale, unsent, tampered, early, failed, disturbances>>
      BY <2>1, <2>3 DEF handlersKeep, history
    <3>9. batch' \subseteq DOMAIN obj'
      BY <1>1, <2>1, <3>4, FieldsOfObjects DEF TypeOK
    <3>10. FlagsOK'
      BY <1>1, <2>1, <2>3, <3>3, <3>4, <3>6, <3>8, <3>9, Zenon DEF TypeOK, FlagsOK
    <3> QED
      BY <3>5, <3>7, <3>10 DEF Typed, TypeOK
  <2> QED
    BY <1>5, <2>2, <2>3 DEF handleInstallPlan
<1>6. CASE handleCSV
  <2>1. batch' \subseteq Field
    BY <1>1, <1>6 DEF handleCSV, Field
  <2>2. /\ Handle("csv", CSVVerdict, "crd") /\ csv' = foundCSV
        /\ UNCHANGED <<handlersKeep, ogCorrect, sub>>
    BY <1>6 DEF handleCSV, CSVVerdict
  <2> QED
    BY <1>1, <2>1, <2>2, CSVVerdictType, PassedOnType, TypedHandler DEF Kind
<1>7. CASE handleCRDs
  <2>1. batch' \subseteq Field
    BY <1>1, <1>7 DEF handleCRDs, Field
  <2> QED
    BY <1>1, <1>7, <2>1, CRDVerdictType, TypedHandler DEF handleCRDs, Kind
<1>8. CASE handleDeployment
  <2>1. batch' \subseteq Field
    BY <1>1, <1>8 DEF handleDeployment, DeploymentWatch, Field
  <2> QED
    BY <1>1, <1>8, <2>1, ReportVerdict, TypedHandler DEF handleDeployment, Kind
<1>9. CASE handleCatalogSource
  <2>1. batch' \subseteq Field
    BY <1>1, <1>9 DEF handleCatalogSource, Field
  <2>2. CatalogIsGood \in BOOLEAN
    BY CatalogType
  <2> QED
    BY <1>1, <1>9, <2>1, <2>2, ReportVerdict, TypedHandler DEF handleCatalogSource, Kind
<1> QED
  BY <1>2, <1>3, <1>4, <1>5, <1>6, <1>7, <1>8, <1>9 DEF Handlers

Rest == ReconcileBegin \/ HandlerFails \/ WriteStatus \/ EmitEarly \/ EmitFinal

LEMMA TypedRest == ASSUME Typed, Rest PROVE Typed'
<1> USE DEF Typed, TypeOK
<1>1. CASE ReconcileBegin
  <2>1. DataOK' /\ obj' = obj /\ policy' \in Policy
    BY <1>1 DEF ReconcileBegin, Begin, DataOK
  <2>2. FlagsOK'
    BY <1>1, <2>1, Zenon DEF ReconcileBegin, Begin, history, FlagsOK
  <2> QED
    BY <2>1, <2>2
<1>2. ASSUME DataOK', obj' = obj, policy' = policy, Running \/ ~Running',
             disturbances' = disturbances \/ Disturb
      PROVE  (Running' => policy' \in Policy) /\ disturbances' \in 0 .. MaxDisturbances
  <2>1. disturbances \in 0 .. MaxDisturbances
    BY Zenon DEF FlagsOK
  <2> QED
    BY <1>2, <2>1, ConstantsAssumption DEF Disturb
<1>3. CASE HandlerFails
  <2>1. DataOK' /\ obj' = obj /\ policy' = policy /\ Running /\ Disturb
    BY <1>3 DEF HandlerFails, handlersKeep, DataOK, Running
  <2>2. FlagsOK'
    BY <1>2, <1>3, <2>1, Zenon DEF HandlerFails, handlersKeep, history, FlagsOK
  <2> QED
    BY <1>2, <2>1, <2>2
<1>4. CASE WriteStatus
  <2>1. policy \in Policy /\ Running /\ policy' = policy /\ obj' = obj
        /\ (disturbances' = disturbances \/ Disturb)
    BY <1>4 DEF WriteStatus, Running
  <2>2. [api EXCEPT !.status = policy.status] \in Policy
    BY <2>1 DEF DataOK, Policy
  <2>3. DataOK'
    BY <1>4, <2>1, <2>2, Zenon DEF WriteStatus, DataOK
  <2>4. StatusUpdate \in {"none", "quiet", "enqueue"}
    BY DEF StatusUpdate, FlagsOK
  <2>5. lag' \in {"none", "quiet", "enqueue"}
    BY <1>4, <2>4, Zenon DEF WriteStatus, FlagsOK
  <2>6. FlagsOK'
    BY <1>2, <1>4, <2>1, <2>3, <2>5, Zenon DEF WriteStatus, FlagsOK
  <2> QED
    BY <1>2, <2>1, <2>3, <2>6
<1>5. CASE EmitEarly
  <2>1. DataOK' /\ obj' = obj /\ policy' = policy /\ Running
        /\ (disturbances' = disturbances \/ Disturb)
    <3>1. parent' \in State
      BY <1>5 DEF EmitEarly, State, DataOK
    <3> QED
      BY <1>5, <3>1 DEF EmitEarly, DataOK, Running
  <2>2. FlagsOK'
    BY <1>2, <1>5, <2>1, ZenonT(60) DEF EmitEarly, FlagsOK
  <2> QED
    BY <1>2, <2>1, <2>2
<1>6. CASE EmitFinal
  <2>1. parent' \in State
    BY <1>6 DEF EmitFinal, State, Compliance, DataOK
  <2>2. DataOK' /\ obj' = obj /\ ~Running'
    BY <1>6, <2>1, ConstantsAssumption DEF EmitFinal, Return, Running, DataOK, CsvOrNone
  <2>3. disturbances' \in 0 .. MaxDisturbances
    <3>1. disturbances' = disturbances \/ Disturb
      BY <1>6, Zenon DEF EmitFinal
    <3>2. disturbances \in 0 .. MaxDisturbances
      BY Zenon DEF FlagsOK
    <3> QED
      BY <3>1, <3>2, ConstantsAssumption DEF Disturb
  <2>4. FlagsOK'
    BY <1>6, <2>2, <2>3, Zenon DEF EmitFinal, Return, FlagsOK
  <2> QED
    BY <2>2, <2>4
<1> QED
  BY <1>1, <1>3, <1>4, <1>5, <1>6 DEF Rest

LEMMA Steps ==
    ASSUME TypeOK, Next
    PROVE  Environment \/ Elsewhere \/ Handlers \/ Rest
  BY UsersElsewhere, ClusterElsewhere DEF Next, Worker, Environment, Handlers, Rest

LEMMA TypedStep == Typed /\ [Next]_vars => Typed'
<1> SUFFICES ASSUME Typed, [Next]_vars PROVE Typed'
  OBVIOUS
<1>1. CASE Next
  BY <1>1, Steps, TypedEnvironment, TypedElsewhere, TypedHandlers, TypedRest DEF Typed
<1>2. CASE UNCHANGED vars
  <2>1. DataOK'
    BY <1>2 DEF vars, locals, Typed, TypeOK, DataOK
  <2>2. FlagsOK'
    <3>1. /\ lag' = lag /\ obj' = obj /\ queue' = queue /\ watches' = watches /\ pc' = pc
          /\ stale' = stale /\ batch' = batch /\ ogCorrect' = ogCorrect /\ changed' = changed
          /\ early' = early /\ failed' = failed /\ unsent' = unsent
          /\ tampered' = tampered /\ disturbances' = disturbances
      BY <1>2 DEF vars, locals, history
    <3>2. FlagsOK
      BY DEF Typed, TypeOK
    <3> QED
      BY <3>1, <3>2 DEF FlagsOK
  <2> QED
    BY <1>2, <2>1, <2>2 DEF vars, locals, Typed, TypeOK, Running
<1> QED
  BY <1>1, <1>2

LEMMA TypedInit == Init => Typed
<1> SUFFICES ASSUME Init PROVE Typed
  OBVIOUS
<1>1. NoStatus \in Status
  BY DEF NoStatus, Status, State
<1>2. api \in Policy /\ cache \in Policy
  BY <1>1 DEF Init, Policy
<1>3. obj \in Objects
  <2>1. 1 \in Csv /\ [v \in Csv |-> "none"] \in [Csv -> Phase]
        /\ [v \in Csv |-> "none"] \in [Csv -> {"none", "pending", "succeeded", "deleting"}]
    BY ConstantsAssumption DEF Csv, Phase
  <2>2. obj \in [ns : BOOLEAN, offered : {1}, og : {"none"}, sub : {None}, others : {FALSE},
                plan : {[v \in Csv |-> "none"]}, csv : {[v \in Csv |-> "none"]},
                crd : {"none"}, dep : {"none"}, cat : {"ready"}]
    BY DEF Init
  <2> DEFINE n == [v \in Csv |-> "none"]
  <2> HIDE DEF n
  <2>3. ASSUME NEW o \in [ns : BOOLEAN, offered : {1}, og : {"none"}, sub : {None},
                         others : {FALSE}, plan : {n}, csv : {n},
                         crd : {"none"}, dep : {"none"}, cat : {"ready"}],
               1 \in Csv, n \in [Csv -> Phase],
               n \in [Csv -> {"none", "pending", "succeeded", "deleting"}]
        PROVE  o \in Objects
    BY <2>3 DEF Objects, Group
  <2> QED
    BY <2>1, <2>2, <2>3 DEF n
<1>4. DataOK
  <2>1. 0 \in CsvOrNone
    BY ConstantsAssumption DEF CsvOrNone
  <2>2. policy = None /\ sub = None /\ csv = 0 /\ parent = ""
    BY DEF Init
  <2> QED
    BY <1>2, <1>3, <2>1, <2>2 DEF DataOK, State
<1>5. FlagsOK
  <2>1. /\ lag = "none" /\ queue = TRUE /\ watches = {} /\ pc = "idle" /\ stale = FALSE
        /\ batch = {} /\ ogCorrect = FALSE /\ changed = FALSE /\ early = FALSE
        /\ failed = FALSE /\ unsent = FALSE /\ tampered = FALSE
        /\ disturbances = 0
    BY DEF Init
  <2>2. disturbances \in 0 .. MaxDisturbances
    BY <2>1, ConstantsAssumption
  <2> QED
    BY <2>1, <2>2, Zenon DEF FlagsOK
<1> QED
  BY <1>4, <1>5 DEF Typed, TypeOK, Running, Init

\* The state stays within its types whatever users, OLM and failures do: a
\* handler only writes values that the object may have, and what it passes on
\* is of the kind that the next one expects.
THEOREM TypeCorrect == Spec => []TypeOK
<1>1. Spec => []Typed
  BY TypedInit, TypedStep, PTL DEF Spec
<1> QED
  BY <1>1, PTL DEF Typed

-----------------------------------------------------------------------------
(* Only allowed versions are approved *)

Kept(vs) ==
    /\ obj.sub # None => ~obj.sub.auto /\ (obj.sub.inst = 0 \/ obj.sub.inst \in vs)
    /\ \A v \in Csv : obj.plan[v] \notin {"none", "requires"} => v \in vs
    /\ \A v \in Csv : obj.csv[v] # "none" => v \in vs

VersionsOK ==
    ~tampered =>
        /\ cache.spec = api.spec
        /\ Running => policy.spec = api.spec
        /\ api.spec.versions # {} => Kept(api.spec.versions)

LEMMA HandledTo ==
    ASSUME TypeOK, NEW k \in Kind, NEW v, Verdict(k, v)
    PROVE  \A x \in v.to :
              Change([obj EXCEPT ![k] = x, !.ns = obj.ns \/ k \in {"og", "sub"}]) =>
                /\ k \in {"og", "sub", "csv", "crd"} /\ obj'[k] = x
                /\ \A j \in Field : j \notin {k, "ns"} => obj'[j] = obj[j]
<1>1. obj \in Objects
  BY DEF TypeOK, DataOK
<1>2. ASSUME NEW x \in v.to,
             Change([obj EXCEPT ![k] = x, !.ns = obj.ns \/ k \in {"og", "sub"}])
      PROVE  /\ k \in {"og", "sub", "csv", "crd"} /\ obj'[k] = x
             /\ \A j \in Field : j \notin {k, "ns"} => obj'[j] = obj[j]
  <2> DEFINE b == obj.ns \/ k \in {"og", "sub"}
  <2>1. obj' = [obj EXCEPT ![k] = x, !.ns = b]
    BY <1>2 DEF Change
  <2>2. k \in {"og", "sub", "csv", "crd"}
    BY <1>2 DEF Verdict
  <2> HIDE DEF b
  <2> QED
    BY <1>1, <2>1, <2>2 DEF Objects, Field
<1> QED
  BY <1>2, Zenon

\* A handler writes the object of its kind only.
LEMMA HandledValue ==
    ASSUME TypeOK, NEW k \in Kind, NEW v, NEW next, Verdict(k, v), Handle(k, v, next)
    PROVE  \/ obj' = obj
           \/ /\ k \in {"og", "sub", "csv", "crd"}
              /\ \E x \in v.to \cup v.part : obj'[k] = x
              /\ \A j \in Field : j \notin {k, "ns"} => obj'[j] = obj[j]
<1>1. obj \in Objects
  BY DEF TypeOK, DataOK
<1>2. ASSUME NEW x \in v.to, v.to # {},
             Change([obj EXCEPT ![k] = x, !.ns = obj.ns \/ k \in {"og", "sub"}])
      PROVE  /\ k \in {"og", "sub", "csv", "crd"} /\ obj'[k] = x
             /\ \A j \in Field : j \notin {k, "ns"} => obj'[j] = obj[j]
  BY <1>2, HandledTo, Zenon
<1>3. ASSUME NEW x \in v.part, v.to # {}, Change([obj EXCEPT ![k] = x])
      PROVE  /\ k \in {"og", "sub", "csv", "crd"} /\ obj'[k] = x
             /\ \A j \in Field : j \notin {k, "ns"} => obj'[j] = obj[j]
  <2>1. obj' = [obj EXCEPT ![k] = x]
    BY <1>3 DEF Change
  <2>2. k \in {"og", "sub", "csv", "crd"}
    BY <1>3 DEF Verdict
  <2> QED
    BY <1>1, <2>1, <2>2 DEF Objects, Field
<1>4. \/ UNCHANGED obj
      \/ v.to # {} /\ \E x \in v.to :
            Change([obj EXCEPT ![k] = x, !.ns = obj.ns \/ k \in {"og", "sub"}])
      \/ v.to # {} /\ \E x \in v.part : Change([obj EXCEPT ![k] = x])
  BY Zenon DEF Handle
<1> QED
  BY <1>2, <1>3, <1>4

LEMMA KeptUsers == ASSUME TypeOK, NEW vs, Kept(vs), Users, ~tampered' PROVE Kept(vs)'
<1>1. obj \in Objects
  BY DEF TypeOK, DataOK
<1>2. ASSUME NEW k \in {"og", "cat", "offered", "dep", "others"}, NEW x, UserChange(k, x)
      PROVE  Kept(vs)'
  BY <1>1, <1>2 DEF UserChange, Change, Objects, Kept
<1>3. ASSUME NEW x, UserChange("sub", x) PROVE FALSE
  BY <1>3 DEF UserChange
<1> QED
  BY <1>2, <1>3 DEF Users

LEMMA KeptCluster == ASSUME TypeOK, NEW vs, Kept(vs), Cluster PROVE Kept(vs)'
<1>1. obj \in Objects /\ obj.sub \in Subscription \cup {None} /\ None \notin Subscription
  BY ConstantsAssumption DEF TypeOK, DataOK, Objects
<1>2. CASE OlmResolve
  <2>1. obj' = [obj EXCEPT !.sub = [obj.sub EXCEPT !.cur = @ + 1]] /\ obj.sub \in Subscription
    BY <1>1, <1>2 DEF OlmResolve, Olm, Change, Objects
  <2>2. obj'.sub.auto = obj.sub.auto /\ obj'.sub.inst = obj.sub.inst
    BY <1>1, <2>1 DEF Objects, Subscription
  <2>3. obj'.plan = obj.plan /\ obj'.csv = obj.csv
    BY <1>1, <2>1 DEF Objects
  <2> QED
    BY <1>1, <2>1, <2>2, <2>3 DEF Kept
<1>3. CASE OlmPlan
  <2>1. obj.sub # None /\ ~obj.sub.auto
    BY <1>3 DEF OlmPlan, Kept
  <2>2. obj' = [obj EXCEPT !.plan[obj.sub.cur] = "requires"]
    BY <1>3, <2>1 DEF OlmPlan, Olm, Change
  <2>3. obj'.sub = obj.sub /\ obj'.csv = obj.csv
        /\ \A v \in Csv : obj'.plan[v] \in {obj.plan[v], "requires"}
    BY <1>1, <2>2 DEF Objects
  <2> QED
    BY <2>3 DEF Kept
<1>4. ASSUME NEW v \in Csv, OlmInstall(v) PROVE Kept(vs)'
  <2>1. obj.plan[v] = "approved"
    BY <1>4 DEF OlmInstall
  <2>2. v \in vs
    BY <2>1 DEF Kept
  <2>3. /\ obj'.sub = obj.sub
        /\ \A w \in Csv : w # v => obj'.plan[w] = obj.plan[w]
        /\ \A w \in Csv : w # v => obj'.csv[w] \in {obj.csv[w], "none"}
    BY <1>1, <1>4 DEF OlmInstall, Olm, Change, Objects
  <2> QED
    BY <2>2, <2>3 DEF Kept
<1>5. ASSUME NEW v \in Csv, OlmInstalled(v) PROVE Kept(vs)'
  <2>1. obj' = [obj EXCEPT !.sub = [obj.sub EXCEPT !.inst = v]] /\ obj.sub \in Subscription
        /\ obj.csv[v] # "none"
    BY <1>1, <1>5 DEF OlmInstalled, Olm, Change, Objects
  <2>2. obj'.sub.auto = obj.sub.auto /\ obj'.sub.inst = v
    BY <1>1, <2>1 DEF Objects, Subscription
  <2>3. obj'.plan = obj.plan /\ obj'.csv = obj.csv
    BY <1>1, <2>1 DEF Objects
  <2> QED
    BY <1>1, <2>1, <2>2, <2>3 DEF Kept
<1>6. ASSUME NEW v \in Csv, OlmSucceeded(v) \/ OlmComplete(v) PROVE Kept(vs)'
  <2>1. /\ obj'.sub = obj.sub
        /\ \A w \in Csv : obj'.plan[w] = obj.plan[w] \/ obj.plan[w] = "installing"
        /\ \A w \in Csv : obj'.csv[w] = obj.csv[w] \/ obj.csv[w] = "pending"
    BY <1>1, <1>6 DEF OlmSucceeded, OlmComplete, Olm, Change, Objects
  <2> QED
    BY <2>1 DEF Kept
<1>7. CASE Terminated
  <2>1. PICK k, x :
          /\ k \in Dying /\ k \in {"og", "sub", "csv", "crd"} /\ x \in Value(k)
          /\ Olm([obj EXCEPT ![k] = x])
          /\ k = "sub" => x = None
          /\ k = "csv" => \A v \in Csv : x[v] \in {obj.csv[v], "none"}
    BY <1>7, TerminatedObjects
  <2>2. obj' = [obj EXCEPT ![k] = x]
    BY <2>1 DEF Olm, Change
  <2>3. /\ obj'.sub = obj.sub \/ obj'.sub = None
        /\ obj'.plan = obj.plan
        /\ obj'.csv = obj.csv \/ \A v \in Csv : obj'.csv[v] \in {obj.csv[v], "none"}
    BY <1>1, <2>1, <2>2 DEF Objects
  <2> QED
    BY <2>3 DEF Kept
<1> QED
  BY <1>2, <1>3, <1>4, <1>5, <1>6, <1>7 DEF Cluster

\* The values that handleSubscription and handleCSV write.
LEMMA KeptSubscription ==
    ASSUME Typed, Running, NEW x \in SubscriptionVerdict.to \cup SubscriptionVerdict.part,
           SubscriptionVerdict.to # {}
    PROVE  \/ x = None
           \/ x.inst = 0 /\ x.auto = AutoApproval
           \/ obj.sub # None /\ x.inst = obj.sub.inst /\ x.auto \in {obj.sub.auto, AutoApproval}
<1>1. \/ SubscriptionVerdict = Report(FALSE)
      \/ SubscriptionVerdict = musthaveSubscription
      \/ SubscriptionVerdict = mustnothaveSubscription
  BY DEF SubscriptionVerdict
<1>2. \A ok : Report(ok).to = {}
  BY DEF Report
<1>3. ASSUME obj.sub # None PROVE obj.sub \in Subscription
  BY <1>3, SubscriptionType DEF Typed
<1>4. CASE SubscriptionVerdict = musthaveSubscription
  <2>1. CASE x = desiredSub
    BY <2>1 DEF desiredSub
  <2>2. CASE obj.sub # None /\ x = [obj.sub EXCEPT !.match = "match", !.owned = TRUE,
                                                   !.auto = AutoApproval]
    BY <1>3, <2>2 DEF Subscription
  <2> QED
    BY <1>2, <1>4, <2>1, <2>2 DEF musthaveSubscription, ActOn, considerResolutionFailed
<1>5. CASE SubscriptionVerdict = mustnothaveSubscription
  <2>1. CASE obj.sub # None /\ x = [obj.sub EXCEPT !.deleting = TRUE]
    BY <1>3, <2>1 DEF Subscription
  <2> QED
    BY <1>2, <1>5, <2>1 DEF mustnothaveSubscription, ActOn, Deleted
<1> QED
  BY <1>1, <1>2, <1>4, <1>5

LEMMA KeptCSVs ==
    ASSUME Typed, Running, NEW x \in CSVVerdict.to \cup CSVVerdict.part, CSVVerdict.to # {}
    PROVE  \A v \in Csv : x[v] # "none" => obj.csv[v] # "none"
<1>1. \A ok : Report(ok).to = {}
  BY DEF Report
<1> DEFINE unwanted == {v \in Csv : obj.csv[v] # "none" /\ "csv" \in spec.remove}
           done == {v \in unwanted : obj.csv[v] = "deleting"} = {}
<1>2. CSVVerdict = DeleteCSVs(unwanted, done)
  BY <1>1 DEF CSVVerdict, musthaveCSV, mustnothaveCSV
<1> HIDE DEF done
<1>3. ASSUME NEW w \in SUBSET unwanted, NEW y \in {"none", "deleting"}
      PROVE  \A v \in Csv : CSVsThen(w, y)[v] # "none" => obj.csv[v] # "none"
  BY DEF CSVsThen
<1> HIDE DEF unwanted
<1>4. \E w \in SUBSET unwanted, y \in {"none", "deleting"} : x = CSVsThen(w, y)
  <2> DEFINE then(which) == Deleted("csv", CSVsThen(which, "deleting"), CSVsThen(which, "none"))
  <2>1. \A w \in SUBSET unwanted : \A z \in then(w) :
           \E y \in {"none", "deleting"} : z = CSVsThen(w, y)
    BY DEF Deleted
  <2>2. /\ DeleteCSVs(unwanted, done).to = then(unwanted)
        /\ DeleteCSVs(unwanted, done).part
              = UNION {then(some) : some \in SUBSET unwanted} \ then(unwanted)
    BY DEF DeleteCSVs
  <2> HIDE DEF then
  <2>3. \E w \in SUBSET unwanted : x \in then(w)
    BY <1>2, <2>2
  <2> QED
    BY <2>1, <2>3
<1> QED
  BY <1>3, <1>4

LEMMA KeptHandler ==
    ASSUME Typed, Running, NEW vs, vs # {}, spec.versions = vs, Kept(vs),
           NEW k \in Kind, NEW v, NEW next, Verdict(k, v), Handle(k, v, next),
           k = "sub" => v = SubscriptionVerdict, k = "csv" => v = CSVVerdict
    PROVE  Kept(vs)'
<1>1. CASE obj' = obj
  BY <1>1 DEF Kept
<1>2. CASE /\ k \in {"og", "sub", "csv", "crd"}
           /\ \E x \in v.to \cup v.part : obj'[k] = x
           /\ \A j \in Field : j \notin {k, "ns"} => obj'[j] = obj[j]
  <2>1. PICK x \in v.to \cup v.part : obj'[k] = x
    BY <1>2
  <2>2. CASE k \in {"og", "crd"}
    BY <1>2, <2>2 DEF Kept, Field
  <2>3. CASE k = "sub"
    <3>1. obj'.sub = x /\ obj'.plan = obj.plan /\ obj'.csv = obj.csv
      BY <1>2, <2>1, <2>3 DEF Field
    <3>2. ~AutoApproval
      BY DEF AutoApproval
    <3>3. CASE v.to = {}
      BY <1>1, <3>3, Zenon DEF Handle
    <3>4. CASE v.to # {}
      <4>1. \/ x = None
            \/ x.inst = 0 /\ x.auto = AutoApproval
            \/ obj.sub # None /\ x.inst = obj.sub.inst /\ x.auto \in {obj.sub.auto, AutoApproval}
        BY <2>1, <2>3, <3>4, KeptSubscription
      <4> QED
        BY <3>1, <3>2, <4>1 DEF Kept
    <3> QED
      BY <3>3, <3>4
  <2>4. CASE k = "csv"
    <3>1. obj'.csv = x /\ obj'.plan = obj.plan /\ obj'.sub = obj.sub
      BY <1>2, <2>1, <2>4 DEF Field
    <3>2. CASE v.to = {}
      BY <1>1, <3>2, Zenon DEF Handle
    <3>3. CASE v.to # {}
      <4>1. \A w \in Csv : x[w] # "none" => obj.csv[w] # "none"
        BY <2>1, <2>4, <3>3, KeptCSVs
      <4> QED
        BY <3>1, <4>1 DEF Kept
    <3> QED
      BY <3>2, <3>3
  <2> QED
    BY <1>2, <2>2, <2>3, <2>4
<1> QED
  BY <1>1, <1>2, HandledValue DEF Typed

\* Only the handlers write the objects, and the version that handleInstallPlan
\* approves is one that the spec lists.
LEMMA KeptHandlers ==
    ASSUME Typed, NEW vs, vs # {}, spec.versions = vs, Kept(vs), Handlers
    PROVE  Kept(vs)'
<1>1. Running /\ TypeOK /\ policy \in Policy
  BY DEF Handlers, buildResources, handleOpGroup, handleSubscription, handleInstallPlan,
     handleCSV, handleCRDs, handleDeployment, handleCatalogSource, Running, Typed
<1>2. ASSUME NEW k \in Kind \ {"og", "sub", "csv", "crd"}, NEW ok \in BOOLEAN, NEW next,
             Handle(k, Report(ok), next)
      PROVE  Kept(vs)'
  BY <1>1, <1>2, ReportVerdict, KeptHandler
<1>3. CASE buildResources
  BY <1>2, <1>3 DEF buildResources, Kind
<1>4. CASE handleOpGroup
  <2>1. Handle("og", GroupVerdict, "sub")
    BY <1>4 DEF handleOpGroup, GroupVerdict
  <2> QED
    BY <1>1, <2>1, GroupVerdictType, KeptHandler DEF Kind
<1>5. CASE handleSubscription
  <2>1. Handle("sub", SubscriptionVerdict, "plan")
    BY <1>5 DEF handleSubscription, SubscriptionVerdict
  <2> QED
    BY <1>1, <2>1, SubscriptionVerdictType, KeptHandler DEF Kind
<1>6. CASE handleInstallPlan
  <2>1. CASE \E ok \in BOOLEAN : Handle("plan", Report(ok), "csv")
    BY <1>2, <2>1 DEF Kind
  <2>2. CASE \E v : Approves(v) /\ Change([obj EXCEPT !.plan[v] = "approved"])
    <3>1. PICK v : Approves(v) /\ Change([obj EXCEPT !.plan[v] = "approved"])
      BY <2>2
    <3>2. v \in vs
      BY <3>1 DEF Approves, getApprovedCSVs, Allowed
    <3>3. /\ obj'.sub = obj.sub /\ obj'.csv = obj.csv
          /\ \A w \in Csv : w # v => obj'.plan[w] = obj.plan[w]
      BY <1>1, <3>1 DEF Change, TypeOK, DataOK, Objects
    <3> QED
      BY <3>2, <3>3 DEF Kept
  <2> QED
    BY <1>6, <2>1, <2>2 DEF handleInstallPlan
<1>7. CASE handleCSV
  <2>1. Handle("csv", CSVVerdict, "crd")
    BY <1>7 DEF handleCSV, CSVVerdict
  <2> QED
    BY <1>1, <2>1, CSVVerdictType, KeptHandler DEF Kind
<1>8. CASE handleCRDs
  BY <1>1, <1>8, CRDVerdictType, KeptHandler DEF handleCRDs, Kind
<1>9. CASE handleDeployment
  BY <1>2, <1>9 DEF handleDeployment, Kind
<1>10. CASE handleCatalogSource
  <2>1. \E ok : Handle("cat", Report(ok), "status")
    BY <1>10 DEF handleCatalogSource
  <2>2. \A ok : Report(ok).to = {}
    BY DEF Report
  <2>3. obj' = obj
    BY <2>1, <2>2, Zenon DEF Handle
  <2> QED
    BY <2>3 DEF Kept
<1> QED
  BY <1>3, <1>4, <1>5, <1>6, <1>7, <1>8, <1>9, <1>10 DEF Handlers

\* No handler changes the policy's spec or what the others know of it.
LEMMA HandlersKeepSpec ==
    ASSUME Typed, Handlers
    PROVE  policy'.spec = policy.spec /\ UNCHANGED handlersKeep /\ Running /\ policy \in Policy
<1>1. Running /\ TypeOK /\ policy \in Policy
  BY DEF Handlers, buildResources, handleOpGroup, handleSubscription, handleInstallPlan,
     handleCSV, handleCRDs, handleDeployment, handleCatalogSource, Running, Typed
<1>2. UNCHANGED handlersKeep
  BY DEF Handlers, buildResources, handleOpGroup, handleSubscription, handleInstallPlan,
     handleCSV, handleCRDs, handleDeployment, handleCatalogSource
<1>3. \A p, k, ok : updateStatus(p, k, ok).spec = p.spec \/ p \notin Policy
  BY DEF updateStatus, Policy
<1>4. \A k, ok : k \in Kind => updateStatus(policy, k, ok) \in Policy
  BY <1>1 DEF updateStatus, Policy, Status, State, Compliance
<1>5. ASSUME NEW k \in Kind, NEW v, NEW next, Handle(k, v, next)
      PROVE  policy'.spec = policy.spec
  <2>1. \/ policy' = updateStatus(policy, k, v.ok)
        \/ policy' = updateStatus(updateStatus(policy, k, v.ok), k, v.then)
    BY <1>5, Zenon DEF Handle
  <2> QED
    BY <1>1, <1>3, <1>4, <2>1
<1>6. \/ \E k \in Kind : \E v, next : Handle(k, v, next)
      \/ policy' = updateStatus(policy, "plan", TRUE)
  BY DEF Handlers, buildResources, handleOpGroup, handleSubscription, handleInstallPlan,
     handleCSV, handleCRDs, handleDeployment, handleCatalogSource, Kind
<1> QED
  BY <1>1, <1>2, <1>3, <1>5, <1>6

LEMMA VersionsStep == Typed /\ VersionsOK /\ [Next]_vars => VersionsOK'
<1> SUFFICES ASSUME Typed, VersionsOK, [Next]_vars, ~tampered' PROVE VersionsOK'
  BY DEF VersionsOK
<1>1. TypeOK
  BY DEF Typed
<1>2. CASE Users \/ Cluster
  <2>1. Elsewhere
    BY <1>1, <1>2, UsersElsewhere, ClusterElsewhere
  <2>2. ~tampered /\ UNCHANGED <<api, cache, pc, policy>>
    BY <2>1 DEF Elsewhere, locals
  <2>3. api.spec.versions # {} => Kept(api.spec.versions)'
    BY <1>1, <1>2, <2>2, KeptUsers, KeptCluster DEF VersionsOK
  <2> QED
    BY <2>2, <2>3 DEF VersionsOK, Running, Kept
<1>3. CASE Handlers
  <2>1. UNCHANGED handlersKeep /\ policy'.spec = policy.spec /\ Running
    BY <1>3, HandlersKeepSpec
  <2>2. ~tampered /\ UNCHANGED <<api, cache>>
    BY <2>1 DEF handlersKeep, history
  <2>3. ASSUME NEW vs, vs = api.spec.versions, vs # {} PROVE Kept(vs)'
    <3>1. Kept(vs) /\ spec.versions = vs
      BY <2>1, <2>2, <2>3 DEF VersionsOK, spec
    <3> QED
      BY <1>3, <2>3, <3>1, KeptHandlers
  <2> QED
    BY <2>1, <2>2, <2>3 DEF VersionsOK, Kept
<1>4. ASSUME ~tampered, obj' = obj, api'.spec = api.spec, cache'.spec = api.spec,
             Running' => policy'.spec = api.spec
      PROVE  VersionsOK'
  BY <1>4 DEF VersionsOK, Kept
<1>5. CASE Edit
  BY <1>5 DEF Edit
<1>6. CASE Reset
  <2>1. api'.spec = api.spec
    BY <1>1, <1>6 DEF Reset, WritePolicy, TypeOK, DataOK, Policy
  <2> QED
    BY <1>4, <1>6, <2>1 DEF Reset, WritePolicy, VersionsOK, Running
<1>7. CASE Deliver
  BY <1>4, <1>7 DEF Deliver, locals, history, VersionsOK, Running
<1>8. CASE Restart
  BY <1>4, <1>8 DEF Restart, Return, Running
<1>9. CASE ReconcileBegin
  BY <1>4, <1>9 DEF ReconcileBegin, Begin, history, VersionsOK
<1>10. CASE HandlerFails
  BY <1>4, <1>10 DEF HandlerFails, handlersKeep, history, VersionsOK, Running
<1>11. CASE WriteStatus
  <2>1. api'.spec = api.spec
    BY <1>1, <1>11 DEF WriteStatus, TypeOK, DataOK, Policy
  <2> QED
    BY <1>4, <1>11, <2>1 DEF WriteStatus, VersionsOK, Running
<1>12. CASE EmitEarly
  BY <1>4, <1>12 DEF EmitEarly, VersionsOK, Running
<1>13. CASE EmitFinal
  BY <1>4, <1>13 DEF EmitFinal, Return, VersionsOK, Running
<1>14. CASE UNCHANGED vars
  BY <1>4, <1>14 DEF vars, locals, history, VersionsOK, Running
<1> QED
  BY <1>2, <1>3, <1>5, <1>6, <1>7, <1>8, <1>9, <1>10, <1>11, <1>12, <1>13, <1>14
     DEF Next, Worker, Handlers

\* OnlyAllowedInstalled for any specs, any versions and however many failures:
\* the Subscription is Manual while spec.versions is given, and getApprovedCSVs
\* is compared with the plan that is approved, so that a plan for a version that
\* the Subscription moved on to meanwhile is not.
THEOREM AllowedOnly == Spec => []OnlyAllowedInstalled
<1>1. Init => Typed /\ VersionsOK
  <2>1. Init => VersionsOK
    <3> SUFFICES ASSUME Init PROVE VersionsOK
      OBVIOUS
    <3>1. obj.sub = None /\ obj.plan = [v \in Csv |-> "none"] /\ obj.csv = [v \in Csv |-> "none"]
      BY DEF Init
    <3> QED
      BY <3>1 DEF Init, VersionsOK, Kept, Running
  <2> QED
    BY <2>1, TypedInit
<1>2. Typed /\ VersionsOK /\ [Next]_vars => (Typed /\ VersionsOK)'
  BY TypedStep, VersionsStep
<1>3. VersionsOK => OnlyAllowedInstalled
  BY DEF VersionsOK, Kept, OnlyAllowedInstalled
<1> QED
  BY <1>1, <1>2, <1>3, PTL DEF Spec

-----------------------------------------------------------------------------
(* What every handler does to the worker's copy and flags *)

HandlerPcs == {"build", "og", "sub", "plan", "csv", "crd", "dep", "cat"}
Evaluated ==
    /\ pc \in HandlerPcs /\ policy \in Policy /\ UNCHANGED handlersKeep
    /\ policy' \in Policy /\ policy'.spec = policy.spec
    /\ policy'.status.state = Compliance(policy'.status.good)
    /\ pc' \in (HandlerPcs \ {"build"}) \cup {"status"}
    /\ (queue => queue') /\ (changed => changed') /\ (early => early') /\ (failed => failed')
    /\ ~changed' /\ ~early' => policy'.status.good = policy.status.good
    /\ early' /\ ~changed' =>
          early \/ (failed' /\ pc' = "status" /\ policy'.status.good # Kind)

LEMMA HandleEvaluates ==
    ASSUME Typed, pc \in HandlerPcs, UNCHANGED handlersKeep,
           NEW k \in Kind, NEW v, NEW next \in (HandlerPcs \ {"build"}) \cup {"status"},
           Verdict(k, v), Handle(k, v, next)
    PROVE  Evaluated
<1> DEFINE p == updateStatus(policy, k, v.ok)
           q == updateStatus(p, k, v.then)
<1>1. TypeOK /\ policy \in Policy
  BY DEF Typed, Running, HandlerPcs
<1>2. /\ policy' \in Policy /\ policy'.spec = policy.spec
      /\ policy'.status.state = Compliance(policy'.status.good)
      /\ pc' \in {next, "status"}
      /\ (failed => failed') /\ (changed => changed')
  BY <1>1, Handled
<1>3. v.to # {} => k \notin p.status.good
  BY <1>1, UpdateStatusType DEF Verdict, updateStatus, Policy
<1>4. k \notin p.status.good => p.status.good # Kind
  OBVIOUS
<1> HIDE DEF p, q
<1>5. queue => queue'
  BY Zenon DEF Handle, Change
<1>6. ASSUME policy' = p, changed' \in MayReport(changed, p), early' = early
      PROVE  /\ early => early'
             /\ ~changed' /\ ~early' => policy'.status.good = policy.status.good
             /\ early' /\ ~changed' => early
  BY <1>6, Zenon DEF MayReport
<1>7. ASSUME changed' = TRUE, early' \in IF v.then THEN MayReport(early, p) ELSE {early}
      PROVE  (early => early') /\ changed'
  <2>1. CASE v.then
    BY <1>7, <2>1, Zenon DEF MayReport
  <2>2. CASE ~v.then
    BY <1>7, <2>2, Zenon
  <2> QED
    BY <2>1, <2>2
<1>8. ASSUME v.to # {}, policy' = p, FailureReports(k, p), failed' = TRUE, pc' = "status"
      PROVE  /\ early => early'
             /\ ~changed' /\ ~early' => policy'.status.good = policy.status.good
             /\ early' /\ ~changed' => early \/ (failed' /\ pc' = "status" /\ p.status.good # Kind)
  <2>1. PICK c \in MayReport(FALSE, p) :
           \/ changed' = (changed \/ c) /\ early' = (early \/ (c /\ ~spec.musthave))
           \/ k \in {"csv", "crd"} /\ changed' \in {changed, TRUE} /\ early' = (early \/ c)
           \/ k \in {"csv", "crd"} /\ changed' = TRUE /\ early' = early
    BY <1>8, Zenon DEF FailureReports
  <2>2. ~c => p.status.good = policy.status.good
    BY <2>1, Zenon DEF MayReport
  <2>3. /\ early => early'
        /\ ~changed' /\ ~early' => ~c
    <3>1. CASE changed' = (changed \/ c) /\ early' = (early \/ (c /\ ~spec.musthave))
      BY <3>1, Zenon
    <3>2. CASE early' = (early \/ c)
      BY <3>2, Zenon
    <3>3. CASE changed' = TRUE /\ early' = early
      BY <3>3, Zenon
    <3> QED
      BY <2>1, <3>1, <3>2, <3>3, Zenon
  <2> QED
    BY <1>3, <1>4, <1>8, <2>2, <2>3
<1>9. \/ policy' = p /\ changed' \in MayReport(changed, p) /\ early' = early
      \/ changed' = TRUE /\ early' \in IF v.then THEN MayReport(early, p) ELSE {early}
      \/ v.to # {} /\ policy' = p /\ FailureReports(k, p) /\ failed' = TRUE /\ pc' = "status"
  BY Zenon DEF Handle, p
<1>10. /\ early => early'
       /\ ~changed' /\ ~early' => policy'.status.good = policy.status.good
       /\ early' /\ ~changed' =>
            early \/ (failed' /\ pc' = "status" /\ policy'.status.good # Kind)
  BY <1>6, <1>7, <1>8, <1>9, Zenon
<1> QED
  BY <1>1, <1>2, <1>5, <1>10 DEF Evaluated, HandlerPcs

LEMMA HandlersEvaluate == ASSUME Typed, Handlers PROVE Evaluated
<1>1. UNCHANGED handlersKeep /\ pc \in HandlerPcs /\ TypeOK /\ policy \in Policy
  BY HandlersKeepSpec DEF Handlers, buildResources, handleOpGroup, handleSubscription,
     handleInstallPlan, handleCSV, handleCRDs, handleDeployment, handleCatalogSource,
     HandlerPcs, Typed
<1>2. ASSUME NEW k \in Kind, NEW ok \in BOOLEAN,
             NEW next \in (HandlerPcs \ {"build"}) \cup {"status"}, Handle(k, Report(ok), next)
      PROVE  Evaluated
  BY <1>1, <1>2, ReportVerdict, HandleEvaluates
<1>3. CASE buildResources
  BY <1>2, <1>3 DEF buildResources, Kind, HandlerPcs
<1>4. CASE handleOpGroup
  <2>1. Handle("og", GroupVerdict, "sub")
    BY <1>4 DEF handleOpGroup, GroupVerdict
  <2> QED
    BY <1>1, <2>1, GroupVerdictType, HandleEvaluates DEF Kind, HandlerPcs
<1>5. CASE handleSubscription
  <2>1. Handle("sub", SubscriptionVerdict, "plan")
    BY <1>5 DEF handleSubscription, SubscriptionVerdict
  <2> QED
    BY <1>1, <2>1, SubscriptionVerdictType, HandleEvaluates DEF Kind, HandlerPcs
<1>6. CASE handleInstallPlan
  <2>1. CASE \E ok \in BOOLEAN : Handle("plan", Report(ok), "csv")
    BY <1>2, <2>1 DEF Kind, HandlerPcs
  <2>2. CASE \E v : /\ Change([obj EXCEPT !.plan[v] = "approved"])
                    /\ policy' = updateStatus(policy, "plan", TRUE)
                    /\ changed' \in MayReport(changed, policy')
                    /\ pc' = "csv"
                    /\ UNCHANGED <<early, failed, disturbances>>
    <3>1. queue => queue'
      BY <2>2, Zenon DEF Change
    <3>2. /\ policy' \in Policy /\ policy'.spec = policy.spec
          /\ policy'.status.state = Compliance(policy'.status.good)
      <4>1. policy' = updateStatus(policy, "plan", TRUE) /\ "plan" \in Kind
        BY <2>2 DEF Kind
      <4> QED
        BY <1>1, <4>1, UpdateStatusType
    <3>3. /\ changed => changed'
          /\ ~changed' => policy'.status.good = policy.status.good
      BY <2>2, Zenon DEF MayReport
    <3>4. pc' = "csv" /\ early' = early /\ failed' = failed
      BY <2>2
    <3> QED
      BY <1>1, <3>1, <3>2, <3>3, <3>4 DEF Evaluated, HandlerPcs
  <2> QED
    BY <1>6, <2>1, <2>2 DEF handleInstallPlan
<1>7. CASE handleCSV
  <2>1. Handle("csv", CSVVerdict, "crd")
    BY <1>7 DEF handleCSV, CSVVerdict
  <2> QED
    BY <1>1, <2>1, CSVVerdictType, HandleEvaluates DEF Kind, HandlerPcs
<1>8. CASE handleCRDs
  BY <1>1, <1>8, CRDVerdictType, HandleEvaluates DEF handleCRDs, Kind, HandlerPcs
<1>9. CASE handleDeployment
  BY <1>2, <1>9 DEF handleDeployment, Kind, HandlerPcs
<1>10. CASE handleCatalogSource
  <2>1. CatalogIsGood \in BOOLEAN
    BY CatalogType
  <2> QED
    BY <1>2, <1>10, <2>1 DEF handleCatalogSource, Kind, HandlerPcs
<1> QED
  BY <1>3, <1>4, <1>5, <1>6, <1>7, <1>8, <1>9, <1>10 DEF Handlers

-----------------------------------------------------------------------------
(* The policy, its copies and what the parent was told *)

\* Nothing will bring the worker back to the policy.
Calm == ~queue /\ lag # "enqueue"

\* The informer lags by what is on the way only.
CacheOK ==
    /\ lag = "none" => cache = api
    /\ lag # "enqueue" => cache.spec = api.spec
    /\ lag = "quiet" => api.status.state # "" \/ cache.status.state = ""

\* The state of a status is that of its conditions, unless it was reset.
Consistent(status) == status.state \in {"", Compliance(status.good)}
StatesOK ==
    /\ Consistent(api.status) /\ Consistent(cache.status)
    /\ Running => Consistent(policy.status)
    /\ pc \notin {"idle", "build"} /\ ~failed =>
          policy.status.state = Compliance(policy.status.good)

\* What the worker knows of its policy.
CopyOK ==
    /\ Running /\ Calm => policy.spec = api.spec
    /\ pc \notin {"idle", "early", "final"} /\ ~stale =>
          /\ lag = "none" /\ policy.spec = api.spec
          /\ policy.status.state = "" => api.status.state = ""
          /\ ~changed /\ ~early => policy.status = api.status
    /\ Running /\ ~changed => policy.status.state # ""
    /\ pc \in {"early", "final"} /\ ~failed /\ Calm => api.status = policy.status

\* A status without a state is on its way to the worker, or in its hands.
ResetOK == api.status.state = "" /\ Calm => Running /\ (changed \/ failed)

\* An early condition that is not reported as a change is from a failed deletion.
EarlyOK ==
    early => /\ Running /\ policy.status.state = Compliance(policy.status.good)
             /\ ~changed => /\ failed /\ pc \in {"status", "early", "final"}
                            /\ policy.status.good # Kind

\* The parent policy was told what the status says, or will be.
Sends == pc \in {"early", "final"} /\ (changed \/ early)
Resets == api.status.state = "" /\ ~Calm
ToldOK ==
    /\ \/ unsent \/ Sends \/ parent = api.status.state
       \/ api.status.state = "" /\ (Running \/ ~Calm)
    /\ Sends /\ ~unsent => api.status = policy.status \/ Resets
    /\ pc = "final" /\ ~changed /\ early /\ ~unsent =>
          parent = Compliance(policy.status.good) \/ Resets

Base == CacheOK /\ StatesOK /\ CopyOK /\ ResetOK /\ EarlyOK /\ ToldOK

LEMMA StatusRecord ==
    ASSUME NEW p \in Policy, NEW q \in Policy
    PROVE  /\ p.status = q.status
                <=> p.status.good = q.status.good /\ p.status.state = q.status.state
           /\ Compliance(p.status.good) # ""
           /\ p.status \in Status /\ p.status.good \subseteq Kind
  BY DEF Policy, Status, Compliance

\* A step that changes neither the policy nor the worker nor the parent.
LEMMA BaseElsewhere ==
    ASSUME Base,
           UNCHANGED <<api, cache, lag, parent, pc, policy, stale, changed, early, failed>>,
           unsent' = unsent, queue => queue'
    PROVE  Base'
<1>1. CacheOK' /\ StatesOK' /\ EarlyOK'
  BY DEF Base, CacheOK, StatesOK, EarlyOK, Consistent, Running
<1>2. CopyOK'
  BY DEF Base, CopyOK, Calm, Running
<1>3. ResetOK'
  BY DEF Base, ResetOK, Calm, Running
<1>4. ToldOK'
  BY DEF Base, ToldOK, Sends, Resets, Calm, Running
<1> QED
  BY <1>1, <1>2, <1>3, <1>4 DEF Base

\* A write of the policy by others.
LEMMA BaseWritten ==
    ASSUME Typed, Base, Edit \/ Reset PROVE Base'
<1> DEFINE status == [api.status EXCEPT !.state = ""]
<1>1. /\ lag' = "enqueue"
      /\ pc \notin {"idle"} => stale'
      /\ UNCHANGED <<cache, queue, pc, policy, changed, early, failed, unsent>>
  <2>1. stale' = (stale \/ pc # "idle")
    BY DEF Edit, Reset, WritePolicy
  <2>2. pc \notin {"idle"} => stale'
    BY <2>1, Zenon
  <2> QED
    BY <2>2 DEF Edit, Reset, WritePolicy
<1>2. \/ api'.status = api.status /\ parent' = parent
      \/ api'.status = status /\ parent' = ""
  <2>1. CASE Edit
    BY <2>1 DEF Edit, WritePolicy, Typed, TypeOK, DataOK, Policy
  <2>2. CASE Reset
    BY <2>2 DEF Reset, WritePolicy, Typed, TypeOK, DataOK, Policy
  <2> QED
    BY <2>1, <2>2
<1>3. status.state = ""
  BY DEF Typed, TypeOK, DataOK, Policy, Status
<1> HIDE DEF status
<1>4. CacheOK'
  BY <1>1 DEF CacheOK
<1>5. StatesOK'
  BY <1>1, <1>2, <1>3 DEF Base, StatesOK, Consistent, Running
<1>6. CopyOK'
  BY <1>1 DEF Base, CopyOK, Calm, Running
<1>7. ResetOK'
  BY <1>1 DEF ResetOK, Calm
<1>8. EarlyOK'
  BY <1>1 DEF Base, EarlyOK, Running
<1>9. ToldOK'
  BY <1>1, <1>2, <1>3 DEF Base, ToldOK, Sends, Resets, Calm, Running
<1> QED
  BY <1>4, <1>5, <1>6, <1>7, <1>8, <1>9 DEF Base

LEMMA BaseDeliver == ASSUME Typed, Base, Deliver PROVE Base'
<1>1. /\ cache' = api /\ lag' = "none"
      /\ UNCHANGED <<api, parent, pc, policy, stale, changed, early, failed, unsent>>
  BY DEF Deliver, locals, history
<1>2. (queue => queue') /\ (lag = "enqueue" => queue')
  BY Zenon DEF Deliver
<1>3. CacheOK' /\ StatesOK' /\ EarlyOK'
  BY <1>1 DEF Base, CacheOK, StatesOK, EarlyOK, Consistent, Running
<1>4. CopyOK'
  BY <1>1, <1>2 DEF Base, CopyOK, Calm, Running
<1>5. ResetOK'
  BY <1>1, <1>2 DEF Base, ResetOK, Calm, Running
<1>6. ToldOK'
  BY <1>1, <1>2 DEF Base, ToldOK, Sends, Resets, Calm, Running
<1> QED
  BY <1>3, <1>4, <1>5, <1>6 DEF Base

LEMMA BaseRestart == ASSUME Typed, Base, Restart PROVE Base'
<1>1. /\ cache' = api /\ lag' = "none" /\ pc' = "idle" /\ early' = FALSE
      /\ UNCHANGED <<api, parent>>
  BY DEF Restart, Return
<1>2. queue' /\ (unsent \/ Sends => unsent')
  BY Zenon DEF Restart, Sends
<1>3. CacheOK' /\ StatesOK' /\ EarlyOK'
  BY <1>1 DEF Base, CacheOK, StatesOK, EarlyOK, Consistent, Running
<1>4. CopyOK' /\ ResetOK'
  BY <1>1, <1>2 DEF CopyOK, ResetOK, Calm, Running
<1>5. ToldOK'
  BY <1>1, <1>2 DEF Base, ToldOK, Sends, Resets, Calm, Running
<1> QED
  BY <1>3, <1>4, <1>5 DEF Base

LEMMA BaseBegin == ASSUME Typed, Base, ReconcileBegin PROVE Base'
<1>1. /\ pc = "idle" /\ pc' = "build" /\ policy' = cache
      /\ UNCHANGED <<api, cache, lag, parent, early, failed, unsent>>
  BY DEF ReconcileBegin, Begin, history
<1>2. /\ queue /\ ~queue' /\ (~stale' => lag = "none")
      /\ cache.status.state = "" <=> changed'
  <2>1. queue /\ queue' = FALSE /\ stale' = (lag # "none")
        /\ changed' = (cache.status.state = "")
    BY DEF ReconcileBegin, Begin
  <2> QED
    BY <2>1, Zenon
<1>3. ~early
  BY <1>1 DEF Base, EarlyOK, Running
<1>4. CacheOK' /\ StatesOK' /\ EarlyOK'
  BY <1>1, <1>3 DEF Base, CacheOK, StatesOK, EarlyOK, Consistent, Running
<1>5. CopyOK'
  BY <1>1, <1>2 DEF Base, CacheOK, CopyOK, Calm, Running
<1>6. ResetOK'
  BY <1>1, <1>2 DEF Base, CacheOK, ResetOK, Calm, Running, Typed, TypeOK, FlagsOK
<1>7. ToldOK'
  BY <1>1 DEF Base, ToldOK, Sends, Resets, Running
<1> QED
  BY <1>4, <1>5, <1>6, <1>7 DEF Base

LEMMA BaseHandlers == ASSUME Typed, Base, Evaluated PROVE Base'
<1>1. /\ UNCHANGED <<api, cache, lag, parent, stale, unsent>>
      /\ Running /\ Running' /\ pc \in HandlerPcs /\ pc' \notin {"idle", "build", "early", "final"}
      /\ policy \in Policy /\ policy' \in Policy /\ api \in Policy
  BY DEF Evaluated, handlersKeep, history, Running, HandlerPcs, Typed, TypeOK, DataOK
<1>2. /\ policy'.status.state = Compliance(policy'.status.good)
      /\ policy'.status.state # ""
      /\ policy'.spec = policy.spec
  BY <1>1, StatusRecord DEF Evaluated
<1>3. CacheOK' /\ StatesOK'
  BY <1>1, <1>2 DEF Base, CacheOK, StatesOK, Consistent, Running
<1>4. CopyOK'
  <2>1. ASSUME ~stale', ~changed', ~early' PROVE policy'.status = api'.status
    <3>1. ~stale /\ ~changed /\ ~early /\ policy'.status.good = policy.status.good
      BY <1>1, <2>1 DEF Evaluated
    <3>2. policy.status = api.status /\ policy.status.state = Compliance(policy.status.good)
      BY <1>1, <3>1 DEF Base, CopyOK, StatesOK, Consistent, HandlerPcs
    <3> QED
      BY <1>1, <1>2, <3>1, <3>2, StatusRecord
  <2> QED
    BY <1>1, <1>2, <2>1 DEF Base, CopyOK, Calm, Evaluated, HandlerPcs
<1>5. ResetOK'
  BY <1>1 DEF Base, ResetOK, Calm, Evaluated
<1>6. EarlyOK'
  BY <1>1, <1>2 DEF Base, EarlyOK, Evaluated, HandlerPcs
<1>7. ToldOK'
  BY <1>1 DEF Base, ToldOK, Sends, HandlerPcs
<1> QED
  BY <1>3, <1>4, <1>5, <1>6, <1>7 DEF Base

LEMMA BaseFails == ASSUME Typed, Base, HandlerFails PROVE Base'
<1>1. /\ UNCHANGED <<api, cache, lag, parent, stale, queue, policy, changed, early>>
      /\ unsent' = unsent
      /\ pc \in HandlerPcs /\ pc' = "status" /\ failed'
  BY DEF HandlerFails, handlersKeep, history, HandlerPcs
<1>2. CacheOK' /\ StatesOK' /\ EarlyOK'
  BY <1>1 DEF Base, CacheOK, StatesOK, EarlyOK, Consistent, Running, HandlerPcs
<1>3. CopyOK'
  BY <1>1 DEF Base, CopyOK, Calm, Running, HandlerPcs
<1>4. ResetOK' /\ ToldOK'
  BY <1>1 DEF Base, ResetOK, ToldOK, Sends, Resets, Calm, Running, HandlerPcs
<1> QED
  BY <1>2, <1>3, <1>4 DEF Base

\* The status is compared, written or not.
LEMMA WriteEffect ==
    ASSUME Typed, WriteStatus
    PROVE  /\ pc = "status" /\ pc' = "early"
           /\ UNCHANGED <<cache, obj, queue, watches, parent, policy, stale, batch>>
           /\ changed' = changed /\ early' = early
           /\ \/ /\ ~changed /\ ~early /\ ~stale
                 /\ UNCHANGED <<api, lag, failed, unsent>>
              \/ /\ ~stale
                 /\ api' = [api EXCEPT !.status = policy.status]
                 /\ lag' = StatusUpdate
                 /\ UNCHANGED <<failed, unsent>>
              \/ /\ failed' /\ (unsent \/ changed \/ early => unsent')
                 /\ UNCHANGED <<api, lag>>
<1>1. /\ pc = "status" /\ pc' = "early"
      /\ UNCHANGED <<cache, obj, queue, watches, parent, policy, stale, batch>>
      /\ changed' = changed /\ early' = early
  BY DEF WriteStatus
<1>2. \/ /\ ~changed /\ ~early /\ ~stale
         /\ UNCHANGED <<api, lag, failed, unsent>>
      \/ /\ ~stale
         /\ api' = [api EXCEPT !.status = policy.status]
         /\ lag' = StatusUpdate
         /\ UNCHANGED <<failed, unsent>>
      \/ /\ failed' /\ (unsent \/ changed \/ early => unsent')
         /\ UNCHANGED <<api, lag>>
  BY Zenon DEF WriteStatus
<1> QED
  BY <1>1, <1>2

LEMMA BaseWriteStatus == ASSUME Typed, Base, WriteStatus PROVE Base'
<1>1. /\ pc = "status" /\ pc' = "early" /\ (failed => failed')
      /\ UNCHANGED <<cache, queue, parent, policy, stale, changed, early>>
      /\ policy \in Policy /\ api \in Policy
  BY WriteEffect DEF Typed, TypeOK, DataOK, Running
<1>2. EarlyOK'
  BY <1>1 DEF Base, EarlyOK, Running
<1>3. CASE ~changed /\ ~early /\ ~stale /\ UNCHANGED <<api, lag, failed, unsent>>
  <2>1. CacheOK' /\ StatesOK'
    BY <1>1, <1>3 DEF Base, CacheOK, StatesOK, Consistent, Running
  <2>2. CopyOK'
    BY <1>1, <1>3 DEF Base, CopyOK, Calm, Running
  <2>3. ResetOK'
    BY <1>1, <1>3 DEF Base, ResetOK, Calm, Running
  <2>4. ToldOK'
    BY <1>1, <1>3 DEF Base, ToldOK, Sends, Resets, Calm, Running
  <2> QED
    BY <1>2, <2>1, <2>2, <2>3, <2>4 DEF Base
<1>4. CASE /\ ~stale /\ api' = [api EXCEPT !.status = policy.status]
           /\ lag' = StatusUpdate /\ UNCHANGED <<failed, unsent>>
  <2>1. api'.status = policy.status /\ api'.spec = api.spec
    BY <1>1, <1>4 DEF Policy
  <2>2. lag = "none" /\ lag' = "quiet"
    BY <1>1, <1>4 DEF Base, CopyOK, StatusUpdate
  <2>3. CacheOK'
    BY <1>1, <1>4, <2>1, <2>2 DEF Base, CacheOK, CopyOK
  <2>4. StatesOK'
    BY <1>1, <1>4, <2>1 DEF Base, StatesOK, Consistent, Running
  <2>5. CopyOK'
    BY <1>1, <1>4, <2>1 DEF Base, CopyOK, Calm, Running
  <2>6. ResetOK'
    <3>1. policy.status.state # "" \/ failed
      BY <1>1, StatusRecord DEF Base, StatesOK
    <3> QED
      BY <1>1, <1>4, <2>1, <3>1 DEF ResetOK, Running
  <2>7. ToldOK'
    <3>1. Sends' \/ api'.status = api.status
      BY <1>1, <1>4, <2>1 DEF Base, CopyOK, Sends
    <3> QED
      BY <1>1, <1>4, <2>1, <3>1 DEF Base, ToldOK, Sends, Resets, Running
  <2> QED
    BY <1>2, <2>3, <2>4, <2>5, <2>6, <2>7 DEF Base
<1>5. CASE /\ failed' /\ (unsent \/ changed \/ early => unsent')
           /\ UNCHANGED <<api, lag>>
  <2>1. CacheOK' /\ StatesOK'
    BY <1>1, <1>5 DEF Base, CacheOK, StatesOK, Consistent, Running
  <2>2. CopyOK'
    BY <1>1, <1>5 DEF Base, CopyOK, Calm, Running
  <2>3. ResetOK'
    BY <1>1, <1>5 DEF ResetOK, Running
  <2>4. ToldOK'
    BY <1>1, <1>5 DEF Base, ToldOK, Sends, Resets, Running
  <2> QED
    BY <1>2, <2>1, <2>2, <2>3, <2>4 DEF Base
<1> QED
  BY <1>3, <1>4, <1>5, WriteEffect

LEMMA BaseEmitEarly == ASSUME Typed, Base, EmitEarly PROVE Base'
<1>1. /\ pc = "early" /\ pc' = "final"
      /\ UNCHANGED <<api, cache, lag, queue, policy, stale, changed, early>>
  BY DEF EmitEarly
<1>2. /\ failed => failed'
      /\ unsent => unsent'
      /\ \/ parent' = IF early THEN "NonCompliant" ELSE parent
         \/ early /\ parent' = parent /\ (~changed => unsent')
      /\ failed' = failed \/ early
  <2>1. failed => failed'
    BY Zenon DEF EmitEarly
  <2>2. /\ unsent => unsent'
        /\ \/ parent' = IF early THEN "NonCompliant" ELSE parent
           \/ early /\ parent' = parent /\ (~changed => unsent')
    <3>1. \/ parent' = (IF early THEN "NonCompliant" ELSE parent) /\ unsent' = unsent
          \/ early /\ unsent' = (unsent \/ ~changed) /\ parent' = parent
      BY DEF EmitEarly
    <3>2. CASE parent' = (IF early THEN "NonCompliant" ELSE parent) /\ unsent' = unsent
      BY <3>2
    <3>3. CASE early /\ unsent' = (unsent \/ ~changed) /\ parent' = parent
      BY <3>3, Zenon
    <3> QED
      BY <3>1, <3>2, <3>3, Zenon
  <2>3. failed' = failed \/ early
    BY Zenon DEF EmitEarly
  <2> QED
    BY <2>1, <2>2, <2>3
<1>3. CacheOK' /\ StatesOK' /\ EarlyOK'
  BY <1>1, <1>2 DEF Base, CacheOK, StatesOK, EarlyOK, Consistent, Running
<1>4. CopyOK'
  BY <1>1, <1>2 DEF Base, CopyOK, Calm, Running
<1>5. ResetOK'
  BY <1>1, <1>2 DEF Base, ResetOK, Calm, Running
<1>6. ToldOK'
  <2>1. early /\ ~changed => Compliance(policy.status.good) = "NonCompliant"
    BY DEF Base, EarlyOK, Compliance
  <2>2. early \/ parent' = parent
    BY <1>2
  <2>3. Sends' <=> Sends
    BY <1>1 DEF Sends
  <2>4. Resets' <=> Resets
    BY <1>1 DEF Resets, Calm
  <2>5. unsent' \/ Sends' \/ parent' = api'.status.state
        \/ (api'.status.state = "" /\ (Running' \/ ~Calm'))
    BY <1>1, <1>2, <2>2, <2>3 DEF Base, ToldOK, Sends, Running
  <2>6. Sends' /\ ~unsent' => api'.status = policy'.status \/ Resets'
    BY <1>1, <1>2, <2>3, <2>4 DEF Base, ToldOK
  <2>7. ~changed' /\ early' /\ ~unsent' => parent' = Compliance(policy'.status.good)
    BY <1>1, <1>2, <2>1
  <2> QED
    BY <2>5, <2>6, <2>7 DEF ToldOK
<1> QED
  BY <1>3, <1>4, <1>5, <1>6 DEF Base

LEMMA BaseEmitFinal == ASSUME Typed, Base, EmitFinal PROVE Base'
<1>1. /\ pc = "final" /\ pc' = "idle" /\ early' = FALSE
      /\ UNCHANGED <<api, cache, lag>>
      /\ policy \in Policy
  BY DEF EmitFinal, Return, Typed, Running
<1>2. /\ queue \/ failed => queue'
      /\ \/ ~changed /\ parent' = parent /\ (unsent => unsent')
         \/ /\ changed /\ parent' = Compliance(policy.status.good)
            /\ ~unsent' => ~unsent \/ api.status = policy.status
         \/ unsent'
  <2>1. queue \/ failed => queue'
    BY Zenon DEF EmitFinal
  <2>2. \/ ~changed /\ parent' = parent /\ (unsent => unsent')
        \/ /\ changed /\ parent' = Compliance(policy.status.good)
           /\ ~unsent' => ~unsent \/ api.status = policy.status
        \/ unsent'
    BY Zenon DEF EmitFinal
  <2> QED
    BY <2>1, <2>2
<1>3. CacheOK' /\ StatesOK' /\ EarlyOK'
  BY <1>1 DEF Base, CacheOK, StatesOK, EarlyOK, Consistent, Running
<1>4. CopyOK'
  BY <1>1 DEF CopyOK, Running
<1>5. ResetOK'
  <2>1. SUFFICES ASSUME api'.status.state = "", Calm' PROVE FALSE
    BY DEF ResetOK
  <2>2. Calm /\ ~failed /\ api.status.state = ""
    BY <1>1, <1>2, <2>1 DEF Calm
  <2>3. changed
    BY <2>2 DEF Base, ResetOK
  <2>4. api.status = policy.status
    BY <1>1, <2>2, <2>3 DEF Base, CopyOK
  <2>5. policy.status.state = Compliance(policy.status.good)
    BY <1>1, <2>2 DEF Base, StatesOK
  <2> QED
    BY <1>1, <2>2, <2>4, <2>5, StatusRecord
<1>6. ToldOK'
  <2>1. SUFFICES ASSUME ~unsent' PROVE parent' = api.status.state \/ (api.status.state = "" /\ ~Calm')
    BY <1>1 DEF ToldOK, Sends
  <2>2. api.status.state = "" => ~Calm'
    BY <1>1, <1>5 DEF ResetOK, Running
  <2>3. ASSUME api.status = policy.status, parent' = Compliance(policy.status.good)
        PROVE  parent' = api.status.state \/ api.status.state = ""
    BY <1>1, <2>3 DEF Base, StatesOK, Consistent
  <2>4. CASE ~changed /\ ~early
    BY <1>1, <1>2, <2>1, <2>2, <2>4 DEF Base, ToldOK, Sends
  <2>5. CASE ~changed /\ early
    BY <1>1, <1>2, <2>1, <2>2, <2>3, <2>5 DEF Base, ToldOK, Sends, Resets
  <2>6. CASE changed
    BY <1>1, <1>2, <2>1, <2>2, <2>3, <2>6 DEF Base, ToldOK, Sends, Resets
  <2> QED
    BY <2>4, <2>5, <2>6
<1> QED
  BY <1>3, <1>4, <1>5, <1>6 DEF Base

LEMMA BaseStep == Typed /\ Base /\ [Next]_vars => Base'
<1> SUFFICES ASSUME Typed, Base, [Next]_vars PROVE Base'
  OBVIOUS
<1>1. TypeOK
  BY DEF Typed
<1>2. CASE Elsewhere
  <2>1. /\ UNCHANGED <<api, cache, lag, parent, pc, policy, stale, changed, early, failed>>
        /\ unsent' = unsent
        /\ queue => queue'
    BY <1>2 DEF Elsewhere, locals
  <2> QED
    BY <2>1, BaseElsewhere
<1>3. CASE UNCHANGED vars
  <2>1. /\ UNCHANGED <<api, cache, lag, parent, pc, policy, stale, changed, early, failed>>
        /\ unsent' = unsent
        /\ queue => queue'
    BY <1>3 DEF vars, locals, history
  <2> QED
    BY <2>1, BaseElsewhere
<1> QED
  BY <1>1, <1>2, <1>3, Steps, BaseWritten, BaseDeliver, BaseRestart, BaseBegin, BaseHandlers,
     HandlersEvaluate, BaseFails, BaseWriteStatus, BaseEmitEarly, BaseEmitFinal
     DEF Environment, Rest

LEMMA BaseInit == Init => Base
<1> SUFFICES ASSUME Init PROVE Base
  OBVIOUS
<1>1. /\ cache = api /\ lag = "none" /\ queue = TRUE /\ pc = "idle" /\ parent = ""
      /\ early = FALSE /\ api.status = NoStatus
  BY DEF Init
<1>2. api.status.state = "" /\ cache.status = api.status /\ cache.spec = api.spec
  <2>1. NoStatus.state = ""
    BY DEF NoStatus
  <2>2. cache = api /\ api.status = NoStatus
    BY <1>1
  <2> QED
    BY <2>1, <2>2
<1>3. CacheOK /\ StatesOK
  BY <1>1, <1>2 DEF CacheOK, StatesOK, Consistent, Running
<1>4. EarlyOK
  BY <1>1 DEF EarlyOK
<1>5. CopyOK
  BY <1>1 DEF CopyOK, Running
<1>6. ResetOK
  BY <1>1 DEF ResetOK, Calm
<1>7. ToldOK
  BY <1>1, <1>2 DEF ToldOK, Sends
<1> QED
  BY <1>3, <1>4, <1>5, <1>6, <1>7 DEF Base

LEMMA BaseInductive == Spec => [](Typed /\ Base)
<1>1. Init => Typed /\ Base
  BY TypedInit, BaseInit
<1>2. Typed /\ Base /\ [Next]_vars => (Typed /\ Base)'
  BY TypedStep, BaseStep
<1> QED
  BY <1>1, <1>2, PTL DEF Spec

\* ParentAgrees for any specs and however many edits, resets, failed calls and
\* restarts: an event is sent for every change that updateStatus reports, and
\* a status that was written without a report is the one that was there.
THEOREM ParentTold == Spec => []ParentAgrees
<1>1. ASSUME Typed, Base PROVE ParentAgrees
  BY <1>1 DEF Base, ParentAgrees, AtRest, ToldOK, Sends, Calm, Running
<1> QED
  BY <1>1, BaseInductive, PTL

-----------------------------------------------------------------------------
(* What an evaluation finds: of objects o and a spec s, with the conditions g  *)
(* that it leaves and the kinds b that it queried.  The conditions are those   *)
(* of the objects, nothing is left to do, and all that this depends on is      *)
(* among the queried kinds.                                                    *)

NamespaceJudged(o, s, g, b) ==
    /\ GroupBuilt(s) => "ns" \in b
    /\ "valid" \in g <=> s.invalid = {} /\ (o.ns \/ ~s.musthave)

Another(o, s) == o.others \/ (~SubscriptionBuilt(s) /\ o.sub # None)
GroupJudged(o, s, g, b) ==
    /\ "og" \in b
    /\ s.musthave =>
         /\ "og" \in g <=> \/ o.og \in {"match", "deleting"}
                           \/ ~s.group /\ o.og \notin {"none", "many"}
         /\ s.enforce => o.og # "none"
    /\ ~s.musthave =>
         /\ \/ "og" \notin s.remove \/ o.og \in {"none", "many"}
            \/ "others" \in b /\ "sub" \in b
         /\ "og" \in g <=> \/ o.og \in {"none", "other"}
                           \/ o.og # "many" /\ (Another(o, s) \/ "og" \notin s.remove)

Corrected(o, s) ==
    o.sub.owned /\ o.sub.match = "match" /\ o.sub.auto = (s.auto /\ s.versions = {})
SubscriptionJudged(o, s, g, b) ==
    /\ "sub" \in b
    /\ s.musthave =>
         /\ o.sub = None => "sub" \notin g
         /\ o.sub # None /\ o.sub.res # "neighbor" =>
               ("sub" \in g <=> /\ o.sub.match = "match" /\ o.sub.res = "fine"
                                /\ s.enforce => o.sub.owned)
         /\ s.enforce /\ o.sub = None => "og" \notin g
         /\ s.enforce /\ o.sub # None /\ o.sub.match # "immutable" => Corrected(o, s)
    /\ ~s.musthave =>
         /\ "sub" \in g <=> o.sub = None \/ "sub" \notin s.remove
         /\ s.enforce /\ "sub" \in s.remove => o.sub = None \/ o.sub.deleting

LatestPlan(o) == IF o.sub.cur # 0 /\ o.plan[o.sub.cur] # "none" THEN o.sub.cur
                 ELSE IF o.sub.inst # 0 /\ o.plan[o.sub.inst] # "none" THEN o.sub.inst
                 ELSE 0
Settled(o, s) ==
    \/ LatestPlan(o) = 0 \/ o.plan[LatestPlan(o)] \in {"complete", "approved"}
    \/ o.plan[LatestPlan(o)] = "requires" /\ (s.lenient \/ o.sub.inst = o.sub.cur)
PlanJudged(o, s, g, b) ==
    /\ "sub" \in b
    /\ o.sub # None /\ (o.sub.cur # 0 \/ o.sub.inst # 0) => "plan" \in b
    /\ s.musthave /\ o.sub # None =>
         /\ "plan" \in g <=> Settled(o, s)
         /\ s.enforce /\ o.sub.cur # 0 /\ Allowed(s, o.sub.cur) /\ o.sub.inst = 0 =>
               o.plan[o.sub.cur] # "requires"
    /\ ~s.musthave => "plan" \in g

InstalledCSV(o) ==
    IF o.sub # None /\ o.sub.inst # 0 /\ o.csv[o.sub.inst] # "none" THEN o.sub.inst ELSE 0
CSVJudged(o, s, g, b) ==
    /\ "sub" \in b /\ "csv" \in b
    /\ s.musthave => ("csv" \in g <=> /\ InstalledCSV(o) # 0 /\ Allowed(s, InstalledCSV(o))
                                      /\ o.csv[InstalledCSV(o)] = "succeeded")
    /\ ~s.musthave =>
         /\ "csv" \in g <=> (\A v \in Csv : o.csv[v] = "none") \/ "csv" \notin s.remove
         /\ s.enforce /\ "csv" \in s.remove => \A v \in Csv : o.csv[v] \in {"none", "deleting"}

CRDJudged(o, s, g, b) ==
    /\ "crd" \in b
    /\ s.musthave => "crd" \in g
    /\ ~s.musthave =>
         /\ "crd" \in g <=> o.crd = "none" \/ "crd" \notin s.remove
         /\ s.enforce /\ "crd" \in s.remove => o.crd \in {"none", "deleting"}

DeploymentJudged(o, s, g, b) ==
    /\ "sub" \in b /\ "csv" \in b
    /\ InstalledCSV(o) # 0 => "dep" \in b
    /\ "dep" \in g <=> ~s.musthave \/ InstalledCSV(o) = 0 \/ o.dep # "down" \/ s.lenient

CatalogJudged(o, s, g, b) ==
    /\ "cat" \in b
    /\ s.musthave /\ o.cat # "unknown" => ("cat" \in g <=> o.cat = "ready" \/ s.lenient)
    /\ ~s.musthave => "cat" \in g

\* A change of what was not queried leaves the findings as they are.
LEMMA Unqueried ==
    ASSUME NEW o, NEW o2, NEW s, NEW g, NEW b, \A k \in b : o2[k] = o[k]
    PROVE  /\ NamespaceJudged(o, s, g, b) => NamespaceJudged(o2, s, g, b)
           /\ GroupJudged(o, s, g, b) => GroupJudged(o2, s, g, b)
           /\ SubscriptionJudged(o, s, g, b) => SubscriptionJudged(o2, s, g, b) /\ o2.sub = o.sub
           /\ PlanJudged(o, s, g, b) => PlanJudged(o2, s, g, b)
           /\ CSVJudged(o, s, g, b) =>
                 CSVJudged(o2, s, g, b) /\ InstalledCSV(o2) = InstalledCSV(o)
           /\ CRDJudged(o, s, g, b) => CRDJudged(o2, s, g, b)
           /\ DeploymentJudged(o, s, g, b) => DeploymentJudged(o2, s, g, b)
           /\ CatalogJudged(o, s, g, b) => CatalogJudged(o2, s, g, b)
<1>1. NamespaceJudged(o, s, g, b) => NamespaceJudged(o2, s, g, b)
  BY DEF NamespaceJudged, GroupBuilt
<1>2. GroupJudged(o, s, g, b) => GroupJudged(o2, s, g, b)
  BY DEF GroupJudged, Another
<1>3. "sub" \in b => o2.sub = o.sub
  OBVIOUS
<1>4. SubscriptionJudged(o, s, g, b) => SubscriptionJudged(o2, s, g, b) /\ o2.sub = o.sub
  BY <1>3 DEF SubscriptionJudged, Corrected
<1>5. PlanJudged(o, s, g, b) => PlanJudged(o2, s, g, b)
  <2>1. "plan" \in b => o2.plan = o.plan
    OBVIOUS
  <2> QED
    BY <1>3, <2>1 DEF PlanJudged, Settled, LatestPlan
<1>6. "csv" \in b => o2.csv = o.csv
  OBVIOUS
<1>7. "sub" \in b /\ "csv" \in b => InstalledCSV(o2) = InstalledCSV(o)
  BY <1>3, <1>6 DEF InstalledCSV
<1>8. CSVJudged(o, s, g, b) => CSVJudged(o2, s, g, b) /\ InstalledCSV(o2) = InstalledCSV(o)
  BY <1>6, <1>7 DEF CSVJudged
<1>9. CRDJudged(o, s, g, b) => CRDJudged(o2, s, g, b)
  BY DEF CRDJudged
<1>10. DeploymentJudged(o, s, g, b) => DeploymentJudged(o2, s, g, b)
  BY <1>7 DEF DeploymentJudged
<1>11. CatalogJudged(o, s, g, b) => CatalogJudged(o2, s, g, b)
  BY DEF CatalogJudged
<1> QED
  BY <1>1, <1>2, <1>4, <1>5, <1>8, <1>9, <1>10, <1>11

\* The findings of a handler stand whatever the later ones add.
LEMMA Added ==
    ASSUME NEW o, NEW s, NEW g, NEW g2, NEW b, NEW b2, b \subseteq b2
    PROVE  /\ NamespaceJudged(o, s, g, b) /\ ("valid" \in g2 <=> "valid" \in g)
                => NamespaceJudged(o, s, g2, b2)
           /\ GroupJudged(o, s, g, b) /\ ("og" \in g2 <=> "og" \in g) => GroupJudged(o, s, g2, b2)
           /\ SubscriptionJudged(o, s, g, b) /\ (\A k \in {"sub", "og"} : k \in g2 <=> k \in g)
                => SubscriptionJudged(o, s, g2, b2)
           /\ PlanJudged(o, s, g, b) /\ ("plan" \in g2 <=> "plan" \in g)
                => PlanJudged(o, s, g2, b2)
           /\ CSVJudged(o, s, g, b) /\ ("csv" \in g2 <=> "csv" \in g) => CSVJudged(o, s, g2, b2)
           /\ CRDJudged(o, s, g, b) /\ ("crd" \in g2 <=> "crd" \in g) => CRDJudged(o, s, g2, b2)
           /\ DeploymentJudged(o, s, g, b) /\ ("dep" \in g2 <=> "dep" \in g)
                => DeploymentJudged(o, s, g2, b2)
<1>1. NamespaceJudged(o, s, g, b) /\ ("valid" \in g2 <=> "valid" \in g)
         => NamespaceJudged(o, s, g2, b2)
  BY DEF NamespaceJudged
<1>2. GroupJudged(o, s, g, b) /\ ("og" \in g2 <=> "og" \in g) => GroupJudged(o, s, g2, b2)
  BY DEF GroupJudged
<1>3. SubscriptionJudged(o, s, g, b) /\ (\A k \in {"sub", "og"} : k \in g2 <=> k \in g)
         => SubscriptionJudged(o, s, g2, b2)
  BY DEF SubscriptionJudged
<1>4. PlanJudged(o, s, g, b) /\ ("plan" \in g2 <=> "plan" \in g) => PlanJudged(o, s, g2, b2)
  BY DEF PlanJudged
<1>5. CSVJudged(o, s, g, b) /\ ("csv" \in g2 <=> "csv" \in g) => CSVJudged(o, s, g2, b2)
  BY DEF CSVJudged
<1>6. CRDJudged(o, s, g, b) /\ ("crd" \in g2 <=> "crd" \in g) => CRDJudged(o, s, g2, b2)
  BY DEF CRDJudged
<1>7. DeploymentJudged(o, s, g, b) /\ ("dep" \in g2 <=> "dep" \in g)
         => DeploymentJudged(o, s, g2, b2)
  BY DEF DeploymentJudged
<1> QED
  BY <1>1, <1>2, <1>3, <1>4, <1>5, <1>6, <1>7


\* What handleSubscription returns of the Subscription.
Read(o) == IF o.sub = None THEN [cur |-> 0, inst |-> 0]
           ELSE [cur |-> o.sub.cur, inst |-> o.sub.inst]

\* What an evaluation has found when it is at pc "at": what the handlers before
\* that judged, and what they passed on.
Evaluation(at, o, s, g, b, og, su, cv) ==
    /\ at # "build" => NamespaceJudged(o, s, g, b)
    /\ at = "sub" => (og <=> s.musthave /\ "og" \in g)
    /\ GroupBuilt(s) /\ at \notin {"build", "og"} => GroupJudged(o, s, g, b)
    /\ SubscriptionBuilt(s) =>
         /\ at \in {"plan", "csv", "crd", "dep", "cat"} => su = Read(o)
         /\ at \in {"crd", "dep"} => cv = InstalledCSV(o)
         /\ at \notin {"build", "og", "sub"} => SubscriptionJudged(o, s, g, b)
         /\ at \notin {"build", "og", "sub", "plan"} => PlanJudged(o, s, g, b)
         /\ at \notin {"build", "og", "sub", "plan", "csv"} => CSVJudged(o, s, g, b)
         /\ at \in {"dep", "cat", "status", "early", "final"} => CRDJudged(o, s, g, b)
         /\ at \in {"cat", "status", "early", "final"} => DeploymentJudged(o, s, g, b)
         /\ at \in {"status", "early", "final"} => CatalogJudged(o, s, g, b)

\* Nothing disturbed this evaluation so far.
EvaluationOK ==
    Running /\ Calm /\ ~failed =>
        Evaluation(pc, obj, policy.spec, policy.status.good, batch, ogCorrect, sub, csv)

\* Between two evaluations the last one still holds, and the status is its.
RestOK ==
    ~Running /\ Calm =>
        \E g \in SUBSET Kind :
            /\ Evaluation("final", obj, api.spec, g, watches, FALSE, None, 0)
            /\ api.status.good = g /\ api.status.state = Compliance(g)

LEMMA EvaluationUnqueried ==
    ASSUME NEW at, NEW o, NEW o2, NEW s, NEW g, NEW b, NEW og, NEW su, NEW cv,
           Evaluation(at, o, s, g, b, og, su, cv), \A k \in b : o2[k] = o[k]
    PROVE  Evaluation(at, o2, s, g, b, og, su, cv)
<1>1. /\ NamespaceJudged(o, s, g, b) => NamespaceJudged(o2, s, g, b)
      /\ GroupJudged(o, s, g, b) => GroupJudged(o2, s, g, b)
      /\ SubscriptionJudged(o, s, g, b) => SubscriptionJudged(o2, s, g, b) /\ o2.sub = o.sub
      /\ PlanJudged(o, s, g, b) => PlanJudged(o2, s, g, b)
      /\ CSVJudged(o, s, g, b) =>
            CSVJudged(o2, s, g, b) /\ InstalledCSV(o2) = InstalledCSV(o)
      /\ CRDJudged(o, s, g, b) => CRDJudged(o2, s, g, b)
      /\ DeploymentJudged(o, s, g, b) => DeploymentJudged(o2, s, g, b)
      /\ CatalogJudged(o, s, g, b) => CatalogJudged(o2, s, g, b)
  BY Unqueried
<1>2. o2.sub = o.sub => Read(o2) = Read(o)
  BY DEF Read
<1> QED
  BY <1>1, <1>2 DEF Evaluation

\* A handler that leaves the policy out of the queue and does not fail only
\* reported: the dynamic watcher follows what it would have changed.
LEMMA Quiet ==
    ASSUME Typed, Running, NEW k \in Kind, NEW v, NEW next, Verdict(k, v), Handle(k, v, next),
           ~queue', ~failed', v.to # {} => k \in batch'
    PROVE  /\ v.to = {} /\ obj' = obj /\ pc' = next /\ ~queue /\ ~failed
           /\ policy'.spec = policy.spec
           /\ \A j \in Kind : j \in policy'.status.good
                                <=> IF j = k THEN v.ok ELSE j \in policy.status.good
<1>1. obj \in Objects /\ policy \in Policy /\ TypeOK
  BY DEF Typed, TypeOK, DataOK
<1>2. ASSUME NEW x \in v.to,
             Change([obj EXCEPT ![k] = x, !.ns = obj.ns \/ k \in {"og", "sub"}])
      PROVE  FALSE
  <2>1. k \in {"og", "sub", "csv", "crd"} /\ x # obj[k] /\ k \in batch'
    BY DEF Verdict
  <2>2. obj'[k] = x
    BY <1>1, <1>2, HandledTo, Zenon
  <2>3. queue' = (queue \/ \E j \in watches \cup batch' : obj'[j] # obj[j])
    BY <1>2, Zenon DEF Change
  <2> QED
    BY <2>1, <2>2, <2>3, Zenon
<1>3. /\ v.to = {} /\ policy' = updateStatus(policy, k, v.ok) /\ pc' = next
      /\ UNCHANGED <<obj, queue, failed>>
  BY <1>2, Zenon DEF Handle
<1>4. v.ok \in BOOLEAN
  BY DEF Verdict
<1>5. policy'.spec = policy.spec
  BY <1>1, <1>3, <1>4, UpdateStatusType
<1>6. policy'.status.good = IF v.ok THEN policy.status.good \cup {k}
                                    ELSE policy.status.good \ {k}
  <2>1. policy'.status =
          [good  |-> IF v.ok THEN policy.status.good \cup {k} ELSE policy.status.good \ {k},
           state |-> Compliance(IF v.ok THEN policy.status.good \cup {k}
                                ELSE policy.status.good \ {k})]
    BY <1>1, <1>3, <1>4, UpdateStatusType
  <2> QED
    BY <2>1
<1> QED
  BY <1>3, <1>4, <1>5, <1>6

-----------------------------------------------------------------------------
(* What each handler finds *)

LEMMA NamespaceFound ==
    ASSUME NEW g, NEW b, GroupBuilt(spec) => "ns" \in b,
           "valid" \in g <=> spec.invalid = {} /\ (obj.ns \/ ~spec.musthave)
    PROVE  NamespaceJudged(obj, policy.spec, g, b)
  BY DEF NamespaceJudged, spec

LEMMA GroupFound ==
    ASSUME TypeOK, policy \in Policy, GroupBuilt(spec), GroupVerdict.to = {},
           NEW g, "og" \in g <=> GroupVerdict.ok,
           NEW b, "og" \in b,
           \/ spec.musthave \/ "og" \notin spec.remove \/ obj.og \in {"none", "many"}
           \/ "others" \in b /\ "sub" \in b
    PROVE  GroupJudged(obj, policy.spec, g, b)
<1> USE DEF Report, ActOn
<1>1. obj.og \in Group
  BY DEF TypeOK, DataOK, Objects
<1>2. CASE spec.musthave
  <2>1. GroupVerdict = musthaveOpGroup
    BY <1>2 DEF GroupVerdict
  <2>2. ~(spec.enforce /\ (obj.og = "none" \/ (spec.group /\ obj.og = "differs")))
    BY <2>1 DEF musthaveOpGroup
  <2>3. "og" \in g <=> \/ obj.og \in {"match", "deleting"}
                       \/ ~spec.group /\ obj.og \in {"other", "differs", "immutable"}
    BY <2>1, <2>2 DEF musthaveOpGroup
  <2> QED
    BY <1>1, <1>2, <2>2, <2>3 DEF GroupJudged, spec, Group
<1>3. CASE ~spec.musthave
  <2> DEFINE unwanted == /\ obj.og \notin {"none", "many", "other"}
                         /\ ~("og" \notin spec.remove \/ AnotherSubscription)
  <2>1. GroupVerdict = mustnothaveOpGroup
    BY <1>3 DEF GroupVerdict
  <2>2. ~(unwanted /\ spec.enforce /\ obj.og # "deleting")
    BY <2>1 DEF mustnothaveOpGroup, Deleted
  <2>3. "og" \in g <=> obj.og # "many" /\ ~unwanted
    BY <2>1, <2>2 DEF mustnothaveOpGroup
  <2> QED
    BY <1>1, <1>3, <2>3 DEF GroupJudged, Another, AnotherSubscription, spec, Group
<1> QED
  BY <1>2, <1>3


LEMMA SubscriptionFound ==
    ASSUME TypeOK, policy \in Policy, SubscriptionBuilt(spec), SubscriptionVerdict.to = {},
           ogCorrect <=> spec.musthave /\ "og" \in policy.status.good,
           NEW g, "sub" \in g <=> SubscriptionVerdict.ok, "og" \in g <=> "og" \in policy.status.good,
           NEW b, "sub" \in b
    PROVE  SubscriptionJudged(obj, policy.spec, g, b)
<1> USE DEF Report, ActOn
<1>1. CASE spec.musthave
  <2>1. SubscriptionVerdict = musthaveSubscription
    BY <1>1 DEF SubscriptionVerdict
  <2>2. CASE obj.sub = None
    BY <1>1, <2>1, <2>2 DEF musthaveSubscription, SubscriptionJudged, spec
  <2>3. CASE obj.sub # None
    <3>1. CASE updateNeeded
      <4>1. ~(spec.enforce /\ obj.sub.match # "immutable") /\ "sub" \notin g
        BY <2>1, <2>3, <3>1 DEF musthaveSubscription
      <4>2. obj.sub.match # "match"
        BY <3>1, <4>1 DEF updateNeeded
      <4> QED
        BY <1>1, <2>3, <4>1, <4>2 DEF SubscriptionJudged, spec
    <3>2. CASE ~updateNeeded
      <4>1. obj.sub.match = "match" /\ (spec.enforce => obj.sub.owned)
        BY <3>2 DEF updateNeeded
      <4>2. spec.enforce => Corrected(obj, policy.spec)
        <5>1. spec.enforce => obj.sub.auto = AutoApproval
          BY <3>2 DEF updateNeeded
        <5>2. spec.enforce => AutoApproval = (policy.spec.auto /\ policy.spec.versions = {})
          BY DEF AutoApproval, spec
        <5> QED
          BY <4>1, <5>1, <5>2 DEF Corrected
      <4>3. obj.sub.res # "neighbor" => ("sub" \in g <=> obj.sub.res = "fine")
        BY <2>1, <2>3, <3>2 DEF musthaveSubscription, considerResolutionFailed
      <4> QED
        BY <1>1, <2>3, <4>1, <4>2, <4>3 DEF SubscriptionJudged, spec
    <3> QED
      BY <3>1, <3>2
  <2> QED
    BY <2>2, <2>3
<1>2. CASE ~spec.musthave
  <2> DEFINE unwanted == obj.sub # None /\ "sub" \in spec.remove
  <2>1. SubscriptionVerdict = mustnothaveSubscription
    BY <1>2 DEF SubscriptionVerdict
  <2>2. ~(unwanted /\ spec.enforce /\ ~obj.sub.deleting)
    BY <2>1 DEF mustnothaveSubscription, Deleted
  <2>3. "sub" \in g <=> ~unwanted
    BY <2>1, <2>2 DEF mustnothaveSubscription
  <2> QED
    BY <1>2, <2>2, <2>3 DEF SubscriptionJudged, spec
<1> QED
  BY <1>1, <1>2

LEMMA ReadSubscription ==
    ASSUME TypeOK, sub = Read(obj)
    PROVE  /\ sub # None
           /\ obj.sub = None => sub.cur = 0 /\ sub.inst = 0
           /\ obj.sub # None => sub.cur = obj.sub.cur /\ sub.inst = obj.sub.inst
           /\ sub.cur \in CsvOrNone /\ sub.inst \in CsvOrNone
<1>1. obj.sub \in Subscription \cup {None}
  BY DEF TypeOK, DataOK, Objects
<1>2. 0 \in CsvOrNone
  BY ConstantsAssumption DEF CsvOrNone
<1>3. Read(obj) \in [cur : CsvOrNone, inst : CsvOrNone]
  BY <1>1, <1>2 DEF Read, Subscription
<1>4. sub # None
  BY <1>3, ConstantsAssumption
<1> QED
  BY <1>3, <1>4 DEF Read

\* An install plan that waits for this policy is approved, and enqueues it.
LEMMA PlanFound ==
    ASSUME TypeOK, policy \in Policy, sub = Read(obj),
           NEW known, known <=> sub.cur # 0 \/ sub.inst # 0,
           NEW v, v = IF known THEN latestInstallPlan(sub) ELSE 0,
           ~(v # 0 /\ spec.musthave /\ Approves(v)),
           NEW g, "plan" \in g <=> (v # 0 /\ spec.musthave => musthaveInstallPlan(v)),
           NEW b, "sub" \in b, known => "plan" \in b
    PROVE  PlanJudged(obj, policy.spec, g, b)
<1>1. CASE obj.sub = None \/ ~spec.musthave
  BY <1>1, ReadSubscription DEF PlanJudged, spec
<1>2. CASE obj.sub # None /\ spec.musthave
  <2>1. sub.cur = obj.sub.cur /\ sub.inst = obj.sub.inst
    BY <1>2, ReadSubscription
  <2>2. v = LatestPlan(obj)
    BY <2>1 DEF latestInstallPlan, LatestPlan
  <2>3. "plan" \in g <=> Settled(obj, policy.spec)
    <3>1. v # 0 => (musthaveInstallPlan(v) <=> Settled(obj, policy.spec))
      <4>1. v # 0 => obj.sub.inst # 0 \/ obj.sub.cur # 0
        BY <2>1
      <4> QED
        BY <2>1, <2>2, <4>1 DEF musthaveInstallPlan, Settled, spec
    <3>2. v = 0 => Settled(obj, policy.spec)
      BY <2>2 DEF Settled
    <3> QED
      BY <1>2, <3>1, <3>2
  <2>4. ASSUME spec.enforce, obj.sub.cur # 0, Allowed(policy.spec, obj.sub.cur),
               obj.sub.inst = 0, obj.plan[obj.sub.cur] = "requires"
        PROVE  FALSE
    <3>1. v = obj.sub.cur
      BY <2>2, <2>4 DEF LatestPlan
    <3>2. getApprovedCSVs = {obj.sub.cur}
      BY <2>1, <2>4 DEF getApprovedCSVs, spec
    <3>3. Approves(v)
      BY <2>1, <2>4, <3>1, <3>2 DEF Approves
    <3> QED
      BY <1>2, <2>4, <3>1, <3>3
  <2> QED
    BY <1>2, <2>1, <2>3, <2>4 DEF PlanJudged, spec
<1> QED
  BY <1>1, <1>2

LEMMA CSVRead ==
    ASSUME TypeOK, sub = Read(obj)
    PROVE  foundCSV = InstalledCSV(obj)
  BY ReadSubscription DEF foundCSV, InstalledCSV


LEMMA CSVFound ==
    ASSUME TypeOK, policy \in Policy, sub = Read(obj), CSVVerdict.to = {},
           NEW g, "csv" \in g <=> CSVVerdict.ok,
           NEW b, "sub" \in b, "csv" \in b
    PROVE  CSVJudged(obj, policy.spec, g, b)
<1>1. sub # None /\ foundCSV = InstalledCSV(obj)
  BY ReadSubscription, CSVRead
<1>2. CASE spec.musthave
  <2>1. CSVVerdict = musthaveCSV
    BY <1>1, <1>2 DEF CSVVerdict
  <2> QED
    BY <1>1, <1>2, <2>1 DEF musthaveCSV, Report, CSVJudged, spec
<1>3. CASE ~spec.musthave
  <2> DEFINE unwanted == {v \in Csv : obj.csv[v] # "none" /\ "csv" \in spec.remove}
             deleting == {v \in unwanted : obj.csv[v] = "deleting"}
             done == deleting = {}
  <2>1. CSVVerdict = mustnothaveCSV
    BY <1>1, <1>3 DEF CSVVerdict
  <2>2. DeleteCSVs(unwanted, done).to # {}
    BY DEF DeleteCSVs, Deleted
  <2>3. ~(spec.enforce /\ unwanted # deleting)
    BY <2>1, <2>2 DEF mustnothaveCSV
  <2>4. "csv" \in g <=> unwanted = {}
    BY <2>1, <2>3 DEF mustnothaveCSV, Report
  <2>5. "csv" \in g <=> (\A v \in Csv : obj.csv[v] = "none") \/ "csv" \notin spec.remove
    BY <2>4
  <2>6. ASSUME spec.enforce, "csv" \in spec.remove, NEW v \in Csv
        PROVE  obj.csv[v] \in {"none", "deleting"}
    <3>1. obj.csv[v] # "none" => v \in deleting
      BY <2>3, <2>6
    <3> QED
      BY <3>1
  <2> HIDE DEF unwanted, deleting
  <2> QED
    BY <1>3, <2>5, <2>6 DEF CSVJudged, spec
<1> QED
  BY <1>2, <1>3

LEMMA CRDFound ==
    ASSUME TypeOK, policy \in Policy, sub # None, CRDVerdict.to = {},
           NEW g, "crd" \in g <=> CRDVerdict.ok,
           NEW b, "crd" \in b
    PROVE  CRDJudged(obj, policy.spec, g, b)
<1> DEFINE unwanted == obj.crd # "none" /\ ~spec.musthave /\ "crd" \in spec.remove
<1>1. ~(unwanted /\ spec.enforce /\ obj.crd # "deleting")
  BY DEF CRDVerdict, ActOn, Deleted
<1>2. "crd" \in g <=> ~unwanted
  BY <1>1 DEF CRDVerdict, Report
<1> QED
  BY <1>1, <1>2 DEF CRDJudged, spec

LEMMA DeploymentFound ==
    ASSUME csv = InstalledCSV(obj),
           NEW g, "dep" \in g <=> ~spec.musthave \/ csv = 0 \/ obj.dep # "down" \/ spec.lenient,
           NEW b, "sub" \in b, "csv" \in b, csv # 0 => "dep" \in b
    PROVE  DeploymentJudged(obj, policy.spec, g, b)
  BY DEF DeploymentJudged, spec

LEMMA CatalogFound ==
    ASSUME sub # None, NEW g, "cat" \in g <=> CatalogIsGood, NEW b, "cat" \in b
    PROVE  CatalogJudged(obj, policy.spec, g, b)
  BY DEF CatalogJudged, CatalogIsGood, spec


-----------------------------------------------------------------------------
(* The handlers, one after the other *)

\* It is enough to look at handlers that only report.
LEMMA Advances ==
    ASSUME Typed, EvaluationOK, Running, lag' = lag,
           NEW k \in Kind, NEW v, NEW next, Verdict(k, v), Handle(k, v, next),
           v.to # {} => k \in batch',
           v.to = {} =>
             (Evaluation(pc, obj, policy.spec, policy.status.good, batch, ogCorrect, sub, csv) =>
               ((\A j \in Kind : j \in policy'.status.good
                                   <=> IF j = k THEN v.ok ELSE j \in policy.status.good) =>
                  Evaluation(next, obj, policy.spec, policy'.status.good, batch', ogCorrect',
                             sub', csv')))
    PROVE  EvaluationOK'
<1> SUFFICES ASSUME ~queue', lag' # "enqueue", ~failed'
             PROVE  Evaluation(pc', obj', policy'.spec, policy'.status.good, batch', ogCorrect',
                               sub', csv')
  BY DEF EvaluationOK, Calm
<1>1. /\ v.to = {} /\ obj' = obj /\ pc' = next /\ ~queue /\ ~failed
      /\ policy'.spec = policy.spec
      /\ \A j \in Kind : j \in policy'.status.good
                           <=> IF j = k THEN v.ok ELSE j \in policy.status.good
  BY Quiet
<1>2. Evaluation(pc, obj, policy.spec, policy.status.good, batch, ogCorrect, sub, csv)
  BY <1>1 DEF EvaluationOK, Calm
<1> QED
  BY <1>1, <1>2

LEMMA BuildEvaluates == ASSUME Typed, EvaluationOK, buildResources PROVE EvaluationOK'
<1> DEFINE v == Report(spec.invalid = {} /\ (obj.ns \/ ~spec.musthave))
<1>1. /\ pc = "build" /\ Running /\ lag' = lag /\ batch \subseteq batch'
      /\ GroupBuilt(spec) => "ns" \in batch'
      /\ Handle("valid", v, "og") /\ policy \in Policy /\ "valid" \in Kind
  BY DEF buildResources, handlersKeep, Running, Typed, Kind
<1>2. v.to = {} /\ v.ok = (spec.invalid = {} /\ (obj.ns \/ ~spec.musthave))
  BY DEF Report
<1>3. Verdict("valid", v)
  BY ReportVerdict
<1> HIDE DEF v
<1>4. ASSUME "valid" \in policy'.status.good <=> v.ok
      PROVE  NamespaceJudged(obj, policy.spec, policy'.status.good, batch')
  BY <1>1, <1>2, <1>4, NamespaceFound
<1>5. \A g, b, og, su, cv : NamespaceJudged(obj, policy.spec, g, b) =>
          Evaluation("og", obj, policy.spec, g, b, og, su, cv)
  BY DEF Evaluation
<1> QED
  BY <1>1, <1>2, <1>3, <1>4, <1>5, Advances

LEMMA GroupEvaluates == ASSUME Typed, EvaluationOK, handleOpGroup PROVE EvaluationOK'
<1> DEFINE s == policy.spec
           g == policy.status.good
           h == policy'.status.good
           read == IF ~GroupBuilt(s) THEN {}
                   ELSE IF s.musthave \/ "og" \notin s.remove \/ obj.og \in {"none", "many"}
                        THEN {"og"} ELSE {"og", "sub", "others"}
<1>1. /\ pc = "og" /\ Running /\ lag' = lag /\ policy \in Policy /\ TypeOK /\ "og" \in Kind
      /\ Handle("og", GroupVerdict, "sub")
      /\ batch' = batch \cup read
  BY DEF handleOpGroup, handlersKeep, Running, Typed, Kind, GroupVerdict, spec
<1>2. ogCorrect' <=> s.musthave /\ "og" \in h
  BY DEF handleOpGroup, spec
<1>3. Verdict("og", GroupVerdict)
  BY <1>1, GroupVerdictType
<1>4. ~GroupBuilt(s) => GroupVerdict.to = {}
  BY DEF GroupVerdict, Report, spec
<1>5. batch \subseteq batch' /\ (GroupBuilt(s) => "og" \in batch')
  BY <1>1
<1>6. GroupBuilt(s) => \/ s.musthave \/ "og" \notin s.remove \/ obj.og \in {"none", "many"}
                       \/ "others" \in batch' /\ "sub" \in batch'
  BY <1>1
<1>7. ASSUME Evaluation(pc, obj, s, g, batch, ogCorrect, sub, csv), GroupVerdict.to = {},
             \A j \in Kind : j \in h <=> IF j = "og" THEN GroupVerdict.ok ELSE j \in g
      PROVE  Evaluation("sub", obj, s, h, batch', ogCorrect', sub', csv')
  <2>1. ("valid" \in h <=> "valid" \in g) /\ ("og" \in h <=> GroupVerdict.ok)
    BY <1>7 DEF Kind
  <2>2. NamespaceJudged(obj, s, g, batch)
    BY <1>1, <1>7 DEF Evaluation
  <2>3. NamespaceJudged(obj, s, h, batch')
    BY <1>5, <2>1, <2>2, Added
  <2>4. GroupBuilt(s) => GroupJudged(obj, s, h, batch')
    BY <1>1, <1>5, <1>6, <1>7, <2>1, GroupFound DEF spec
  <2> QED
    BY <1>2, <2>3, <2>4 DEF Evaluation
<1> QED
  BY <1>1, <1>3, <1>4, <1>5, <1>7, Advances

LEMMA SubscriptionEvaluates == ASSUME Typed, EvaluationOK, handleSubscription PROVE EvaluationOK'
<1> DEFINE s == policy.spec
           g == policy.status.good
           h == policy'.status.good
<1>1. /\ pc = "sub" /\ Running /\ lag' = lag /\ policy \in Policy /\ TypeOK /\ "sub" \in Kind
      /\ Handle("sub", SubscriptionVerdict, "plan")
      /\ batch' = IF SubscriptionBuilt(s) THEN batch \cup {"sub"} ELSE batch
  BY DEF handleSubscription, handlersKeep, Running, Typed, Kind, SubscriptionVerdict, spec
<1>2. SubscriptionBuilt(s) => sub' = Read(obj)
  BY DEF handleSubscription, spec, Read
<1>3. Verdict("sub", SubscriptionVerdict)
  BY <1>1, SubscriptionVerdictType
<1>4. ~SubscriptionBuilt(s) => SubscriptionVerdict.to = {}
  BY DEF SubscriptionVerdict, Report, spec
<1>5. batch \subseteq batch' /\ (SubscriptionBuilt(s) => "sub" \in batch')
  BY <1>1
<1>6. ASSUME Evaluation(pc, obj, s, g, batch, ogCorrect, sub, csv), SubscriptionVerdict.to = {},
             \A j \in Kind : j \in h <=> IF j = "sub" THEN SubscriptionVerdict.ok ELSE j \in g
      PROVE  Evaluation("plan", obj, s, h, batch', ogCorrect', sub', csv')
  <2>1. /\ "valid" \in h <=> "valid" \in g
        /\ "og" \in h <=> "og" \in g
        /\ "sub" \in h <=> SubscriptionVerdict.ok
    BY <1>6 DEF Kind
  <2>2. /\ NamespaceJudged(obj, s, g, batch)
        /\ GroupBuilt(s) => GroupJudged(obj, s, g, batch)
        /\ ogCorrect <=> s.musthave /\ "og" \in g
    BY <1>1, <1>6 DEF Evaluation
  <2>3. NamespaceJudged(obj, s, h, batch') /\ (GroupBuilt(s) => GroupJudged(obj, s, h, batch'))
    BY <1>5, <2>1, <2>2, Added
  <2>4. SubscriptionBuilt(s) => SubscriptionJudged(obj, s, h, batch')
    BY <1>1, <1>5, <1>6, <2>1, <2>2, SubscriptionFound DEF spec
  <2> QED
    BY <1>2, <2>3, <2>4 DEF Evaluation
<1> QED
  BY <1>1, <1>3, <1>4, <1>5, <1>6, Advances


LEMMA PlanEvaluates == ASSUME Typed, EvaluationOK, handleInstallPlan PROVE EvaluationOK'
<1> DEFINE s == policy.spec
           g == policy.status.good
           h == policy'.status.good
           known == sub # None /\ (sub.cur # 0 \/ sub.inst # 0)
           v == IF known THEN latestInstallPlan(sub) ELSE 0
           approve == v # 0 /\ spec.musthave /\ Approves(v)
           ok == sub # None /\ (v # 0 /\ spec.musthave => musthaveInstallPlan(v))
<1>1. /\ pc = "plan" /\ Running /\ lag' = lag /\ policy \in Policy /\ TypeOK /\ "plan" \in Kind
      /\ batch' = IF known THEN batch \cup {"plan"} ELSE batch
      /\ \/ ~approve /\ Handle("plan", Report(ok), "csv")
         \/ approve /\ Change([obj EXCEPT !.plan[v] = "approved"])
      /\ sub' = sub
  BY DEF handleInstallPlan, handlersKeep, Running, Typed, Kind
<1>2. batch \subseteq batch' /\ (known => "plan" \in batch') /\ ok \in BOOLEAN
  BY <1>1
<1> HIDE DEF ok
<1>3. Verdict("plan", Report(ok)) /\ Report(ok).to = {} /\ Report(ok).ok = ok
  BY <1>2, ReportVerdict DEF Report
<1>4. ASSUME approve, Change([obj EXCEPT !.plan[v] = "approved"]) PROVE queue'
  <2>1. known /\ obj.plan[v] = "requires" /\ "plan" \in batch'
    BY <1>2, <1>4 DEF Approves
  <2>2. sub \in [cur : CsvOrNone, inst : CsvOrNone]
    BY <1>1, <2>1 DEF TypeOK, DataOK
  <2>3. v \in CsvOrNone /\ v # 0
    <3>1. v = latestInstallPlan(sub) /\ v # 0
      BY <1>4
    <3> QED
      BY <2>2, <3>1 DEF latestInstallPlan
  <2>4. v \in Csv /\ obj \in Objects
    BY <1>1, <2>3, ConstantsAssumption DEF CsvOrNone, Csv, TypeOK, DataOK
  <2> HIDE DEF v, known, approve
  <2> DEFINE o == [obj EXCEPT !.plan[v] = "approved"]
  <2>5. o.plan[v] = "approved"
    BY <2>4 DEF Objects
  <2>6. o["plan"] # obj["plan"]
    BY <2>1, <2>5
  <2>7. queue' = (queue \/ \E j \in watches \cup batch' : o[j] # obj[j])
    BY <1>4 DEF Change
  <2> HIDE DEF o
  <2> QED
    BY <2>1, <2>6, <2>7
<1>5. ASSUME Evaluation(pc, obj, s, g, batch, ogCorrect, sub, csv), ~approve,
             \A j \in Kind : j \in h <=> IF j = "plan" THEN ok ELSE j \in g
      PROVE  Evaluation("csv", obj, s, h, batch', ogCorrect', sub', csv')
  <2>1. /\ "valid" \in h <=> "valid" \in g
        /\ "og" \in h <=> "og" \in g
        /\ "sub" \in h <=> "sub" \in g
        /\ "plan" \in h <=> ok
    BY <1>5 DEF Kind
  <2>2. /\ NamespaceJudged(obj, s, g, batch)
        /\ GroupBuilt(s) => GroupJudged(obj, s, g, batch)
        /\ SubscriptionBuilt(s) => SubscriptionJudged(obj, s, g, batch)
        /\ SubscriptionBuilt(s) => sub = Read(obj)
    BY <1>1, <1>5 DEF Evaluation
  <2>3. /\ NamespaceJudged(obj, s, h, batch')
        /\ GroupBuilt(s) => GroupJudged(obj, s, h, batch')
        /\ SubscriptionBuilt(s) => SubscriptionJudged(obj, s, h, batch')
    BY <1>2, <2>1, <2>2, Added
  <2>4. SubscriptionBuilt(s) => PlanJudged(obj, s, h, batch')
    <3> SUFFICES ASSUME SubscriptionBuilt(s) PROVE PlanJudged(obj, s, h, batch')
      OBVIOUS
    <3>1. sub = Read(obj) /\ sub # None
      BY <1>1, <2>2, ReadSubscription
    <3>2. "sub" \in batch'
      BY <2>3 DEF SubscriptionJudged
    <3>3. known <=> sub.cur # 0 \/ sub.inst # 0
      BY <3>1
    <3>4. ok <=> (v # 0 /\ spec.musthave => musthaveInstallPlan(v))
      BY <3>1 DEF ok
    <3>5. v = IF known THEN latestInstallPlan(sub) ELSE 0
      OBVIOUS
    <3>6. ~(v # 0 /\ spec.musthave /\ Approves(v))
      BY <1>5
    <3> HIDE DEF v, known
    <3> QED
      BY <1>1, <1>2, <2>1, <3>1, <3>2, <3>3, <3>4, <3>5, <3>6, PlanFound
  <2> QED
    BY <1>1, <2>2, <2>3, <2>4 DEF Evaluation
<1>6. CASE ~approve /\ Handle("plan", Report(ok), "csv")
  <2> HIDE DEF approve
  <2> QED
    BY <1>1, <1>3, <1>5, <1>6, Advances
<1>7. CASE approve /\ Change([obj EXCEPT !.plan[v] = "approved"])
  BY <1>4, <1>7 DEF EvaluationOK, Calm
<1> QED
  BY <1>1, <1>6, <1>7

LEMMA CSVEvaluates == ASSUME Typed, EvaluationOK, handleCSV PROVE EvaluationOK'
<1> DEFINE s == policy.spec
           g == policy.status.good
           h == policy'.status.good
<1>1. /\ pc = "csv" /\ Running /\ lag' = lag /\ policy \in Policy /\ TypeOK /\ "csv" \in Kind
      /\ Handle("csv", CSVVerdict, "crd")
      /\ batch' = IF sub # None THEN batch \cup {"csv"} ELSE batch
      /\ sub' = sub /\ csv' = foundCSV
  BY DEF handleCSV, handlersKeep, Running, Typed, Kind, CSVVerdict
<1>2. Verdict("csv", CSVVerdict)
  BY <1>1, CSVVerdictType
<1>3. sub = None => CSVVerdict.to = {}
  BY DEF CSVVerdict, Report
<1>4. batch \subseteq batch' /\ (sub # None => "csv" \in batch')
  BY <1>1
<1>5. ASSUME Evaluation(pc, obj, s, g, batch, ogCorrect, sub, csv), CSVVerdict.to = {},
             \A j \in Kind : j \in h <=> IF j = "csv" THEN CSVVerdict.ok ELSE j \in g
      PROVE  Evaluation("crd", obj, s, h, batch', ogCorrect', sub', csv')
  <2>1. /\ "valid" \in h <=> "valid" \in g
        /\ "og" \in h <=> "og" \in g
        /\ "sub" \in h <=> "sub" \in g
        /\ "plan" \in h <=> "plan" \in g
        /\ "csv" \in h <=> CSVVerdict.ok
    BY <1>5 DEF Kind
  <2>2. /\ NamespaceJudged(obj, s, g, batch)
        /\ GroupBuilt(s) => GroupJudged(obj, s, g, batch)
        /\ SubscriptionBuilt(s) => SubscriptionJudged(obj, s, g, batch)
        /\ SubscriptionBuilt(s) => PlanJudged(obj, s, g, batch) /\ sub = Read(obj)
    BY <1>1, <1>5 DEF Evaluation
  <2>3. /\ NamespaceJudged(obj, s, h, batch')
        /\ GroupBuilt(s) => GroupJudged(obj, s, h, batch')
        /\ SubscriptionBuilt(s) => SubscriptionJudged(obj, s, h, batch')
        /\ SubscriptionBuilt(s) => PlanJudged(obj, s, h, batch')
    BY <1>4, <2>1, <2>2, Added
  <2>4. SubscriptionBuilt(s) => CSVJudged(obj, s, h, batch')
    <3> SUFFICES ASSUME SubscriptionBuilt(s) PROVE CSVJudged(obj, s, h, batch')
      OBVIOUS
    <3>1. sub = Read(obj) /\ sub # None
      BY <1>1, <2>2, ReadSubscription
    <3>2. "sub" \in batch'
      BY <2>3 DEF SubscriptionJudged
    <3> QED
      BY <1>1, <1>4, <1>5, <2>1, <3>1, <3>2, CSVFound
  <2>5. SubscriptionBuilt(s) => csv' = InstalledCSV(obj)
    BY <1>1, <2>2, CSVRead
  <2> QED
    BY <1>1, <2>2, <2>3, <2>4, <2>5 DEF Evaluation
<1> QED
  BY <1>1, <1>2, <1>3, <1>4, <1>5, Advances


LEMMA CRDEvaluates == ASSUME Typed, EvaluationOK, handleCRDs PROVE EvaluationOK'
<1> DEFINE s == policy.spec
           g == policy.status.good
           h == policy'.status.good
<1>1. /\ pc = "crd" /\ Running /\ lag' = lag /\ policy \in Policy /\ TypeOK /\ "crd" \in Kind
      /\ Handle("crd", CRDVerdict, "dep")
      /\ batch' = IF sub # None THEN batch \cup {"crd"} ELSE batch
      /\ sub' = sub /\ csv' = csv
  BY DEF handleCRDs, handlersKeep, Running, Typed, Kind
<1>2. Verdict("crd", CRDVerdict)
  BY <1>1, CRDVerdictType
<1>3. sub = None => CRDVerdict.to = {}
  BY DEF CRDVerdict, Report
<1>4. batch \subseteq batch' /\ (sub # None => "crd" \in batch')
  BY <1>1
<1>5. ASSUME Evaluation(pc, obj, s, g, batch, ogCorrect, sub, csv), CRDVerdict.to = {},
             \A j \in Kind : j \in h <=> IF j = "crd" THEN CRDVerdict.ok ELSE j \in g
      PROVE  Evaluation("dep", obj, s, h, batch', ogCorrect', sub', csv')
  <2>1. /\ "valid" \in h <=> "valid" \in g
        /\ "og" \in h <=> "og" \in g
        /\ "sub" \in h <=> "sub" \in g
        /\ "plan" \in h <=> "plan" \in g
        /\ "csv" \in h <=> "csv" \in g
        /\ "crd" \in h <=> CRDVerdict.ok
    BY <1>5 DEF Kind
  <2>2. /\ NamespaceJudged(obj, s, g, batch)
        /\ GroupBuilt(s) => GroupJudged(obj, s, g, batch)
        /\ SubscriptionBuilt(s) => SubscriptionJudged(obj, s, g, batch)
        /\ SubscriptionBuilt(s) => PlanJudged(obj, s, g, batch) /\ CSVJudged(obj, s, g, batch)
        /\ SubscriptionBuilt(s) => sub = Read(obj) /\ csv = InstalledCSV(obj)
    BY <1>1, <1>5 DEF Evaluation
  <2>3. /\ NamespaceJudged(obj, s, h, batch')
        /\ GroupBuilt(s) => GroupJudged(obj, s, h, batch')
        /\ SubscriptionBuilt(s) => SubscriptionJudged(obj, s, h, batch')
        /\ SubscriptionBuilt(s) => PlanJudged(obj, s, h, batch') /\ CSVJudged(obj, s, h, batch')
    BY <1>4, <2>1, <2>2, Added
  <2>4. SubscriptionBuilt(s) => CRDJudged(obj, s, h, batch')
    BY <1>1, <1>4, <1>5, <2>1, <2>2, ReadSubscription, CRDFound
  <2> QED
    BY <1>1, <2>2, <2>3, <2>4 DEF Evaluation
<1> QED
  BY <1>1, <1>2, <1>3, <1>4, <1>5, Advances

LEMMA DeploymentEvaluates == ASSUME Typed, EvaluationOK, handleDeployment PROVE EvaluationOK'
<1> DEFINE s == policy.spec
           g == policy.status.good
           h == policy'.status.good
           ok == ~spec.musthave \/ csv = 0 \/ obj.dep # "down" \/ spec.lenient
<1>1. /\ pc = "dep" /\ Running /\ lag' = lag /\ policy \in Policy /\ TypeOK /\ "dep" \in Kind
      /\ Handle("dep", Report(ok), "cat")
      /\ batch' = IF csv # 0 THEN batch \cup {"dep"} ELSE batch
      /\ sub' = sub
  BY DEF handleDeployment, DeploymentWatch, handlersKeep, Running, Typed, Kind
<1>2. batch \subseteq batch' /\ (csv # 0 => "dep" \in batch')
  BY <1>1
<1>3. ok <=> ~spec.musthave \/ csv = 0 \/ obj.dep # "down" \/ spec.lenient
  OBVIOUS
<1>4. ok \in BOOLEAN
  OBVIOUS
<1> HIDE DEF ok
<1>5. Verdict("dep", Report(ok)) /\ Report(ok).to = {} /\ Report(ok).ok = ok
  BY <1>4, ReportVerdict DEF Report
<1>6. ASSUME Evaluation(pc, obj, s, g, batch, ogCorrect, sub, csv),
             \A j \in Kind : j \in h <=> IF j = "dep" THEN ok ELSE j \in g
      PROVE  Evaluation("cat", obj, s, h, batch', ogCorrect', sub', csv')
  <2>1. /\ "valid" \in h <=> "valid" \in g
        /\ "og" \in h <=> "og" \in g
        /\ "sub" \in h <=> "sub" \in g
        /\ "plan" \in h <=> "plan" \in g
        /\ "csv" \in h <=> "csv" \in g
        /\ "crd" \in h <=> "crd" \in g
        /\ "dep" \in h <=> ok
    BY <1>6 DEF Kind
  <2>2. /\ NamespaceJudged(obj, s, g, batch)
        /\ GroupBuilt(s) => GroupJudged(obj, s, g, batch)
        /\ SubscriptionBuilt(s) => SubscriptionJudged(obj, s, g, batch)
        /\ SubscriptionBuilt(s) => PlanJudged(obj, s, g, batch) /\ CSVJudged(obj, s, g, batch)
        /\ SubscriptionBuilt(s) => CRDJudged(obj, s, g, batch)
        /\ SubscriptionBuilt(s) => sub = Read(obj) /\ csv = InstalledCSV(obj)
    BY <1>1, <1>6 DEF Evaluation
  <2>3. /\ NamespaceJudged(obj, s, h, batch')
        /\ GroupBuilt(s) => GroupJudged(obj, s, h, batch')
        /\ SubscriptionBuilt(s) => SubscriptionJudged(obj, s, h, batch')
        /\ SubscriptionBuilt(s) => PlanJudged(obj, s, h, batch') /\ CSVJudged(obj, s, h, batch')
        /\ SubscriptionBuilt(s) => CRDJudged(obj, s, h, batch')
    BY <1>2, <2>1, <2>2, Added
  <2>4. SubscriptionBuilt(s) => DeploymentJudged(obj, s, h, batch')
    <3>1. SubscriptionBuilt(s) => "sub" \in batch' /\ "csv" \in batch'
      BY <2>3 DEF CSVJudged
    <3> QED
      BY <1>2, <1>3, <2>1, <2>2, <3>1, DeploymentFound
  <2> QED
    BY <1>1, <2>2, <2>3, <2>4 DEF Evaluation
<1> QED
  BY <1>1, <1>2, <1>5, <1>6, Advances

LEMMA CatalogEvaluates == ASSUME Typed, EvaluationOK, handleCatalogSource PROVE EvaluationOK'
<1> DEFINE s == policy.spec
           g == policy.status.good
           h == policy'.status.good
<1>1. /\ pc = "cat" /\ Running /\ lag' = lag /\ policy \in Policy /\ TypeOK /\ "cat" \in Kind
      /\ Handle("cat", Report(CatalogIsGood), "status")
      /\ batch' = IF sub # None THEN batch \cup {"cat"} ELSE batch
  BY DEF handleCatalogSource, handlersKeep, Running, Typed, Kind
<1>2. batch \subseteq batch' /\ (sub # None => "cat" \in batch')
  BY <1>1
<1>3. /\ Verdict("cat", Report(CatalogIsGood)) /\ Report(CatalogIsGood).to = {}
      /\ Report(CatalogIsGood).ok = CatalogIsGood
  BY CatalogType, ReportVerdict DEF Report
<1>4. ASSUME Evaluation(pc, obj, s, g, batch, ogCorrect, sub, csv),
             \A j \in Kind : j \in h <=> IF j = "cat" THEN CatalogIsGood ELSE j \in g
      PROVE  Evaluation("status", obj, s, h, batch', ogCorrect', sub', csv')
  <2>1. /\ "valid" \in h <=> "valid" \in g
        /\ "og" \in h <=> "og" \in g
        /\ "sub" \in h <=> "sub" \in g
        /\ "plan" \in h <=> "plan" \in g
        /\ "csv" \in h <=> "csv" \in g
        /\ "crd" \in h <=> "crd" \in g
        /\ "dep" \in h <=> "dep" \in g
        /\ "cat" \in h <=> CatalogIsGood
    BY <1>4 DEF Kind
  <2>2. /\ NamespaceJudged(obj, s, g, batch)
        /\ GroupBuilt(s) => GroupJudged(obj, s, g, batch)
        /\ SubscriptionBuilt(s) => SubscriptionJudged(obj, s, g, batch)
        /\ SubscriptionBuilt(s) => PlanJudged(obj, s, g, batch) /\ CSVJudged(obj, s, g, batch)
        /\ SubscriptionBuilt(s) => CRDJudged(obj, s, g, batch) /\ DeploymentJudged(obj, s, g, batch)
        /\ SubscriptionBuilt(s) => sub = Read(obj)
    BY <1>1, <1>4 DEF Evaluation
  <2>3. /\ NamespaceJudged(obj, s, h, batch')
        /\ GroupBuilt(s) => GroupJudged(obj, s, h, batch')
        /\ SubscriptionBuilt(s) => SubscriptionJudged(obj, s, h, batch')
        /\ SubscriptionBuilt(s) => PlanJudged(obj, s, h, batch') /\ CSVJudged(obj, s, h, batch')
        /\ SubscriptionBuilt(s) =>
             CRDJudged(obj, s, h, batch') /\ DeploymentJudged(obj, s, h, batch')
    BY <1>2, <2>1, <2>2, Added
  <2>4. SubscriptionBuilt(s) => CatalogJudged(obj, s, h, batch')
    BY <1>1, <1>2, <2>1, <2>2, ReadSubscription, CatalogFound
  <2> QED
    BY <2>3, <2>4 DEF Evaluation
<1> QED
  BY <1>1, <1>2, <1>3, <1>4, Advances


-----------------------------------------------------------------------------
(* The other steps *)

LEMMA Concluded ==
    ASSUME NEW at \in {"status", "early", "final"}, NEW at2 \in {"status", "early", "final"},
           NEW o, NEW s, NEW g, NEW b, NEW og, NEW su, NEW cv, NEW og2, NEW su2, NEW cv2,
           Evaluation(at, o, s, g, b, og, su, cv)
    PROVE  Evaluation(at2, o, s, g, b, og2, su2, cv2)
  BY DEF Evaluation

LEMMA AccurateElsewhere ==
    ASSUME EvaluationOK, RestOK, UNCHANGED <<api, lag, watches, locals>>, queue => queue',
           ~queue' => \A k \in watches \cup batch : obj'[k] = obj[k]
    PROVE  EvaluationOK' /\ RestOK'
<1>1. /\ pc' = pc /\ policy' = policy /\ batch' = batch /\ ogCorrect' = ogCorrect /\ sub' = sub
      /\ csv' = csv /\ failed' = failed /\ api' = api /\ lag' = lag /\ watches' = watches
  BY DEF locals
<1>2. ASSUME Running, ~queue', lag # "enqueue", ~failed
      PROVE  Evaluation(pc, obj', policy.spec, policy.status.good, batch, ogCorrect, sub, csv)
  <2>1. Evaluation(pc, obj, policy.spec, policy.status.good, batch, ogCorrect, sub, csv)
    BY <1>2 DEF EvaluationOK, Calm
  <2>2. \A k \in batch : obj'[k] = obj[k]
    BY <1>2
  <2> QED
    BY <2>1, <2>2, EvaluationUnqueried
<1>3. ASSUME ~Running, ~queue', lag # "enqueue"
      PROVE  \E g \in SUBSET Kind :
                /\ Evaluation("final", obj', api.spec, g, watches, FALSE, None, 0)
                /\ api.status.good = g /\ api.status.state = Compliance(g)
  <2>1. PICK g \in SUBSET Kind :
           /\ Evaluation("final", obj, api.spec, g, watches, FALSE, None, 0)
           /\ api.status.good = g /\ api.status.state = Compliance(g)
    BY <1>3 DEF RestOK, Calm
  <2>2. \A k \in watches : obj'[k] = obj[k]
    BY <1>3
  <2>3. Evaluation("final", obj', api.spec, g, watches, FALSE, None, 0)
    BY <2>1, <2>2, EvaluationUnqueried
  <2> QED
    BY <2>1, <2>3
<1>4. EvaluationOK'
  BY <1>1, <1>2 DEF EvaluationOK, Calm, Running
<1>5. RestOK'
  <2> SUFFICES ASSUME ~Running', Calm'
               PROVE  \E g \in SUBSET Kind :
                         /\ Evaluation("final", obj', api'.spec, g, watches', FALSE, None, 0)
                         /\ api'.status.good = g /\ api'.status.state = Compliance(g)
    BY DEF RestOK
  <2>1. ~Running /\ ~queue' /\ lag # "enqueue"
    BY <1>1 DEF Running, Calm
  <2>2. PICK g \in SUBSET Kind :
           /\ Evaluation("final", obj', api.spec, g, watches, FALSE, None, 0)
           /\ api.status.good = g /\ api.status.state = Compliance(g)
    BY <1>3, <2>1
  <2>3. Evaluation("final", obj', api'.spec, g, watches', FALSE, None, 0)
    BY <1>1, <2>2
  <2>4. api' = api
    BY <1>1
  <2>5. api'.status.good = g /\ api'.status.state = Compliance(g)
    BY <2>2, <2>4
  <2> QED
    BY <2>3, <2>5, Zenon
<1> QED
  BY <1>4, <1>5

LEMMA AccurateDeliver ==
    ASSUME TypeOK, EvaluationOK, RestOK, Deliver PROVE EvaluationOK' /\ RestOK'
<1>1. /\ pc' = pc /\ policy' = policy /\ batch' = batch /\ ogCorrect' = ogCorrect /\ sub' = sub
      /\ csv' = csv /\ failed' = failed /\ api' = api /\ watches' = watches /\ obj' = obj
  BY DEF Deliver, locals, history
<1>2. ~queue' => ~queue /\ lag # "enqueue"
  BY Zenon DEF Deliver
<1> QED
  BY <1>1, <1>2 DEF EvaluationOK, RestOK, Calm, Running

LEMMA AccurateWritten == ASSUME Edit \/ Reset \/ Restart PROVE EvaluationOK' /\ RestOK'
<1>1. lag' = "enqueue" \/ queue' = TRUE
  BY DEF Edit, Reset, WritePolicy, Restart
<1> QED
  BY <1>1 DEF EvaluationOK, RestOK, Calm

LEMMA AccurateBegin == ASSUME ReconcileBegin PROVE EvaluationOK' /\ RestOK'
<1>1. pc' = "build"
  BY DEF ReconcileBegin, Begin
<1>2. \A o, s, g, b, og, su, cv : Evaluation("build", o, s, g, b, og, su, cv)
  BY DEF Evaluation
<1> QED
  BY <1>1, <1>2 DEF EvaluationOK, RestOK, Running

LEMMA AccurateHandlers ==
    ASSUME Typed, EvaluationOK, Handlers PROVE EvaluationOK' /\ RestOK'
<1>1. Running'
  BY HandlersEvaluate DEF Evaluated, Running, HandlerPcs
<1>2. RestOK'
  BY <1>1 DEF RestOK
<1> QED
  BY <1>2, BuildEvaluates, GroupEvaluates, SubscriptionEvaluates, PlanEvaluates, CSVEvaluates,
     CRDEvaluates, DeploymentEvaluates, CatalogEvaluates DEF Handlers

LEMMA AccurateFails == ASSUME HandlerFails PROVE EvaluationOK' /\ RestOK'
<1>1. pc' = "status" /\ failed'
  BY DEF HandlerFails
<1> QED
  BY <1>1 DEF EvaluationOK, RestOK, Running

LEMMA AccurateWriteStatus ==
    ASSUME Typed, EvaluationOK, WriteStatus PROVE EvaluationOK' /\ RestOK'
<1>1. /\ pc = "status" /\ pc' = "early"
      /\ UNCHANGED <<obj, queue, policy, batch>>
      /\ lag' = "enqueue" \/ lag # "enqueue"
      /\ failed' \/ failed' = failed
  BY WriteEffect DEF StatusUpdate
<1>2. ASSUME ~queue, lag' # "enqueue", ~failed'
      PROVE  Evaluation("early", obj, policy.spec, policy.status.good, batch, ogCorrect', sub',
                        csv')
  <2>1. Evaluation("status", obj, policy.spec, policy.status.good, batch, ogCorrect, sub, csv)
    BY <1>1, <1>2 DEF EvaluationOK, Calm, Running
  <2> QED
    BY <2>1, Concluded
<1> QED
  BY <1>1, <1>2 DEF EvaluationOK, RestOK, Calm, Running

LEMMA AccurateEmitEarly ==
    ASSUME Typed, EvaluationOK, EmitEarly PROVE EvaluationOK' /\ RestOK'
<1>1. /\ pc = "early" /\ pc' = "final"
      /\ UNCHANGED <<obj, queue, lag, policy, batch>>
      /\ failed' \/ failed' = failed
  BY DEF EmitEarly
<1>2. ASSUME ~queue, lag # "enqueue", ~failed'
      PROVE  Evaluation("final", obj, policy.spec, policy.status.good, batch, ogCorrect', sub',
                        csv')
  <2>1. Evaluation("early", obj, policy.spec, policy.status.good, batch, ogCorrect, sub, csv)
    BY <1>1, <1>2 DEF EvaluationOK, Calm, Running
  <2> QED
    BY <2>1, Concluded
<1> QED
  BY <1>1, <1>2 DEF EvaluationOK, RestOK, Calm, Running

LEMMA AccurateEmitFinal ==
    ASSUME Typed, Base, EvaluationOK, EmitFinal PROVE EvaluationOK' /\ RestOK'
<1>1. /\ pc = "final" /\ pc' = "idle" /\ watches' = batch
      /\ UNCHANGED <<api, lag, obj>>
  BY DEF EmitFinal, Return
<1>2. ~queue' => ~queue /\ ~failed
  BY Zenon DEF EmitFinal
<1>3. ASSUME ~queue', lag # "enqueue"
      PROVE  /\ policy.status.good \in SUBSET Kind
             /\ Evaluation("final", obj, api.spec, policy.status.good, batch, FALSE, None, 0)
             /\ api.status.good = policy.status.good
             /\ api.status.state = Compliance(policy.status.good)
  <2>1. Running /\ Calm /\ ~failed /\ policy \in Policy
    BY <1>1, <1>2, <1>3 DEF Running, Calm, Typed
  <2>2. Evaluation("final", obj, policy.spec, policy.status.good, batch, ogCorrect, sub, csv)
    BY <1>1, <2>1 DEF EvaluationOK
  <2>3. policy.spec = api.spec
    BY <2>1 DEF Base, CopyOK
  <2>4. api.status = policy.status
    BY <1>1, <2>1 DEF Base, CopyOK
  <2>5. policy.status.state = Compliance(policy.status.good)
    BY <1>1, <2>1 DEF Base, StatesOK
  <2>6. policy.status.good \in SUBSET Kind
    BY <2>1 DEF Policy, Status
  <2>7. Evaluation("final", obj, api.spec, policy.status.good, batch, FALSE, None, 0)
    BY <2>2, <2>3, Concluded
  <2> QED
    BY <2>4, <2>5, <2>6, <2>7
<1> QED
  BY <1>1, <1>3 DEF EvaluationOK, RestOK, Calm, Running

Accurate == EvaluationOK /\ RestOK
LEMMA AccurateStep == Typed /\ Base /\ Accurate /\ [Next]_vars => Accurate'
<1> SUFFICES ASSUME Typed, Base, Accurate, [Next]_vars PROVE Accurate'
  OBVIOUS
<1>1. TypeOK /\ EvaluationOK /\ RestOK
  BY DEF Typed, Accurate
<1>2. CASE Elsewhere
  BY <1>1, <1>2, AccurateElsewhere DEF Elsewhere, Accurate
<1>3. CASE UNCHANGED vars
  <2>1. UNCHANGED <<api, lag, watches, locals>> /\ queue' = queue /\ obj' = obj
    BY <1>3 DEF vars, history
  <2> QED
    BY <1>1, <2>1, AccurateElsewhere DEF Accurate
<1>4. CASE Environment
  BY <1>1, <1>4, AccurateDeliver, AccurateWritten DEF Environment, Accurate
<1>5. CASE Handlers
  BY <1>1, <1>5, AccurateHandlers DEF Accurate
<1>6. CASE Rest
  BY <1>1, <1>6, AccurateBegin, AccurateFails, AccurateWriteStatus, AccurateEmitEarly,
     AccurateEmitFinal DEF Rest, Accurate
<1> QED
  BY <1>1, <1>2, <1>3, <1>4, <1>5, <1>6, Steps

LEMMA AccurateInductive == Spec => [](Typed /\ Base /\ Accurate)
<1>1. Init => Typed /\ Base /\ Accurate
  <2>1. Init => queue = TRUE
    BY DEF Init
  <2> QED
    BY <2>1, TypedInit, BaseInit DEF Accurate, EvaluationOK, RestOK, Calm
<1>2. Typed /\ Base /\ Accurate /\ [Next]_vars => (Typed /\ Base /\ Accurate)'
  BY TypedStep, BaseStep, AccurateStep
<1> QED
  BY <1>1, <1>2, PTL DEF Spec

LEMMA PlanSettledIs == ASSUME NEW s PROVE PlanSettled(s) <=> Settled(obj, s)
  BY DEF PlanSettled, latestInstallPlan, Settled, LatestPlan

\* StatusIsAccurate for any specs, catalogs and finalizers, and however many
\* changes, failures and restarts: what an evaluation found stands until the
\* dynamic watcher, the informer or a failure brings the policy back to it.
THEOREM StatusAccurate == Spec => []StatusIsAccurate
<1>1. ASSUME Typed, Base, Accurate PROVE StatusIsAccurate
  <2> SUFFICES ASSUME AtRest, obj.cat # "unknown",
                      obj.sub # None => obj.sub.res # "neighbor"
               PROVE  api.status.state = "Compliant"
                        <=> api.spec.invalid = {} /\ (IF api.spec.musthave THEN Installed(api.spec)
                                                                    ELSE Removed(api.spec))
    BY DEF StatusIsAccurate
  <2>1. PICK g \in SUBSET Kind :
           /\ Evaluation("final", obj, api.spec, g, watches, FALSE, None, 0)
           /\ api.status.state = Compliance(g)
    BY <1>1 DEF Accurate, RestOK, AtRest, Calm, Running
  <2> DEFINE s == api.spec
  <2>2. api.status.state = "Compliant" <=> \A k \in Kind : k \in g
    <3>1. g = Kind <=> \A k \in Kind : k \in g
      BY <2>1
    <3> QED
      BY <2>1, <3>1 DEF Compliance
  <2>3. "valid" \in g <=> s.invalid = {} /\ (obj.ns \/ ~s.musthave)
    BY <2>1 DEF Evaluation, NamespaceJudged
  <2>4. CASE s.invalid # {}
    BY <2>2, <2>3, <2>4 DEF Kind
  <2>5. CASE s.invalid = {}
    <3>1. /\ GroupJudged(obj, s, g, watches) /\ SubscriptionJudged(obj, s, g, watches)
          /\ PlanJudged(obj, s, g, watches) /\ CSVJudged(obj, s, g, watches)
          /\ CRDJudged(obj, s, g, watches) /\ DeploymentJudged(obj, s, g, watches)
          /\ CatalogJudged(obj, s, g, watches)
      BY <2>1, <2>5 DEF Evaluation, GroupBuilt, SubscriptionBuilt
    <3>2. (\A k \in Kind : k \in g)
             <=> /\ "valid" \in g /\ "og" \in g /\ "sub" \in g /\ "plan" \in g
                 /\ "csv" \in g /\ "crd" \in g /\ "dep" \in g /\ "cat" \in g
      BY DEF Kind
    <3>3. CASE s.musthave
      <4>1. "og" \in g <=> \/ obj.og \in {"match", "deleting"}
                           \/ ~s.group /\ obj.og \notin {"none", "many"}
        BY <3>1, <3>3 DEF GroupJudged
      <4>2. "sub" \in g <=> /\ obj.sub # None /\ obj.sub.match = "match"
                            /\ obj.sub.res = "fine" /\ (s.enforce => obj.sub.owned)
        BY <3>1, <3>3 DEF SubscriptionJudged
      <4>3. obj.sub # None => ("plan" \in g <=> PlanSettled(s))
        BY <3>1, <3>3, PlanSettledIs DEF PlanJudged
      <4>4. "csv" \in g <=> /\ InstalledCSV(obj) # 0 /\ Allowed(s, InstalledCSV(obj))
                            /\ obj.csv[InstalledCSV(obj)] = "succeeded"
        BY <3>1, <3>3 DEF CSVJudged
      <4>5. obj.sub # None =>
              ("csv" \in g <=> /\ obj.sub.inst # 0 /\ Allowed(s, obj.sub.inst)
                               /\ obj.csv[obj.sub.inst] = "succeeded")
        BY <4>4 DEF InstalledCSV
      <4>6. "crd" \in g
        BY <3>1, <3>3 DEF CRDJudged
      <4>7. InstalledCSV(obj) # 0 => ("dep" \in g <=> obj.dep # "down" \/ s.lenient)
        BY <3>1, <3>3 DEF DeploymentJudged
      <4>8. "cat" \in g <=> obj.cat = "ready" \/ s.lenient
        BY <3>1, <3>3 DEF CatalogJudged
      <4> HIDE DEF s
      <4>9. Installed(s) <=> /\ obj.ns /\ "og" \in g /\ "sub" \in g /\ "plan" \in g
                             /\ "csv" \in g /\ "dep" \in g /\ "cat" \in g
        BY <4>1, <4>2, <4>3, <4>4, <4>5, <4>7, <4>8 DEF Installed
      <4> QED
        BY <2>2, <2>3, <2>5, <3>2, <3>3, <4>6, <4>9 DEF s
    <3>4. CASE ~s.musthave
      <4>1. "og" \in g <=> \/ obj.og \in {"none", "other"}
                           \/ obj.og # "many" /\ (obj.others \/ "og" \notin s.remove)
        BY <2>5, <3>1, <3>4 DEF GroupJudged, Another, SubscriptionBuilt
      <4>2. "sub" \in g <=> obj.sub = None \/ "sub" \notin s.remove
        BY <3>1, <3>4 DEF SubscriptionJudged
      <4>3. "csv" \in g <=> (\A v \in Csv : obj.csv[v] = "none") \/ "csv" \notin s.remove
        BY <3>1, <3>4 DEF CSVJudged
      <4>4. "crd" \in g <=> obj.crd = "none" \/ "crd" \notin s.remove
        BY <3>1, <3>4 DEF CRDJudged
      <4>5. "plan" \in g /\ "dep" \in g /\ "cat" \in g
        BY <3>1, <3>4 DEF PlanJudged, DeploymentJudged, CatalogJudged
      <4> HIDE DEF s
      <4>6. Removed(s) <=> "og" \in g /\ "sub" \in g /\ "csv" \in g /\ "crd" \in g
        BY <4>1, <4>2, <4>3, <4>4 DEF Removed
      <4> QED
        BY <2>2, <2>3, <2>5, <3>2, <3>4, <4>5, <4>6 DEF s
    <3> QED
      BY <3>3, <3>4
  <2> QED
    BY <2>4, <2>5
<1> QED
  BY <1>1, AccurateInductive, PTL

\* EnforcedIsDone for any specs, and however the objects changed: a handler that
\* acts, or cannot, leaves the policy in the queue or the object as it should be.
THEOREM EnforcedDone == Spec => []EnforcedIsDone
<1>1. ASSUME Typed, Base, Accurate PROVE EnforcedIsDone
  <2> DEFINE s == api.spec
  <2> SUFFICES ASSUME AtRest, s.enforce
               PROVE  IF ~SubscriptionBuilt(s)
                      THEN GroupBuilt(s) /\ s.musthave => obj.og # "none"
                      ELSE IF s.musthave
                      THEN /\ GroupBuilt(s) =>
                                obj.og # "none" /\ (obj.og = "match" => obj.sub # None)
                           /\ obj.sub # None /\ obj.sub.match # "immutable" =>
                                /\ Corrected(obj, s)
                                /\ obj.sub.cur # 0 /\ Allowed(s, obj.sub.cur) /\ obj.sub.inst = 0
                                      => obj.plan[obj.sub.cur] # "requires"
                      ELSE /\ "sub" \in s.remove => obj.sub = None \/ obj.sub.deleting
                           /\ "csv" \in s.remove =>
                                \A v \in Csv : obj.csv[v] \in {"none", "deleting"}
                           /\ "crd" \in s.remove => obj.crd \in {"none", "deleting"}
    BY DEF EnforcedIsDone, Corrected
  <2>1. PICK g \in SUBSET Kind :
           Evaluation("final", obj, api.spec, g, watches, FALSE, None, 0)
    BY <1>1 DEF Accurate, RestOK, AtRest, Calm, Running
  <2>2. GroupBuilt(s) => GroupJudged(obj, s, g, watches)
    BY <2>1 DEF Evaluation
  <2>3. SubscriptionBuilt(s) =>
           /\ SubscriptionJudged(obj, s, g, watches) /\ PlanJudged(obj, s, g, watches)
           /\ CSVJudged(obj, s, g, watches) /\ CRDJudged(obj, s, g, watches)
    BY <2>1 DEF Evaluation
  <2> HIDE DEF s
  <2>4. GroupBuilt(s) /\ s.musthave => obj.og # "none"
    BY <2>2 DEF GroupJudged
  <2>5. CASE SubscriptionBuilt(s) /\ s.musthave
    <3>1. ASSUME GroupBuilt(s), obj.og = "match" PROVE obj.sub # None
      <4>1. "og" \in g
        BY <2>2, <2>5, <3>1 DEF GroupJudged
      <4> QED
        BY <2>3, <2>5, <4>1 DEF SubscriptionJudged
    <3>2. obj.sub # None /\ obj.sub.match # "immutable" => Corrected(obj, s)
      BY <2>3, <2>5 DEF SubscriptionJudged
    <3>3. obj.sub # None /\ obj.sub.cur # 0 /\ Allowed(s, obj.sub.cur) /\ obj.sub.inst = 0
             => obj.plan[obj.sub.cur] # "requires"
      BY <2>3, <2>5 DEF PlanJudged
    <3> QED
      BY <2>4, <2>5, <3>1, <3>2, <3>3
  <2>6. CASE SubscriptionBuilt(s) /\ ~s.musthave
    BY <2>3, <2>6 DEF SubscriptionJudged, CSVJudged, CRDJudged
  <2> QED
    BY <2>4, <2>5, <2>6
<1> QED
  BY <1>1, AccurateInductive, PTL
=============================================================================
