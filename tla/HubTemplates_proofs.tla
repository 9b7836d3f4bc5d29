------------------------ MODULE HubTemplates_proofs -------------------------
(* Proofs about HubTemplates. *)
EXTENDS HubTemplates, TLAPS

-----------------------------------------------------------------------------
(* Type correctness *)

LEMMA FlagsStep == FlagsOK /\ [Next]_vars => FlagsOK'
<1> SUFFICES ASSUME FlagsOK, [Next]_vars PROVE FlagsOK'
  OBVIOUS
<1> USE DEF FlagsOK, hub, secrets, worker, outcome, Return, ReturnErr, UseSpec
<1>1. CASE ChangePolicy
  BY <1>1, Zenon DEF ChangePolicy
<1>2. CASE HubChanges \/ HubDown \/ HubUp \/ Tick \/ WatchDelivers
  BY <1>2, Zenon DEF HubChanges, HubDown, HubUp, Tick, WatchDelivers
<1>3. CASE \E u \in Uid : SecretDelivers(u)
  BY <1>3, Zenon DEF SecretDelivers
<1>4. CASE Crash
  BY <1>4, Zenon DEF Crash
<1>5. CASE ReconcileBegin \/ NoHubTemplate \/ UnmarshalFails
  BY <1>5, Zenon DEF ReconcileBegin, NoHubTemplate, UnmarshalFails
<1>6. CASE GetSecret
  BY <1>6, Zenon DEF GetSecret
<1>7. CASE ResolveTemplate
  BY <1>7, Zenon DEF ResolveTemplate
<1>8. CASE CheckHub
  BY <1>8, Zenon DEF CheckHub, ClearSecret
<1>9. CASE SaveSecret
  BY <1>9, Zenon DEF SaveSecret
<1>10. CASE UNCHANGED vars
  BY <1>10, Zenon DEF vars
<1> QED
  BY <1>1, <1>2, <1>3, <1>4, <1>5, <1>6, <1>7, <1>8, <1>9, <1>10 DEF Next, Worker

LEMMA DataStep == DataOK /\ [Next]_vars => DataOK'
<1> SUFFICES ASSUME DataOK, [Next]_vars PROVE DataOK'
  OBVIOUS
<1> USE ConstantsAssumption DEF DataOK, Template, Uid, Resolution
<1>1. CASE ChangePolicy
  BY <1>1, SMTT(30) DEF ChangePolicy, hub, worker, outcome
<1>2. CASE HubChanges
  BY <1>2 DEF HubChanges, Kind, secrets, worker, outcome
<1>3. CASE HubDown \/ HubUp \/ Tick
  BY <1>3 DEF HubDown, HubUp, Tick, hub, secrets, worker, outcome
<1>4. CASE WatchDelivers
  BY <1>4 DEF WatchDelivers, secrets, worker, outcome
<1>5. CASE \E u \in Uid : SecretDelivers(u)
  BY <1>5 DEF SecretDelivers, hub, worker, outcome
<1>6. CASE Crash
  BY <1>6 DEF Crash, outcome, Return
<1>7. CASE ReconcileBegin
  BY <1>7 DEF ReconcileBegin, hub, secrets, outcome
<1>8. CASE NoHubTemplate
  BY <1>8 DEF NoHubTemplate, UseSpec, Return, hub, secrets
<1>9. CASE GetSecret
  BY <1>9 DEF GetSecret, ReturnErr, Return, hub, secrets, outcome, Fault
<1>10. CASE ResolveTemplate
  <2> DEFINE known == watch # None /\ watch.uid = policy.uid /\ watch.gen = policy.gen
             ver == IF known THEN watch.ver ELSE Len(answers)
  <2>1. policy \in Template /\ ver \in 1 .. MaxAnswers
    BY <1>10 DEF ResolveTemplate
  <2>2. CASE known \/ up
    <3>1. /\ watch' = [uid |-> policy.uid, gen |-> policy.gen, ver |-> ver]
          /\ result' = IF answers[ver] = "missing" THEN 0 ELSE ver
          /\ pc' = CASE answers[ver] = "missing" -> "check"
                     [] answers[ver] = "odd" -> "odd"
                     [] OTHER -> "save"
      BY <1>10, <2>2, Zenon DEF ResolveTemplate
    <3>2. /\ pc' \in {"check", "odd", "save"} /\ result' \in 0 .. MaxAnswers
          /\ pc' \in {"odd", "save"} => result' # 0
      BY <2>1, <3>1, SMTT(30)
    <3>3. watch' \in [uid : Uid, gen : 1 .. MaxGen, ver : 1 .. MaxAnswers]
      BY <2>1, <3>1
    <3> QED
      BY <1>10, <2>1, <3>2, <3>3 DEF ResolveTemplate, secrets, outcome
  <2>3. CASE ~(known \/ up)
    <3>1. watch' = None /\ result' = 0 /\ pc' = "check"
      BY <1>10, <2>3, Zenon DEF ResolveTemplate
    <3> QED
      BY <1>10, <2>1, <3>1, SMTT(30) DEF ResolveTemplate, secrets, outcome
  <2> QED
    BY <2>2, <2>3
<1>11. CASE UnmarshalFails
  BY <1>11 DEF UnmarshalFails, UseSpec, Return, hub, secrets
<1>12. CASE CheckHub
  <2>1. /\ policy \in Template
        /\ pc' = "idle" /\ policy' = None /\ cachedResultObject' = None /\ result' = 0
        /\ UNCHANGED <<api, answers, watch, seen, rv>>
    BY <1>12 DEF CheckHub, ClearSecret, ReturnErr, UseSpec, Return, hub, secrets
  <2>2. secret' \in [Uid -> Secret \cup {None}]
    BY <1>12 DEF CheckHub, ClearSecret, secrets
  <2>3. used' = used \/ (/\ cachedResultObject \in Secret
                         /\ used' = [uid |-> policy.uid, gen |-> cachedResultObject.gen,
                                     ver |-> cachedResultObject.ver])
    BY <1>12 DEF CheckHub, ClearSecret, ReturnErr, UseSpec, SavedIsCurrent
  <2>4. used' \in [uid : 0 .. MaxUid, gen : 0 .. MaxGen, ver : 0 .. MaxAnswers]
    BY <2>1, <2>3 DEF Secret
  <2> QED
    BY <2>1, <2>2, <2>4
<1>13. CASE SaveSecret
  <2>1. /\ policy \in Template /\ result \in 1 .. MaxAnswers
        /\ pc' = "idle" /\ policy' = None /\ cachedResultObject' = None /\ result' = 0
        /\ UNCHANGED <<api, answers, watch, seen>>
    BY <1>13 DEF SaveSecret, ReturnErr, UseSpec, Return, hub
  <2>2. \/ UNCHANGED <<secret, rv>>
        \/ /\ rv' = rv + 1
           /\ secret' = [secret EXCEPT ![policy.uid] =
                    [rv |-> rv + 1, gen |-> policy.gen, ver |-> result]]
    BY <1>13, Zenon DEF SaveSecret
  <2>3. secret' \in [Uid -> Secret \cup {None}] /\ rv' \in Nat
    <3>1. [rv |-> rv + 1, gen |-> policy.gen, ver |-> result] \in Secret
      BY <2>1 DEF Secret
    <3> QED
      BY <2>2, <3>1
  <2>4. used' = used \/ used' = [uid |-> policy.uid, gen |-> policy.gen, ver |-> result]
    BY <1>13 DEF SaveSecret, ReturnErr, UseSpec
  <2>5. used' \in [uid : 0 .. MaxUid, gen : 0 .. MaxGen, ver : 0 .. MaxAnswers]
    BY <2>1, <2>4
  <2> QED
    BY <2>1, <2>3, <2>5, SMTT(30)
<1>14. CASE UNCHANGED vars
  BY <1>14, SMTT(30) DEF vars, hub, secrets, worker, outcome
<1> QED
  BY <1>1, <1>2, <1>3, <1>4, <1>5, <1>6, <1>7, <1>8, <1>9, <1>10, <1>11, <1>12, <1>13, <1>14
  DEF Next, Worker

\* The state of the hub, the Secret and the worker keeps its types, whatever the
\* bounds are (resolveHubTemplates).
THEOREM TypeCorrect == Spec => []TypeOK
<1>1. Init => DataOK
  <2> SUFFICES ASSUME Init PROVE DataOK
    OBVIOUS
  <2>1. PICK k \in Kind : answers = <<k>>
    BY DEF Init
  <2>2. answers \in Seq(Kind) /\ Len(answers) \in 1 .. MaxAnswers
    BY <2>1, ConstantsAssumption
  <2> QED
    BY <2>2, ConstantsAssumption DEF Init, DataOK, Template, Uid, Resolution
<1>2. Init => FlagsOK
  BY Zenon DEF Init, FlagsOK
<1>3. TypeOK /\ [Next]_vars => TypeOK'
  BY DataStep, FlagsStep DEF TypeOK
<1> QED
  BY <1>1, <1>2, <1>3, PTL DEF Spec, TypeOK

-----------------------------------------------------------------------------
(* The inductive invariant *)

Same(s, t) == s.uid = t.uid /\ s.gen = t.gen
UpTo(s, t) == s.uid < t.uid \/ (s.uid = t.uid /\ s.gen <= t.gen)

\* A saved resolution x of generation gen is from no later answer than ver.
AtMost(x, gen, ver) == x # None /\ x.gen = gen => x.ver <= ver

\* A saved resolution comes from a good answer that the hub has given.
Answered(x) == x # None => x.ver <= Len(answers) /\ answers[x.ver] = "good"

\* The answers are the hub's.
Given ==
    /\ watch # None => watch.ver <= Len(answers)
    /\ \A u \in Uid : Answered(secret[u]) /\ Answered(seen[u])
    /\ Answered(cachedResultObject)
    /\ used.ver <= Len(answers)
    /\ pc \in {"odd", "save"} =>
          result <= Len(answers) /\ answers[result] = IF pc = "odd" THEN "odd" ELSE "good"

\* Nothing is from a later answer than the watch of its template.
WatchLeads ==
    watch # None =>
        /\ Same(used, watch) => used.ver <= watch.ver
        /\ AtMost(secret[watch.uid], watch.gen, watch.ver)
        /\ AtMost(seen[watch.uid], watch.gen, watch.ver)
        /\ policy # None /\ policy.uid = watch.uid =>
              AtMost(cachedResultObject, watch.gen, watch.ver)

\* Nothing is from a later answer than a resolution that is about to be used.
ResultLeads ==
    pc \in {"odd", "save"} =>
        /\ watch # None /\ Same(watch, policy) /\ result <= watch.ver
        /\ Same(used, policy) => used.ver <= result
        /\ AtMost(secret[policy.uid], policy.gen, result)
        /\ AtMost(seen[policy.uid], policy.gen, result)

\* The copies of a Secret, and what was used of it, are from no later answer.
SecretLeads ==
    /\ \A u \in Uid : secret[u] # None =>
          /\ AtMost(seen[u], secret[u].gen, secret[u].ver)
          /\ (used.uid = u /\ used.gen = secret[u].gen
              /\ (used.ver # 0 => answers[used.ver] # "odd")) => used.ver <= secret[u].ver
    /\ policy # None /\ secret[policy.uid] # None =>
          AtMost(cachedResultObject, secret[policy.uid].gen, secret[policy.uid].ver)
    /\ policy = None => cachedResultObject = None

\* Whether a template asks the hub does not change, so answer 0 is not mixed with
\* others, and evaluations follow the policy.
PlainOrNot ==
    /\ UpTo(used, api)
    /\ policy # None => UpTo(policy, api)
    /\ Same(used, api) /\ plain => used.ver = 0
    /\ pc = "plain" /\ Same(used, policy) => used.ver = 0
    /\ pc \notin {"idle", "plain"} /\ Same(policy, api) => ~plain

Inv == Given /\ WatchLeads /\ ResultLeads /\ SecretLeads /\ PlainOrNot

\* The answers given before are still there.
LEMMA AnswersGrow ==
    ASSUME DataOK, HubChanges
    PROVE  /\ Len(answers') = Len(answers) + 1
           /\ \A i \in 1 .. Len(answers) : answers'[i] = answers[i]
  BY DEF HubChanges, DataOK, Kind

LEMMA InvStep == TypeOK /\ Inv /\ [Next]_vars => Inv'
<1> SUFFICES ASSUME DataOK, FlagsOK, Inv, [Next]_vars PROVE Inv'
  BY DEF TypeOK
<1> USE ConstantsAssumption DEF Inv, Same, UpTo, AtMost, Answered, Resolution
<1>1. CASE ChangePolicy
  <2>1. /\ api.uid \in Nat /\ api.gen \in Nat /\ used.uid \in Nat /\ used.gen \in Nat
        /\ policy # None => policy.uid \in Nat /\ policy.gen \in Nat
    BY DEF DataOK, Template, Uid
  <2>2. \/ api'.uid = api.uid /\ api'.gen = api.gen + 1
        \/ api'.uid = api.uid + 1 /\ api'.gen = 1
    BY <1>1 DEF ChangePolicy, DataOK, Template
  <2>3. /\ UpTo(used, api') /\ ~Same(used, api')
        /\ policy # None => UpTo(policy, api') /\ ~Same(policy, api')
    BY <2>1, <2>2 DEF PlainOrNot
  <2>4. PlainOrNot'
    BY <1>1, <2>3 DEF ChangePolicy, worker, outcome, PlainOrNot, DataOK
  <2> QED
    BY <1>1, <2>4 DEF ChangePolicy, hub, worker, outcome, Given, WatchLeads, ResultLeads,
       SecretLeads
<1>2. CASE HubChanges
  <2>1. Given'
    BY <1>2, AnswersGrow, SMTT(30) DEF HubChanges, secrets, worker, outcome, DataOK, Secret, Given, Uid
  <2>2. SecretLeads'
    BY <1>2, AnswersGrow DEF HubChanges, secrets, worker, outcome, DataOK, Secret, Given, SecretLeads, Uid
  <2> QED
    BY <1>2, <2>1, <2>2 DEF HubChanges, secrets, worker, outcome, WatchLeads, ResultLeads, PlainOrNot
<1>3. CASE HubDown \/ HubUp \/ Tick
  BY <1>3 DEF HubDown, HubUp, Tick, hub, secrets, worker, outcome, Given, WatchLeads,
     ResultLeads, SecretLeads, PlainOrNot
<1>4. CASE WatchDelivers
  <2>1. /\ watch' # None /\ Same(watch', watch) /\ watch.uid \in Uid
        /\ watch'.ver = Len(answers) /\ watch.ver <= watch'.ver /\ watch.ver \in Nat
        /\ Len(answers) \in Nat
    <3>1. watch \in Resolution
      BY <1>4 DEF WatchDelivers, DataOK
    <3>2. watch' \in Resolution
      BY <1>4, <3>1 DEF WatchDelivers, DataOK
    <3> QED
      BY <1>4, <3>1, <3>2, SMTT(30) DEF WatchDelivers, DataOK, Given
  <2>2. UNCHANGED <<api, plain, answers, secret, seen, pc, policy, cachedResultObject, result,
                    used>>
    BY <1>4 DEF WatchDelivers, secrets, worker, outcome
  <2>3. used.ver \in Nat /\ result \in Nat
        /\ \A x \in Secret \cup {None} : x # None => x.ver \in Nat
    BY DEF DataOK, Secret
  <2>4. /\ secret[watch.uid] \in Secret \cup {None} /\ seen[watch.uid] \in Secret \cup {None}
        /\ cachedResultObject \in Secret \cup {None}
    BY <2>1 DEF DataOK
  <2>5. WatchLeads'
    BY <1>4, <2>1, <2>2, <2>3, <2>4, SMTT(30) DEF WatchDelivers, WatchLeads
  <2>6. ResultLeads'
    BY <2>1, <2>2, <2>3 DEF ResultLeads
  <2> QED
    BY <2>1, <2>2, <2>5, <2>6 DEF Given, SecretLeads, PlainOrNot
<1>5. CASE \E u \in Uid : SecretDelivers(u)
  <2>1. /\ \A v \in Uid : seen'[v] \in {seen[v], secret[v]}
        /\ UNCHANGED <<api, plain, answers, watch, secret, worker, outcome>>
    BY <1>5 DEF SecretDelivers, hub, DataOK
  <2>2. /\ watch # None => watch.uid \in Uid
        /\ policy # None => policy.uid \in Uid
        /\ \A v \in Uid : secret[v] # None => secret[v].ver \in Nat
    BY DEF DataOK, Template, Secret
  <2>3. Given'
    BY <2>1 DEF worker, outcome, Given
  <2>4. WatchLeads'
    BY <2>1, <2>2 DEF worker, outcome, WatchLeads
  <2>5. ResultLeads'
    BY <2>1, <2>2 DEF worker, outcome, ResultLeads, DataOK
  <2>6. SecretLeads'
    BY <2>1, <2>2 DEF worker, outcome, SecretLeads
  <2> QED
    BY <2>1, <2>3, <2>4, <2>5, <2>6 DEF worker, outcome, PlainOrNot
<1>6. CASE Crash
  BY <1>6, SMTT(30) DEF Crash, Return, outcome, DataOK, Secret, Given, WatchLeads,
     ResultLeads, SecretLeads, PlainOrNot
<1>7. CASE ReconcileBegin
  BY <1>7 DEF ReconcileBegin, hub, secrets, outcome, DataOK, Secret, Template, Given, WatchLeads,
     ResultLeads, SecretLeads, PlainOrNot
<1>8. CASE NoHubTemplate
  BY <1>8 DEF NoHubTemplate, UseSpec, Return, hub, secrets, DataOK, Secret, Template, Given, WatchLeads,
     ResultLeads, SecretLeads, PlainOrNot
<1>9. CASE GetSecret
  <2>1. /\ pc = "secret" /\ policy \in Template
        /\ UNCHANGED <<api, plain, hub, secrets, used>>
        /\ \/ /\ pc' = "resolve" /\ policy' = policy
              /\ cachedResultObject' \in {cachedResultObject, seen[policy.uid]}
           \/ pc' = "idle" /\ policy' = None /\ cachedResultObject' = None
    BY <1>9 DEF GetSecret, ReturnErr, Return, outcome, DataOK
  <2>2. policy.uid \in Uid
    BY <2>1 DEF Template
  <2>3. Given'
    BY <2>1, <2>2 DEF hub, secrets, Given
  <2>4. WatchLeads'
    BY <2>1, <2>2 DEF hub, secrets, WatchLeads
  <2>5. SecretLeads'
    BY <2>1, <2>2 DEF hub, secrets, SecretLeads
  <2> QED
    BY <2>1, <2>3, <2>4, <2>5 DEF ResultLeads, PlainOrNot
<1>10. CASE ResolveTemplate
  <2> DEFINE known == watch # None /\ watch.uid = policy.uid /\ watch.gen = policy.gen
             ver == IF known THEN watch.ver ELSE Len(answers)
  <2>1. /\ pc = "resolve" /\ policy \in Template /\ policy.uid \in Uid
        /\ UNCHANGED <<api, plain, answers, secrets, policy, cachedResultObject, used>>
    BY <1>10 DEF ResolveTemplate, DataOK, outcome, Template
  <2>2. /\ ver \in 1 .. Len(answers) /\ answers[ver] \in Kind
        /\ Same(used, policy) => used.ver <= ver
        /\ AtMost(secret[policy.uid], policy.gen, ver)
        /\ AtMost(seen[policy.uid], policy.gen, ver)
        /\ AtMost(cachedResultObject, policy.gen, ver)
    BY <2>1 DEF DataOK, Given, WatchLeads
  <2>3. PlainOrNot' /\ SecretLeads'
    BY <1>10, <2>1 DEF ResolveTemplate, secrets, PlainOrNot, SecretLeads
  <2>4. CASE known \/ up
    <3>1. /\ watch' = [uid |-> policy.uid, gen |-> policy.gen, ver |-> ver]
          /\ result' = IF answers[ver] = "missing" THEN 0 ELSE ver
          /\ pc' = CASE answers[ver] = "missing" -> "check"
                     [] answers[ver] = "odd" -> "odd"
                     [] OTHER -> "save"
      BY <1>10, <2>4, Zenon DEF ResolveTemplate
    <3>2. /\ watch' # None => /\ watch'.uid = policy.uid /\ watch'.gen = policy.gen
                              /\ watch'.ver = ver
          /\ pc' \in {"check", "odd", "save"}
          /\ pc' \in {"odd", "save"} =>
                result' = ver /\ answers[ver] = IF pc' = "odd" THEN "odd" ELSE "good"
      BY <2>2, <3>1 DEF Kind
    <3>3. Given' /\ WatchLeads'
      BY <2>1, <2>2, <3>2 DEF secrets, Given, WatchLeads
    <3>4. watch' # None
      <4>1. watch' \in Resolution
        BY <2>1, <2>2, <3>1 DEF DataOK, Template
      <4> QED
        BY <4>1
    <3>5. ResultLeads'
      BY <2>1, <2>2, <3>2, <3>4 DEF secrets, ResultLeads
    <3> QED
      BY <2>3, <3>3, <3>5
  <2>5. CASE ~(known \/ up)
    <3>1. watch' = None /\ result' = 0 /\ pc' = "check"
      BY <1>10, <2>5, Zenon DEF ResolveTemplate
    <3> QED
      BY <2>1, <2>3, <3>1 DEF secrets, Given, WatchLeads, ResultLeads
  <2> QED
    BY <2>4, <2>5
<1>11. CASE UnmarshalFails
  BY <1>11 DEF UnmarshalFails, UseSpec, Return, hub, secrets, DataOK, Secret, Template, Given, WatchLeads,
     ResultLeads, SecretLeads, PlainOrNot
<1>12. CASE CheckHub
  <2>1. /\ pc = "check" /\ policy \in Template /\ policy.uid \in Uid
        /\ UNCHANGED <<api, plain, hub, seen>>
        /\ pc' = "idle" /\ policy' = None /\ cachedResultObject' = None
        /\ \/ UNCHANGED <<secret, used>>
           \/ secret' = [secret EXCEPT ![policy.uid] = None] /\ used' = used
           \/ /\ secret' = secret /\ cachedResultObject \in Secret
              /\ cachedResultObject.gen = policy.gen
              /\ used' = [uid |-> policy.uid, gen |-> cachedResultObject.gen,
                          ver |-> cachedResultObject.ver]
    BY <1>12 DEF CheckHub, ClearSecret, ReturnErr, UseSpec, Return, secrets, DataOK,
       SavedIsCurrent, Template
  <2>2. CASE UNCHANGED <<secret, used>>
    BY <2>1, <2>2 DEF hub, Given, WatchLeads, ResultLeads, SecretLeads, PlainOrNot
  <2>3. CASE secret' = [secret EXCEPT ![policy.uid] = None] /\ used' = used
    <3>1. \A u \in Uid : secret'[u] \in {secret[u], None}
      BY <2>1, <2>3 DEF DataOK
    <3>2. Given' /\ SecretLeads'
      BY <2>1, <2>3, <3>1 DEF hub, Given, SecretLeads
    <3>3. WatchLeads'
      BY <2>1, <2>3, <3>1 DEF hub, WatchLeads, DataOK
    <3> QED
      BY <2>1, <2>3, <3>2, <3>3 DEF hub, ResultLeads, PlainOrNot
  <2>4. CASE /\ secret' = secret /\ cachedResultObject \in Secret
             /\ cachedResultObject.gen = policy.gen
             /\ used' = [uid |-> policy.uid, gen |-> cachedResultObject.gen,
                         ver |-> cachedResultObject.ver]
    <3>1. /\ cachedResultObject # None /\ Same(used', policy)
          /\ used'.ver = cachedResultObject.ver /\ used'.ver \in 1 .. MaxAnswers
      BY <2>4 DEF Secret
    <3>2. Given'
      BY <2>1, <2>4, <3>1 DEF hub, Given
    <3>3. WatchLeads'
      BY <2>1, <2>4, <3>1 DEF hub, WatchLeads
    <3>4. SecretLeads'
      BY <2>1, <2>4, <3>1 DEF hub, SecretLeads
    <3>5. PlainOrNot'
      BY <2>1, <3>1 DEF PlainOrNot
    <3> QED
      BY <2>1, <3>2, <3>3, <3>4, <3>5 DEF ResultLeads
  <2> QED
    BY <2>1, <2>2, <2>3, <2>4
<1>13. CASE SaveSecret
  <2>1. /\ pc = "save" /\ policy \in Template /\ policy.uid \in Uid
        /\ result \in 1 .. MaxAnswers
        /\ UNCHANGED <<api, plain, hub, seen>>
        /\ pc' = "idle" /\ policy' = None /\ cachedResultObject' = None
    BY <1>13 DEF SaveSecret, ReturnErr, UseSpec, Return, DataOK, Template
  <2>2. CASE UNCHANGED <<secret, used>>
    BY <2>1, <2>2 DEF hub, Given, WatchLeads, ResultLeads, SecretLeads, PlainOrNot
  <2>3. CASE used' # used \/ secret' # secret
    <3>1. /\ used' = [uid |-> policy.uid, gen |-> policy.gen, ver |-> result]
          /\ \/ /\ secret' = secret /\ secret[policy.uid] # None
                /\ secret[policy.uid].gen = policy.gen /\ secret[policy.uid].ver = result
             \/ secret' = [secret EXCEPT ![policy.uid] =
                             [rv |-> rv + 1, gen |-> policy.gen, ver |-> result]]
      BY <1>13, <2>3 DEF SaveSecret, SavedIsCurrent, UseSpec, ReturnErr
    <3>2. /\ Same(used', policy) /\ used'.ver = result
          /\ \A u \in Uid \ {policy.uid} : secret'[u] = secret[u]
      BY <2>1, <3>1 DEF DataOK
    <3>3. /\ secret'[policy.uid] # None
          /\ secret'[policy.uid].gen = policy.gen /\ secret'[policy.uid].ver = result
      <4>1. [rv |-> rv + 1, gen |-> policy.gen, ver |-> result] \in Secret
        BY <2>1 DEF DataOK, Template, Secret
      <4> QED
        BY <2>1, <3>1, <4>1 DEF DataOK
    <3>4. Given'
      BY <2>1, <3>2, <3>3 DEF hub, Given
    <3>5. WatchLeads'
      BY <2>1, <3>2, <3>3 DEF hub, WatchLeads, ResultLeads, DataOK
    <3>6. SecretLeads'
      BY <2>1, <3>2, <3>3 DEF hub, SecretLeads, ResultLeads
    <3>7. PlainOrNot'
      BY <2>1, <3>2 DEF PlainOrNot
    <3> QED
      BY <2>1, <3>4, <3>5, <3>6, <3>7 DEF ResultLeads
  <2> QED
    BY <2>2, <2>3
<1>14. CASE UNCHANGED vars
  BY <1>14 DEF vars, hub, secrets, worker, outcome, Given, WatchLeads, ResultLeads,
     SecretLeads, PlainOrNot
<1> QED
  BY <1>1, <1>2, <1>3, <1>4, <1>5, <1>6, <1>7, <1>8, <1>9, <1>10, <1>11, <1>12, <1>13, <1>14
  DEF Next, Worker

LEMMA InvInvariant == Spec => []Inv
<1>1. Init => Inv
  BY ConstantsAssumption DEF Init, Inv, Given, WatchLeads, ResultLeads, SecretLeads, PlainOrNot,
     Answered, AtMost, Same, UpTo, Uid
<1> QED
  BY <1>1, InvStep, TypeCorrect, PTL DEF Spec

-----------------------------------------------------------------------------
(* A resolution is saved before it is used *)

LEMMA SavedStep == TypeOK /\ Inv /\ SavedBeforeUsed /\ [Next]_vars => SavedBeforeUsed'
<1> SUFFICES ASSUME DataOK, Inv, SavedBeforeUsed, [Next]_vars PROVE SavedBeforeUsed'
  BY DEF TypeOK
<1> USE ConstantsAssumption
<1>1. CASE ChangePolicy
  <2>1. /\ api.uid \in Nat /\ api.gen \in Nat /\ used.uid \in Nat /\ used.gen \in Nat
    BY DEF DataOK, Template, Uid
  <2>2. \/ api'.uid = api.uid /\ api'.gen = api.gen + 1
        \/ api'.uid = api.uid + 1 /\ api'.gen = 1
    BY <1>1 DEF ChangePolicy, DataOK, Template
  <2> QED
    BY <1>1, <2>1, <2>2 DEF ChangePolicy, outcome, SavedBeforeUsed, Inv, PlainOrNot, UpTo
<1>2. CASE HubChanges
  <2>1. used.ver # 0 => answers'[used.ver] = answers[used.ver]
    BY <1>2, AnswersGrow DEF DataOK, Inv, Given
  <2> QED
    BY <1>2, <2>1 DEF HubChanges, secrets, outcome, SavedBeforeUsed
<1>3. CASE HubDown \/ HubUp \/ Tick \/ WatchDelivers
  BY <1>3 DEF HubDown, HubUp, Tick, WatchDelivers, hub, secrets, outcome, SavedBeforeUsed
<1>4. CASE \E u \in Uid : SecretDelivers(u)
  BY <1>4 DEF SecretDelivers, hub, outcome, SavedBeforeUsed
<1>5. CASE Crash
  BY <1>5 DEF Crash, outcome, SavedBeforeUsed
<1>6. CASE ReconcileBegin
  BY <1>6 DEF ReconcileBegin, hub, secrets, outcome, SavedBeforeUsed
<1>7. CASE NoHubTemplate
  BY <1>7 DEF NoHubTemplate, UseSpec, SavedBeforeUsed
<1>8. CASE GetSecret
  BY <1>8 DEF GetSecret, ReturnErr, hub, secrets, outcome, SavedBeforeUsed
<1>9. CASE ResolveTemplate
  BY <1>9 DEF ResolveTemplate, secrets, outcome, SavedBeforeUsed
<1>10. CASE UnmarshalFails
  BY <1>10 DEF UnmarshalFails, UseSpec, hub, SavedBeforeUsed, Inv, Given
<1>11. CASE CheckHub
  <2>1. /\ policy \in Template /\ policy.uid \in Uid /\ api.uid \in Uid
        /\ UNCHANGED <<api, answers>>
        /\ \/ UNCHANGED <<secret, used, trailing, cleared>>
           \/ /\ secret' = [secret EXCEPT ![policy.uid] = None]
              /\ cleared' = (cleared \/ policy.uid = api.uid)
              /\ UNCHANGED <<used, trailing>>
           \/ /\ cachedResultObject # None /\ cachedResultObject.gen = policy.gen
              /\ used' = [uid |-> policy.uid, gen |-> cachedResultObject.gen,
                          ver |-> cachedResultObject.ver]
              /\ trailing' = (cachedResultObject # secret[policy.uid])
              /\ UNCHANGED <<secret, cleared>>
    BY <1>11 DEF CheckHub, ClearSecret, ReturnErr, SavedIsCurrent, UseSpec, hub, secrets,
       DataOK, Template
  <2>2. CASE UNCHANGED <<secret, used, trailing, cleared>>
    BY <2>1, <2>2 DEF SavedBeforeUsed
  <2>3. CASE /\ secret' = [secret EXCEPT ![policy.uid] = None]
             /\ cleared' = (cleared \/ policy.uid = api.uid)
             /\ UNCHANGED <<used, trailing>>
    <3>1. CASE policy.uid = api.uid
      BY <2>1, <2>3, <3>1 DEF SavedBeforeUsed
    <3>2. CASE policy.uid # api.uid
      <4>1. secret'[api.uid] = secret[api.uid] /\ (cleared' <=> cleared)
        BY <2>1, <2>3, <3>2 DEF DataOK
      <4> QED
        BY <2>1, <2>3, <4>1 DEF SavedBeforeUsed
    <3> QED
      BY <3>1, <3>2
  <2>4. CASE /\ cachedResultObject # None /\ cachedResultObject.gen = policy.gen
             /\ used' = [uid |-> policy.uid, gen |-> cachedResultObject.gen,
                         ver |-> cachedResultObject.ver]
             /\ trailing' = (cachedResultObject # secret[policy.uid])
             /\ UNCHANGED <<secret, cleared>>
    <3>1. CASE cachedResultObject # secret[policy.uid]
      BY <2>4, <3>1 DEF SavedBeforeUsed
    <3>2. CASE cachedResultObject = secret[policy.uid]
      <4>1. cachedResultObject.ver \in Nat
        BY <2>4 DEF DataOK, Secret
      <4> QED
        BY <2>1, <2>4, <3>2, <4>1 DEF SavedBeforeUsed
    <3> QED
      BY <3>1, <3>2
  <2> QED
    BY <2>1, <2>2, <2>3, <2>4
<1>12. CASE SaveSecret
  <2>1. /\ policy \in Template /\ policy.uid \in Uid /\ result \in 1 .. MaxAnswers
        /\ UNCHANGED <<api, answers>>
        /\ \/ UNCHANGED <<secret, used, trailing, cleared>>
           \/ /\ used' = [uid |-> policy.uid, gen |-> policy.gen, ver |-> result]
              /\ \/ /\ secret' = secret /\ secret[policy.uid] # None
                    /\ secret[policy.uid].gen = policy.gen /\ secret[policy.uid].ver = result
                 \/ secret' = [secret EXCEPT ![policy.uid] =
                                 [rv |-> rv + 1, gen |-> policy.gen, ver |-> result]]
    BY <1>12 DEF SaveSecret, ReturnErr, SavedIsCurrent, UseSpec, hub, DataOK, Template
  <2>2. CASE UNCHANGED <<secret, used, trailing, cleared>>
    BY <2>1, <2>2 DEF SavedBeforeUsed
  <2>3. CASE ~UNCHANGED <<secret, used, trailing, cleared>>
    <3>1. [rv |-> rv + 1, gen |-> policy.gen, ver |-> result] \in Secret
      BY <2>1 DEF DataOK, Template, Secret
    <3>2. /\ secret'[policy.uid] # None
          /\ secret'[policy.uid].gen = policy.gen /\ secret'[policy.uid].ver = result
      BY <2>1, <2>3, <3>1 DEF DataOK
    <3> QED
      BY <2>1, <2>3, <3>2 DEF SavedBeforeUsed
  <2> QED
    BY <2>2, <2>3
<1>13. CASE UNCHANGED vars
  BY <1>13 DEF vars, hub, secrets, outcome, SavedBeforeUsed
<1> QED
  BY <1>1, <1>2, <1>3, <1>4, <1>5, <1>6, <1>7, <1>8, <1>9, <1>10, <1>11, <1>12, <1>13
  DEF Next, Worker

\* resolveHubTemplates saves a resolution before an evaluation works with it: a
\* controller that restarts while the hub is away finds the answer it used last.
THEOREM SavedFirst == Spec => []SavedBeforeUsed
<1>1. Init => SavedBeforeUsed
  BY DEF Init, SavedBeforeUsed
<1> QED
  BY <1>1, SavedStep, TypeCorrect, InvInvariant, PTL DEF Spec

-----------------------------------------------------------------------------
(* HubTemplates implements LastResolution *)

LEMMA InitRefines == Init => LR!Init
  BY DEF Init, LR!Init, Kind

LEMMA StepRefines == TypeOK /\ Inv /\ [Next]_vars => [LR!Next]_(LR!vars)
<1> SUFFICES ASSUME DataOK, Inv, [Next]_vars PROVE [LR!Next]_(LR!vars)
  BY DEF TypeOK
<1> USE ConstantsAssumption DEF LR!Next, LR!vars
<1>1. CASE ChangePolicy
  BY <1>1 DEF ChangePolicy, LR!ChangeTemplate, LR!Newer, hub, worker, outcome, DataOK,
     Template, Uid
<1>2. CASE HubChanges
  BY <1>2 DEF HubChanges, LR!HubChanges, Kind, worker, outcome
<1>3. CASE HubDown \/ HubUp \/ Tick \/ WatchDelivers
  BY <1>3 DEF HubDown, HubUp, Tick, WatchDelivers, hub, worker, outcome
<1>4. CASE \E u \in Uid : SecretDelivers(u)
  BY <1>4 DEF SecretDelivers, hub, worker, outcome
<1>5. CASE Crash
  BY <1>5 DEF Crash, Return, outcome, LR!GiveUp
<1>6. CASE ReconcileBegin
  BY <1>6 DEF ReconcileBegin, hub, outcome, DataOK, LR!Begin
<1>7. CASE NoHubTemplate
  BY <1>7 DEF NoHubTemplate, UseSpec, Return, hub, DataOK, Template, Inv, PlainOrNot, Same,
     LR!Evaluate, LR!SameTemplate
<1>8. CASE GetSecret
  BY <1>8 DEF GetSecret, ReturnErr, Return, hub, outcome, DataOK, LR!GiveUp
<1>9. CASE ResolveTemplate
  BY <1>9 DEF ResolveTemplate, outcome
<1>10. CASE UnmarshalFails
  BY <1>10 DEF UnmarshalFails, UseSpec, Return, hub, DataOK, Template, Inv, Given, ResultLeads,
     Same, LR!Evaluate, LR!SameTemplate
<1>11. CASE CheckHub
  <2>1. /\ policy \in Template /\ policy.uid \in Uid /\ policy # None /\ policy' = None
        /\ UNCHANGED <<api, answers>>
        /\ \/ UNCHANGED <<used, trailing>>
           \/ /\ cachedResultObject # None /\ cachedResultObject.gen = policy.gen
              /\ used' = [uid |-> policy.uid, gen |-> cachedResultObject.gen,
                          ver |-> cachedResultObject.ver]
              /\ trailing' = (cachedResultObject # secret[policy.uid])
    BY <1>11 DEF CheckHub, ClearSecret, ReturnErr, Return, SavedIsCurrent, UseSpec, hub,
       DataOK, Template
  <2>2. CASE UNCHANGED <<used, trailing>>
    BY <2>1, <2>2 DEF LR!GiveUp
  <2>3. CASE /\ cachedResultObject # None /\ cachedResultObject.gen = policy.gen
             /\ used' = [uid |-> policy.uid, gen |-> cachedResultObject.gen,
                         ver |-> cachedResultObject.ver]
             /\ trailing' = (cachedResultObject # secret[policy.uid])
    <3>1. cachedResultObject \in Secret /\ cachedResultObject.ver \in 1 .. MaxAnswers
      BY <2>3 DEF DataOK, Secret
    <3>2. /\ LR!SameTemplate(policy, used')
          /\ used'.ver = cachedResultObject.ver /\ used'.ver \in 1 .. Len(answers)
          /\ answers[used'.ver] = "good"
      BY <2>3, <3>1 DEF LR!SameTemplate, DataOK, Inv, Given, Answered
    <3>3. (LR!SameTemplate(used, used') /\ LR!Whole(used) /\ ~trailing')
            => used'.ver >= used.ver
      <4>1. SUFFICES ASSUME LR!SameTemplate(used, used'), LR!Whole(used), ~trailing'
                     PROVE  used'.ver >= used.ver
        OBVIOUS
      <4>2. cachedResultObject = secret[policy.uid]
        BY <2>3, <4>1
      <4>3. used.uid = policy.uid /\ used.gen = policy.gen
        BY <3>2, <4>1 DEF LR!SameTemplate
      <4>4. used.ver <= cachedResultObject.ver /\ used.ver \in Nat
        BY <2>1, <2>3, <4>1, <4>2, <4>3 DEF Inv, SecretLeads, LR!Whole, DataOK
      <4> QED
        BY <3>1, <3>2, <4>4
    <3> QED
      BY <2>1, <3>2, <3>3 DEF LR!Evaluate, DataOK
  <2> QED
    BY <2>1, <2>2, <2>3
<1>12. CASE SaveSecret
  BY <1>12 DEF SaveSecret, ReturnErr, Return, UseSpec, hub, DataOK, Template, Inv, Given,
     ResultLeads, Same, LR!Evaluate, LR!GiveUp, LR!SameTemplate
<1>13. CASE UNCHANGED vars
  BY <1>13 DEF vars, hub, worker, outcome
<1> QED
  BY <1>1, <1>2, <1>3, <1>4, <1>5, <1>6, <1>7, <1>8, <1>9, <1>10, <1>11, <1>12, <1>13
  DEF Next, Worker

\* The whole of resolveHubTemplates, with its Secret, its caches and its failures,
\* keeps the promise of LastResolution.
THEOREM Refinement == Spec => Implements
<1> QED
  BY InitRefines, StepRefines, TypeCorrect, InvInvariant, PTL DEF Spec, Implements, LR!Spec
=============================================================================
