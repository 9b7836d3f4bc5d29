---------------------------- MODULE HubTemplates ----------------------------
(***************************************************************************)
(* resolveHubTemplates: the hub templates of a policy are resolved through *)
(* watches on the hub at every reconcile, each resolution is saved in the  *)
(* Secret <uid>-last-resolved before it is used, and the saved resolution  *)
(* stands in while the hub cannot be reached.                              *)
(*                                                                         *)
(* One policy: its UID and generation stand for its template.  The answers *)
(* of the hub are numbered; an answer is "good", an error of the template  *)
(* ("missing", what it looks up is not there) or "odd", text that does not *)
(* unmarshal into a policy.  A resolution is the template and the number   *)
(* of the answer.  The Secret is read through the client's cache, which    *)
(* trails the API server.  ConfigurationPolicies and OperatorPolicies      *)
(* share the code.                                                         *)
(***************************************************************************)
EXTENDS Naturals, Sequences

CONSTANTS
    MaxUid,      \* bound: policies of this name, one after the other
    MaxGen,      \* bound: generations of each
    MaxAnswers,  \* bound: answers of the hub
    MaxOutages,  \* bound: times the hub becomes inaccessible
    MaxFaults,   \* bound: failed calls and crashes
    None

Kind == {"good", "missing", "odd"}
Uid == 1 .. MaxUid
Template == [uid : Uid, gen : 1 .. MaxGen]
Secret == [rv : Nat, gen : 1 .. MaxGen, ver : 1 .. MaxAnswers]
Resolution == [uid : Uid, gen : 1 .. MaxGen, ver : 1 .. MaxAnswers]

ASSUME ConstantsAssumption ==
    /\ MaxUid \in Nat \ {0} /\ MaxGen \in Nat \ {0} /\ MaxAnswers \in Nat \ {0}
    /\ MaxOutages \in Nat /\ MaxFaults \in Nat
    /\ None \notin Secret /\ None \notin Template /\ None \notin Resolution

VARIABLES
    api,       \* the policy's UID and generation
    plain,     \* it has no hub templates, or they are disabled by annotation
    interval,  \* it is evaluated at an interval, and not on events only
    answers, up,                \* the hub
    watch,     \* the watched answer of the hub: its template and number, or None
    secret,    \* per UID: the Secret with the last resolution, or None
    seen,      \* the copies in the client's cache
    rv,        \* the last resourceVersion of a Secret
    queued,    \* a request for the policy is in the work queue
    pc, policy, cachedResultObject, cacheGetErr, result,   \* the worker
    used,      \* history: the resolution of the last evaluation
    trailing,  \* history: it came from a copy older than the Secret
    cleared,   \* history: the Secret was deleted since it was last saved
    failed,    \* the status reports "Hub template resolution failure"
    outages, faults             \* counters of the bounded actions

hub == <<answers, up, watch>>
secrets == <<secret, seen, rv, cleared>>
worker == <<pc, policy, cachedResultObject, cacheGetErr, result>>
outcome == <<used, trailing, failed>>
vars == <<api, plain, interval, hub, secrets, queued, worker, outcome, outages, faults>>

Init ==
    /\ api = [uid |-> 1, gen |-> 1]
    /\ plain = FALSE
    /\ interval \in BOOLEAN
    /\ answers \in {<<k>> : k \in Kind}
    /\ up = TRUE
    /\ watch = None
    /\ secret = [u \in Uid |-> None]
    /\ seen = secret
    /\ rv = 0
    /\ queued = TRUE
    /\ pc = "idle" /\ policy = None /\ cachedResultObject = None
    /\ cacheGetErr = FALSE /\ result = 0
    /\ used = [uid |-> 0, gen |-> 0, ver |-> 0]
    /\ trailing = FALSE /\ cleared = FALSE /\ failed = FALSE
    /\ outages = 0 /\ faults = 0

Fault == faults < MaxFaults /\ faults' = faults + 1

-----------------------------------------------------------------------------
(* The policy, the hub and the caches *)

\* The spec is edited, or the policy is deleted and created again.
ChangePolicy ==
    /\ \/ api.gen < MaxGen /\ api' = [api EXCEPT !.gen = @ + 1]
       \/ api.uid < MaxUid /\ api' = [uid |-> api.uid + 1, gen |-> 1]
    /\ plain' \in BOOLEAN
    /\ queued' = TRUE
    /\ cleared' = FALSE
    /\ UNCHANGED <<interval, hub, secret, seen, rv, worker, outcome, outages, faults>>

HubChanges ==
    /\ Len(answers) < MaxAnswers
    /\ \E k \in Kind : answers' = Append(answers, k)
    /\ UNCHANGED <<api, plain, interval, up, watch, secrets, queued, worker, outcome,
                   outages, faults>>

HubDown ==
    /\ up /\ outages < MaxOutages
    /\ up' = FALSE /\ outages' = outages + 1
    /\ UNCHANGED <<api, plain, interval, answers, watch, secrets, queued, worker, outcome,
                   faults>>

HubUp ==
    /\ ~up /\ up' = TRUE
    /\ UNCHANGED <<api, plain, interval, answers, watch, secrets, queued, worker, outcome,
                   outages, faults>>

\* A watch catches up with the hub and its event triggers a reconcile.
WatchDelivers ==
    /\ up /\ watch # None /\ watch.ver # Len(answers)
    /\ watch' = [watch EXCEPT !.ver = Len(answers)]
    /\ queued' = TRUE
    /\ UNCHANGED <<api, plain, interval, answers, up, secrets, worker, outcome, outages,
                   faults>>

SecretDelivers(u) ==
    /\ seen[u] # secret[u]
    /\ seen' = [seen EXCEPT ![u] = secret[u]]
    /\ UNCHANGED <<api, plain, interval, hub, secret, rv, cleared, queued, worker, outcome,
                   outages, faults>>

Tick ==
    /\ interval /\ ~queued /\ pc = "idle"
    /\ queued' = TRUE
    /\ UNCHANGED <<api, plain, interval, hub, secrets, worker, outcome, outages, faults>>

-----------------------------------------------------------------------------
(* Reconcile *)

Return ==
    /\ pc' = "idle" /\ policy' = None /\ cachedResultObject' = None
    /\ cacheGetErr' = FALSE /\ result' = 0

\* The condition is reported and the returned error puts the request back.
ReturnErr ==
    /\ Return
    /\ failed' = TRUE /\ queued' = TRUE
    /\ UNCHANGED <<used, trailing>>

\* policy.Spec = policyCopy.Spec, and the evaluation that follows
UseSpec(gen, ver, old) ==
    /\ Return
    /\ used' = [uid |-> policy.uid, gen |-> gen, ver |-> ver]
    /\ trailing' = old
    /\ failed' = FALSE
    /\ UNCHANGED queued

\* A request is taken; a spec without hub templates is evaluated as it is.
ReconcileBegin ==
    /\ pc = "idle" /\ queued
    /\ queued' = FALSE
    /\ policy' = api
    /\ pc' = IF plain THEN "plain" ELSE "secret"
    /\ UNCHANGED <<api, plain, interval, hub, secrets, cachedResultObject, cacheGetErr,
                   result, outcome, outages, faults>>

NoHubTemplate ==
    /\ pc = "plain"
    /\ UseSpec(policy.gen, 0, FALSE)
    /\ UNCHANGED <<api, plain, interval, hub, secrets, outages, faults>>

\* Mutant: a saved resolution is preferred to asking the hub.
GetSecretPrefersSaved ==
    /\ pc = "secret"
    /\ IF seen[policy.uid] # None
       THEN UseSpec(seen[policy.uid].gen, seen[policy.uid].ver, FALSE)
       ELSE /\ pc' = "resolve"
            /\ UNCHANGED <<policy, cachedResultObject, cacheGetErr, result, queued, outcome>>
    /\ UNCHANGED <<api, plain, interval, hub, secrets, outages, faults>>

\* StartQueryBatch may fail; the Secret is read before the templates are resolved.
GetSecret ==
    /\ pc = "secret"
    /\ \/ /\ cachedResultObject' = seen[policy.uid]
          /\ pc' = "resolve"
          /\ UNCHANGED <<policy, cacheGetErr, result, queued, outcome, faults>>
       \/ /\ Fault
          /\ cacheGetErr' = TRUE
          /\ pc' = "resolve"
          /\ UNCHANGED <<policy, cachedResultObject, result, queued, outcome>>
       \/ Fault /\ ReturnErr
    /\ UNCHANGED <<api, plain, interval, hub, secrets, outages>>

\* Mutant: the error of ResolveTemplate is not looked at.
ResolveTemplateIgnoresError ==
    /\ pc = "resolve" /\ up
    /\ watch' = [uid |-> policy.uid, gen |-> policy.gen, ver |-> Len(answers)]
    /\ result' = IF answers[Len(answers)] = "good" THEN Len(answers) ELSE 0
    /\ pc' = "save"
    /\ UNCHANGED <<api, plain, interval, answers, up, secrets, queued, policy,
                   cachedResultObject, cacheGetErr, outcome, outages, faults>>

\* ResolveTemplate asks the watches of the hub; only a new one needs the hub
\* itself.  Result 0 is an error.
ResolveTemplate ==
    /\ pc = "resolve"
    /\ LET known == watch # None /\ watch.uid = policy.uid /\ watch.gen = policy.gen
           ver == IF known THEN watch.ver ELSE Len(answers)
       IN  IF known \/ up
           THEN /\ watch' = [uid |-> policy.uid, gen |-> policy.gen, ver |-> ver]
                /\ result' = IF answers[ver] = "missing" THEN 0 ELSE ver
                /\ pc' = CASE answers[ver] = "missing" -> "check"
                           [] answers[ver] = "odd" -> "odd"
                           [] OTHER -> "save"
           ELSE watch' = None /\ result' = 0 /\ pc' = "check"
    /\ UNCHANGED <<api, plain, interval, answers, up, secrets, queued, policy,
                   cachedResultObject, cacheGetErr, outcome, outages, faults>>

\* The error of the failed Unmarshal is logged, and nil is returned: the
\* policy is evaluated with what was unmarshalled before the failure.
UnmarshalFails ==
    /\ pc = "odd"
    /\ UseSpec(policy.gen, result, FALSE)
    /\ UNCHANGED <<api, plain, interval, hub, secrets, outages, faults>>

\* Mutant: the generation of the saved resolution is not compared.
SavedIsThere == cachedResultObject # None

\* The saved resolution is of the generation that is evaluated.
SavedIsCurrent == cachedResultObject # None /\ cachedResultObject.gen = policy.gen

\* The Secret as it was read is deleted, unless it was not found; the delete
\* may fail.  The template error is returned in any case.
ClearSecret ==
    /\ ReturnErr
    /\ \/ /\ cachedResultObject # None /\ ~cacheGetErr
          /\ secret' = [secret EXCEPT ![policy.uid] = None]
          /\ cleared' = (cleared \/ policy.uid = api.uid)
          /\ UNCHANGED faults
       \/ /\ cachedResultObject = None \/ cacheGetErr
          /\ UNCHANGED <<secret, cleared, faults>>
       \/ Fault /\ UNCHANGED <<secret, cleared>>
    /\ UNCHANGED <<seen, rv>>

\* ServerVersion tells an inaccessible hub from an error of the template,
\* after the fact.
CheckHub ==
    /\ pc = "check"
    /\ IF up
       THEN ClearSecret
       ELSE \/ /\ cacheGetErr \/ cachedResultObject = None
               /\ ReturnErr
               /\ UNCHANGED <<secrets, faults>>
            \/ /\ ~cacheGetErr /\ SavedIsCurrent
               /\ UseSpec(cachedResultObject.gen, cachedResultObject.ver,
                          cachedResultObject # secret[policy.uid])
               /\ UNCHANGED <<secrets, faults>>
            \/ /\ ~cacheGetErr /\ cachedResultObject # None /\ ~SavedIsCurrent
               /\ ClearSecret
    /\ UNCHANGED <<api, plain, interval, hub, outages>>

\* Mutant: the resolution is used although it could not be saved.
SaveSecretIgnoresError ==
    /\ pc = "save"
    /\ \/ /\ ~cacheGetErr /\ cachedResultObject = secret[policy.uid]
          /\ rv' = rv + 1
          /\ secret' = [secret EXCEPT ![policy.uid] =
                [rv |-> rv + 1, gen |-> policy.gen, ver |-> result]]
          /\ UNCHANGED faults
       \/ Fault /\ UNCHANGED <<secret, rv>>
    /\ UseSpec(policy.gen, result, FALSE)
    /\ UNCHANGED <<api, plain, interval, hub, seen, cleared, outages>>

\* Create or Update, as the read said.  A Secret that is there after all, or
\* that changed since, is an error; an Update that changes nothing is none.
SaveSecret ==
    /\ pc = "save"
    /\ \/ /\ ~cacheGetErr /\ cachedResultObject = secret[policy.uid]
          /\ IF SavedIsCurrent /\ cachedResultObject.ver = result
             THEN UNCHANGED <<secret, rv>>
             ELSE /\ rv' = rv + 1
                  /\ secret' = [secret EXCEPT ![policy.uid] =
                        [rv |-> rv + 1, gen |-> policy.gen, ver |-> result]]
          /\ cleared' = (cleared /\ policy # api)
          /\ UseSpec(policy.gen, result, FALSE)
          /\ UNCHANGED faults
       \/ /\ cacheGetErr \/ cachedResultObject # secret[policy.uid]
          /\ ReturnErr
          /\ UNCHANGED <<secret, rv, cleared, faults>>
       \/ Fault /\ ReturnErr /\ UNCHANGED <<secret, rv, cleared>>
    /\ UNCHANGED <<api, plain, interval, hub, seen, outages>>

\* A restart loses the watches, starts from fresh caches and reconciles every
\* policy.
Crash ==
    /\ Fault
    /\ Return
    /\ watch' = None
    /\ seen' = secret
    /\ queued' = TRUE
    /\ UNCHANGED <<api, plain, interval, answers, up, secret, rv, cleared, outcome, outages>>

Worker ==
    \/ ReconcileBegin
    \/ NoHubTemplate
    \/ GetSecret
    \/ ResolveTemplate
    \/ UnmarshalFails
    \/ CheckHub
    \/ SaveSecret

Next ==
    \/ ChangePolicy
    \/ HubChanges
    \/ HubDown
    \/ HubUp
    \/ WatchDelivers
    \/ \E u \in Uid : SecretDelivers(u)
    \/ Tick
    \/ Crash
    \/ Worker

Spec == Init /\ [][Next]_vars

\* The worker and the informers run on; intervals pass.
FairSpec ==
    /\ Spec
    /\ WF_vars(Worker)
    /\ WF_vars(WatchDelivers)
    /\ \A u \in Uid : WF_vars(SecretDelivers(u))
    /\ WF_vars(Tick)

-----------------------------------------------------------------------------
(* Properties *)

DataOK ==
    /\ api \in Template
    /\ answers \in Seq(Kind) /\ Len(answers) \in 1 .. MaxAnswers
    /\ watch \in Resolution \cup {None}
    /\ secret \in [Uid -> Secret \cup {None}]
    /\ seen \in [Uid -> Secret \cup {None}]
    /\ rv \in Nat
    /\ pc \in {"idle", "plain", "secret", "resolve", "check", "odd", "save"}
    /\ policy \in Template \cup {None} /\ (policy = None <=> pc = "idle")
    /\ cachedResultObject \in Secret \cup {None}
    /\ result \in 0 .. MaxAnswers /\ (pc \in {"odd", "save"} => result # 0)
    /\ used \in [uid : 0 .. MaxUid, gen : 0 .. MaxGen, ver : 0 .. MaxAnswers]

FlagsOK ==
    /\ plain \in BOOLEAN /\ interval \in BOOLEAN /\ up \in BOOLEAN /\ queued \in BOOLEAN
    /\ cacheGetErr \in BOOLEAN
    /\ trailing \in BOOLEAN /\ cleared \in BOOLEAN /\ failed \in BOOLEAN

\* The types of the policy, the Secret, the watch and the worker.
TypeOK == DataOK /\ FlagsOK

\* The promise of LastResolution: Reconcile evaluates the template it began
\* with, as the hub answered for it, and never goes back to an older answer,
\* through outages, failed writes, restarts and a policy of the same name
\* that is created again (resolveHubTemplates).
LR == INSTANCE LastResolution WITH template <- api, evaluating <- policy
Implements == LR!Spec

\* A resolution is in the Secret before an evaluation works with it, so a
\* restart during an outage of the hub finds at least the answer that was
\* last used, unless the Secret was cleared (resolveHubTemplates saves first).
SavedBeforeUsed ==
    (/\ used.uid = api.uid /\ used.gen = api.gen
     /\ used.ver # 0 /\ answers[used.ver] = "good" /\ ~trailing /\ ~cleared)
    => /\ secret[api.uid] # None
       /\ secret[api.uid].gen = api.gen
       /\ secret[api.uid].ver >= used.ver

\* When the hub stays accessible and answers well, a policy that is evaluated
\* at an interval ends up evaluated with the hub's last answer, with no
\* failure left in its status, whatever the outages, conflicts and failures
\* were before.
FollowsHub ==
    <>[](interval /\ up /\ ~plain /\ answers[Len(answers)] = "good")
    => <>[](/\ used.uid = api.uid /\ used.gen = api.gen
            /\ used.ver = Len(answers) /\ ~failed)
=============================================================================
