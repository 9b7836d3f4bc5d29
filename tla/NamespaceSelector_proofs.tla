----------------------- MODULE NamespaceSelector_proofs -----------------------
(* Proofs about NamespaceSelector, for all policies, namespaces and bounds. *)
EXTENDS NamespaceSelector, TLAPS

\* filter() returns namespaces and an error.
LEMMA FilterType ==
    ASSUME NEW c, NEW t
    PROVE  filter(c, t).namespaces \subseteq Namespaces /\ filter(c, t).err \in BOOLEAN
  BY DEF filter, Selected

\* What Get has in hand once it has listed the namespaces
LEMMA GetListPending ==
    ASSUME TypeOK, NEW k \in Keys, GetList(k)
    PROVE  LET f == filter(nsLabels, pending[k].target)
           IN  /\ pending[k] \in Selection
               /\ pending' = [pending EXCEPT
                      ![k] = [pending[k] EXCEPT !.namespaces = f.namespaces,
                                                !.err = f.err]]
<1>1. pending[k] \in Selection
  BY DEF GetList, TypeOK
<1> QED
  BY <1>1 DEF GetList, TypeOK, Selection

\* What Get is asked for is a selection of nothing, without a flag.
LEMMA AskedType ==
    ASSUME NEW t \in Targets
    PROVE  /\ Asked(t) \in Selection /\ Asked(t).namespaces = {}
           /\ ~Asked(t).hasUpdate
  BY DEF Asked, Selection

\* What the return of a Get does to the state of its evaluation
LEMMA EndGetEffect ==
    ASSUME TypeOK, NEW k \in Keys, gpc[k] # "idle",
           NEW s \in Selection \cup {NoSelection}, NEW err, EndGet(k, s, err)
    PROVE  /\ answer' = [answer EXCEPT ![k] = s]
           /\ answer' \in [Keys -> Selection \cup {NoSelection}]
           /\ polQueue \subseteq polQueue' /\ polQueue' \subseteq Keys
           /\ err => k \in polQueue'
           /\ dirty' \in [Keys -> BOOLEAN] /\ torn' \in [Keys -> BOOLEAN]
           /\ orphan' \in [Keys -> BOOLEAN]
           /\ left' \in [Keys -> 0 .. Templates - 1]
           /\ gpc' \in [Keys -> {"idle", "get", "list", "store", "send"}]
           /\ gpc'[k] \in {"idle", "get"} /\ \A j \in Keys \ {k} : gpc'[j] = gpc[j]
           /\ pending' \in [Keys -> Selection \cup {NoSelection}]
           /\ \A j \in Keys \ {k} : pending'[j] = pending[j]
           /\ gpc'[k] # "idle" => pending'[k] # NoSelection
           /\ pending'[k] # NoSelection =>
                  pending'[k].namespaces = {} /\ ~pending'[k].hasUpdate
<1>1. pending[k] \in Selection /\ pending[k].target \in Targets
  BY DEF TypeOK, Selection
<1>2. PICK reread \in BOOLEAN :
          LET t == IF reread THEN want[k] ELSE pending[k].target
          IN  /\ t # NoTarget
              /\ dirty' = [dirty EXCEPT ![k] = dirty[k] /\ (reread => orphan[k])]
              /\ torn' = [torn EXCEPT ![k] = \/ torn[k] \/ Differs(k, s)
                                             \/ t # pending[k].target]
              /\ pending' = [pending EXCEPT
                                 ![k] = IF left[k] = 0 THEN NoSelection ELSE Asked(t)]
  BY DEF EndGet
<1> DEFINE t == IF reread THEN want[k] ELSE pending[k].target
           p == IF left[k] = 0 THEN NoSelection ELSE Asked(t)
           pc == IF left[k] = 0 THEN "idle" ELSE "get"
<1>3. t \in Targets
  BY <1>1, <1>2 DEF TypeOK
<1>4. Asked(t) \in Selection /\ Asked(t).namespaces = {} /\ ~Asked(t).hasUpdate
  BY <1>3, AskedType
<1>5. gpc' = [gpc EXCEPT ![k] = pc] /\ pending' = [pending EXCEPT ![k] = p]
  BY <1>2 DEF EndGet
<1>6. /\ pc # "idle" => p # NoSelection
      /\ p # NoSelection => p.namespaces = {} /\ ~p.hasUpdate
      /\ p \in Selection \cup {NoSelection} /\ pc \in {"idle", "get"}
  BY <1>4, ConstantsAssumption
<1>7. dirty' \in [Keys -> BOOLEAN] /\ torn' \in [Keys -> BOOLEAN]
  BY <1>2 DEF TypeOK, Differs
<1>8. orphan' \in [Keys -> BOOLEAN] /\ left' \in [Keys -> 0 .. Templates - 1]
  <2>1. left[k] \in 0 .. Templates - 1 /\ Templates \in Nat
    BY ConstantsAssumption DEF TypeOK
  <2>2. left[k] = 0 \/ left[k] - 1 \in 0 .. Templates - 1
    BY <2>1
  <2>3. \/ left' = left
        \/ left[k] # 0 /\ left' = [left EXCEPT ![k] = left[k] - 1]
    BY DEF EndGet
  <2>4. left' \in [Keys -> 0 .. Templates - 1]
    <3>1. left \in [Keys -> 0 .. Templates - 1]
      BY DEF TypeOK
    <3> QED
      BY <2>2, <2>3, <3>1
  <2>5. orphan' = orphan \/ orphan' = [orphan EXCEPT ![k] = FALSE]
    BY DEF EndGet
  <2> QED
    BY <2>4, <2>5 DEF TypeOK
<1>9. answer' = [answer EXCEPT ![k] = s]
  BY DEF EndGet
<1>10. answer' \in [Keys -> Selection \cup {NoSelection}]
  BY <1>9 DEF TypeOK
<1>11. /\ polQueue \subseteq polQueue' /\ polQueue' \subseteq Keys
       /\ err => k \in polQueue'
  <2>1. polQueue' = IF err THEN polQueue \cup {k} ELSE polQueue
    BY DEF EndGet, Requeue
  <2>2. polQueue \subseteq Keys
    BY DEF TypeOK
  <2> QED
    BY <2>1, <2>2
<1> HIDE DEF t, p, pc
<1>12. /\ gpc' \in [Keys -> {"idle", "get", "list", "store", "send"}]
       /\ gpc'[k] = pc /\ \A j \in Keys \ {k} : gpc'[j] = gpc[j]
  BY <1>5, <1>6 DEF TypeOK
<1>13. /\ pending' \in [Keys -> Selection \cup {NoSelection}]
       /\ pending'[k] = p /\ \A j \in Keys \ {k} : pending'[j] = pending[j]
  BY <1>5, <1>6 DEF TypeOK
<1> QED
  BY <1>6, <1>7, <1>8, <1>9, <1>10, <1>11, <1>12, <1>13

\* The cache is well typed when the controllers start.
LEMMA TypeCorrectInit == Init => TypeOK
  BY ConstantsAssumption DEF Init, NoSelections, TypeOK

\* TypeOK is inductive.
LEMMA TypeOKStep == TypeOK /\ [Next]_vars => TypeOK'
<1> SUFFICES ASSUME TypeOK, [Next]_vars PROVE TypeOK'
  OBVIOUS
<1>1. ASSUME NEW n \in Namespaces, NamespaceEvent(n) PROVE TypeOK'
  BY <1>1, ConstantsAssumption DEF NamespaceEvent, recVars, getVars, envVars,
     TypeOK, Selection
<1>2. CASE Forward
  BY <1>2, ConstantsAssumption DEF Forward, recVars, getVars, envVars, TypeOK,
     Selection
<1>3. CASE Snapshot
  BY <1>3, ConstantsAssumption DEF Snapshot, recVars, getVars, envVars, TypeOK,
     Selection
<1>4. CASE SkipEmpty
  BY <1>4, ConstantsAssumption DEF SkipEmpty, NoSelections, recVars, getVars,
     envVars, TypeOK, Selection
<1>5. CASE ListNamespaces
  BY <1>5, ConstantsAssumption DEF ListNamespaces, recVars, getVars, envVars,
     TypeOK, Selection
<1>6. CASE ListNamespacesFails
  BY <1>6, ConstantsAssumption DEF ListNamespacesFails, NoSelections, recVars,
     getVars, envVars, TypeOK, Selection
<1>7. CASE ApplySend
  BY <1>7, ConstantsAssumption DEF ApplySend, EndUpdate, recVars, getVars,
     envVars, TypeOK, Selection
<1>8. CASE EndReconcile
  BY <1>8, ConstantsAssumption DEF EndReconcile, NoSelections, recVars, getVars,
     envVars, TypeOK, Selection
<1>9. ASSUME NEW k \in Keys, EditPolicy(k) PROVE TypeOK'
  BY <1>9, ConstantsAssumption DEF EditPolicy, recVars, getVars, envVars,
     TypeOK, Selection
<1>10. ASSUME NEW k \in Keys, DeletePolicy(k) PROVE TypeOK'
  BY <1>10, ConstantsAssumption DEF DeletePolicy, recVars, getVars, envVars,
     TypeOK, Selection
<1>11. ASSUME NEW k \in Keys, ApplyUpdate(k) PROVE TypeOK'
  <2>1. oldSelections[k] \in Selection
    BY <1>11 DEF ApplyUpdate, TypeOK
  <2>2. Refreshed(k) \in Selection
    BY <2>1, FilterType DEF Refreshed, Selection
  <2>3. selections' \in [Keys -> Selection \cup {NoSelection}]
    BY <1>11, <2>2 DEF ApplyUpdate, BeginUpdate, TypeOK
  <2> QED
    BY <1>11, <2>3, ConstantsAssumption DEF ApplyUpdate, BeginUpdate, TypeOK,
       recVars, getVars, envVars
<1>12. ASSUME NEW k \in Keys, ApplyNothing(k) PROVE TypeOK'
  BY <1>12, ConstantsAssumption DEF ApplyNothing, NeedsRefresh, recVars,
     getVars, envVars, TypeOK, Selection
<1>13. ASSUME NEW k \in Keys, Stop(k) PROVE TypeOK'
  BY <1>13, ConstantsAssumption DEF Stop, recVars, getVars, envVars, TypeOK,
     Selection
<1>14. ASSUME NEW k \in Keys, SkipEvaluation(k) PROVE TypeOK'
  BY <1>14, ConstantsAssumption DEF SkipEvaluation, recVars, getVars, envVars,
     TypeOK, Selection
<1>15. ASSUME NEW k \in Keys, BeginEvaluation(k) PROVE TypeOK'
  <2>1. Asked(want[k]) \in Selection
    BY <1>15, AskedType DEF BeginEvaluation, TypeOK
  <2>2. /\ pending' \in [Keys -> Selection \cup {NoSelection}]
        /\ \A j \in Keys : gpc'[j] # "idle" => pending'[j] # NoSelection
    BY <1>15, <2>1, ConstantsAssumption, ZenonT(60) DEF BeginEvaluation, TypeOK
  <2>3. /\ dirty' \in [Keys -> BOOLEAN] /\ orphan' \in [Keys -> BOOLEAN]
        /\ torn' \in [Keys -> BOOLEAN] /\ left' \in [Keys -> 0 .. Templates - 1]
    BY <1>15, ConstantsAssumption DEF BeginEvaluation, TypeOK
  <2> QED
    BY <1>15, <2>2, <2>3, ConstantsAssumption DEF BeginEvaluation, TypeOK, recVars,
       envVars
<1>16. ASSUME NEW k \in Keys, GetHit(k) PROVE TypeOK'
  <2>1. selections[k] \in Selection /\ gpc[k] = "get"
    BY <1>16 DEF GetHit, Hit, TypeOK
  <2> DEFINE s == [selections[k] EXCEPT !.hasUpdate = FALSE]
  <2>2. s \in Selection
    BY <2>1 DEF Selection
  <2>3. selections' \in [Keys -> Selection \cup {NoSelection}]
    BY <1>16, <2>2 DEF GetHit, TypeOK
  <2>4. EndGet(k, s, selections[k].err)
    BY <1>16 DEF GetHit
  <2> HIDE DEF s
  <2>5. /\ answer' \in [Keys -> Selection \cup {NoSelection}]
        /\ polQueue' \subseteq Keys
        /\ dirty' \in [Keys -> BOOLEAN] /\ torn' \in [Keys -> BOOLEAN]
        /\ orphan' \in [Keys -> BOOLEAN]
        /\ left' \in [Keys -> 0 .. Templates - 1]
        /\ gpc' \in [Keys -> {"idle", "get", "list", "store", "send"}]
        /\ gpc'[k] \in {"idle", "get"} /\ \A j \in Keys \ {k} : gpc'[j] = gpc[j]
        /\ pending' \in [Keys -> Selection \cup {NoSelection}]
        /\ \A j \in Keys \ {k} : pending'[j] = pending[j]
        /\ gpc'[k] # "idle" => pending'[k] # NoSelection
    BY <2>1, <2>2, <2>4, EndGetEffect
  <2>6. UNCHANGED <<queued, lock, channel, rpc, oldSelections, todo, listed, rkey,
                    nsLabels, want, changes, edits, raced, fails>>
    BY <1>16 DEF GetHit, recVars, envVars
  <2>7. \A j \in Keys : /\ gpc'[j] # "idle" => pending'[j] # NoSelection
                        /\ (lock' = j) <=> (gpc'[j] = "send")
    <3>1. \A j \in Keys : /\ gpc[j] # "idle" => pending[j] # NoSelection
                          /\ (lock = j) <=> (gpc[j] = "send")
      BY DEF TypeOK
    <3> QED
      BY <2>1, <2>5, <2>6, <3>1
  <2> QED
    BY <2>3, <2>5, <2>6, <2>7 DEF TypeOK
<1>17. ASSUME NEW k \in Keys, GetMiss(k) PROVE TypeOK'
  <2>1. pending[k] \in Selection
    BY <1>17 DEF GetMiss, TypeOK
  <2>2. [pending[k] EXCEPT !.err = pending[k].target.kind = "badSelector"] \in Selection
    BY <2>1 DEF Selection
  <2>3. \E s \in Selection : pending' = [pending EXCEPT ![k] = s]
    <3>1. CASE pending[k].target.kind \in {"empty", "badSelector"}
      BY <1>17, <2>1, <2>2, <3>1 DEF GetMiss, TypeOK, Selection
    <3>2. CASE pending[k].target.kind \notin {"empty", "badSelector"}
      BY <1>17, <2>1, <3>2 DEF GetMiss, TypeOK
    <3> QED
      BY <3>1, <3>2
  <2>4. pending' \in [Keys -> Selection \cup {NoSelection}]
    BY <2>3 DEF TypeOK
  <2>5. \E l \in {"store", "list"} : gpc' = [gpc EXCEPT ![k] = l]
    BY <1>17 DEF GetMiss
  <2>6. \A j \in Keys : gpc'[j] # "idle" => pending'[j] # NoSelection
    BY <2>3, <2>5, ConstantsAssumption DEF TypeOK
  <2> QED
    BY <1>17, <2>4, <2>5, <2>6, ConstantsAssumption DEF GetMiss, TypeOK, recVars,
       envVars
<1>18. ASSUME NEW k \in Keys, GetList(k) PROVE TypeOK'
  <2> DEFINE f == filter(nsLabels, pending[k].target)
  <2>1. pending[k] \in Selection
    BY <1>18, GetListPending
  <2>2. [pending[k] EXCEPT !.namespaces = f.namespaces, !.err = f.err] \in Selection
    BY <2>1, FilterType DEF Selection
  <2>3. pending' = [pending EXCEPT ![k] = [pending[k] EXCEPT !.namespaces = f.namespaces,
                                                            !.err = f.err]]
    BY <1>18, GetListPending
  <2>4. pending' \in [Keys -> Selection \cup {NoSelection}]
    BY <2>2, <2>3 DEF TypeOK
  <2>5. gpc' = [gpc EXCEPT ![k] = "store"]
    BY <1>18 DEF GetList
  <2>6. \A j \in Keys : gpc'[j] # "idle" => pending'[j] # NoSelection
    BY <2>2, <2>3, <2>5, ConstantsAssumption DEF TypeOK
  <2> QED
    BY <1>18, <2>4, <2>6, ConstantsAssumption DEF GetList, TypeOK, recVars, envVars
<1>19. ASSUME NEW k \in Keys, GetListFails(k) PROVE TypeOK'
  <2>1. gpc[k] = "list" /\ EndGet(k, NoSelection, TRUE)
    BY <1>19 DEF GetListFails
  <2>2. /\ answer' \in [Keys -> Selection \cup {NoSelection}]
        /\ polQueue' \subseteq Keys
        /\ dirty' \in [Keys -> BOOLEAN] /\ torn' \in [Keys -> BOOLEAN]
        /\ orphan' \in [Keys -> BOOLEAN]
        /\ left' \in [Keys -> 0 .. Templates - 1]
        /\ gpc' \in [Keys -> {"idle", "get", "list", "store", "send"}]
        /\ gpc'[k] \in {"idle", "get"} /\ \A j \in Keys \ {k} : gpc'[j] = gpc[j]
        /\ pending' \in [Keys -> Selection \cup {NoSelection}]
        /\ \A j \in Keys \ {k} : pending'[j] = pending[j]
        /\ gpc'[k] # "idle" => pending'[k] # NoSelection
    BY <2>1, EndGetEffect
  <2>3. \A j \in Keys : /\ gpc'[j] # "idle" => pending'[j] # NoSelection
                        /\ (lock' = j) <=> (gpc'[j] = "send")
    BY <1>19, <2>1, <2>2 DEF GetListFails, TypeOK
  <2> QED
    BY <1>19, <2>2, <2>3, ConstantsAssumption DEF GetListFails, TypeOK, recVars,
       envVars
<1>20. ASSUME NEW k \in Keys, GetStore(k) PROVE TypeOK'
  BY <1>20, ConstantsAssumption DEF GetStore, BeginUpdate, recVars, getVars,
     envVars, TypeOK, Selection
<1>21. ASSUME NEW k \in Keys, GetSend(k) PROVE TypeOK'
  <2>1. gpc[k] = "send" /\ EndGet(k, pending[k], pending[k].err)
    BY <1>21 DEF GetSend
  <2>2. pending[k] \in Selection
    BY <2>1 DEF TypeOK
  <2>3. /\ answer' \in [Keys -> Selection \cup {NoSelection}]
        /\ polQueue' \subseteq Keys
        /\ dirty' \in [Keys -> BOOLEAN] /\ torn' \in [Keys -> BOOLEAN]
        /\ orphan' \in [Keys -> BOOLEAN]
        /\ left' \in [Keys -> 0 .. Templates - 1]
        /\ gpc' \in [Keys -> {"idle", "get", "list", "store", "send"}]
        /\ gpc'[k] \in {"idle", "get"} /\ \A j \in Keys \ {k} : gpc'[j] = gpc[j]
        /\ pending' \in [Keys -> Selection \cup {NoSelection}]
        /\ \A j \in Keys \ {k} : pending'[j] = pending[j]
        /\ gpc'[k] # "idle" => pending'[k] # NoSelection
    BY <2>1, <2>2, EndGetEffect
  <2>4. lock = k /\ lock' = Free
    BY <1>21 DEF GetSend, EndUpdate
  <2>5. \A j \in Keys : /\ gpc'[j] # "idle" => pending'[j] # NoSelection
                        /\ gpc'[j] # "send"
    BY <2>3, <2>4 DEF TypeOK
  <2> QED
    BY <1>21, <2>3, <2>4, <2>5, ConstantsAssumption DEF GetSend, EndUpdate, TypeOK,
       recVars, envVars
<1>22. CASE UNCHANGED vars
  BY <1>22 DEF vars, recVars, getVars, TypeOK, Selection
<1> QED
  BY <1>1, <1>2, <1>3, <1>4, <1>5, <1>6, <1>7, <1>8, <1>9, <1>10, <1>11, <1>12,
     <1>13, <1>14, <1>15, <1>16, <1>17, <1>18, <1>19, <1>20, <1>21, <1>22 DEF
     Next, Environment, Reconcile, Worker

\* The shared state and the locals of both kinds of threads keep their types,
\* the channel its capacity, and the lock is held exactly inside update().
THEOREM TypeCorrect == Spec => []TypeOK
  BY TypeCorrectInit, TypeOKStep, PTL DEF Spec
-----------------------------------------------------------------------------
(* Stale selections are refreshed *)

\* What Reconcile listed is current, unless an event has queued it again.
ListIsCurrent == ~queued /\ rpc \in {"apply", "send"} => listed = nsLabels

\* A stale entry that Reconcile has still to handle is the one in its snapshot,
\* so that comparing the snapshot with the list finds it out.
SnapshotIsCurrent ==
    \A k \in todo :
        /\ ~queued /\ selections[k] # NoSelection /\ ~raced[k] /\ ~Fresh(k)
        => /\ selections[k].target = oldSelections[k].target
           /\ selections[k].namespaces = oldSelections[k].namespaces

\* The inductive invariant behind StaleIsPending
StaleInv == TypeOK /\ ListIsCurrent /\ SnapshotIsCurrent /\ StaleIsPending

\* StaleInv is inductive, relative to TypeOK.
LEMMA StaleStep == StaleInv /\ TypeOK' /\ [Next]_vars => StaleInv'
<1> SUFFICES ASSUME StaleInv, TypeOK', [Next]_vars PROVE StaleInv'
  OBVIOUS
<1> USE DEF StaleInv
<1>1. ASSUME NEW n \in Namespaces, NamespaceEvent(n) PROVE StaleInv'
  BY <1>1 DEF NamespaceEvent, recVars, getVars, envVars, ListIsCurrent,
     SnapshotIsCurrent, StaleIsPending, Fresh, TypeOK
<1>2. CASE Forward
  BY <1>2 DEF Forward, recVars, getVars, envVars, ListIsCurrent,
     SnapshotIsCurrent, StaleIsPending, Fresh, TypeOK
<1>3. CASE Snapshot
  BY <1>3 DEF Snapshot, recVars, getVars, envVars, ListIsCurrent,
     SnapshotIsCurrent, StaleIsPending, Fresh, TypeOK
<1>4. CASE SkipEmpty
  BY <1>4 DEF SkipEmpty, recVars, getVars, envVars, ListIsCurrent,
     SnapshotIsCurrent, StaleIsPending, Fresh, TypeOK
<1>5. CASE ListNamespaces
  BY <1>5 DEF ListNamespaces, recVars, getVars, envVars, ListIsCurrent,
     SnapshotIsCurrent, StaleIsPending, Fresh, TypeOK
<1>6. CASE ListNamespacesFails
  BY <1>6 DEF ListNamespacesFails, recVars, getVars, envVars, ListIsCurrent,
     SnapshotIsCurrent, StaleIsPending, Fresh, TypeOK
<1>7. CASE ApplySend
  BY <1>7 DEF ApplySend, EndUpdate, recVars, getVars, envVars, ListIsCurrent,
     SnapshotIsCurrent, StaleIsPending, Fresh, TypeOK
<1>8. CASE EndReconcile
  BY <1>8 DEF EndReconcile, recVars, getVars, envVars, ListIsCurrent,
     SnapshotIsCurrent, StaleIsPending, Fresh, TypeOK
<1>9. ASSUME NEW k \in Keys, EditPolicy(k) PROVE StaleInv'
  BY <1>9 DEF EditPolicy, recVars, getVars, envVars, ListIsCurrent,
     SnapshotIsCurrent, StaleIsPending, Fresh, TypeOK
<1>10. ASSUME NEW k \in Keys, DeletePolicy(k) PROVE StaleInv'
  BY <1>10 DEF DeletePolicy, recVars, getVars, envVars, ListIsCurrent,
     SnapshotIsCurrent, StaleIsPending, Fresh, TypeOK
<1>11. ASSUME NEW k \in Keys, ApplyUpdate(k) PROVE StaleInv'
  BY <1>11 DEF ApplyUpdate, BeginUpdate, Refreshed, recVars, getVars, envVars,
     ListIsCurrent, SnapshotIsCurrent, StaleIsPending, Fresh, TypeOK
<1>12. ASSUME NEW k \in Keys, ApplyNothing(k) PROVE StaleInv'
  <2>1. /\ rpc = "apply" /\ k \in todo /\ todo' = todo \ {k}
        /\ filter(listed, oldSelections[k].target).namespaces
               = oldSelections[k].namespaces
        /\ UNCHANGED <<queued, selections, rpc, oldSelections, listed, nsLabels, raced>>
    BY <1>12 DEF ApplyNothing, NeedsRefresh, envVars
  <2>2. \A j \in Keys : Fresh(j)' = Fresh(j)
    BY <2>1 DEF Fresh
  <2>3. ListIsCurrent'
    BY <2>1 DEF ListIsCurrent
  <2>4. SnapshotIsCurrent'
    BY <2>1, <2>2 DEF SnapshotIsCurrent, TypeOK
  <2>5. ~queued /\ selections[k] # NoSelection /\ ~raced[k] => Fresh(k)
    BY <2>1 DEF ListIsCurrent, SnapshotIsCurrent, Fresh
  <2>6. StaleIsPending'
    BY <2>1, <2>2, <2>5 DEF StaleIsPending
  <2> QED
    BY <2>3, <2>4, <2>6
<1>13. ASSUME NEW k \in Keys, Stop(k) PROVE StaleInv'
  BY <1>13 DEF Stop, recVars, getVars, envVars, ListIsCurrent,
     SnapshotIsCurrent, StaleIsPending, Fresh, TypeOK
<1>14. ASSUME NEW k \in Keys, SkipEvaluation(k) PROVE StaleInv'
  BY <1>14 DEF SkipEvaluation, recVars, getVars, envVars, ListIsCurrent,
     SnapshotIsCurrent, StaleIsPending, Fresh, TypeOK
<1>15. ASSUME NEW k \in Keys, BeginEvaluation(k) PROVE StaleInv'
  BY <1>15 DEF BeginEvaluation, recVars, getVars, envVars, ListIsCurrent,
     SnapshotIsCurrent, StaleIsPending, Fresh, TypeOK
<1>16. ASSUME NEW k \in Keys, GetHit(k) PROVE StaleInv'
  <2>1. /\ selections[k] \in Selection
        /\ selections' = [selections EXCEPT ![k] = [selections[k] EXCEPT !.hasUpdate = FALSE]]
        /\ UNCHANGED <<queued, recVars, nsLabels, raced>>
    BY <1>16 DEF GetHit, Hit, TypeOK, envVars
  <2>2. \A j \in Keys : /\ selections'[j] # NoSelection => selections[j] # NoSelection
                        /\ selections[j] # NoSelection =>
                               /\ selections'[j].target = selections[j].target
                               /\ selections'[j].namespaces = selections[j].namespaces
    <3>1. \A j \in Keys \ {k} : selections'[j] = selections[j]
      BY <2>1 DEF TypeOK
    <3>2. selections'[k] = [selections[k] EXCEPT !.hasUpdate = FALSE]
      BY <2>1 DEF TypeOK
    <3>3. /\ selections'[k].target = selections[k].target
          /\ selections'[k].namespaces = selections[k].namespaces
          /\ selections[k] # NoSelection
      BY <2>1, <3>2, ConstantsAssumption DEF Selection
    <3> QED
      BY <3>1, <3>3
  <2>3. \A j \in Keys : selections[j] # NoSelection => Fresh(j)' = Fresh(j)
    BY <2>1, <2>2 DEF Fresh
  <2>4. todo \subseteq Keys
    BY DEF TypeOK
  <2> QED
    BY <2>1, <2>2, <2>3, <2>4 DEF recVars, ListIsCurrent, SnapshotIsCurrent,
       StaleIsPending
<1>17. ASSUME NEW k \in Keys, GetMiss(k) PROVE StaleInv'
  BY <1>17 DEF GetMiss, Hit, recVars, getVars, envVars, ListIsCurrent,
     SnapshotIsCurrent, StaleIsPending, Fresh, TypeOK
<1>18. ASSUME NEW k \in Keys, GetList(k) PROVE StaleInv'
  BY <1>18 DEF GetList, recVars, getVars, envVars, ListIsCurrent,
     SnapshotIsCurrent, StaleIsPending, Fresh, TypeOK
<1>19. ASSUME NEW k \in Keys, GetListFails(k) PROVE StaleInv'
  BY <1>19 DEF GetListFails, Requeue, recVars, getVars, envVars, ListIsCurrent,
     SnapshotIsCurrent, StaleIsPending, Fresh, TypeOK
<1>20. ASSUME NEW k \in Keys, GetStore(k) PROVE StaleInv'
  <2>1. /\ selections' = [selections EXCEPT ![k] = pending[k]]
        /\ raced' = [raced EXCEPT ![k] = pending[k].namespaces
                                 # filter(nsLabels, pending[k].target).namespaces]
        /\ UNCHANGED <<queued, recVars, nsLabels>>
    BY <1>20 DEF GetStore, BeginUpdate, envVars
  <2>2. \A j \in Keys \ {k} : selections'[j] = selections[j] /\ raced'[j] = raced[j]
    BY <2>1 DEF TypeOK
  <2>3. \A j \in Keys \ {k} : Fresh(j)' = Fresh(j)
    BY <2>1, <2>2 DEF Fresh
  <2>4. raced'[k] \/ Fresh(k)'
    BY <2>1 DEF Fresh, TypeOK
  <2>5. UNCHANGED <<queued, todo, oldSelections, rpc, listed, nsLabels>>
    BY <2>1 DEF recVars
  <2>6. todo \subseteq Keys
    BY DEF TypeOK
  <2>7. ListIsCurrent'
    BY <2>5 DEF ListIsCurrent
  <2>8. SnapshotIsCurrent'
    BY <2>2, <2>3, <2>4, <2>5, <2>6 DEF SnapshotIsCurrent
  <2>9. StaleIsPending'
    BY <2>2, <2>3, <2>4, <2>5 DEF StaleIsPending
  <2> QED
    BY <2>7, <2>8, <2>9
<1>21. ASSUME NEW k \in Keys, GetSend(k) PROVE StaleInv'
  BY <1>21 DEF GetSend, EndUpdate, Requeue, recVars, getVars, envVars,
     ListIsCurrent, SnapshotIsCurrent, StaleIsPending, Fresh, TypeOK
<1>22. CASE UNCHANGED vars
  BY <1>22 DEF vars, recVars, getVars, ListIsCurrent, SnapshotIsCurrent,
     StaleIsPending, Fresh
<1> QED
  BY <1>1, <1>2, <1>3, <1>4, <1>5, <1>6, <1>7, <1>8, <1>9, <1>10, <1>11, <1>12,
     <1>13, <1>14, <1>15, <1>16, <1>17, <1>18, <1>19, <1>20, <1>21, <1>22 DEF
     Next, Environment, Reconcile, Worker

\* For any number of policies and namespaces, and any interleaving of events,
\* Reconcile, Get, Stop and failing lists, a stale selection is pending.
THEOREM StaleSelectionsArePending == Spec => []StaleIsPending
<1>1. Init => StaleInv
  BY TypeCorrectInit
  DEF Init, NoSelections, StaleInv, ListIsCurrent, SnapshotIsCurrent, StaleIsPending
<1>2. StaleInv /\ [Next]_vars => StaleInv'
  BY StaleStep, TypeOKStep DEF StaleInv
<1>3. StaleInv => StaleIsPending
  BY DEF StaleInv
<1> QED
  BY <1>1, <1>2, <1>3, PTL DEF Spec
-----------------------------------------------------------------------------
(* Changes are flagged and announced *)

\* While Get sends, the entry is the one it stored.
StoredIsPending == \A k \in Keys : gpc[k] = "send" => selections[k] = pending[k]

\* A selector that cannot be evaluated has selected nothing.
NothingUnlessProper(s) ==
    s # NoSelection /\ s.target.kind # "select" => s.namespaces = {}
ErrorsSelectNothing ==
    \A k \in Keys : /\ NothingUnlessProper(selections[k])
                    /\ NothingUnlessProper(pending[k])
                    /\ NothingUnlessProper(answer[k])

\* The inductive invariant behind ChangeIsFlagged
FlagInv == TypeOK /\ StoredIsPending /\ ErrorsSelectNothing /\ ChangeIsFlagged

\* Get never raises the flag.
PendingUnflagged ==
    \A k \in Keys : pending[k] # NoSelection => ~pending[k].hasUpdate

\* The inductive invariant behind FlagIsAnnounced
AnnounceInv == TypeOK /\ StoredIsPending /\ PendingUnflagged /\ FlagIsAnnounced

\* A target that is not a proper selector selects nothing.
LEMMA FilterOfBadTarget ==
    ASSUME NEW c, NEW t
    PROVE  /\ t.kind # "select" => filter(c, t).namespaces = {}
           /\ filter(c, t).err => t.kind # "select"
  BY DEF filter

\* FlagInv is inductive, relative to TypeOK.
LEMMA FlagStep == FlagInv /\ TypeOK' /\ [Next]_vars => FlagInv'
<1> SUFFICES ASSUME FlagInv, TypeOK', [Next]_vars PROVE FlagInv'
  OBVIOUS
<1> USE DEF FlagInv
<1>1. ASSUME NEW n \in Namespaces, NamespaceEvent(n) PROVE FlagInv'
  BY <1>1 DEF NamespaceEvent, recVars, getVars, envVars, StoredIsPending,
     ErrorsSelectNothing, NothingUnlessProper, ChangeIsFlagged, TypeOK,
     Selection
<1>2. CASE Forward
  BY <1>2 DEF Forward, recVars, getVars, envVars, StoredIsPending,
     ErrorsSelectNothing, NothingUnlessProper, ChangeIsFlagged, TypeOK,
     Selection
<1>3. CASE Snapshot
  BY <1>3 DEF Snapshot, recVars, getVars, envVars, StoredIsPending,
     ErrorsSelectNothing, NothingUnlessProper, ChangeIsFlagged, TypeOK,
     Selection
<1>4. CASE SkipEmpty
  BY <1>4 DEF SkipEmpty, recVars, getVars, envVars, StoredIsPending,
     ErrorsSelectNothing, NothingUnlessProper, ChangeIsFlagged, TypeOK,
     Selection
<1>5. CASE ListNamespaces
  BY <1>5 DEF ListNamespaces, recVars, getVars, envVars, StoredIsPending,
     ErrorsSelectNothing, NothingUnlessProper, ChangeIsFlagged, TypeOK,
     Selection
<1>6. CASE ListNamespacesFails
  BY <1>6 DEF ListNamespacesFails, recVars, getVars, envVars, StoredIsPending,
     ErrorsSelectNothing, NothingUnlessProper, ChangeIsFlagged, TypeOK,
     Selection
<1>7. CASE ApplySend
  BY <1>7 DEF ApplySend, EndUpdate, recVars, getVars, envVars, StoredIsPending,
     ErrorsSelectNothing, NothingUnlessProper, ChangeIsFlagged, TypeOK,
     Selection
<1>8. CASE EndReconcile
  BY <1>8 DEF EndReconcile, recVars, getVars, envVars, StoredIsPending,
     ErrorsSelectNothing, NothingUnlessProper, ChangeIsFlagged, TypeOK,
     Selection
<1>9. ASSUME NEW k \in Keys, EditPolicy(k) PROVE FlagInv'
  BY <1>9 DEF EditPolicy, recVars, getVars, envVars, StoredIsPending,
     ErrorsSelectNothing, NothingUnlessProper, ChangeIsFlagged, TypeOK,
     Selection
<1>10. ASSUME NEW k \in Keys, DeletePolicy(k) PROVE FlagInv'
  BY <1>10 DEF DeletePolicy, recVars, getVars, envVars, StoredIsPending,
     ErrorsSelectNothing, NothingUnlessProper, ChangeIsFlagged, TypeOK,
     Selection
<1>11. ASSUME NEW k \in Keys, ApplyUpdate(k) PROVE FlagInv'
  <2> DEFINE f == filter(listed, oldSelections[k].target)
  <2>1. /\ Refreshed(k).target = oldSelections[k].target
        /\ Refreshed(k).namespaces = f.namespaces
        /\ Refreshed(k).hasUpdate \/ f.err
    BY FilterType DEF Refreshed
  <2>2. /\ selections' = [selections EXCEPT ![k] = Refreshed(k)]
        /\ UNCHANGED <<gpc, pending, answer>> /\ lock = Free
    BY <1>11 DEF ApplyUpdate, BeginUpdate, getVars
  <2>3. \A j \in Keys : gpc[j] # "send"
    BY <2>2, ConstantsAssumption DEF TypeOK
  <2>4. NothingUnlessProper(Refreshed(k))
    BY <2>1, FilterOfBadTarget DEF NothingUnlessProper
  <2>5. ErrorsSelectNothing'
    BY <2>2, <2>4 DEF ErrorsSelectNothing, NothingUnlessProper, TypeOK
  <2>6. ASSUME answer[k] # NoSelection, Refreshed(k).target = answer[k].target,
               Refreshed(k).namespaces # answer[k].namespaces
        PROVE  Refreshed(k).hasUpdate
    BY <2>1, <2>6, FilterOfBadTarget DEF ErrorsSelectNothing, NothingUnlessProper
  <2>7. ChangeIsFlagged'
    BY <2>2, <2>3, <2>6 DEF ChangeIsFlagged, TypeOK
  <2> QED
    BY <2>2, <2>3, <2>5, <2>7 DEF StoredIsPending
<1>12. ASSUME NEW k \in Keys, ApplyNothing(k) PROVE FlagInv'
  BY <1>12 DEF ApplyNothing, NeedsRefresh, recVars, getVars, envVars,
     StoredIsPending, ErrorsSelectNothing, NothingUnlessProper, ChangeIsFlagged,
     TypeOK, Selection
<1>13. ASSUME NEW k \in Keys, Stop(k) PROVE FlagInv'
  BY <1>13 DEF Stop, recVars, getVars, envVars, StoredIsPending,
     ErrorsSelectNothing, NothingUnlessProper, ChangeIsFlagged, TypeOK,
     Selection
<1>14. ASSUME NEW k \in Keys, SkipEvaluation(k) PROVE FlagInv'
  BY <1>14 DEF SkipEvaluation, recVars, getVars, envVars, StoredIsPending,
     ErrorsSelectNothing, NothingUnlessProper, ChangeIsFlagged, TypeOK,
     Selection
<1>15. ASSUME NEW k \in Keys, BeginEvaluation(k) PROVE FlagInv'
  <2>1. want[k] \in Targets
    BY <1>15 DEF BeginEvaluation, TypeOK
  <2>2. NothingUnlessProper(Asked(want[k]))
    BY <2>1, AskedType DEF NothingUnlessProper
  <2>3. /\ gpc' = [gpc EXCEPT ![k] = "get"]
        /\ pending' = [pending EXCEPT ![k] = Asked(want[k])]
        /\ UNCHANGED <<selections, answer>>
    BY <1>15 DEF BeginEvaluation
  <2>4. ErrorsSelectNothing'
    BY <2>2, <2>3, ZenonT(60) DEF ErrorsSelectNothing, NothingUnlessProper, TypeOK
  <2> QED
    BY <1>15, <2>3, <2>4 DEF BeginEvaluation, StoredIsPending, ChangeIsFlagged, TypeOK
<1>16. ASSUME NEW k \in Keys, GetHit(k) PROVE FlagInv'
  <2> DEFINE s == [selections[k] EXCEPT !.hasUpdate = FALSE]
  <2>1. /\ selections[k] \in Selection /\ gpc[k] = "get"
        /\ selections' = [selections EXCEPT ![k] = s]
        /\ EndGet(k, s, selections[k].err)
    BY <1>16 DEF GetHit, Hit, TypeOK
  <2>2. /\ s \in Selection /\ s.target = selections[k].target
        /\ s.namespaces = selections[k].namespaces
    BY <2>1 DEF Selection
  <2> HIDE DEF s
  <2>3. /\ answer' = [answer EXCEPT ![k] = s]
        /\ gpc'[k] \in {"idle", "get"} /\ \A j \in Keys \ {k} : gpc'[j] = gpc[j]
        /\ \A j \in Keys \ {k} : pending'[j] = pending[j]
        /\ pending'[k] # NoSelection => pending'[k].namespaces = {}
    BY <2>1, <2>2, EndGetEffect
  <2>4. NothingUnlessProper(s) /\ NothingUnlessProper(pending'[k])
    BY <2>1, <2>2, <2>3, ConstantsAssumption DEF ErrorsSelectNothing, NothingUnlessProper
  <2>5. selections'[k] = s /\ answer'[k] = s
    BY <2>1, <2>3 DEF TypeOK
  <2>6. \A j \in Keys \ {k} : selections'[j] = selections[j] /\ answer'[j] = answer[j]
    BY <2>1, <2>3 DEF TypeOK
  <2>7. ErrorsSelectNothing'
    BY <2>3, <2>4, <2>5, <2>6, ZenonT(60) DEF ErrorsSelectNothing, NothingUnlessProper
  <2>8. ChangeIsFlagged'
    BY <2>3, <2>5, <2>6 DEF ChangeIsFlagged
  <2> QED
    BY <2>3, <2>6, <2>7, <2>8 DEF StoredIsPending
<1>17. ASSUME NEW k \in Keys, GetMiss(k) PROVE FlagInv'
  <2>1. pending[k] \in Selection /\ UNCHANGED <<selections, answer>>
    BY <1>17 DEF GetMiss, TypeOK
  <2>2. \E l \in {"store", "list"} : gpc' = [gpc EXCEPT ![k] = l]
    BY <1>17 DEF GetMiss
  <2>3. \/ pending' = pending
        \/ \E e \in BOOLEAN :
               pending' = [pending EXCEPT ![k] = [pending[k] EXCEPT !.err = e]]
    BY <1>17, <2>1 DEF GetMiss, TypeOK
  <2>4. \A j \in Keys : /\ j # k => pending'[j] = pending[j]
                        /\ NothingUnlessProper(pending'[j])
    <3>1. CASE pending' = pending
      BY <3>1 DEF ErrorsSelectNothing
    <3>2. ASSUME NEW e \in BOOLEAN,
                 pending' = [pending EXCEPT ![k] = [pending[k] EXCEPT !.err = e]]
          PROVE  \A j \in Keys : /\ j # k => pending'[j] = pending[j]
                                 /\ NothingUnlessProper(pending'[j])
      <4>1. \A j \in Keys \ {k} : pending'[j] = pending[j]
        BY <3>2 DEF TypeOK
      <4>2. pending'[k] = [pending[k] EXCEPT !.err = e]
        BY <3>2 DEF TypeOK
      <4>3. /\ pending'[k].target = pending[k].target
            /\ pending'[k].namespaces = pending[k].namespaces
            /\ pending[k] # NoSelection
        BY <2>1, <4>2, ConstantsAssumption DEF Selection
      <4> QED
        BY <4>1, <4>3 DEF ErrorsSelectNothing, NothingUnlessProper
    <3> QED
      BY <2>3, <3>1, <3>2
  <2>5. \A j \in Keys : gpc'[j] = "send" => j # k /\ gpc[j] = "send"
    BY <2>2 DEF TypeOK
  <2>6. ErrorsSelectNothing'
    BY <2>1, <2>4 DEF ErrorsSelectNothing, NothingUnlessProper
  <2>7. ASSUME NEW j \in Keys, gpc'[j] # "send" PROVE gpc[j] # "send"
    BY <1>17, <2>2, <2>7 DEF GetMiss, TypeOK
  <2> QED
    BY <2>1, <2>4, <2>5, <2>6, <2>7 DEF StoredIsPending, ChangeIsFlagged
<1>18. ASSUME NEW k \in Keys, GetList(k) PROVE FlagInv'
  <2> DEFINE f == filter(nsLabels, pending[k].target)
  <2>1. pending[k] \in Selection
    BY <1>18, GetListPending
  <2>2. pending' = [pending EXCEPT ![k] = [pending[k] EXCEPT !.namespaces = f.namespaces,
                                                            !.err = f.err]]
    BY <1>18, GetListPending
  <2>3. NothingUnlessProper(pending'[k])
    BY <2>1, <2>2, FilterOfBadTarget DEF NothingUnlessProper, TypeOK, Selection
  <2>4. ErrorsSelectNothing'
    BY <1>18, <2>2, <2>3, ZenonT(60) DEF GetList, ErrorsSelectNothing, NothingUnlessProper, TypeOK
  <2>5. gpc' = [gpc EXCEPT ![k] = "store"] /\ UNCHANGED <<selections, answer>>
    BY <1>18 DEF GetList
  <2>6. StoredIsPending'
    BY <2>2, <2>5 DEF StoredIsPending, TypeOK
  <2>7. ChangeIsFlagged'
    BY <1>18, <2>5 DEF GetList, ChangeIsFlagged, TypeOK
  <2> QED
    BY <2>4, <2>6, <2>7
<1>19. ASSUME NEW k \in Keys, GetListFails(k) PROVE FlagInv'
  <2>1. gpc[k] = "list" /\ EndGet(k, NoSelection, TRUE) /\ UNCHANGED selections
    BY <1>19 DEF GetListFails
  <2>2. /\ answer' = [answer EXCEPT ![k] = NoSelection]
        /\ gpc'[k] \in {"idle", "get"} /\ \A j \in Keys \ {k} : gpc'[j] = gpc[j]
        /\ \A j \in Keys \ {k} : pending'[j] = pending[j]
        /\ pending'[k] # NoSelection => pending'[k].namespaces = {}
    BY <2>1, EndGetEffect
  <2>3. answer'[k] = NoSelection /\ \A j \in Keys \ {k} : answer'[j] = answer[j]
    BY <2>2 DEF TypeOK
  <2>4. NothingUnlessProper(pending'[k])
    BY <2>2 DEF NothingUnlessProper
  <2>5. ErrorsSelectNothing'
    BY <2>1, <2>2, <2>3, <2>4, ZenonT(60) DEF ErrorsSelectNothing, NothingUnlessProper
  <2>6. ChangeIsFlagged'
    BY <2>1, <2>2, <2>3 DEF ChangeIsFlagged
  <2> QED
    BY <2>1, <2>2, <2>5, <2>6 DEF StoredIsPending
<1>20. ASSUME NEW k \in Keys, GetStore(k) PROVE FlagInv'
  BY <1>20 DEF GetStore, BeginUpdate, recVars, getVars, envVars,
     StoredIsPending, ErrorsSelectNothing, NothingUnlessProper, ChangeIsFlagged,
     TypeOK, Selection
<1>21. ASSUME NEW k \in Keys, GetSend(k) PROVE FlagInv'
  <2>1. /\ gpc[k] = "send" /\ EndGet(k, pending[k], pending[k].err)
        /\ UNCHANGED selections
    BY <1>21 DEF GetSend
  <2>2. pending[k] \in Selection /\ selections[k] = pending[k]
    BY <2>1 DEF TypeOK, StoredIsPending
  <2>3. /\ answer' = [answer EXCEPT ![k] = pending[k]]
        /\ gpc'[k] \in {"idle", "get"} /\ \A j \in Keys \ {k} : gpc'[j] = gpc[j]
        /\ \A j \in Keys \ {k} : pending'[j] = pending[j]
        /\ pending'[k] # NoSelection => pending'[k].namespaces = {}
    BY <2>1, <2>2, EndGetEffect
  <2>4. answer'[k] = selections'[k] /\ \A j \in Keys \ {k} : answer'[j] = answer[j]
    BY <2>1, <2>2, <2>3 DEF TypeOK
  <2>5. NothingUnlessProper(pending'[k]) /\ NothingUnlessProper(answer'[k])
    BY <2>1, <2>3, <2>4 DEF ErrorsSelectNothing, NothingUnlessProper
  <2>6. ErrorsSelectNothing'
    BY <2>1, <2>3, <2>4, <2>5, ZenonT(60) DEF ErrorsSelectNothing, NothingUnlessProper
  <2>7. ChangeIsFlagged'
    BY <2>1, <2>3, <2>4 DEF ChangeIsFlagged
  <2> QED
    BY <2>1, <2>3, <2>6, <2>7 DEF StoredIsPending
<1>22. CASE UNCHANGED vars
  BY <1>22 DEF vars, recVars, getVars, StoredIsPending, ErrorsSelectNothing,
     NothingUnlessProper, ChangeIsFlagged
<1> QED
  BY <1>1, <1>2, <1>3, <1>4, <1>5, <1>6, <1>7, <1>8, <1>9, <1>10, <1>11, <1>12,
     <1>13, <1>14, <1>15, <1>16, <1>17, <1>18, <1>19, <1>20, <1>21, <1>22 DEF
     Next, Environment, Reconcile, Worker

\* AnnounceInv is inductive, relative to TypeOK.
LEMMA AnnounceStep == AnnounceInv /\ TypeOK' /\ [Next]_vars => AnnounceInv'
<1> SUFFICES ASSUME AnnounceInv, TypeOK', [Next]_vars PROVE AnnounceInv'
  OBVIOUS
<1> USE DEF AnnounceInv
<1>1. ASSUME NEW n \in Namespaces, NamespaceEvent(n) PROVE AnnounceInv'
  BY <1>1 DEF NamespaceEvent, recVars, getVars, envVars, StoredIsPending,
     PendingUnflagged, FlagIsAnnounced, HasUpdate, TypeOK, Selection
<1>2. CASE Forward
  <2>1. /\ channel # <<>> /\ channel' = Tail(channel)
        /\ polQueue' = polQueue \cup {Head(channel)}
        /\ UNCHANGED <<selections, rpc, rkey, gpc, pending, want>>
    BY <1>2 DEF Forward, recVars, getVars
  <2>0. channel \in Seq(Keys)
    BY DEF TypeOK
  <2>2. ASSUME NEW i \in DOMAIN channel
        PROVE  \/ channel[i] = Head(channel)
               \/ \E j \in DOMAIN channel' : channel'[j] = channel[i]
    <3>1. CASE i = 1
      BY <2>0, <2>1, <3>1
    <3>2. CASE i # 1
      <4>1. i - 1 \in DOMAIN channel' /\ channel'[i - 1] = channel[i]
        BY <2>0, <2>1, <3>2
      <4> QED
        BY <4>1
    <3> QED
      BY <3>1, <3>2
  <2>3. FlagIsAnnounced'
    BY <2>1, <2>2 DEF FlagIsAnnounced, HasUpdate
  <2> QED
    BY <2>1, <2>3 DEF StoredIsPending, PendingUnflagged
<1>3. CASE Snapshot
  BY <1>3 DEF Snapshot, recVars, getVars, envVars, StoredIsPending,
     PendingUnflagged, FlagIsAnnounced, HasUpdate, TypeOK, Selection
<1>4. CASE SkipEmpty
  BY <1>4 DEF SkipEmpty, recVars, getVars, envVars, StoredIsPending,
     PendingUnflagged, FlagIsAnnounced, HasUpdate, TypeOK, Selection
<1>5. CASE ListNamespaces
  BY <1>5 DEF ListNamespaces, recVars, getVars, envVars, StoredIsPending,
     PendingUnflagged, FlagIsAnnounced, HasUpdate, TypeOK, Selection
<1>6. CASE ListNamespacesFails
  BY <1>6 DEF ListNamespacesFails, recVars, getVars, envVars, StoredIsPending,
     PendingUnflagged, FlagIsAnnounced, HasUpdate, TypeOK, Selection
<1>7. CASE ApplySend
  <2>1. /\ channel' = Append(channel, rkey) /\ rpc = "send"
        /\ UNCHANGED <<selections, polQueue, gpc, pending, want>>
    BY <1>7 DEF ApplySend, EndUpdate, getVars, envVars
  <2>0. channel \in Seq(Keys)
    BY DEF TypeOK
  <2>2. \A i \in DOMAIN channel : i \in DOMAIN channel' /\ channel'[i] = channel[i]
    BY <2>0, <2>1
  <2>3. Len(channel) + 1 \in DOMAIN channel' /\ channel'[Len(channel) + 1] = rkey
    BY <2>0, <2>1
  <2>4. FlagIsAnnounced'
    BY <2>1, <2>2, <2>3 DEF FlagIsAnnounced, HasUpdate
  <2> QED
    BY <2>1, <2>4 DEF StoredIsPending, PendingUnflagged
<1>8. CASE EndReconcile
  BY <1>8 DEF EndReconcile, recVars, getVars, envVars, StoredIsPending,
     PendingUnflagged, FlagIsAnnounced, HasUpdate, TypeOK, Selection
<1>9. ASSUME NEW k \in Keys, EditPolicy(k) PROVE AnnounceInv'
  BY <1>9 DEF EditPolicy, recVars, getVars, envVars, StoredIsPending,
     PendingUnflagged, FlagIsAnnounced, HasUpdate, TypeOK, Selection
<1>10. ASSUME NEW k \in Keys, DeletePolicy(k) PROVE AnnounceInv'
  BY <1>10 DEF DeletePolicy, recVars, getVars, envVars, StoredIsPending,
     PendingUnflagged, FlagIsAnnounced, HasUpdate, TypeOK, Selection
<1>11. ASSUME NEW k \in Keys, ApplyUpdate(k) PROVE AnnounceInv'
  BY <1>11 DEF ApplyUpdate, BeginUpdate, Refreshed, recVars, getVars, envVars,
     StoredIsPending, PendingUnflagged, FlagIsAnnounced, HasUpdate, TypeOK,
     Selection
<1>12. ASSUME NEW k \in Keys, ApplyNothing(k) PROVE AnnounceInv'
  BY <1>12 DEF ApplyNothing, NeedsRefresh, recVars, getVars, envVars,
     StoredIsPending, PendingUnflagged, FlagIsAnnounced, HasUpdate, TypeOK,
     Selection
<1>13. ASSUME NEW k \in Keys, Stop(k) PROVE AnnounceInv'
  BY <1>13 DEF Stop, recVars, getVars, envVars, StoredIsPending,
     PendingUnflagged, FlagIsAnnounced, HasUpdate, TypeOK, Selection
<1>14. ASSUME NEW k \in Keys, SkipEvaluation(k) PROVE AnnounceInv'
  BY <1>14 DEF SkipEvaluation, recVars, getVars, envVars, StoredIsPending,
     PendingUnflagged, FlagIsAnnounced, HasUpdate, TypeOK, Selection,
     ShouldEvaluate
<1>15. ASSUME NEW k \in Keys, BeginEvaluation(k) PROVE AnnounceInv'
  <2>1. want[k] \in Targets
    BY <1>15 DEF BeginEvaluation, TypeOK
  <2>2. /\ gpc' = [gpc EXCEPT ![k] = "get"]
        /\ pending' = [pending EXCEPT ![k] = Asked(want[k])]
        /\ polQueue' = polQueue \ {k}
        /\ UNCHANGED <<selections, channel, rpc, rkey, want>>
    BY <1>15 DEF BeginEvaluation, recVars, envVars
  <2>3. PendingUnflagged'
    BY <2>1, <2>2, AskedType DEF PendingUnflagged, TypeOK
  <2>4. FlagIsAnnounced'
    BY <2>2 DEF FlagIsAnnounced, HasUpdate, TypeOK
  <2> QED
    BY <2>2, <2>3, <2>4 DEF StoredIsPending, TypeOK
<1>16. ASSUME NEW k \in Keys, GetHit(k) PROVE AnnounceInv'
  <2> DEFINE s == [selections[k] EXCEPT !.hasUpdate = FALSE]
  <2>1. /\ selections[k] \in Selection /\ gpc[k] = "get"
        /\ selections' = [selections EXCEPT ![k] = s]
        /\ EndGet(k, s, selections[k].err)
        /\ UNCHANGED <<channel, rpc, rkey, want>>
    BY <1>16 DEF GetHit, Hit, TypeOK, recVars, envVars
  <2>2. s \in Selection /\ ~s.hasUpdate
    BY <2>1 DEF Selection
  <2> HIDE DEF s
  <2>3. /\ gpc'[k] \in {"idle", "get"} /\ \A j \in Keys \ {k} : gpc'[j] = gpc[j]
        /\ \A j \in Keys \ {k} : pending'[j] = pending[j]
        /\ pending'[k] # NoSelection => ~pending'[k].hasUpdate
        /\ polQueue \subseteq polQueue'
    BY <2>1, <2>2, EndGetEffect
  <2>4. ~HasUpdate(k)' /\ \A j \in Keys \ {k} : selections'[j] = selections[j]
    BY <2>1, <2>2 DEF HasUpdate, TypeOK
  <2>5. FlagIsAnnounced'
    BY <2>1, <2>3, <2>4 DEF FlagIsAnnounced, HasUpdate
  <2> QED
    BY <2>3, <2>4, <2>5 DEF StoredIsPending, PendingUnflagged
<1>17. ASSUME NEW k \in Keys, GetMiss(k) PROVE AnnounceInv'
  <2>1. pending[k] \in Selection
    BY <1>17 DEF GetMiss, TypeOK
  <2>2. ~pending[k].hasUpdate
    BY <2>1, ConstantsAssumption DEF PendingUnflagged
  <2>0. \/ pending' = pending
        \/ \E e \in BOOLEAN :
               pending' = [pending EXCEPT ![k] = [pending[k] EXCEPT !.err = e]]
    BY <1>17, <2>1 DEF GetMiss, TypeOK
  <2>3. ~pending'[k].hasUpdate /\ \A j \in Keys \ {k} : pending'[j] = pending[j]
    <3>1. CASE pending' = pending
      BY <2>2, <3>1
    <3>2. ASSUME NEW e \in BOOLEAN,
                 pending' = [pending EXCEPT ![k] = [pending[k] EXCEPT !.err = e]]
          PROVE  ~pending'[k].hasUpdate /\ \A j \in Keys \ {k} : pending'[j] = pending[j]
      <4>1. \A j \in Keys \ {k} : pending'[j] = pending[j]
        BY <3>2 DEF TypeOK
      <4>2. pending'[k] = [pending[k] EXCEPT !.err = e]
        BY <3>2 DEF TypeOK
      <4> QED
        BY <2>1, <2>2, <4>1, <4>2 DEF Selection
    <3> QED
      BY <2>0, <3>1, <3>2
  <2>4. PendingUnflagged'
    BY <2>3 DEF PendingUnflagged, TypeOK
  <2>5. \A j \in Keys : /\ gpc'[j] = "send" => j # k /\ gpc[j] = "send"
                        /\ gpc[j] # "idle" => gpc'[j] # "idle"
    BY <1>17 DEF GetMiss, TypeOK
  <2>6. UNCHANGED <<selections, channel, polQueue, rpc, rkey, want>>
    BY <1>17 DEF GetMiss, recVars, envVars
  <2> QED
    BY <2>3, <2>4, <2>5, <2>6 DEF StoredIsPending, FlagIsAnnounced, HasUpdate
<1>18. ASSUME NEW k \in Keys, GetList(k) PROVE AnnounceInv'
  <2> DEFINE f == filter(nsLabels, pending[k].target)
  <2>1. pending[k] \in Selection
    BY <1>18, GetListPending
  <2>0. pending' = [pending EXCEPT ![k] = [pending[k] EXCEPT !.namespaces = f.namespaces,
                                                            !.err = f.err]]
    BY <1>18, GetListPending
  <2>2. ~pending[k].hasUpdate
    BY <2>1, ConstantsAssumption DEF PendingUnflagged
  <2>3. ~pending'[k].hasUpdate /\ \A j \in Keys \ {k} : pending'[j] = pending[j]
    BY <2>0, <2>1, <2>2 DEF TypeOK, Selection
  <2>4. PendingUnflagged'
    BY <2>3 DEF PendingUnflagged, TypeOK
  <2>5. \A j \in Keys : /\ gpc'[j] = "send" => j # k /\ gpc[j] = "send"
                        /\ gpc[j] # "idle" => gpc'[j] # "idle"
    BY <1>18 DEF GetList, TypeOK
  <2>6. UNCHANGED <<selections, channel, polQueue, rpc, rkey, want>>
    BY <1>18 DEF GetList, recVars, envVars
  <2> QED
    BY <2>3, <2>4, <2>5, <2>6 DEF StoredIsPending, FlagIsAnnounced, HasUpdate
<1>19. ASSUME NEW k \in Keys, GetListFails(k) PROVE AnnounceInv'
  <2>1. /\ gpc[k] = "list" /\ EndGet(k, NoSelection, TRUE)
        /\ UNCHANGED <<selections, channel, rpc, rkey, want>>
    BY <1>19 DEF GetListFails, recVars, envVars
  <2>2. /\ gpc'[k] \in {"idle", "get"} /\ \A j \in Keys \ {k} : gpc'[j] = gpc[j]
        /\ \A j \in Keys \ {k} : pending'[j] = pending[j]
        /\ pending'[k] # NoSelection => ~pending'[k].hasUpdate
        /\ polQueue \subseteq polQueue' /\ k \in polQueue'
    BY <2>1, EndGetEffect
  <2>3. FlagIsAnnounced'
    BY <2>1, <2>2 DEF FlagIsAnnounced, HasUpdate
  <2> QED
    BY <2>1, <2>2, <2>3 DEF StoredIsPending, PendingUnflagged
<1>20. ASSUME NEW k \in Keys, GetStore(k) PROVE AnnounceInv'
  BY <1>20 DEF GetStore, BeginUpdate, recVars, getVars, envVars,
     StoredIsPending, PendingUnflagged, FlagIsAnnounced, HasUpdate, TypeOK,
     Selection
<1>21. ASSUME NEW k \in Keys, GetSend(k) PROVE AnnounceInv'
  <2>1. /\ channel' = Append(channel, k) /\ gpc[k] = "send"
        /\ EndGet(k, pending[k], pending[k].err)
        /\ UNCHANGED <<selections, rpc, rkey, want>>
    BY <1>21 DEF GetSend, EndUpdate, recVars, envVars
  <2>0. channel \in Seq(Keys)
    BY DEF TypeOK
  <2>2. \A i \in DOMAIN channel : i \in DOMAIN channel' /\ channel'[i] = channel[i]
    BY <2>0, <2>1
  <2>3. pending[k] \in Selection /\ ~HasUpdate(k)
    BY <2>1 DEF HasUpdate, StoredIsPending, PendingUnflagged, TypeOK
  <2>4. /\ gpc'[k] \in {"idle", "get"} /\ \A j \in Keys \ {k} : gpc'[j] = gpc[j]
        /\ \A j \in Keys \ {k} : pending'[j] = pending[j]
        /\ pending'[k] # NoSelection => ~pending'[k].hasUpdate
        /\ polQueue \subseteq polQueue'
    BY <2>1, <2>3, EndGetEffect
  <2>5. FlagIsAnnounced'
    BY <2>1, <2>2, <2>3, <2>4 DEF FlagIsAnnounced, HasUpdate
  <2> QED
    BY <2>1, <2>4, <2>5 DEF StoredIsPending, PendingUnflagged
<1>22. CASE UNCHANGED vars
  BY <1>22 DEF vars, recVars, getVars, StoredIsPending, PendingUnflagged,
     FlagIsAnnounced, HasUpdate
<1> QED
  BY <1>1, <1>2, <1>3, <1>4, <1>5, <1>6, <1>7, <1>8, <1>9, <1>10, <1>11, <1>12,
     <1>13, <1>14, <1>15, <1>16, <1>17, <1>18, <1>19, <1>20, <1>21, <1>22 DEF
     Next, Environment, Reconcile, Worker

\* A selection that differs from what the policy was last given is flagged.
THEOREM ChangesAreFlagged == Spec => []ChangeIsFlagged
<1>1. Init => FlagInv
  BY TypeCorrectInit DEF Init, NoSelections, FlagInv, StoredIsPending, ErrorsSelectNothing,
     NothingUnlessProper, ChangeIsFlagged
<1>2. FlagInv /\ [Next]_vars => FlagInv'
  BY FlagStep, TypeOKStep DEF FlagInv
<1>3. FlagInv => ChangeIsFlagged
  BY DEF FlagInv
<1> QED
  BY <1>1, <1>2, <1>3, PTL DEF Spec

\* A flag that is raised wakes its policy up: no wake-up is lost on the way from
\* the map through the bounded channel to the work queue.
THEOREM FlagsAreAnnounced == Spec => []FlagIsAnnounced
<1>1. Init => AnnounceInv
  BY TypeCorrectInit DEF Init, NoSelections, AnnounceInv, StoredIsPending, PendingUnflagged,
     FlagIsAnnounced, HasUpdate
<1>2. AnnounceInv /\ [Next]_vars => AnnounceInv'
  BY AnnounceStep, TypeOKStep DEF AnnounceInv
<1>3. AnnounceInv => FlagIsAnnounced
  BY DEF AnnounceInv
<1> QED
  BY <1>1, <1>2, <1>3, PTL DEF Spec
=============================================================================
