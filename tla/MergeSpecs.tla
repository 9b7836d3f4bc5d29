----------------------------- MODULE MergeSpecs -----------------------------
(***************************************************************************)
(* How a template is compared with an object and merged into it:           *)
(* handleKeys, handleSingleKey, mergeSpecs, mergeArrays and                *)
(* equalObjWithSort with what they call, and buildNameList.  Pure operators*)
(* on JSON values.                                                         *)
(*                                                                         *)
(* A value is nil, a number, a string, a map or a list.  The keys of maps  *)
(* inside the top-level fields are numbers, so that printed values can be  *)
(* put in order.  Numbers are integers, which the copy of the template     *)
(* through JSON keeps (util/json of apimachinery decodes them as int64).   *)
(* Of strings, 1 .. 19 parse as quantities, n and n + 10 as the same one;  *)
(* 0 is the empty string.  Objects leave out apiVersion and kind, which    *)
(* are not compared, and the kind is given beside them.                    *)
(***************************************************************************)
EXTENDS Integers, Sequences, FiniteSets, TLC
LOCAL INSTANCE SequencesExt

CONSTANTS NameKey, LastApplied, SccKey

Nil == [type |-> "nil"]
Number(n) == [type |-> "int", n |-> n]
Str(n) == [type |-> "str", n |-> n]
Base64(n) == [type |-> "base64", n |-> n]
Map(f) == [type |-> "map", fields |-> f]
List(s) == [type |-> "list", items |-> s]

IsMap(v) == v.type = "map"
IsList(v) == v.type = "list"
Get(f, k) == IF k \in DOMAIN f THEN f[k] ELSE Nil
Restricted(f, keys) == [k \in DOMAIN f \cap keys |-> f[k]]

\* reflect.Zero of the value's type prints as the value does.
IsZero(v) == CASE v.type = "nil" -> FALSE
               [] IsMap(v) -> DOMAIN v.fields = {}
               [] IsList(v) -> v.items = <<>>
               [] OTHER -> v.n = 0

-----------------------------------------------------------------------------
(* Printed values, as sequences that are ordered as the text is *)

Before(s, t) ==
    \E i \in 0 .. Len(s) :
        /\ i < Len(t)
        /\ SubSeq(s, 1, i) = SubSeq(t, 1, i)
        /\ i = Len(s) \/ s[i + 1] < t[i + 1]

Joined(parts) == FoldLeft(LAMBDA text, part : text \o <<32>> \o part, <<>>, parts)

RECURSIVE Printed(_, _)
Printed(v, sorted) ==
    CASE v.type = "nil" -> <<60>>
      [] v.type \in {"int", "str"} -> IF v.type = "str" /\ v.n = 0 THEN <<>> ELSE <<48 + v.n>>
      [] v.type = "base64" -> <<122, 48 + v.n>>
      [] IsMap(v) ->
           LET keys == SortSeq(SetToSeq(DOMAIN v.fields), <)
           IN  <<109>> \o Joined([i \in DOMAIN keys |->
                             <<keys[i], 58>> \o Printed(v.fields[keys[i]], sorted)]) \o <<93>>
      [] IsList(v) ->
           LET items == [i \in DOMAIN v.items |-> Printed(v.items[i], sorted)]
           IN  <<91>> \o Joined(IF sorted THEN SortSeq(items, Before) ELSE items) \o <<93>>

Sprint(v) == Printed(v, FALSE)
SortAndSprint(v) == Printed(v, TRUE)

-----------------------------------------------------------------------------
(* Equality *)

RECURSIVE CheckFieldsWithSort(_, _, _), CheckListsMatch(_, _)

IsQuantity(v) == v.n \in 1 .. 19

CheckFieldsWithSort(mergedObj, oldObj, zeroValueEqualsNil) ==
    /\ Cardinality(DOMAIN mergedObj) >= Cardinality(DOMAIN oldObj)
    /\ \A k \in DOMAIN mergedObj :
          LET mVal == mergedObj[k]
              oVal == Get(oldObj, k)
          IN  CASE IsMap(mVal) ->
                     IF IsMap(oVal)
                     THEN CheckFieldsWithSort(mVal.fields, oVal.fields, zeroValueEqualsNil)
                     ELSE zeroValueEqualsNil /\ IsZero(mVal)
                [] IsList(mVal) ->
                     IF IsList(oVal) THEN CheckListsMatch(oVal.items, mVal.items)
                     ELSE IsZero(mVal)
                [] mVal.type = "str" ->
                     IF IsQuantity(mVal)
                     THEN oVal.type = "str" /\ IsQuantity(oVal) /\ oVal.n % 10 = mVal.n % 10
                     ELSE k \in DOMAIN oldObj /\ Sprint(oVal) = Sprint(mVal)
                [] OTHER -> IF oVal = Nil /\ mVal # Nil THEN IsZero(mVal)
                            ELSE Sprint(oVal) = Sprint(mVal)

\* Both lists are sorted, and compared item by item.
CheckListsMatch(oldVal, mergedVal) ==
    LET Sorted(s) == SortSeq(s, LAMBDA x, y : Before(SortAndSprint(x), SortAndSprint(y)))
        SameItem(old, merged) ==
            IF IsMap(old) THEN IsMap(merged) /\ CheckFieldsWithSort(merged.fields, old.fields, TRUE)
            ELSE Sprint(old) = Sprint(merged)
        SameItems(old, merged) == \A i \in DOMAIN old : SameItem(old[i], merged[i])
    IN  /\ Len(mergedVal) = Len(oldVal)
        /\ SameItems(Sorted(oldVal), Sorted(mergedVal))

EqualObjWithSort(mergedObj, oldObj, zeroValueEqualsNil) ==
    CASE IsMap(mergedObj) ->
           IsMap(oldObj)
           /\ CheckFieldsWithSort(mergedObj.fields, oldObj.fields, zeroValueEqualsNil)
      [] IsList(mergedObj) ->
           \/ IsZero(mergedObj) /\ oldObj = Nil
           \/ IsList(oldObj) /\ CheckListsMatch(mergedObj.items, oldObj.items)
      [] OTHER ->
           IF zeroValueEqualsNil /\ oldObj = Nil /\ mergedObj # Nil THEN IsZero(mergedObj)
           ELSE IF zeroValueEqualsNil /\ mergedObj = Nil /\ oldObj # Nil THEN IsZero(oldObj)
           ELSE Sprint(mergedObj) = Sprint(oldObj)

-----------------------------------------------------------------------------
(* Merging *)

RECURSIVE MergeSpecsHelper(_, _, _, _), MergeArrays(_, _, _, _)

\* Mutant: the object's value wins over the template's.
MergeSpecsHelperKeepsOld(templateVal, existingVal, ctype, zeroValueEqualsNil) ==
    IF IsMap(templateVal) /\ IsMap(existingVal)
    THEN Map(existingVal.fields @@ templateVal.fields)
    ELSE templateVal

MergeSpecsHelper(templateVal, existingVal, ctype, zeroValueEqualsNil) ==
    CASE IsMap(templateVal) /\ IsMap(existingVal) ->
           LET t == templateVal.fields
               e == existingVal.fields
           IN  Map([k \in DOMAIN t \cap DOMAIN e |->
                       MergeSpecsHelper(t[k], e[k], ctype, zeroValueEqualsNil)] @@ t @@ e)
      [] IsList(templateVal) /\ IsList(existingVal) /\ ~IsZero(existingVal) ->
           List(MergeArrays(templateVal.items, existingVal.items, ctype, zeroValueEqualsNil))
      [] templateVal = Nil /\ IsMap(existingVal) -> existingVal
      [] OTHER -> templateVal

CompareSpecs(newSpec, oldSpec, ctype, zeroValueEqualsNil) ==
    IF ctype = "mustonlyhave" THEN newSpec
    ELSE MergeSpecsHelper(newSpec, oldSpec, ctype, zeroValueEqualsNil)

\* An item of the template, merged into an item of the object.  A template item
\* that is no map is lost beside a map: an empty map stands for it.
MergedItem(val1, val2, ctype, zeroValueEqualsNil) ==
    CASE ~IsMap(val2) -> val1
      [] IsMap(val2) /\ ~IsMap(val1) -> Map(<<>>)
      [] OTHER -> CompareSpecs(val1, val2, ctype, zeroValueEqualsNil)

SameNamedObjects(val1, val2) ==
    /\ IsMap(val1) /\ IsMap(val2)
    /\ LET name == Get(val2.fields, NameKey)
       IN  name.type = "str" /\ name.n # 0 /\ Get(val1.fields, NameKey) = name

\* Mutant: an item of the object is appended whether or not it was matched.
MergeArraysAppends(desiredArr, existingArr, ctype, zeroValueEqualsNil) ==
    IF ctype = "mustonlyhave" THEN desiredArr ELSE desiredArr \o existingArr

\* Each item of the object, in order, takes the first items of the template
\* that match it, as many as there are of it in the object, and is appended
\* when too few do.
MergeArrays(desiredArr, existingArr, ctype, zeroValueEqualsNil) ==
    LET Same(i, j) == Sprint(existingArr[i]) = Sprint(existingArr[j])
        Merged(d, x) == MergedItem(desiredArr[d], existingArr[x], ctype, zeroValueEqualsNil)
        Matches(d, x) == \/ SameNamedObjects(desiredArr[d], existingArr[x])
                         \/ EqualObjWithSort(Merged(d, x), existingArr[x], zeroValueEqualsNil)
        First(free, count) == {d \in free : Cardinality({c \in free : c < d}) < count}
        Write(acc, x, count, taken) ==
            [written |-> acc.written \cup taken,
             arr |-> [d \in DOMAIN acc.arr |-> IF d \in taken THEN Merged(d, x) ELSE acc.arr[d]]
                     \o [i \in 1 .. count - Cardinality(taken) |-> existingArr[x]]]
        Take(acc, x, count) ==
            Write(acc, x, count,
                  First({d \in DOMAIN desiredArr : d \notin acc.written /\ Matches(d, x)}, count))
        Step(acc, x) == Take(acc, x, Cardinality({y \in DOMAIN existingArr : Same(x, y)}))
        firsts == SelectSeq([x \in DOMAIN existingArr |-> x],
                            LAMBDA x : \A y \in 1 .. x - 1 : ~Same(x, y))
    IN  IF ctype = "mustonlyhave" THEN desiredArr
        ELSE FoldLeft(Step, [written |-> {}, arr |-> desiredArr], firsts).arr

-----------------------------------------------------------------------------
(* Metadata *)

FormatMetadata(metadata) ==
    LET md == Restricted(metadata, {"labels", "annotations"})
    IN  [k \in DOMAIN md |->
           IF k = "annotations" /\ IsMap(md[k])
           THEN Map(Restricted(md[k].fields, DOMAIN md[k].fields \ {LastApplied}))
           ELSE md[k]]

\* Namespaces keep the SCC annotations they have.
FmtMetadataForCompare(merged, existing, keepSCC) ==
    LET m == FormatMetadata(merged)
        e == Restricted(FormatMetadata(existing), DOMAIN m)
        scc == IF {"annotations"} \subseteq DOMAIN e THEN Restricted(e["annotations"].fields, {SccKey})
               ELSE <<>>
    IN  [existing |-> e,
         merged |-> IF keepSCC /\ "annotations" \in DOMAIN m
                    THEN [m EXCEPT !["annotations"] = Map(@.fields @@ scc)] ELSE m]

-----------------------------------------------------------------------------
(* The fields of an object *)

\* What stringData is compared with: the data of the Secret, decoded.
DecodedData(existingObj) ==
    LET data == IF "data" \in DOMAIN existingObj THEN existingObj["data"].fields ELSE <<>>
    IN  Map([k \in DOMAIN data |-> Str(data[k].n)])

\* The field as it would be, from the template's and the object's.
MergedValue(desired, existing, ctype, zeroValueEqualsNil) ==
    CASE desired.type # existing.type -> desired
      [] desired.type = existing.type /\ IsList(desired) ->
           List(MergeArrays(desired.items, existing.items, ctype, zeroValueEqualsNil))
      [] desired.type = existing.type /\ IsMap(desired) ->
           CompareSpecs(desired, existing, ctype, zeroValueEqualsNil)
      [] OTHER -> desired

\* The comparison of the two.  mergeArrays writes the merged items into the list
\* of the template itself when that is a field of its own: the template is not
\* the same afterwards.
ComparedKey(key, desiredObj, existingObj, kind, value, existing, zeroValueEqualsNil) ==
    LET md == FmtMetadataForCompare(value.fields, existing.fields, kind = "Namespace")
        Result(merged, old) ==
            [err |-> FALSE, merged |-> merged,
             desired |-> [desiredObj EXCEPT ![key] =
                            IF IsList(value) THEN List(SubSeq(value.items, 1, Len(@.items))) ELSE @],
             update |-> ~EqualObjWithSort(merged, old, zeroValueEqualsNil)]
    IN  IF key = "metadata" THEN Result(Map(md.merged), Map(md.existing))
        ELSE Result(value, IF key = "stringData" /\ kind = "Secret" THEN DecodedData(existingObj)
                           ELSE existing)

HandleSingleKey(key, desiredObj, existingObj, kind, ctype, zeroValueEqualsNil) ==
    LET desired == IF key = "metadata" THEN Map(FormatMetadata(desiredObj[key].fields))
                   ELSE desiredObj[key]
        existing == Get(existingObj, key)
    IN  IF desired.type \in {"list", "map"} /\ existing.type \notin {desired.type, "nil"}
        THEN [err |-> TRUE, update |-> FALSE, merged |-> Nil, desired |-> desiredObj]
        ELSE ComparedKey(key, desiredObj, existingObj, kind,
                         MergedValue(desired, existing, ctype, zeroValueEqualsNil), existing,
                         zeroValueEqualsNil)

\* Fields of a ServiceAccount that Kubernetes manages.
ManagedKeys(kind) == IF kind = "ServiceAccount" THEN {"secrets", "imagePullSecrets"} ELSE {}

\* What the fields' results make of the object; metadata is set without its empty
\* maps, and the fields that the template does not have are dropped, if they may
\* not be there.
KeysHandled(result, existingObj, extra) ==
    LET Set(merged) == Map([f \in {g \in DOMAIN merged.fields : ~IsZero(merged.fields[g])} |->
                              merged.fields[f]])
    IN  IF \E k \in DOMAIN result : result[k].err
        THEN [err |-> TRUE, update |-> TRUE, statusMismatch |-> FALSE, merged |-> existingObj]
        ELSE [err |-> FALSE,
              update |-> extra # {} \/ \E k \in DOMAIN result \ {"status"} : result[k].update,
              statusMismatch |-> "status" \in DOMAIN result /\ result["status"].update,
              merged |-> [k \in (DOMAIN existingObj \cup DOMAIN result) \ extra |->
                            CASE k \notin DOMAIN result -> existingObj[k]
                              [] k \in DOMAIN result /\ k = "metadata" -> Set(result[k].merged)
                              [] OTHER -> result[k].merged]]

HandleKeys(desiredObj, existingObj, kind, compType, mdCompType) ==
    KeysHandled([k \in DOMAIN desiredObj |->
                   HandleSingleKey(k, desiredObj, existingObj, kind,
                                   IF k = "metadata" /\ mdCompType # "" THEN mdCompType
                                   ELSE compType, FALSE)],
                existingObj,
                IF compType = "mustonlyhave"
                THEN (DOMAIN existingObj \ DOMAIN desiredObj)
                     \ ({"status", "metadata"} \cup ManagedKeys(kind))
                ELSE {})

\* The names of the objects, in order, in which no field differs.  The template
\* is the one that the comparison with the object before left behind.
BuildNameList(desiredObj, ctype, objects) ==
    LET Noted(result, names, name) ==
            [desired |-> [k \in DOMAIN result |-> result[k].desired[k]],
             names |-> IF \E k \in DOMAIN result : result[k].err \/ result[k].update THEN names
                       ELSE names \cup {name}]
        AddName(acc, o) ==
            Noted([k \in DOMAIN acc.desired |->
                     HandleSingleKey(k, acc.desired, o.content, "", ctype, TRUE)],
                  acc.names, o.name)
    IN  FoldLeft(AddName, [desired |-> desiredObj, names |-> {}], objects).names

-----------------------------------------------------------------------------
(* The API server *)

\* Fields without a value are dropped.
RECURSIVE Normal(_)
Normal(v) ==
    CASE IsMap(v) -> Map([k \in {f \in DOMAIN v.fields : v.fields[f] # Nil} |-> Normal(v.fields[k])])
      [] IsList(v) -> List([i \in DOMAIN v.items |-> Normal(v.items[i])])
      [] OTHER -> v

\* An update leaves the status alone, and stringData ends up in data.
Stored(obj, old, kind) ==
    LET encoded == IF kind = "Secret" /\ "stringData" \in DOMAIN obj
                   THEN [k \in DOMAIN obj["stringData"].fields |->
                           Base64(obj["stringData"].fields[k].n)]
                   ELSE <<>>
        data == encoded @@ (IF "data" \in DOMAIN obj THEN obj["data"].fields ELSE <<>>)
        rest == [k \in {f \in DOMAIN obj \ {"status", "stringData", "data"} : obj[f] # Nil} |->
                   Normal(obj[k])]
    IN  rest @@ (IF DOMAIN data = {} THEN <<>> ELSE "data" :> Map(data))
             @@ Restricted(old, {"status"})

-----------------------------------------------------------------------------
(* The reference *)

\* What an object has to have for the template: the reference for the merge.
\* Zero values may be missing.
RECURSIVE Has(_, _)
Has(e, t) ==
    CASE t = Nil \/ (e = Nil /\ IsZero(t)) -> TRUE
      [] IsMap(t) -> IsMap(e) /\ \A k \in DOMAIN t.fields : Has(Get(e.fields, k), t.fields[k])
      [] IsList(t) ->
           /\ IsList(e) /\ Len(t.items) <= Len(e.items)
           /\ \E f \in [DOMAIN t.items -> DOMAIN e.items] :
                 /\ \A i, j \in DOMAIN f : i # j => f[i] # f[j]
                 /\ \A i \in DOMAIN f : Has(e.items[f[i]], t.items[i])
      [] OTHER -> \/ Sprint(e) = Sprint(t)
                  \/ e.type = "str" /\ t.type = "str" /\ IsQuantity(e) /\ IsQuantity(t)
                     /\ e.n % 10 = t.n % 10

HasAll(object, def) ==
    \A k \in DOMAIN def :
        Has(CASE k = "stringData" -> DecodedData(object)
                   [] OTHER -> Get(object, k),
                 IF k = "metadata" THEN Map(FormatMetadata(def[k].fields)) ELSE def[k])
=============================================================================
