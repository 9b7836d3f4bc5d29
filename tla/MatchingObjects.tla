-------------------------- MODULE MatchingObjects --------------------------
(***************************************************************************)
(* DesiredObjects with the comparison of MergeSpecs: what it finds to      *)
(* match, and what updates come of it.                                     *)
(***************************************************************************)
EXTENDS MergeSpecs, DesiredObjects

Compared(object) == HandleKeys(tmpl.def, object, tmpl.kind, tmpl.ctype, tmpl.mdctype)
Differs(c) == c.err \/ c.update \/ c.statusMismatch

Objects == {cluster[n][m].content : <<n, m>> \in {p \in (DOMAIN cluster) \X Names :
                                                   cluster[p[1]][p[2]] # None}}

\* A list with an item that has a zero value in one of its fields.
ZeroItems(v) == IsList(v) /\ \E i \in DOMAIN v.items :
                                 IsMap(v.items[i]) /\ \E k \in DOMAIN v.items[i].fields :
                                                         IsZero(v.items[i].fields[k])

\* An object in which handleKeys finds no difference has every field of the
\* template, lists in any order, each item of the template with one of its own;
\* and so have the objects that a mustnothave template with only an object
\* selector deletes, whatever the comparison with other objects left in the
\* template.  The exception: with mustonlyhave, an item is equal to one that has as many
\* other fields when its own are zero (checkFieldsWithSort).
MatchIsSound ==
    /\ pc = "start" =>
          \A o \in Objects :
              \/ Differs(Compared(o))
              \/ HasAll(o, tmpl.def)
              \/ tmpl.ctype = "mustonlyhave" /\ \E k \in DOMAIN o : ZeroItems(o[k])
    /\ \A o \in kept : HasAll(o.content, tmpl.def)

Updated(c, object) == Stored(c.merged, object, tmpl.kind)
Rests(c, object) == ~c.err /\ (~c.update \/ Updated(c, object) = object)
RestsAfter(object) == Rests(Compared(object), object)
ConvergesFrom(c, object) == ~c.err /\ c.update => RestsAfter(Updated(c, object))

\* One update is enough: the object as the API server stores it matches, or the
\* dry run shows that another update changes nothing.  Otherwise an enforced
\* policy would update the object for ever.
Converges == pc = "start" => \A o \in Objects : ConvergesFrom(Compared(o), o)
=============================================================================
