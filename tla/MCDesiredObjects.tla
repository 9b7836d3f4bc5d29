-------------------------- MODULE MCDesiredObjects --------------------------
(* Small instances of DesiredObjects and MatchingObjects. *)
EXTENDS MatchingObjects

A == 97
B == 98
Meta(labels, annotations) == Map([labels |-> Map(labels), annotations |-> Map(annotations)])
NoMeta == Map(<<>>)

Base == [namespaced |-> TRUE, ns |-> "", name |-> "", selected |-> {}, selector |-> "none",
         templated |-> FALSE, uses |-> {}, skips |-> {}, ctype |-> "musthave", mdctype |-> "",
         kind |-> "", def |-> "metadata" :> NoMeta]

-----------------------------------------------------------------------------
(* Values: one template and one object, to compare and merge *)

Scalars == {Nil, Number(0), Number(1), Str(0), Str(1), Str(11), Str(20)}
Named(n, f) == Map((NameKey :> Str(n)) @@ f)
\* items without a name, with zero values among them, and items with one
ZeroMaps == {Map(A :> Number(1)), Map(A :> Number(0)), Map(B :> Number(1)),
             Map(A :> Number(1) @@ B :> Number(0))}
Other == {Number(1), Number(2), Named(20, A :> Number(1)), Named(20, A :> Number(2)),
          Named(21, A :> Number(1))}
Singles == {List(<<>>)} \cup {List(<<x>>) : x \in ZeroMaps \cup Other}
Doubles == {List(<<x, y>>) : x, y \in Other}
ZeroDoubles == {List(<<x, y>>) : x, y \in ZeroMaps}
ZeroTriples == {List(<<x, y, z>>) : x, y, z \in ZeroMaps}
Maps == {Map(<<>>), Map(A :> Number(1)), Map(A :> Number(0)), Map(A :> Str(20)),
         Map(A :> List(<<Number(1)>>)), Map(B :> Number(1))}
Fields == Scalars \cup Maps

OneObject(content) ==
    [n \in Namespaces \cup {ClusterScope} |->
        [m \in Names |-> IF n = "n1" /\ m = "a"
                         THEN [id |-> <<n, m>>, labelled |-> FALSE, content |-> content]
                         ELSE None]]

Pair(def, content, ctype, mdctype, kind) ==
    [tmpl |-> [Base EXCEPT !.ns = "n1", !.name = "a", !.def = def, !.ctype = ctype,
                           !.mdctype = mdctype, !.kind = kind],
     cluster |-> OneObject(content)]

With(spec) == [metadata |-> NoMeta, spec |-> spec]
\* a field inside a field, a list inside a field, and a list that is a field
NestedPairs ==
    {Pair(With(Map(A :> t)), With(Map(A :> e)), c, "", "") :
        t \in Fields, e \in Fields, c \in {"musthave", "mustonlyhave"}}
    \cup {Pair(With(Map(A :> t)), With(Map(A :> e @@ B :> Number(1))), "musthave", "", "") :
        t \in Fields, e \in Fields}
ListPairs ==
    {Pair(With(Map(A :> t)), With(Map(A :> e)), "musthave", "", "") :
        t \in Singles \cup Doubles, e \in Doubles}
    \cup {Pair(With(Map(A :> t)), With(Map(A :> e)), "musthave", "", "") :
        t \in ZeroDoubles, e \in ZeroTriples}
    \cup {Pair(With(t), With(e), c, "", "") :
        t \in Singles, e \in Singles, c \in {"musthave", "mustonlyhave"}}
TopPairs ==
    {Pair(With(t), With(e), c, "", "") :
        t \in Fields, e \in Fields, c \in {"musthave", "mustonlyhave"}}
    \cup {Pair([metadata |-> NoMeta, spec |-> Number(1), status |-> t],
               [metadata |-> NoMeta, spec |-> Number(1), status |-> e, secrets |-> List(<<>>)],
               c, "", k) :
        t \in Maps, e \in Maps, c \in {"musthave", "mustonlyhave"}, k \in {"", "ServiceAccount"}}

Texts == {<<>>, A :> Str(20), A :> Str(21), A :> Str(20) @@ B :> Str(20)}
Annotations == Texts \cup {LastApplied :> Str(20), SccKey :> Str(20),
                           LastApplied :> Str(20) @@ A :> Str(20) @@ SccKey :> Str(20)}
MetaPairs ==
    {Pair("metadata" :> Meta(l, t), "metadata" :> Meta(k, e), "musthave", md, kind) :
        l \in {<<>>, A :> Str(20)}, k \in {<<>>, A :> Str(21)}, t \in Annotations, e \in Annotations,
        md \in {"", "mustonlyhave"}, kind \in {"", "Namespace"}}
SecretPairs ==
    {Pair([metadata |-> NoMeta, stringData |-> Map(t)],
          [metadata |-> NoMeta, data |-> Map([k \in DOMAIN e |-> Base64(e[k].n)])],
          "musthave", "", "Secret") : t \in Texts \ {<<>>}, e \in Texts}

-----------------------------------------------------------------------------
(* Selection: templates of every form, over two namespaces and two names *)

Wants == [metadata |-> NoMeta, spec |-> List(<<Named(20, <<>>)>>)]
Contents == {[metadata |-> NoMeta, spec |-> List(<<Named(20, A :> Number(i))>>)] : i \in {1, 2}}
            \cup {[metadata |-> NoMeta, spec |-> List(<<>>)],
                  With(Map(A :> Number(1) @@ B :> Number(1)))}
Found == [labelled : BOOLEAN, content : Contents]
Clusters ==
    {[n \in Namespaces \cup {ClusterScope} |->
        [m \in Names |->
           LET o == IF n = "n2" THEN p[3] ELSE IF m = "a" THEN p[1] ELSE p[2]
           IN  IF o = None \/ (n = "n2" /\ m = "b") THEN None
               ELSE [id |-> <<n, m>>, labelled |-> o.labelled, content |-> o.content]]] :
        p \in (Found \cup {None}) \X {None, [labelled |-> TRUE, content |-> Wants],
                                      [labelled |-> TRUE, content |-> CHOOSE c \in Contents : TRUE]}
              \X {None, [labelled |-> TRUE, content |-> Wants]}}

Both == [Base EXCEPT !.selected = {"n1", "n2"}, !.def = Wants]
Using(t, uses) == [t EXCEPT !.templated = TRUE, !.uses = uses]
Selecting == [Both EXCEPT !.selector = "labels"]
SelectTemplates ==
    {Base, Both, [Both EXCEPT !.selected = {"n1"}], [Both EXCEPT !.name = "a"],
     [Both EXCEPT !.selector = "bad"], Selecting, [Selecting EXCEPT !.name = "a"],
     Using([Both EXCEPT !.name = "a"], {"object"}),
     Using([Both EXCEPT !.name = "fixed"], {"ns"}), Using([Both EXCEPT !.name = "fixed"], {}),
     Using([Both EXCEPT !.ns = "own", !.skips = {"n1"}], {"ns"}),
     Using([Both EXCEPT !.name = "own"], {"name"}),
     Using([Selecting EXCEPT !.name = "own", !.skips = {"a"}], {"name"}),
     Using([Selecting EXCEPT !.ns = "own"], {"ns"}),
     Using([Selecting EXCEPT !.name = "own"], {"name", "ns", "object"}),
     Using([Selecting EXCEPT !.name = "fixed"], {}),
     [Selecting EXCEPT !.ctype = "mustnothave"],
     [Selecting EXCEPT !.ctype = "mustnothave", !.def = With(Map(A :> Number(1)))],
     [Selecting EXCEPT !.ctype = "mustnothave", !.selected = {"n1"}],
     Using([Base EXCEPT !.namespaced = FALSE, !.name = "a"], {"object"}),
     Using([Base EXCEPT !.namespaced = FALSE], {"ns"}),
     [Base EXCEPT !.namespaced = FALSE, !.selector = "labels"],
     Using([Base EXCEPT !.ns = "n1", !.name = "a"], {"object", "name", "ns"})}
Selections == [tmpl : SelectTemplates, cluster : Clusters]

AllScenarios == NestedPairs \cup ListPairs \cup TopPairs \cup MetaPairs \cup SecretPairs
                \cup Selections
=============================================================================
