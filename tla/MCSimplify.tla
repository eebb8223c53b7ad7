----------------------------- MODULE MCSimplify -----------------------------
(***************************************************************************)
(* Documents written as trees, and the tables of nodes made of them: all   *)
(* arrays of one or two elements, each a scalar, an empty or short array,  *)
(* an object of one or two fields, or one of a few deeper values.          *)
(***************************************************************************)
EXTENDS Simplify

CONSTANTS Few,          \* the kinds of scalars in most documents
          FewOptions    \* the options of the call

(* A tree is a kind, the trees below it, and the keys of its fields. *)
Scalar1(kind) == [kind |-> kind, sub |-> <<>>, keys |-> <<>>]
Arr(s)        == [kind |-> "ARRAY", sub |-> s, keys |-> <<>>]
Obj(ks, s)    == [kind |-> "OBJECT", sub |-> s, keys |-> ks]

RECURSIVE Size(_), Table(_, _)
Size(t) == 1 + FoldLeft(LAMBDA a, b : a + Size(b), 0, t.sub)

(* The table of a tree whose root is node n. *)
Table(t, n) ==
    LET At(k) == n + 1 + FoldLeft(LAMBDA a, b : a + Size(b), 0, SubSeq(t.sub, 1, k - 1))
        below == [k \in DOMAIN t.sub |-> Table(t.sub[k], At(k))]
    IN  [kind  |-> <<t.kind>> \o FlattenSeq([k \in DOMAIN below |-> below[k].kind]),
         items |-> <<[k \in DOMAIN t.sub |-> At(k)]>>
                     \o FlattenSeq([k \in DOMAIN below |-> below[k].items]),
         keys  |-> <<t.keys>> \o FlattenSeq([k \in DOMAIN below |-> below[k].keys])]

few == {Scalar1(kind) : kind \in Few}

(* Elements that tell the levels apart. *)
Flat == {Arr(<<>>), Obj(<<>>, <<>>)}
        \cup {Arr(<<x>>) : x \in few} \cup {Arr(<<x, y>>) : x, y \in few}
        \cup {Obj(<<"a">>, <<x>>) : x \in few}
        \cup {Obj(<<"a", "b">>, <<x, y>>) : x, y \in few}
        \cup {Obj(<<"b", "b">>, <<x, y>>) : x, y \in few}

one == CHOOSE x \in few : TRUE

Deep == {Obj(<<"a">>, <<Arr(<<x, one>>)>>) : x \in few}
        \cup {Obj(<<"a", "b">>, <<one, Obj(<<"a">>, <<one>>)>>),
              Obj(<<"b">>, <<Arr(<<Obj(<<"a">>, <<one>>), one>>)>>),
              Arr(<<Arr(<<one>>)>>),
              Arr(<<Obj(<<"a">>, <<one>>), Obj(<<"b">>, <<one>>)>>)}

Elements == few \cup Flat \cup Deep

MCDocs == {Table(t, 1) : t \in
    {Scalar1(kind) : kind \in ElementKind \ {"ARRAY", "OBJECT"}}
    \cup {Arr(<<x>>) : x \in Elements \cup {Scalar1(kind) : kind \in ElementKind \ {"ARRAY", "OBJECT"}}}
    \cup {Arr(<<x, y>>) : x \in few \cup Flat, y \in Elements}
    \cup {Obj(<<"a", "b">>, <<x, y>>) : x \in few, y \in Deep}}

MCOptions ==
    [type_policy : {"anything_goes", "strict"}, int64_opt : FewOptions, simplify_to : SimplifyTo]
    \cup [type_policy : {"ints_as_dbls"}, int64_opt : {"Always", "Double"},
          simplify_to : {"data_frame"}]
=============================================================================
