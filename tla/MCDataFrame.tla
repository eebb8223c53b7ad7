---------------------------- MODULE MCDataFrame ----------------------------
(***************************************************************************)
(* Instances of DataFrame.  MCShapes has many shapes of arrays: few keys,  *)
(* all orders, lengths and repetitions of them, over few kinds of values.  *)
(* MCKinds has few shapes: all combinations of kinds of values, under all  *)
(* policies.  The hashing threshold of the code, 16 columns, is scaled to  *)
(* the number of keys.                                                     *)
(***************************************************************************)
EXTENDS DataFrame

CONSTANTS MaxFields, MaxFieldsLater

SeqOf(S, lo, hi) == UNION {[1 .. n -> S] : n \in lo .. hi}

(* The object whose keys are ks, with values of the given kinds; a value   *)
(* is identified by its position.                                          *)
Object(ks, kindOf) ==
    [type |-> "OBJECT",
     fields |-> [p \in DOMAIN ks |->
                   [key |-> ks[p], value |-> [kind |-> kindOf[p], id |-> p]]]]

NotAnObject == [type |-> "INT64", fields |-> <<>>]

AllInts(ks) == [p \in DOMAIN ks |-> "INT32"]

(* One to three rows, the first with up to MaxFields fields.               *)
ShapeRows(n) == {Object(ks, AllInts(ks)) : ks \in SeqOf(Key, 0, n)}
MCShapes == UNION {
    {<<a>> : a \in ShapeRows(MaxFields)},
    {<<a, b>> : a, b \in ShapeRows(MaxFields)},
    {<<a, b, c>> : a \in ShapeRows(MaxFields), b, c \in ShapeRows(MaxFieldsLater)},
    {<<a, NotAnObject, b>> : a, b \in ShapeRows(1)},
    {<<NotAnObject>>}}

(* Three rows of one key, and two rows of which the first repeats it.      *)
MCKinds ==
    LET k == CHOOSE k \in Key : TRUE
    IN  UNION {
          {<<Object(<<k>>, <<a>>), Object(<<k>>, <<b>>), Object(<<k>>, <<c>>)>> :
            a, b, c \in ElementKind},
          {<<Object(<<k, k>>, <<a, b>>), Object(<<k>>, <<c>>)>> :
            a, b, c \in ElementKind}}

MCDocuments == MCShapes \cup MCKinds

(* Each policy, and each treatment of 64-bit integers. *)
FewOptions == {<<"anything_goes", "Integer64">>, <<"strict", "Double">>,
               <<"ints_as_dbls", "Always">>, <<"anything_goes", "String">>,
               <<"anything_goes", "Double">>}
AllOptions == TypePolicy \X Int64Opt
=============================================================================
