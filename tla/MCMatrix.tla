------------------------------ MODULE MCMatrix ------------------------------
(***************************************************************************)
(* All arrays of one or two rows of up to MaxLength elements of all kinds, *)
(* rows that are no arrays, and square and oblong arrays of three rows.    *)
(***************************************************************************)
EXTENDS Matrix

CONSTANTS MaxLength, FewKinds

SeqOf(S, lo, hi) == UNION {[1 .. n -> S] : n \in lo .. hi}

RowOf(kinds, r) ==
    [type |-> "ARRAY",
     items |-> [c \in DOMAIN kinds |-> [kind |-> kinds[c], id |-> 10 * r + c]]]

NotAnArray == [type |-> "OBJECT", items |-> <<>>]

MCArrays == UNION {
    {<<RowOf(a, 1)>> : a \in SeqOf(ElementKind, 0, MaxLength)},
    {<<RowOf(a, 1), RowOf(b, 2)>> : a \in SeqOf(ElementKind, 0, MaxLength),
                                    b \in SeqOf(ElementKind, 0, MaxLength - 1)},
    {<<RowOf(a, 1), RowOf(b, 2)>> : a, b \in [1 .. MaxLength -> FewKinds]},
    {<<RowOf(a, 1), RowOf(b, 2), RowOf(c, 3)>> :
       a, b, c \in [1 .. MaxLength -> {"INT32", "NULL_VALUE"}]},
    {<<RowOf(a, 1), RowOf(b, 2), RowOf(c, 3)>> : a, b, c \in [1 .. 1 -> ElementKind]},
    {<<RowOf(a, 1), NotAnArray>> : a \in SeqOf(ElementKind, 1, 1)}}

AllOptions == TypePolicy \X Int64Opt
=============================================================================
