----------------------------- MODULE AtKeyTable -----------------------------
(***************************************************************************)
(* What turning an array of objects into a data frame promises, with no    *)
(* schema, no index and no routing of fields: every column is looked up in *)
(* every row by its key, as simdjson's at_key() would, the first           *)
(* occurrence of a repeated key winning.  Cells may be filled in any       *)
(* order, each is written at most once, and the table is handed over only  *)
(* when every cell holds the value of its key.                             *)
(***************************************************************************)
EXTENDS Columns

VARIABLES array, type_policy, int64_opt,    \* what the caller asked for
          table,                            \* key -> row -> Cell
          status                            \* "open", "filling", "done",
                                            \*  "rejected"
vars == <<array, type_policy, int64_opt, table, status>>

-----------------------------------------------------------------------------
IsTable == \A i \in DOMAIN array : array[i].type = "OBJECT"

Places(i, k) == {p \in DOMAIN array[i].fields : array[i].fields[p].key = k}

ColumnKeys == {k \in Key : \E i \in DOMAIN array : Places(i, k) # {}}

KindsUnder(k) ==
    {kind \in ElementKind : \E i \in DOMAIN array : \E p \in Places(i, k) :
                              array[i].fields[p].value.kind = kind}

(* The column's kind is settled by all its values, repeated keys included. *)
KindOf(k) ==
    col_kind(int64_opt, common_R_type(type_policy, DoctorOf(int64_opt, KindsUnder(k))))

First(i, k) == CHOOSE p \in Places(i, k) : \A q \in Places(i, k) : p <= q

(* What row i holds under key k. *)
AtKey(i, k) ==
    IF Places(i, k) = {} THEN NA
    ELSE cell(KindOf(k), array[i].fields[First(i, k)].value)

-----------------------------------------------------------------------------
Init ==
    /\ array \in Seq(Row) \ {<<>>}
    /\ type_policy \in TypePolicy
    /\ int64_opt \in Int64Opt
    /\ table = <<>>
    /\ status = "open"

Reject ==
    /\ status = "open" /\ ~IsTable
    /\ status' = "rejected"
    /\ UNCHANGED <<array, type_policy, int64_opt, table>>

Allocate ==
    /\ status = "open" /\ IsTable
    /\ status' = "filling"
    /\ table' = [k \in ColumnKeys |-> [i \in DOMAIN array |-> NA]]
    /\ UNCHANGED <<array, type_policy, int64_opt>>

Fill(i, k) ==
    /\ status = "filling"
    /\ table[k][i] = NA
    /\ table' = [table EXCEPT ![k][i] = AtKey(i, k)]
    /\ UNCHANGED <<array, type_policy, int64_opt, status>>

Finish ==
    /\ status = "filling"
    /\ \A k \in ColumnKeys, i \in DOMAIN array : table[k][i] = AtKey(i, k)
    /\ status' = "done"
    /\ UNCHANGED <<array, type_policy, int64_opt, table>>

Next ==
    \/ Reject
    \/ Allocate
    \/ \E k \in ColumnKeys, i \in DOMAIN array : Fill(i, k)
    \/ Finish

Spec == Init /\ [][Next]_vars
=============================================================================
