----------------------------- MODULE TypeDoctor -----------------------------
(***************************************************************************)
(* Type_Doctor: what the elements of a JSON array (or the values of one    *)
(* data frame column) have in common, and hence which R type can hold all  *)
(* of them.  A doctor is a pair of sets, one element per C++ flag that is  *)
(* raised: `types' for the upper case flags (JSON element types), `flags'  *)
(* for the lower case ones (R types).  The template arguments type_policy  *)
(* and int64_opt of the class are parameters of the operators.             *)
(*                                                                         *)
(* An element is abstracted to its kind: its dom::element_type, with INT64 *)
(* split into the integers is_castable_int64() accepts ("INT32"), the      *)
(* ones it rejects ("INT64"), and the one rejected integer whose bits are  *)
(* NA_INTEGER64 ("LLONG_MIN").  BIGINT needs a parser option this package  *)
(* never sets, so no element has that type.                                *)
(***************************************************************************)

TypePolicy == {"anything_goes", "ints_as_dbls", "strict"}
Int64Opt   == {"Double", "String", "Integer64", "Always"}

ElementKind == {"ARRAY", "OBJECT", "STRING", "DOUBLE", "INT32", "INT64",
                "LLONG_MIN", "BOOL", "NULL_VALUE", "UINT64"}
ElementType == {"ARRAY", "OBJECT", "STRING", "DOUBLE", "INT64", "BOOL",
                "NULL_VALUE", "UINT64"}
rcpp_T      == {"array", "object", "chr", "u64", "dbl", "i64", "i32", "lgl",
                "null"}

element_type(kind) == IF kind \in {"INT32", "LLONG_MIN"} THEN "INT64" ELSE kind

Doctor      == [types : SUBSET ElementType, flags : SUBSET rcpp_T]
EmptyDoctor == [types |-> {}, flags |-> {}]

-----------------------------------------------------------------------------
(* The lower case flag an element raises. *)
lower_flag(int64_opt, kind) ==
    IF kind = "INT32" /\ int64_opt # "Always" THEN "i32"
    ELSE CASE kind = "ARRAY"      -> "array"
           [] kind = "OBJECT"     -> "object"
           [] kind = "STRING"     -> "chr"
           [] kind = "DOUBLE"     -> "dbl"
           [] kind = "BOOL"       -> "lgl"
           [] kind = "NULL_VALUE" -> "null"
           [] kind = "UINT64"     -> "u64"
           [] OTHER               -> "i64"

add_element(int64_opt, d, kind) ==
    [types |-> d.types \cup {element_type(kind)},
     flags |-> d.flags \cup {lower_flag(int64_opt, kind)}]

(* Type_Doctor(array): the doctor of all the elements of an array. *)
DoctorOf(int64_opt, kinds) ==
    [types |-> {element_type(k) : k \in kinds},
     flags |-> {lower_flag(int64_opt, k) : k \in kinds}]

(* Merging the doctor of a matrix row into the doctor of the matrix. *)
update(int64_opt, d, d2) ==
    [types |-> d.types \cup d2.types,
     flags |-> d.flags \cup
                 IF int64_opt = "Always" THEN d2.flags \ {"i32"} ELSE d2.flags]

has_null(d) == "null" \in d.flags

(* One element type apart from null. *)
is_homogeneous(d) ==
    \E t \in ElementType \ {"NULL_VALUE"} : d.types \ {"NULL_VALUE"} = {t}

-----------------------------------------------------------------------------
(* flag `r' is raised and none of `others' is. *)
Only(d, r, others) == r \in d.flags /\ d.flags \cap others = {}

(* The R type that the policy makes of the flags; the order of the tests   *)
(* is the order of the code's early returns.                               *)
common_R_type(type_policy, d) ==
    IF "object" \in d.flags THEN "object"
    ELSE IF "array" \in d.flags THEN "array"
    ELSE IF type_policy = "anything_goes" THEN
        IF "chr" \in d.flags THEN "chr"
        ELSE IF "u64" \in d.flags THEN "u64"
        ELSE IF "dbl" \in d.flags THEN "dbl"
        ELSE IF "i64" \in d.flags THEN "i64"
        ELSE IF "i32" \in d.flags THEN "i32"
        ELSE IF "lgl" \in d.flags THEN "lgl"
        ELSE "null"
    ELSE IF Only(d, "chr", {"dbl", "i64", "i32", "lgl", "u64"}) THEN "chr"
    ELSE IF /\ type_policy = "strict"
            /\ Only(d, "dbl", {"i64", "i32", "lgl", "u64"}) THEN "dbl"
    ELSE IF /\ type_policy = "strict"
            /\ Only(d, "i64", {"i32", "lgl", "u64"}) THEN "i64"
    ELSE IF /\ type_policy = "strict"
            /\ Only(d, "i32", {"lgl", "u64"}) THEN "i32"
    ELSE IF /\ type_policy = "ints_as_dbls"
            /\ Only(d, "dbl", {"lgl", "u64"}) THEN "dbl"
    ELSE IF /\ type_policy = "ints_as_dbls"
            /\ Only(d, "i64", {"lgl", "u64"}) THEN "i64"
    ELSE IF /\ type_policy = "ints_as_dbls"
            /\ Only(d, "i32", {"lgl", "u64"}) THEN "i32"
    ELSE IF Only(d, "lgl", {"u64"}) THEN "lgl"
    ELSE IF "u64" \in d.flags THEN "u64"
    ELSE "null"

(* A seeded fault: "strict" lets numbers mix, as "numbers" does.           *)
VectorizableMixedNumbers(type_policy, d) ==
    /\ {"object", "array"} \cap d.flags = {}
    /\ type_policy # "anything_goes" =>
         IF "chr" \in d.flags
           THEN Only(d, "chr", {"dbl", "i64", "i32", "lgl", "u64"})
         ELSE IF {"dbl", "i64", "i32"} \cap d.flags # {}
           THEN {"lgl", "u64"} \cap d.flags = {}
         ELSE IF "lgl" \in d.flags
           THEN "u64" \notin d.flags
         ELSE "u64" \in d.flags

(* Whether the array may become an atomic vector under the policy. *)
is_vectorizable(type_policy, d) ==
    /\ {"object", "array"} \cap d.flags = {}
    /\ type_policy # "anything_goes" =>
         IF "chr" \in d.flags
           THEN Only(d, "chr", {"dbl", "i64", "i32", "lgl", "u64"})
         ELSE IF type_policy = "strict" /\ "dbl" \in d.flags
           THEN Only(d, "dbl", {"i64", "i32", "lgl", "u64"})
         ELSE IF type_policy = "strict" /\ "i64" \in d.flags
           THEN Only(d, "i64", {"i32", "lgl", "u64"})
         ELSE IF type_policy = "strict" /\ "i32" \in d.flags
           THEN Only(d, "i32", {"lgl", "u64"})
         ELSE IF /\ type_policy = "ints_as_dbls"
                 /\ {"dbl", "i64", "i32"} \cap d.flags # {}
           THEN {"lgl", "u64"} \cap d.flags = {}
         ELSE IF "lgl" \in d.flags
           THEN "u64" \notin d.flags
         ELSE "u64" \in d.flags
=============================================================================
