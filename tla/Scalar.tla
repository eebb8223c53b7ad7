------------------------------- MODULE Scalar -------------------------------
(***************************************************************************)
(* Conversion of one JSON scalar to an element of an R vector.  What is    *)
(* kept of a conversion is whether the value survives it: a Cell says in   *)
(* which representation it is stored and which JSON value it came from.    *)
(* Three representations need not be the number that was written in the    *)
(* JSON text.  "wrapped" is an int64_t narrowed by static_cast<int>.       *)
(* "rounded" is one made a double: as it was up to 2^53, and beyond that   *)
(* the nearest double.  "decimals" is a double made text by                *)
(* std::to_string(), with six decimals: 1e-7 is "0.0".                     *)
(***************************************************************************)
EXTENDS TypeDoctor, Integers

Value == [kind : ElementKind, id : Nat]

KindsIn(s) == {s[n].kind : n \in DOMAIN s}

NoValue == [kind |-> "NULL_VALUE", id |-> 0]

Representation == {"NA", "STRSXP", "REALSXP", "INTSXP", "LGLSXP", "integer64",
                   "VECSXP", "wrapped", "rounded", "decimals", "thrown"}

Cell == [as : Representation, of : Value]

NA     == [as |-> "NA", of |-> NoValue]
Thrown == [as |-> "thrown", of |-> NoValue]

Integers64 == {"INT32", "INT64", "LLONG_MIN"}
Scalars    == {"STRING", "DOUBLE", "BOOL", "UINT64"} \cup Integers64

-----------------------------------------------------------------------------
(* The element kinds that get_scalar_dispatch<RTYPE> (for "integer64",     *)
(* get_scalar_i64_bits) converts; it returns NA for any other.             *)
dispatches(rtype) ==
    CASE rtype = "STRSXP"    -> Scalars
      [] rtype = "REALSXP"   -> {"DOUBLE", "BOOL"} \cup Integers64
      [] rtype = "INTSXP"    -> {"BOOL"} \cup Integers64
      [] rtype = "integer64" -> {"BOOL"} \cup Integers64
      [] rtype = "LGLSXP"    -> {"BOOL"}

(* The cell a value becomes in a vector of type `rtype'.  -2^63 is a power *)
(* of two, and hence a double.                                             *)
stored(rtype, v) ==
    IF rtype = "integer64" /\ v.kind = "LLONG_MIN" THEN NA
    ELSE [as |-> CASE rtype = "INTSXP" /\ v.kind \in {"INT64", "LLONG_MIN"} -> "wrapped"
                   [] rtype = "REALSXP" /\ v.kind = "INT64"                 -> "rounded"
                   [] rtype = "STRSXP" /\ v.kind = "DOUBLE"                 -> "decimals"
                   [] OTHER                                                 -> rtype,
          of |-> v]

get_scalar_dispatch(rtype, v) ==
    IF v.kind \in dispatches(rtype) THEN stored(rtype, v) ELSE NA

(* get_scalar<in_T, R_Type, has_null>: the conversion for arrays known to  *)
(* hold one element type; the simdjson cast throws on any other.           *)
get_scalar(in_T, rtype, has_nulls, v) ==
    IF has_nulls /\ v.kind = "NULL_VALUE" THEN NA
    ELSE IF element_type(v.kind) = in_T THEN stored(rtype, v)
    ELSE Thrown

(* The vector type of 64-bit integers, by Int64_R_Type. *)
int64_storage(int64_opt) ==
    CASE int64_opt = "Double" -> "REALSXP"
      [] int64_opt = "String" -> "STRSXP"
      [] OTHER                -> "integer64"

-----------------------------------------------------------------------------
(* The value `v' can be read off the R vector: as a string, a number or a  *)
(* logical, if not as the type it had in the JSON text; a null as NA.      *)
Survives(v, cell) ==
    \/ cell.of = v /\ cell.as \notin {"NA", "wrapped", "rounded", "decimals", "thrown"}
    \/ v.kind = "NULL_VALUE" /\ cell = NA

(* The losses that come with what the caller asks for, of a value that     *)
(* shares its vector with others of `kinds'.  An integer64 vector cannot   *)
(* hold LLONG_MIN, its NA.  A wide integer may be rounded where integers   *)
(* are to be doubles, or where the policy mixes them with a double there   *)
(* is.  A double may lose decimals where anything goes and there is a      *)
(* string, or an unsigned integer, which R can only hold as text.          *)
LostByPolicy(type_policy, int64_opt, kinds, v, cell) ==
    \/ /\ v.kind = "LLONG_MIN" /\ cell = NA
       /\ int64_opt \in {"Integer64", "Always"}
    \/ /\ v.kind = "INT64" /\ cell = [as |-> "rounded", of |-> v]
       /\ int64_opt = "Double" \/ (type_policy # "strict" /\ "DOUBLE" \in kinds)
    \/ /\ v.kind = "DOUBLE" /\ cell = [as |-> "decimals", of |-> v]
       /\ type_policy = "anything_goes" /\ kinds \cap {"STRING", "UINT64"} # {}

Kept(type_policy, int64_opt, kinds, v, cell) ==
    Survives(v, cell) \/ LostByPolicy(type_policy, int64_opt, kinds, v, cell)
=============================================================================
