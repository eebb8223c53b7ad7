------------------------------ MODULE Columns ------------------------------
(***************************************************************************)
(* The rows of a JSON array and the columns of a data frame: how a column  *)
(* is materialized, and what one of its cells makes of a JSON value.       *)
(*                                                                         *)
(* An element of the array is a Row: its JSON type and, for an object, its *)
(* fields in document order; an object may repeat a key.                   *)
(***************************************************************************)
EXTENDS Scalar, Sequences

CONSTANT Key    \* the keys objects may have

Field == [key : Key, value : Value]
Row   == [type : ElementType, fields : Seq(Field)]

Col_Kind == {"chr", "dbl", "i32", "lgl", "i64_bits", "null", "list"}

(* A seeded fault: 64-bit integers handled as 32-bit ones.                 *)
ColKindNoInt64(int64_opt, R_Type) ==
    CASE R_Type \in {"chr", "u64"} -> "chr"
      [] R_Type = "dbl"            -> "dbl"
      [] R_Type \in {"i64", "i32"} -> "i32"
      [] R_Type = "lgl"            -> "lgl"
      [] R_Type = "null"           -> "null"
      [] OTHER                     -> "list"

col_kind(int64_opt, R_Type) ==
    CASE R_Type \in {"chr", "u64"} -> "chr"
      [] R_Type = "dbl"            -> "dbl"
      [] R_Type = "i64"            -> CASE int64_opt = "Double" -> "dbl"
                                        [] int64_opt = "String" -> "chr"
                                        [] OTHER                -> "i64_bits"
      [] R_Type = "i32"            -> "i32"
      [] R_Type = "lgl"            -> "lgl"
      [] R_Type = "null"           -> "null"
      [] OTHER                     -> "list"

(* What the fill loop writes for a value into a column of a kind.  A list  *)
(* cell takes the whole element, whatever it is; a column whose values are *)
(* all null is never written.                                              *)
cell(kind, v) ==
    CASE kind = "chr"      -> get_scalar_dispatch("STRSXP", v)
      [] kind = "dbl"      -> get_scalar_dispatch("REALSXP", v)
      [] kind = "i32"      -> get_scalar_dispatch("INTSXP", v)
      [] kind = "lgl"      -> get_scalar_dispatch("LGLSXP", v)
      [] kind = "i64_bits" -> get_scalar_dispatch("integer64", v)
      [] kind = "null"     -> NA
      [] kind = "list"     -> [as |-> "VECSXP", of |-> v]
=============================================================================
