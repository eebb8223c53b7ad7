------------------------------- MODULE Vector -------------------------------
(***************************************************************************)
(* simplify_vector(): a non-empty JSON array becomes an atomic R vector if *)
(* its Type_Doctor finds it vectorizable, else a list.  A vector of one    *)
(* element type is built by loops that cast every element without looking  *)
(* at its type (vector::dispatch_typed), any other by loops that dispatch  *)
(* on the type of each element (vector::dispatch_mixed).                   *)
(***************************************************************************)
EXTENDS Scalar, Sequences

CONSTANTS Arrays,   \* the arrays the program may be given, as seqs of Value
          Options   \* the <<type_policy, int64_opt>> of the call

(* dispatch_simplify_array() keeps empty arrays away from this code. *)
ASSUME ArraysAssumption  == Arrays \subseteq Seq(Value) /\ <<>> \notin Arrays
ASSUME VectorOptionsAssumption == Options \subseteq TypePolicy \X Int64Opt

VARIABLES array, type_policy, int64_opt,    \* the arguments
          phase,        \* "diagnose", "typed", "mixed", "list", "done"
          i,            \* the element the running loop is at
          type_doctor,
          out           \* the elements of the result so far

inputs == <<array, type_policy, int64_opt>>
vars   == <<inputs, phase, i, type_doctor, out>>

R_Type == common_R_type(type_policy, type_doctor)

-----------------------------------------------------------------------------
(* Which SEXP type holds a common R type.  For "null" all of it is NA.     *)
vector_type(r) ==
    CASE r \in {"chr", "u64"} -> "STRSXP"
      [] r = "dbl"            -> "REALSXP"
      [] r = "i64"            -> int64_storage(int64_opt)
      [] r = "i32"            -> "INTSXP"
      [] r = "lgl"            -> "LGLSXP"

(* The element type the typed loop for a common R type casts to. *)
typed_in(r) ==
    CASE r = "chr"            -> "STRING"
      [] r = "dbl"            -> "DOUBLE"
      [] r \in {"i64", "i32"} -> "INT64"
      [] r = "lgl"            -> "BOOL"
      [] r = "u64"            -> "UINT64"

Init ==
    /\ array \in Arrays
    /\ \E o \in Options : type_policy = o[1] /\ int64_opt = o[2]
    /\ phase = "diagnose"
    /\ i = 1
    /\ type_doctor = EmptyDoctor
    /\ out = <<>>

(* One turn of the loop in the constructor of Type_Doctor. *)
Diagnose ==
    /\ phase = "diagnose" /\ i <= Len(array)
    /\ type_doctor' = add_element(int64_opt, type_doctor, array[i].kind)
    /\ i' = i + 1
    /\ UNCHANGED <<inputs, phase, out>>

(* A seeded fault: vectors with nulls are built by the typed loops for one *)
(* element type whatever else there is.                                    *)
DecideIgnoringTypes ==
    /\ phase = "diagnose" /\ i > Len(array)
    /\ phase' = IF ~is_vectorizable(type_policy, type_doctor) THEN "list"
                ELSE IF is_homogeneous(type_doctor) \/ has_null(type_doctor)
                THEN "typed" ELSE "mixed"
    /\ i' = 1
    /\ UNCHANGED <<inputs, type_doctor, out>>

(* simplify_vector() and the build_vector_* of the chosen result. *)
Decide ==
    /\ phase = "diagnose" /\ i > Len(array)
    /\ phase' = IF ~is_vectorizable(type_policy, type_doctor) THEN "list"
                ELSE IF is_homogeneous(type_doctor) THEN "typed" ELSE "mixed"
    /\ i' = 1
    /\ UNCHANGED <<inputs, type_doctor, out>>

(* The elements of the result, by the kind of loop that builds it. *)
TypedElement(v) ==
    IF R_Type = "null" THEN NA
    ELSE get_scalar(typed_in(R_Type), vector_type(R_Type), has_null(type_doctor), v)

MixedElement(v) ==
    IF R_Type = "null" THEN NA ELSE get_scalar_dispatch(vector_type(R_Type), v)

ListElement(v) == [as |-> "VECSXP", of |-> v]

(* A seeded fault: a null is passed over, and the next element takes its   *)
(* place.                                                                  *)
BuildSkippingNulls ==
    /\ phase \in {"typed", "mixed", "list"} /\ i <= Len(array)
    /\ out' = IF phase # "list" /\ array[i].kind = "NULL_VALUE" THEN out
              ELSE Append(out, CASE phase = "typed" -> TypedElement(array[i])
                                 [] phase = "mixed" -> MixedElement(array[i])
                                 [] phase = "list"  -> ListElement(array[i]))
    /\ i' = i + 1
    /\ UNCHANGED <<inputs, phase, type_doctor>>

Build ==
    /\ phase \in {"typed", "mixed", "list"} /\ i <= Len(array)
    /\ out' = Append(out, CASE phase = "typed" -> TypedElement(array[i])
                            [] phase = "mixed" -> MixedElement(array[i])
                            [] phase = "list"  -> ListElement(array[i]))
    /\ i' = i + 1
    /\ UNCHANGED <<inputs, phase, type_doctor>>

Finish ==
    /\ phase \in {"typed", "mixed", "list"} /\ i > Len(array)
    /\ phase' = "done"
    /\ UNCHANGED <<inputs, i, type_doctor, out>>

Returned == phase = "done" /\ UNCHANGED vars

Next == Diagnose \/ Decide \/ Build \/ Finish \/ Returned

Spec == Init /\ [][Next]_vars

-----------------------------------------------------------------------------
(* Properties *)

(* Every variable holds values of its type, and a loop that has come to    *)
(* element i has produced i - 1 elements.                                  *)
TypeOK ==
    /\ array \in Seq(Value) \ {<<>>}
    /\ type_policy \in TypePolicy /\ int64_opt \in Int64Opt
    /\ phase \in {"diagnose", "typed", "mixed", "list", "done"}
    /\ i \in 1 .. Len(array) + 1
    /\ type_doctor \in Doctor
    /\ out \in Seq(Cell)
    /\ Len(out) = IF phase = "diagnose" THEN 0 ELSE i - 1

(* Every element can be read off the vector (a null as NA), but for what   *)
(* the policies give up, by what else there is in the array: no typed loop *)
(* casts an element to a type it does not have, no integer is narrowed to  *)
(* a size it does not fit, and none is rounded and no double cut short     *)
(* unless the doctor saw a reason for it anywhere in the array.            *)
NothingLost ==
    \A n \in DOMAIN out :
       Kept(type_policy, int64_opt, KindsIn(array), array[n], out[n])

IsRecursive == \E n \in DOMAIN array : array[n].kind \in {"ARRAY", "OBJECT"}

IsList == \E n \in DOMAIN out : out[n].as = "VECSXP"

(* The types of the elements as R sees them, null apart. *)
TypesPresent == {lower_flag(int64_opt, array[n].kind) : n \in DOMAIN array} \ {"null"}

(* What is documented of the policies (R/fparse.R:63,65): under            *)
(* "anything_goes" a non-recursive array always becomes an atomic vector,  *)
(* and under "strict" one of mixed types never does.                       *)
PoliciesAsDocumented ==
    phase = "done" =>
        /\ type_policy = "anything_goes" /\ ~IsRecursive => ~IsList
        /\ /\ type_policy = "strict"
           /\ \E r, s \in TypesPresent : r # s
           => IsList

(* What is documented of "numbers" (R/fparse.R:64): non-recursive arrays   *)
(* containing only numbers always become atomic vectors.                   *)
NumbersBecomeVectors ==
    /\ phase = "done"
    /\ type_policy = "ints_as_dbls"
    /\ \A n \in DOMAIN array : array[n].kind \in Integers64 \cup {"DOUBLE", "UINT64"}
    => ~IsList
=============================================================================
