------------------------------- MODULE Matrix -------------------------------
(***************************************************************************)
(* simplify_matrix(): a JSON array of equally long arrays becomes an R     *)
(* matrix if the elements of all of them are vectorizable together.  The   *)
(* diagnosis merges one Type_Doctor per row and gives up at the first row  *)
(* that does not fit; the matrix is then written row by row into R's       *)
(* column-major storage.                                                   *)
(*                                                                         *)
(* An element of the outer array is a Line: its JSON type and, for an      *)
(* array, its elements.                                                    *)
(***************************************************************************)
EXTENDS Scalar, Sequences

CONSTANTS Arrays,   \* the arrays the program may be given
          Options   \* the <<type_policy, int64_opt>> of the call

Line == [type : ElementType, items : Seq(Value)]

(* dispatch_simplify_array() keeps empty arrays away from this code. *)
ASSUME LinesAssumption == Arrays \subseteq Seq(Line) /\ <<>> \notin Arrays
ASSUME MatrixOptionsAssumption == Options \subseteq TypePolicy \X Int64Opt

VARIABLES array, type_policy, int64_opt,    \* the arguments
          phase,        \* "diagnose", "typed", "mixed", "done", "nullopt"
          row, col,     \* the element the running loop is at
          matrix_doctor,
          n_cols,       \* length of the first row, -1 if not known
          i, j,         \* the loop's offsets into the storage
          out           \* the storage, as far as it is written

inputs == <<array, type_policy, int64_opt>>
vars   == <<inputs, phase, row, col, matrix_doctor, n_cols, i, j, out>>

n_rows == Len(array)
items  == array[row].items
R_Type == common_R_type(type_policy, matrix_doctor)

Init ==
    /\ array \in Arrays
    /\ \E o \in Options : type_policy = o[1] /\ int64_opt = o[2]
    /\ phase = "diagnose"
    /\ row = 1 /\ col = 1
    /\ matrix_doctor = EmptyDoctor
    /\ n_cols = -1
    /\ i = 0 /\ j = 0
    /\ out = <<>>

-----------------------------------------------------------------------------
(* matrix::diagnose() *)

(* A seeded fault: each row is judged by itself. *)
DiagnoseRowAlone ==
    /\ phase = "diagnose" /\ row <= n_rows
    /\ IF array[row].type # "ARRAY"
       THEN phase' = "nullopt" /\ UNCHANGED <<row, matrix_doctor, n_cols>>
       ELSE /\ matrix_doctor' = update(int64_opt, matrix_doctor,
                                       DoctorOf(int64_opt, KindsIn(items)))
            /\ n_cols' = IF n_cols = -1 THEN Len(items) ELSE n_cols
            /\ phase' = IF \/ n_cols' # Len(items)
                           \/ ~is_vectorizable(type_policy,
                                               DoctorOf(int64_opt, KindsIn(items)))
                        THEN "nullopt" ELSE "diagnose"
            /\ row' = row + 1
    /\ UNCHANGED <<inputs, col, i, j, out>>

(* One element of the outer array. *)
DiagnoseRow ==
    /\ phase = "diagnose" /\ row <= n_rows
    /\ IF array[row].type # "ARRAY"
       THEN phase' = "nullopt" /\ UNCHANGED <<row, matrix_doctor, n_cols>>
       ELSE /\ matrix_doctor' = update(int64_opt, matrix_doctor,
                                       DoctorOf(int64_opt, KindsIn(items)))
            /\ n_cols' = IF n_cols = -1 THEN Len(items) ELSE n_cols
            /\ phase' = IF \/ n_cols' # Len(items)
                           \/ ~is_vectorizable(type_policy, matrix_doctor')
                        THEN "nullopt" ELSE "diagnose"
            /\ row' = row + 1
    /\ UNCHANGED <<inputs, col, i, j, out>>

Decide ==
    /\ phase = "diagnose" /\ row > n_rows
    /\ phase' = IF is_homogeneous(matrix_doctor) THEN "typed" ELSE "mixed"
    /\ row' = 1
    /\ UNCHANGED <<inputs, col, matrix_doctor, n_cols, i, j, out>>

-----------------------------------------------------------------------------
(* matrix::dispatch_typed() and dispatch_mixed(), build_matrix_*() *)

(* Of a homogeneous doctor: besides nulls it has seen one type only. *)
common_element_type == CHOOSE t \in matrix_doctor.types : t # "NULL_VALUE"

typed_vector ==
    CASE common_element_type \in {"STRING", "UINT64"} -> "STRSXP"
      [] common_element_type = "DOUBLE"               -> "REALSXP"
      [] common_element_type = "INT64"                ->
           IF R_Type = "i32" THEN "INTSXP" ELSE int64_storage(int64_opt)
      [] common_element_type = "BOOL"                 -> "LGLSXP"

mixed_vector ==
    CASE R_Type \in {"chr", "u64"} -> "STRSXP"
      [] R_Type = "dbl"            -> "REALSXP"
      [] R_Type = "i64"            -> int64_storage(int64_opt)
      [] R_Type = "i32"            -> "INTSXP"
      [] R_Type = "lgl"            -> "LGLSXP"

(* What an element becomes; a matrix of nulls only is filled with NA.      *)
Element(v) ==
    IF phase = "typed"
    THEN get_scalar(common_element_type, typed_vector, has_null(matrix_doctor), v)
    ELSE IF R_Type = "null" THEN NA
    ELSE get_scalar_dispatch(mixed_vector, v)

(* A seeded fault: the storage is taken to be row-major. *)
BuildElementRowMajor ==
    /\ phase \in {"typed", "mixed"} /\ row <= n_rows /\ col <= Len(items)
    /\ out' = [n \in DOMAIN out \cup {(row - 1) * n_cols + col - 1} |->
                 IF n = (row - 1) * n_cols + col - 1
                 THEN Element(items[col]) ELSE out[n]]
    /\ i' = i + n_rows
    /\ col' = col + 1
    /\ UNCHANGED <<inputs, phase, row, matrix_doctor, n_cols, j>>

BuildElement ==
    /\ phase \in {"typed", "mixed"} /\ row <= n_rows /\ col <= Len(items)
    /\ out' = [n \in DOMAIN out \cup {i + j} |->
                 IF n = i + j THEN Element(items[col]) ELSE out[n]]
    /\ i' = i + n_rows
    /\ col' = col + 1
    /\ UNCHANGED <<inputs, phase, row, matrix_doctor, n_cols, j>>

(* A seeded fault: the column offset survives its row. *)
BuildRowEndKeepsOffset ==
    /\ phase \in {"typed", "mixed"} /\ row <= n_rows /\ col > Len(items)
    /\ j' = j + 1
    /\ row' = row + 1 /\ col' = 1
    /\ UNCHANGED <<inputs, phase, matrix_doctor, n_cols, i, out>>

BuildRowEnd ==
    /\ phase \in {"typed", "mixed"} /\ row <= n_rows /\ col > Len(items)
    /\ i' = 0 /\ j' = j + 1
    /\ row' = row + 1 /\ col' = 1
    /\ UNCHANGED <<inputs, phase, matrix_doctor, n_cols, out>>

Finish ==
    /\ phase \in {"typed", "mixed"} /\ row > n_rows
    /\ phase' = "done"
    /\ UNCHANGED <<inputs, row, col, matrix_doctor, n_cols, i, j, out>>

Returned == phase \in {"done", "nullopt"} /\ UNCHANGED vars

Next ==
    \/ DiagnoseRow \/ Decide
    \/ BuildElement \/ BuildRowEnd \/ Finish
    \/ Returned

Spec == Init /\ [][Next]_vars

-----------------------------------------------------------------------------
(* Properties *)

(* Every variable holds values of its type, and nothing is ever written    *)
(* beyond the n_rows * n_cols cells that were allocated.                   *)
TypeOK ==
    /\ array \in Seq(Line) \ {<<>>}
    /\ type_policy \in TypePolicy /\ int64_opt \in Int64Opt
    /\ phase \in {"diagnose", "typed", "mixed", "done", "nullopt"}
    /\ row \in 1 .. n_rows + 1
    /\ col \in Nat \ {0}
    /\ matrix_doctor \in Doctor
    /\ n_cols \in Nat \cup {-1}
    /\ i \in Nat /\ j \in 0 .. n_rows
    /\ DOMAIN out \subseteq 0 .. n_rows * n_cols - 1
    /\ \A n \in DOMAIN out : out[n] \in Cell

AllKinds == UNION {KindsIn(array[r].items) : r \in 1 .. n_rows}

(* The finished matrix has every cell written, and in row r and column c   *)
(* is what the JSON text has there: no cast to a type the element does not *)
(* have, nothing narrowed, nothing transposed, and nothing lost but what   *)
(* the policies give up, by what else there is in any of the rows.         *)
MatrixHoldsItsElements ==
    phase = "done" =>
        /\ DOMAIN out = 0 .. n_rows * n_cols - 1
        /\ \A r \in 1 .. n_rows : \A c \in 1 .. n_cols :
             Kept(type_policy, int64_opt, AllKinds,
                  array[r].items[c], out[(c - 1) * n_rows + r - 1])

IsRectangular ==
    /\ \A r \in 1 .. n_rows : array[r].type = "ARRAY"
    /\ \A r \in 1 .. n_rows : Len(array[r].items) = Len(array[1].items)

NullsAhead == KindsIn(array[1].items) \subseteq {"NULL_VALUE"}

(* The early return does not change the verdict: an array of arrays of one *)
(* length becomes a matrix exactly if a flat array of all their elements   *)
(* would become an atomic vector.  The exception, which makes the verdict  *)
(* depend on the order of the rows, is a first row of nothing but nulls    *)
(* under "numbers" and "strict": it is never accepted, whatever follows.   *)
SameVerdictAsVector ==
    phase \in {"typed", "mixed", "done", "nullopt"} =>
        (phase # "nullopt" <=>
            /\ IsRectangular
            /\ is_vectorizable(type_policy, DoctorOf(int64_opt, AllKinds))
            /\ NullsAhead /\ AllKinds # KindsIn(array[1].items)
                 => type_policy = "anything_goes")
=============================================================================
