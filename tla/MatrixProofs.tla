---------------------------- MODULE MatrixProofs ----------------------------
(***************************************************************************)
(* What is proved of simplify_matrix() for arrays of any number of rows of *)
(* any length, any elements and any policies.                              *)
(***************************************************************************)
EXTENDS Matrix, TLAPS

Loops == {"typed", "mixed"}
Taken == {"typed", "mixed", "done"}     \* the array has become a matrix

Vectorizable(kinds) == is_vectorizable(type_policy, DoctorOf(int64_opt, kinds))

(* The kinds in the first m rows. *)
Seen(m) == UNION {KindsIn(array[r].items) : r \in 1 .. m}

RowFits(r) == array[r].type = "ARRAY" /\ Len(array[r].items) = n_cols

(* What SameVerdictAsVector says of the array, the outcome apart.          *)
Verdict ==
    /\ IsRectangular
    /\ is_vectorizable(type_policy, DoctorOf(int64_opt, AllKinds))
    /\ NullsAhead /\ AllKinds # KindsIn(array[1].items) => type_policy = "anything_goes"

(* The parts of the inductive invariant. The doctor of the matrix is that  *)
(* of the elements of the rows it has been updated with, and no row was    *)
(* left out.                                                               *)
DiagnosisInv ==
    /\ phase = "diagnose" =>
         /\ matrix_doctor = DoctorOf(int64_opt, Seen(row - 1))
         /\ \A r \in 1 .. row - 1 : RowFits(r)
         /\ row = 1 => n_cols = -1
         /\ row > 1 => /\ Vectorizable(Seen(row - 1))
                       /\ Vectorizable(KindsIn(array[1].items))
    /\ phase \in Taken =>
         /\ matrix_doctor = DoctorOf(int64_opt, AllKinds)
         /\ \A r \in 1 .. n_rows : RowFits(r)
         /\ Vectorizable(AllKinds)
         /\ Vectorizable(KindsIn(array[1].items))
    /\ phase = "typed" => is_homogeneous(matrix_doctor)
    /\ phase = "nullopt" => ~Verdict

(* What MatrixHoldsItsElements says of one element and its cell.           *)
KeptHere(v, c) == Kept(type_policy, int64_opt, AllKinds, v, c)

(* The offset of row r and column c in a storage of n rows.                *)
Place(n, r, c) == (c - 1) * n + r - 1

Offset(r, c) == Place(n_rows, r, c)

Written(r, c) == r < row \/ (r = row /\ c < col)

(* The offsets are those of the cursor, and the cells that are written are *)
(* those the cursor has passed.                                            *)
StorageInv ==
    /\ phase \in {"diagnose", "nullopt"} => i = 0 /\ j = 0 /\ col = 1 /\ DOMAIN out = {}
    /\ phase \in Taken =>
         /\ i = (col - 1) * n_rows /\ j = row - 1
         /\ col <= n_cols + 1
         /\ row = n_rows + 1 => col = 1
         /\ \A n : n \in DOMAIN out <=>
                     \E r \in 1 .. n_rows : \E c \in 1 .. n_cols :
                        Written(r, c) /\ n = Offset(r, c)
         /\ \A r \in 1 .. n_rows : \A c \in 1 .. n_cols :
              Written(r, c) =>
                 /\ out[Offset(r, c)] \in Cell
                 /\ KeptHere(array[r].items[c], out[Offset(r, c)])
    /\ phase = "done" => row = n_rows + 1

Inputs ==
    /\ array \in Seq(Line) \ {<<>>}
    /\ type_policy \in TypePolicy /\ int64_opt \in Int64Opt

Cursor ==
    /\ phase \in {"diagnose", "typed", "mixed", "done", "nullopt"}
    /\ row \in 1 .. n_rows + 1
    /\ col \in Nat \ {0}
    /\ n_cols \in Nat \cup {-1}
    /\ matrix_doctor \in Doctor

IInv == Inputs /\ Cursor /\ DiagnosisInv /\ StorageInv

-----------------------------------------------------------------------------
(* Types *)

LEMMA Bounds ==
    ASSUME Inputs
    PROVE  /\ n_rows \in Nat \ {0} /\ DOMAIN array = 1 .. n_rows
           /\ \A r \in 1 .. n_rows :
                /\ Len(array[r].items) \in Nat
                /\ DOMAIN array[r].items = 1 .. Len(array[r].items)
                /\ KindsIn(array[r].items) \subseteq ElementKind
                /\ \A c \in DOMAIN array[r].items :
                     /\ array[r].items[c] \in Value
                     /\ array[r].items[c].kind \in ElementKind
                     /\ array[r].items[c].kind \in KindsIn(array[r].items)
<1>1. n_rows \in Nat \ {0} /\ DOMAIN array = 1 .. n_rows
  BY DEF Inputs, n_rows
<1>2. ASSUME NEW r \in 1 .. n_rows
      PROVE  /\ Len(array[r].items) \in Nat
             /\ DOMAIN array[r].items = 1 .. Len(array[r].items)
             /\ KindsIn(array[r].items) \subseteq ElementKind
             /\ \A c \in DOMAIN array[r].items :
                  /\ array[r].items[c] \in Value
                  /\ array[r].items[c].kind \in ElementKind
                  /\ array[r].items[c].kind \in KindsIn(array[r].items)
  <2>1. array[r] \in Line
    BY <1>1 DEF Inputs
  <2>2. array[r].items \in Seq(Value)
    BY <2>1 DEF Line
  <2>3. \A v \in Value : v.kind \in ElementKind
    BY DEF Value
  <2> QED
    BY <2>2, <2>3 DEF KindsIn
<1> QED
  BY <1>1, <1>2

LEMMA AllKindsAre ==
    ASSUME Inputs
    PROVE  /\ AllKinds = Seen(n_rows)
           /\ \A m \in 0 .. n_rows : Seen(m) \subseteq AllKinds
           /\ AllKinds \subseteq ElementKind
           /\ Seen(0) = {}
           /\ \A m \in 1 .. n_rows : /\ Seen(m) = Seen(m - 1) \cup KindsIn(array[m].items)
                                     /\ KindsIn(array[1].items) \subseteq Seen(m)
<1>1. n_rows \in Nat \ {0} /\ \A r \in 1 .. n_rows : KindsIn(array[r].items) \subseteq ElementKind
  BY Bounds
<1>2. AllKinds = Seen(n_rows)
  BY DEF AllKinds, Seen
<1>3. \A m \in 0 .. n_rows : Seen(m) \subseteq AllKinds
  BY <1>1 DEF AllKinds, Seen
<1>4. AllKinds \subseteq ElementKind
  BY <1>1 DEF AllKinds
<1>5. Seen(0) = {}
  BY DEF Seen
<1>6. ASSUME NEW m \in 1 .. n_rows
      PROVE  /\ Seen(m) = Seen(m - 1) \cup KindsIn(array[m].items)
             /\ KindsIn(array[1].items) \subseteq Seen(m)
  <2>1. 1 .. m = (1 .. m - 1) \cup {m} /\ 1 \in 1 .. m
    BY <1>1
  <2> QED
    BY <2>1 DEF Seen
<1> QED
  BY <1>2, <1>3, <1>4, <1>5, <1>6

-----------------------------------------------------------------------------
(* Doctors *)

(* Merging the doctors of two sets of elements gives the doctor of both,   *)
(* although i32 is not merged when integers are always of 64 bits.         *)
LEMMA Merged ==
    ASSUME NEW o \in Int64Opt, NEW K \in SUBSET ElementKind, NEW L \in SUBSET ElementKind
    PROVE  /\ update(o, DoctorOf(o, K), DoctorOf(o, L)) = DoctorOf(o, K \cup L)
           /\ DoctorOf(o, {}) = EmptyDoctor
           /\ DoctorOf(o, K) \in Doctor
<1>1. \A k \in ElementKind : /\ o = "Always" => lower_flag(o, k) # "i32"
                             /\ lower_flag(o, k) \in rcpp_T
                             /\ element_type(k) \in ElementType
  BY DEF lower_flag, element_type, ElementKind, ElementType, rcpp_T
<1>2. /\ {element_type(k) : k \in K \cup L}
           = {element_type(k) : k \in K} \cup {element_type(k) : k \in L}
      /\ {lower_flag(o, k) : k \in K \cup L}
           = {lower_flag(o, k) : k \in K} \cup {lower_flag(o, k) : k \in L}
  OBVIOUS
<1>3. o = "Always" => {lower_flag(o, k) : k \in L} \ {"i32"} = {lower_flag(o, k) : k \in L}
  BY <1>1
<1>4. update(o, DoctorOf(o, K), DoctorOf(o, L)) = DoctorOf(o, K \cup L)
  BY <1>2, <1>3 DEF update, DoctorOf
<1>5. DoctorOf(o, {}) = EmptyDoctor
  BY DEF DoctorOf, EmptyDoctor
<1>6. DoctorOf(o, K) \in Doctor
  <2>1. {element_type(k) : k \in K} \in SUBSET ElementType
    BY <1>1
  <2>2. {lower_flag(o, k) : k \in K} \in SUBSET rcpp_T
    BY <1>1
  <2> QED
    BY <2>1, <2>2 DEF DoctorOf, Doctor
<1> QED
  BY <1>4, <1>5, <1>6

(* Fewer elements are vectorizable when more are, unless only nulls are    *)
(* left of them.                                                           *)
LEMMA FewerVectorizable ==
    ASSUME NEW policy \in TypePolicy, NEW d \in Doctor, NEW e \in Doctor,
           e.flags \subseteq d.flags, is_vectorizable(policy, d),
           policy = "anything_goes" \/ ~(e.flags \subseteq {"null"})
    PROVE  is_vectorizable(policy, e)
<1>1. d.flags \subseteq {"chr", "u64", "dbl", "i64", "i32", "lgl", "null"}
  BY DEF Doctor, rcpp_T, is_vectorizable
<1>2. CASE policy = "anything_goes"
  BY <1>2 DEF is_vectorizable
<1>3. CASE policy # "anything_goes"
  <2>1. PICK f \in e.flags : f # "null"
    BY <1>3
  <2>2. f \in {"chr", "u64", "dbl", "i64", "i32", "lgl"} /\ f \in d.flags
    BY <1>1, <2>1
  <2>3. CASE policy = "strict"
    BY <1>1, <2>1, <2>2, <2>3 DEF is_vectorizable, Only
  <2>4. CASE policy = "ints_as_dbls"
    BY <1>1, <2>1, <2>2, <2>4 DEF is_vectorizable, Only
  <2> QED
    BY <1>3, <2>3, <2>4 DEF TypePolicy
<1> QED
  BY <1>2, <1>3

(* Nulls alone are vectorizable under "anything_goes" only. *)
LEMMA NullsAlone ==
    ASSUME NEW policy \in TypePolicy, NEW o \in Int64Opt, NEW K \in SUBSET ElementKind
    PROVE  /\ DoctorOf(o, K).flags \subseteq {"null"} <=> K \subseteq {"NULL_VALUE"}
           /\ K \subseteq {"NULL_VALUE"}
                => (is_vectorizable(policy, DoctorOf(o, K)) <=> policy = "anything_goes")
<1>1. \A k \in ElementKind : lower_flag(o, k) = "null" <=> k = "NULL_VALUE"
  BY DEF lower_flag, ElementKind
<1>2. DoctorOf(o, K).flags = {lower_flag(o, k) : k \in K}
  BY DEF DoctorOf
<1>3. DoctorOf(o, K).flags \subseteq {"null"} <=> K \subseteq {"NULL_VALUE"}
  BY <1>1, <1>2
<1>4. K \subseteq {"NULL_VALUE"}
        => (is_vectorizable(policy, DoctorOf(o, K)) <=> policy = "anything_goes")
  BY <1>3 DEF is_vectorizable
<1> QED
  BY <1>3, <1>4

(* A prefix of the rows that is not vectorizable settles the verdict.      *)
LEMMA VerdictOfPrefix ==
    ASSUME Inputs, NEW m \in 1 .. n_rows, ~Vectorizable(Seen(m))
    PROVE  ~Verdict
<1> SUFFICES ASSUME Verdict PROVE FALSE
  OBVIOUS
<1> DEFINE K == Seen(m)
           L == AllKinds
<1>1. /\ type_policy \in TypePolicy /\ int64_opt \in Int64Opt
      /\ K \in SUBSET ElementKind /\ L \in SUBSET ElementKind /\ K \subseteq L
      /\ KindsIn(array[1].items) \subseteq K
  BY AllKindsAre, Bounds DEF Inputs
<1>2. /\ ~is_vectorizable(type_policy, DoctorOf(int64_opt, K))
      /\ is_vectorizable(type_policy, DoctorOf(int64_opt, L))
  BY DEF Vectorizable, Verdict
<1> HIDE DEF K, L
<1>3. DoctorOf(int64_opt, K).flags \subseteq DoctorOf(int64_opt, L).flags
  BY <1>1 DEF DoctorOf
<1>4. type_policy # "anything_goes" /\ K \subseteq {"NULL_VALUE"}
  BY <1>1, <1>2, <1>3, FewerVectorizable, NullsAlone, Merged
<1>5. NullsAhead
  BY <1>1, <1>4 DEF NullsAhead
<1>6. L = KindsIn(array[1].items)
  BY <1>4, <1>5 DEF Verdict, L
<1>7. L \subseteq {"NULL_VALUE"}
  BY <1>5, <1>6 DEF NullsAhead
<1> QED
  BY <1>1, <1>2, <1>4, <1>7, NullsAlone

-----------------------------------------------------------------------------
(* The elements of the matrix *)

Above(r) ==
    CASE r = "chr"  -> {}
      [] r = "u64"  -> {"chr"}
      [] r = "dbl"  -> {"chr", "u64"}
      [] r = "i64"  -> {"chr", "u64", "dbl"}
      [] r = "i32"  -> {"chr", "u64", "dbl", "i64"}
      [] r = "lgl"  -> {"chr", "u64", "dbl", "i64", "i32"}
      [] r = "null" -> {"chr", "u64", "dbl", "i64", "i32", "lgl"}

(* The R type outranks every other type in the matrix; only                *)
(* "anything_goes" mixes doubles with text, and strict does not mix them   *)
(* with wide integers.                                                     *)
LEMMA RTypeOutranks ==
    ASSUME NEW policy \in TypePolicy, NEW d \in Doctor, is_vectorizable(policy, d)
    PROVE  /\ common_R_type(policy, d) \in {"chr", "u64", "dbl", "i64", "i32", "lgl", "null"}
           /\ common_R_type(policy, d) # "null" => common_R_type(policy, d) \in d.flags
           /\ Above(common_R_type(policy, d)) \cap d.flags = {}
           /\ {"object", "array"} \cap d.flags = {}
           /\ policy = "strict" => ~({"dbl", "i64"} \subseteq d.flags)
           /\ policy # "anything_goes" /\ "dbl" \in d.flags => {"chr", "u64"} \cap d.flags = {}
<1>1. "object" \notin d.flags /\ "array" \notin d.flags
  BY DEF is_vectorizable
<1>2. CASE policy = "anything_goes"
  BY <1>1, <1>2 DEF common_R_type, Above
<1>3. CASE policy = "ints_as_dbls"
  BY <1>1, <1>3 DEF common_R_type, is_vectorizable, Only, Above
<1>4. CASE policy = "strict"
  BY <1>1, <1>4 DEF common_R_type, is_vectorizable, Only, Above
<1> QED
  BY <1>2, <1>3, <1>4 DEF TypePolicy

(* A flag has a kind of element behind it.                                 *)
LEMMA FlagsHaveKinds ==
    ASSUME NEW o \in Int64Opt, NEW L \in SUBSET ElementKind
    PROVE  LET f == DoctorOf(o, L).flags
           IN  /\ "dbl" \in f => "DOUBLE" \in L
               /\ "chr" \in f => "STRING" \in L
               /\ "u64" \in f => "UINT64" \in L
<1>1. \A k \in ElementKind : /\ lower_flag(o, k) = "dbl" => k = "DOUBLE"
                             /\ lower_flag(o, k) = "chr" => k = "STRING"
                             /\ lower_flag(o, k) = "u64" => k = "UINT64"
  BY DEF lower_flag, ElementKind
<1> QED
  BY <1>1 DEF DoctorOf

(* A value in a vector that can hold it is kept, or given up as the        *)
(* policies have it.                                                       *)
LEMMA StoredIsKept ==
    ASSUME NEW p \in TypePolicy, NEW o \in Int64Opt, NEW L \in SUBSET ElementKind,
           NEW v \in Value,
           NEW t \in {"STRSXP", "REALSXP", "INTSXP", "LGLSXP", "integer64"},
           t = "INTSXP" => v.kind \notin {"INT64", "LLONG_MIN"},
           t = "integer64" => o \in {"Integer64", "Always"},
           t = "REALSXP" /\ v.kind = "INT64"
             => o = "Double" \/ (p # "strict" /\ "DOUBLE" \in L),
           t = "STRSXP" /\ v.kind = "DOUBLE"
             => p = "anything_goes" /\ L \cap {"STRING", "UINT64"} # {}
    PROVE  stored(t, v) \in Cell /\ Kept(p, o, L, v, stored(t, v))
<1>1. NA \in Cell
  BY DEF NA, Cell, NoValue, Value, Representation, ElementKind
<1>2. stored(t, v) \in Cell
  BY <1>1 DEF stored, Cell, Representation
<1>3. Kept(p, o, L, v, stored(t, v))
  BY DEF stored, Kept, Survives, LostByPolicy
<1> QED
  BY <1>2, <1>3

LEMMA NullIsKept ==
    ASSUME NEW p, NEW o, NEW L, NEW v, v.kind = "NULL_VALUE"
    PROVE  NA \in Cell /\ Kept(p, o, L, v, NA)
  BY DEF NA, Cell, NoValue, Value, Representation, ElementKind, Kept, Survives

LEMMA ElementIsKept ==
    ASSUME Inputs, phase \in Loops, NEW L \in SUBSET ElementKind,
           matrix_doctor = DoctorOf(int64_opt, L), Vectorizable(L),
           phase = "typed" => is_homogeneous(matrix_doctor),
           NEW v \in Value, v.kind \in L
    PROVE  Element(v) \in Cell /\ Kept(type_policy, int64_opt, L, v, Element(v))
<1> DEFINE f == matrix_doctor.flags
           T == matrix_doctor.types
<1>1. /\ int64_opt \in Int64Opt /\ type_policy \in TypePolicy /\ matrix_doctor \in Doctor
      /\ v.kind \in ElementKind
  BY Merged DEF Inputs
<1>2. /\ R_Type \in {"chr", "u64", "dbl", "i64", "i32", "lgl", "null"}
      /\ R_Type # "null" => R_Type \in f
      /\ Above(R_Type) \cap f = {}
      /\ {"object", "array"} \cap f = {}
      /\ type_policy = "strict" => ~({"dbl", "i64"} \subseteq f)
      /\ type_policy # "anything_goes" /\ "dbl" \in f => {"chr", "u64"} \cap f = {}
  BY <1>1, RTypeOutranks DEF R_Type, Vectorizable
<1>3. lower_flag(int64_opt, v.kind) \in f /\ element_type(v.kind) \in T
  BY DEF DoctorOf
<1>4. R_Type = "i32" => v.kind \notin {"INT64", "LLONG_MIN"}
  BY <1>2, <1>3 DEF Above, lower_flag
<1>5. int64_storage(int64_opt) \in {"REALSXP", "STRSXP", "integer64"}
      /\ (int64_storage(int64_opt) = "integer64" => int64_opt \in {"Integer64", "Always"})
  BY <1>1 DEF int64_storage, Int64Opt
<1>6. CASE phase = "typed"
  <2>1. PICK t \in ElementType \ {"NULL_VALUE"} : T \ {"NULL_VALUE"} = {t}
    BY <1>6 DEF is_homogeneous
  <2>2. common_element_type = t
    BY <2>1 DEF common_element_type
  <2>3. Element(v) = get_scalar(t, typed_vector, has_null(matrix_doctor), v)
    BY <1>6, <2>2 DEF Element
  <2>4. CASE v.kind = "NULL_VALUE"
    <3>1. has_null(matrix_doctor)
      BY <1>3, <2>4 DEF has_null, lower_flag
    <3> QED
      BY <2>3, <2>4, <3>1, NullIsKept DEF get_scalar
  <2>5. CASE v.kind # "NULL_VALUE"
    <3>1. element_type(v.kind) = t
      BY <1>1, <1>3, <2>1, <2>5 DEF element_type, ElementKind
    <3>2. t \in {"STRING", "UINT64", "DOUBLE", "INT64", "BOOL"}
      BY <1>1, <1>2, <1>3, <2>5, <3>1 DEF element_type, lower_flag, ElementKind
    <3>3. /\ typed_vector \in {"STRSXP", "REALSXP", "INTSXP", "LGLSXP", "integer64"}
          /\ typed_vector = "INTSXP" => v.kind \notin {"INT64", "LLONG_MIN"}
          /\ typed_vector = "integer64" => int64_opt \in {"Integer64", "Always"}
          /\ typed_vector = "REALSXP" /\ v.kind = "INT64" => int64_opt = "Double"
          /\ ~(typed_vector = "STRSXP" /\ v.kind = "DOUBLE")
      BY <1>1, <1>4, <1>5, <2>2, <3>1, <3>2
      DEF typed_vector, int64_storage, element_type, Int64Opt
    <3>4. Element(v) = stored(typed_vector, v)
      BY <2>3, <2>5, <3>1 DEF get_scalar
    <3> QED
      BY <1>1, <3>3, <3>4, StoredIsKept
  <2> QED
    BY <2>4, <2>5
<1>7. CASE phase = "mixed"
  <2>1. R_Type # "null" =>
          /\ mixed_vector \in {"STRSXP", "REALSXP", "INTSXP", "LGLSXP", "integer64"}
          /\ mixed_vector = "INTSXP" => v.kind \notin {"INT64", "LLONG_MIN"}
          /\ mixed_vector = "integer64" => int64_opt \in {"Integer64", "Always"}
    BY <1>2, <1>4, <1>5 DEF mixed_vector
  <2>2. ASSUME R_Type # "null", mixed_vector = "REALSXP", v.kind = "INT64"
        PROVE  int64_opt = "Double" \/ (type_policy # "strict" /\ "DOUBLE" \in L)
    <3>1. "i64" \in f
      BY <1>3, <2>2 DEF lower_flag
    <3>2. R_Type = "dbl" \/ int64_opt = "Double"
      BY <1>1, <1>2, <2>2 DEF mixed_vector, int64_storage, Int64Opt
    <3> QED
      BY <1>1, <1>2, <3>1, <3>2, FlagsHaveKinds
  <2>3. ASSUME R_Type # "null", mixed_vector = "STRSXP", v.kind = "DOUBLE"
        PROVE  type_policy = "anything_goes" /\ L \cap {"STRING", "UINT64"} # {}
    <3>1. "dbl" \in f
      BY <1>3, <2>3 DEF lower_flag
    <3>2. R_Type \in {"chr", "u64"}
      BY <1>1, <1>2, <2>3, <3>1 DEF mixed_vector, int64_storage, Above
    <3> QED
      BY <1>1, <1>2, <3>1, <3>2, FlagsHaveKinds
  <2>4. CASE v.kind = "NULL_VALUE"
    <3>1. Element(v) = NA
      BY <1>7, <2>1, <2>4
      DEF Element, get_scalar_dispatch, dispatches, Scalars, Integers64
    <3> QED
      BY <2>4, <3>1, NullIsKept
  <2>5. CASE v.kind # "NULL_VALUE"
    <3>1. lower_flag(int64_opt, v.kind) \notin Above(R_Type) \cup {"object", "array"}
      BY <1>2, <1>3
    <3>2. R_Type # "null"
      BY <1>1, <2>5, <3>1 DEF Above, lower_flag, ElementKind
    <3>3. v.kind \in dispatches(mixed_vector)
      BY <1>1, <1>2, <2>5, <3>1, <3>2
      DEF mixed_vector, int64_storage, Above, lower_flag, dispatches, ElementKind,
          Int64Opt, Scalars, Integers64
    <3>4. Element(v) = stored(mixed_vector, v)
      BY <1>7, <3>2, <3>3 DEF Element, get_scalar_dispatch
    <3> QED
      BY <1>1, <2>1, <2>2, <2>3, <3>2, <3>4, StoredIsKept
  <2> QED
    BY <2>4, <2>5
<1> QED
  BY <1>6, <1>7 DEF Loops

-----------------------------------------------------------------------------
(* The storage *)

(* Two places never share an offset, and an offset is that of a place.     *)
LEMMA Places ==
    ASSUME NEW n \in Nat \ {0}, NEW m \in Nat
    PROVE  /\ \A r, r2 \in 1 .. n : \A c, c2 \in 1 .. m :
                Place(n, r, c) = Place(n, r2, c2) => r = r2 /\ c = c2
           /\ \A r \in 1 .. n : \A c \in 1 .. m : Place(n, r, c) \in 0 .. n * m - 1
           /\ \A k \in 0 .. n * m - 1 :
                \E r \in 1 .. n : \E c \in 1 .. m : k = Place(n, r, c)
<1>1. ASSUME NEW a \in Nat, NEW b \in Nat, NEW x \in 0 .. n - 1, NEW y \in 0 .. n - 1,
             a * n + x = b * n + y
      PROVE  a = b /\ x = y
  BY <1>1
<1>2. ASSUME NEW a \in Nat, NEW x \in 0 .. n - 1
      PROVE  a * n + x \in Nat /\ (a < m <=> a * n + x < n * m)
  OBVIOUS
<1>3. ASSUME NEW r \in 1 .. n, NEW r2 \in 1 .. n, NEW c \in 1 .. m, NEW c2 \in 1 .. m,
             (c - 1) * n + r - 1 = (c2 - 1) * n + r2 - 1
      PROVE  r = r2 /\ c = c2
  <2>1. /\ c - 1 \in Nat /\ c2 - 1 \in Nat /\ r - 1 \in 0 .. n - 1 /\ r2 - 1 \in 0 .. n - 1
        /\ (c - 1) * n + (r - 1) = (c2 - 1) * n + (r2 - 1)
    BY <1>3
  <2> QED
    BY <1>1, <2>1
<1>4. ASSUME NEW r \in 1 .. n, NEW c \in 1 .. m
      PROVE  (c - 1) * n + r - 1 \in 0 .. n * m - 1
  <2>1. c - 1 \in Nat /\ r - 1 \in 0 .. n - 1 /\ c - 1 < m
    OBVIOUS
  <2> QED
    BY <1>2, <2>1
<1>5. ASSUME NEW k \in 0 .. n * m - 1
      PROVE  \E r \in 1 .. n : \E c \in 1 .. m : k = (c - 1) * n + r - 1
  <2>1. /\ k = (k \div n) * n + (k % n)
        /\ k % n \in 0 .. n - 1 /\ k \div n \in Nat
    OBVIOUS
  <2>2. k \div n < m
    BY <1>2, <2>1
  <2> WITNESS (k % n) + 1 \in 1 .. n
  <2> WITNESS (k \div n) + 1 \in 1 .. m
  <2> QED
    BY <2>1
<1> QED
  BY <1>3, <1>4, <1>5 DEF Place

-----------------------------------------------------------------------------
(* IInv is inductive *)

LEMMA InitInv == Init => IInv
<1> SUFFICES ASSUME Init PROVE IInv
  OBVIOUS
<1>1. Inputs
  BY LinesAssumption, MatrixOptionsAssumption DEF Init, Inputs
<1>2. Cursor
  BY <1>1, Bounds DEF Init, Cursor, EmptyDoctor, Doctor
<1>3. DiagnosisInv
  <2>1. matrix_doctor = DoctorOf(int64_opt, Seen(0))
    BY <1>1, AllKindsAre, Merged DEF Init, Inputs
  <2> QED
    BY <2>1 DEF Init, DiagnosisInv, Taken
<1>4. StorageInv
  BY DEF Init, StorageInv, Taken
<1> QED
  BY <1>1, <1>2, <1>3, <1>4 DEF IInv

LEMMA DiagnoseRowInv == ASSUME IInv, DiagnoseRow PROVE IInv'
<1>1. /\ Inputs /\ Cursor /\ DiagnosisInv /\ StorageInv
      /\ phase = "diagnose" /\ row \in 1 .. n_rows /\ n_rows \in Nat \ {0}
      /\ UNCHANGED <<array, type_policy, int64_opt, col, i, j, out>>
  BY Bounds DEF IInv, Cursor, DiagnoseRow, inputs
<1>2. /\ Inputs' /\ n_rows' = n_rows
      /\ Verdict' <=> Verdict
  BY <1>1 DEF Inputs, n_rows, Verdict, IsRectangular, AllKinds, NullsAhead
<1>3. phase' \in {"diagnose", "nullopt"}
  BY <1>1 DEF DiagnoseRow
<1>4. StorageInv'
  BY <1>1, <1>3 DEF StorageInv, Taken
<1>5. CASE array[row].type # "ARRAY"
  <2>1. phase' = "nullopt" /\ UNCHANGED <<row, matrix_doctor, n_cols>>
    BY <1>5 DEF DiagnoseRow
  <2>2. ~Verdict
    BY <1>1, <1>5 DEF Verdict, IsRectangular
  <2>3. DiagnosisInv'
    BY <1>2, <2>1, <2>2 DEF DiagnosisInv, Taken
  <2> QED
    BY <1>1, <1>2, <1>4, <2>1, <2>3 DEF IInv, Cursor
<1>6. CASE array[row].type = "ARRAY"
  <2> DEFINE K == KindsIn(array[row].items)
  <2>1. /\ matrix_doctor' = update(int64_opt, matrix_doctor, DoctorOf(int64_opt, K))
        /\ n_cols' = IF n_cols = -1 THEN Len(array[row].items) ELSE n_cols
        /\ phase' = IF \/ n_cols' # Len(array[row].items)
                       \/ ~is_vectorizable(type_policy, matrix_doctor')
                    THEN "nullopt" ELSE "diagnose"
        /\ row' = row + 1
    BY <1>6 DEF DiagnoseRow, items
  <2>2. /\ int64_opt \in Int64Opt /\ Seen(row - 1) \in SUBSET ElementKind
        /\ K \in SUBSET ElementKind /\ Seen(row) = Seen(row - 1) \cup K
        /\ Seen(row) \in SUBSET ElementKind
        /\ row = 1 => Seen(row) = K
    <3>1. int64_opt \in Int64Opt /\ K \in SUBSET ElementKind
      BY <1>1, Bounds DEF Inputs
    <3>2. row \in 0 .. n_rows /\ row - 1 \in 0 .. n_rows
      BY <1>1
    <3>3. Seen(row) = Seen(row - 1) \cup K
      BY <1>1, AllKindsAre
    <3>4. Seen(row) \in SUBSET ElementKind /\ Seen(row - 1) \in SUBSET ElementKind
      <4>1. \A m \in 0 .. n_rows : Seen(m) \in SUBSET ElementKind
        BY <1>1, AllKindsAre
      <4> QED
        BY <3>2, <4>1
    <3>5. row = 1 => row - 1 = 0
      BY <1>1
    <3>6. row = 1 => Seen(row - 1) = {}
      BY <1>1, <3>5, AllKindsAre
    <3> QED
      BY <3>1, <3>3, <3>4, <3>6
  <2>3. matrix_doctor' = DoctorOf(int64_opt, Seen(row)) /\ matrix_doctor' \in Doctor
    <3>1. matrix_doctor = DoctorOf(int64_opt, Seen(row - 1))
      BY <1>1 DEF DiagnosisInv
    <3> HIDE DEF K
    <3> QED
      BY <2>1, <2>2, <3>1, Merged
  <2>4. /\ n_cols' = IF row = 1 THEN Len(array[row].items) ELSE n_cols
        /\ n_cols' \in Nat
        /\ n_cols' = Len(array[1].items)
    <3>1. CASE row = 1
      BY <1>1, <2>1, <3>1, Bounds DEF DiagnosisInv
    <3>2. CASE row # 1
      <4>1. 1 \in 1 .. row - 1 /\ 1 \in 1 .. n_rows
        BY <1>1, <3>2
      <4>2. n_cols = Len(array[1].items) /\ n_cols \in Nat
        BY <1>1, <4>1, Bounds DEF DiagnosisInv, RowFits
      <4> QED
        BY <2>1, <3>2, <4>2
    <3> QED
      BY <3>1, <3>2
  <2>5. Cursor'
    BY <1>1, <1>2, <1>3, <2>1, <2>3, <2>4 DEF Cursor
  <2>6. CASE phase' = "nullopt"
    <3>1. ASSUME n_cols' # Len(array[row].items) PROVE ~Verdict
      BY <1>1, <2>4, <3>1 DEF Verdict, IsRectangular
    <3>2. ASSUME ~is_vectorizable(type_policy, matrix_doctor') PROVE ~Verdict
      BY <1>1, <2>3, <3>2, VerdictOfPrefix DEF Vectorizable
    <3>3. ~Verdict
      BY <2>1, <2>6, <3>1, <3>2
    <3>4. DiagnosisInv'
      BY <1>2, <2>6, <3>3 DEF DiagnosisInv, Taken
    <3> QED
      BY <1>2, <1>4, <2>5, <3>4 DEF IInv
  <2>7. CASE phase' = "diagnose"
    <3>1. /\ n_cols' = Len(array[row].items)
          /\ Vectorizable(Seen(row))
      BY <2>1, <2>3, <2>7 DEF Vectorizable
    <3>2. Vectorizable(KindsIn(array[1].items))
      <4>1. CASE row = 1
        BY <2>2, <3>1, <4>1
      <4>2. CASE row # 1
        BY <1>1, <4>2 DEF DiagnosisInv
      <4> QED
        BY <4>1, <4>2
    <3>3. ASSUME NEW r \in 1 .. row PROVE RowFits(r)'
      <4>1. CASE r = row
        BY <1>1, <1>6, <3>1, <4>1 DEF RowFits
      <4>2. CASE r # row
        <5>1. r \in 1 .. row - 1 /\ row # 1
          BY <1>1, <4>2
        <5> QED
          BY <1>1, <2>4, <5>1 DEF DiagnosisInv, RowFits
      <4> QED
        BY <4>1, <4>2
    <3>4. row' - 1 = row /\ row' # 1
      BY <1>1, <2>1
    <3>5. Seen(row - 1)' = Seen(row)
      BY <1>1, <3>4 DEF Seen
    <3>6. DiagnosisInv'
      BY <1>1, <2>3, <2>7, <3>1, <3>2, <3>3, <3>4, <3>5
      DEF DiagnosisInv, Taken, Vectorizable
    <3> QED
      BY <1>2, <1>4, <2>5, <3>6 DEF IInv
  <2> QED
    BY <1>3, <2>6, <2>7
<1> QED
  BY <1>5, <1>6

LEMMA DecideInv == ASSUME IInv, Decide PROVE IInv'
<1>1. /\ Inputs /\ Cursor /\ DiagnosisInv /\ StorageInv
      /\ phase = "diagnose" /\ row = n_rows + 1 /\ row' = 1 /\ n_rows \in Nat \ {0}
      /\ phase' \in Loops
      /\ phase' = "typed" => is_homogeneous(matrix_doctor)
      /\ UNCHANGED <<array, type_policy, int64_opt, col, matrix_doctor, n_cols, i, j, out>>
  BY Bounds DEF IInv, Cursor, Decide, inputs, Loops
<1>2. Inputs' /\ n_rows' = n_rows /\ AllKinds' = AllKinds
  BY <1>1 DEF Inputs, n_rows, AllKinds
<1>3. Cursor'
  BY <1>1, <1>2 DEF Cursor, Loops
<1>4. /\ row - 1 = n_rows /\ Seen(n_rows) = AllKinds
      /\ n_cols \in Nat
  <2>1. 1 \in 1 .. row - 1 /\ 1 \in 1 .. n_rows
    BY <1>1
  <2>2. n_cols = Len(array[1].items)
    BY <1>1, <2>1 DEF DiagnosisInv, RowFits
  <2> QED
    BY <1>1, <2>1, <2>2, AllKindsAre, Bounds
<1>5. DiagnosisInv'
  BY <1>1, <1>2, <1>4 DEF DiagnosisInv, Taken, Loops, Vectorizable, RowFits
<1>6. StorageInv'
  <2>1. /\ i = 0 /\ j = 0 /\ col = 1 /\ DOMAIN out = {} /\ (col - 1) * n_rows = 0
    BY <1>1 DEF StorageInv
  <2>2. \A r \in 1 .. n_rows : \A c \in 1 .. n_cols : ~Written(r, c)'
    BY <1>1, <2>1 DEF Written
  <2> QED
    BY <1>1, <1>2, <1>4, <2>1, <2>2 DEF StorageInv, Loops
<1> QED
  BY <1>2, <1>3, <1>5, <1>6 DEF IInv

(* In a matrix the rows are of one length, and its elements are known to   *)
(* its doctor.                                                             *)
LEMMA TakenRows ==
    ASSUME IInv, phase \in Taken
    PROVE  /\ n_rows \in Nat \ {0} /\ n_cols \in Nat
           /\ \A r \in 1 .. n_rows :
                /\ Len(array[r].items) = n_cols
                /\ \A c \in 1 .. n_cols : /\ array[r].items[c] \in Value
                                          /\ array[r].items[c].kind \in AllKinds
<1>1. Inputs /\ DiagnosisInv
  BY DEF IInv
<1>2. n_rows \in Nat \ {0} /\ \A r \in 1 .. n_rows : RowFits(r)
  BY <1>1, Bounds DEF DiagnosisInv
<1>3. ASSUME NEW r \in 1 .. n_rows
      PROVE  /\ Len(array[r].items) = n_cols /\ n_cols \in Nat
             /\ \A c \in 1 .. n_cols : /\ array[r].items[c] \in Value
                                       /\ array[r].items[c].kind \in AllKinds
  <2>1. Len(array[r].items) = n_cols /\ DOMAIN array[r].items = 1 .. n_cols
    BY <1>1, <1>2, Bounds DEF RowFits
  <2>2. \A c \in 1 .. n_cols : /\ array[r].items[c] \in Value
                               /\ array[r].items[c].kind \in KindsIn(array[r].items)
    BY <1>1, <2>1, Bounds
  <2>3. KindsIn(array[r].items) \subseteq AllKinds
    BY DEF AllKinds
  <2>4. n_cols \in Nat
    BY <1>1, <2>1, Bounds
  <2> QED
    BY <2>1, <2>2, <2>3, <2>4
<1>4. 1 \in 1 .. n_rows
  BY <1>2
<1> QED
  BY <1>2, <1>3, <1>4

LEMMA BuildElementInv == ASSUME IInv, BuildElement PROVE IInv'
<1>1. /\ Inputs /\ Cursor /\ DiagnosisInv /\ StorageInv
      /\ phase \in Loops /\ phase \in Taken /\ phase' = phase
      /\ row \in 1 .. n_rows /\ row' = row /\ col \in Nat \ {0} /\ col' = col + 1
      /\ UNCHANGED <<array, type_policy, int64_opt, matrix_doctor, n_cols, j>>
  BY Bounds DEF IInv, Cursor, BuildElement, inputs, Loops, Taken
<1>2. /\ n_rows \in Nat \ {0} /\ n_cols \in Nat /\ col \in 1 .. n_cols
      /\ Len(items) = n_cols
      /\ items[col] \in Value /\ items[col].kind \in AllKinds
      /\ items[col] = array[row].items[col]
  <2>1. /\ n_rows \in Nat \ {0} /\ n_cols \in Nat /\ Len(items) = n_cols
    BY <1>1, TakenRows DEF items
  <2>2. col \in 1 .. n_cols
    BY <1>1, <2>1 DEF BuildElement
  <2> QED
    BY <1>1, <2>1, <2>2, TakenRows DEF items
<1> DEFINE e == Element(items[col])
<1>3. e \in Cell /\ KeptHere(array[row].items[col], e)
  <2>1. AllKinds \in SUBSET ElementKind
    BY <1>1, AllKindsAre
  <2>2. /\ matrix_doctor = DoctorOf(int64_opt, AllKinds) /\ Vectorizable(AllKinds)
        /\ phase = "typed" => is_homogeneous(matrix_doctor)
    BY <1>1 DEF DiagnosisInv
  <2> QED
    BY <1>1, <1>2, <2>1, <2>2, ElementIsKept DEF KeptHere
<1>4. i + j = Offset(row, col) /\ i' = (col' - 1) * n_rows /\ j = row - 1
  <2>1. i = (col - 1) * n_rows /\ j = row - 1
    BY <1>1 DEF StorageInv
  <2>2. i' = i + n_rows
    BY DEF BuildElement
  <2>3. (col - 1) * n_rows + n_rows = col * n_rows
    BY <1>2
  <2>4. (col - 1) * n_rows \in Nat
    BY <1>2
  <2> QED
    BY <1>1, <1>2, <2>1, <2>2, <2>3, <2>4 DEF Offset, Place
<1>5. /\ DOMAIN out' = DOMAIN out \cup {Offset(row, col)}
      /\ out'[Offset(row, col)] = e
      /\ \A n \in DOMAIN out : n # Offset(row, col) => out'[n] = out[n]
  BY <1>4 DEF BuildElement
<1> HIDE DEF e
<1>6. ASSUME NEW r \in 1 .. n_rows, NEW c \in 1 .. n_cols
      PROVE  /\ Written(r, c)' <=> Written(r, c) \/ (r = row /\ c = col)
             /\ Offset(r, c)' = Offset(r, c)
             /\ Offset(r, c) = Offset(row, col) => r = row /\ c = col
  <2>1. Written(r, c)' <=> Written(r, c) \/ (r = row /\ c = col)
    BY <1>1, <1>2 DEF Written
  <2>2. Offset(r, c)' = Offset(r, c)
    BY <1>1 DEF Offset, n_rows
  <2>3. Offset(r, c) = Offset(row, col) => r = row /\ c = col
    <3>1. PICK n \in Nat \ {0}, m \in Nat : n = n_rows /\ m = n_cols
      BY <1>2
    <3>2. PICK x \in 1 .. n, y \in 1 .. m : x = row /\ y = col
      BY <1>1, <1>2, <3>1
    <3>3. Place(n, r, c) = Place(n, x, y) => r = x /\ c = y
      <4>1. r \in 1 .. n /\ c \in 1 .. m
        BY <3>1
      <4>2. \A r1, r2 \in 1 .. n : \A c1, c2 \in 1 .. m :
              Place(n, r1, c1) = Place(n, r2, c2) => r1 = r2 /\ c1 = c2
        BY Places
      <4> QED
        BY <3>2, <4>1, <4>2
    <3> QED
      BY <3>1, <3>2, <3>3 DEF Offset
  <2> QED
    BY <2>1, <2>2, <2>3
<1>7. \A n : n \in DOMAIN out' <=>
               \E r \in 1 .. n_rows : \E c \in 1 .. n_cols :
                  Written(r, c)' /\ n = Offset(r, c)
  <2>1. \A n : n \in DOMAIN out <=>
                 \E r \in 1 .. n_rows : \E c \in 1 .. n_cols :
                    Written(r, c) /\ n = Offset(r, c)
    BY <1>1 DEF StorageInv
  <2> QED
    BY <1>1, <1>2, <1>5, <1>6, <2>1
<1>8. ASSUME NEW r \in 1 .. n_rows, NEW c \in 1 .. n_cols, Written(r, c)'
      PROVE  /\ out'[Offset(r, c)] \in Cell
             /\ KeptHere(array[r].items[c], out'[Offset(r, c)])
  <2>1. CASE r = row /\ c = col
    BY <1>3, <1>5, <2>1
  <2>2. CASE ~(r = row /\ c = col)
    <3>1. Written(r, c) /\ Offset(r, c) # Offset(row, col)
      BY <1>6, <1>8, <2>2
    <3>2. /\ out[Offset(r, c)] \in Cell
          /\ KeptHere(array[r].items[c], out[Offset(r, c)])
          /\ Offset(r, c) \in DOMAIN out
      BY <1>1, <3>1 DEF StorageInv
    <3> QED
      BY <1>5, <3>1, <3>2
  <2> QED
    BY <2>1, <2>2
<1>9. n_rows' = n_rows /\ AllKinds' = AllKinds /\ Inputs'
  BY <1>1 DEF n_rows, AllKinds, Inputs
<1>10. StorageInv'
  <2>1. col' <= n_cols + 1 /\ row' # n_rows + 1 /\ phase' # "done"
    BY <1>1, <1>2 DEF Loops
  <2> QED
    BY <1>1, <1>4, <1>6, <1>7, <1>8, <1>9, <2>1 DEF KeptHere, StorageInv, Taken
<1>11. DiagnosisInv'
  BY <1>1, <1>9 DEF DiagnosisInv, Taken, Loops, Vectorizable, RowFits
<1>12. Cursor'
  BY <1>1, <1>2, <1>9 DEF Cursor
<1> QED
  BY <1>9, <1>10, <1>11, <1>12 DEF IInv

LEMMA BuildRowEndInv == ASSUME IInv, BuildRowEnd PROVE IInv'
<1>1. /\ Inputs /\ Cursor /\ DiagnosisInv /\ StorageInv
      /\ phase \in Loops /\ phase \in Taken /\ phase' = phase
      /\ row \in 1 .. n_rows /\ row' = row + 1 /\ col' = 1 /\ i' = 0 /\ j' = j + 1
      /\ UNCHANGED <<array, type_policy, int64_opt, matrix_doctor, n_cols, out>>
  BY Bounds DEF IInv, Cursor, BuildRowEnd, inputs, Loops, Taken
<1>2. /\ n_rows \in Nat \ {0} /\ n_cols \in Nat /\ col = n_cols + 1
  <2>1. /\ n_rows \in Nat \ {0} /\ n_cols \in Nat /\ Len(items) = n_cols
    BY <1>1, TakenRows DEF items
  <2> QED
    BY <1>1, <2>1 DEF BuildRowEnd, StorageInv, Cursor
<1>3. n_rows' = n_rows /\ AllKinds' = AllKinds /\ Inputs'
  BY <1>1 DEF n_rows, AllKinds, Inputs
<1>4. ASSUME NEW r \in 1 .. n_rows, NEW c \in 1 .. n_cols
      PROVE  (Written(r, c)' <=> Written(r, c)) /\ Offset(r, c)' = Offset(r, c)
  BY <1>1, <1>2 DEF Written, Offset, n_rows
<1>5. i' = (col' - 1) * n_rows /\ j' = row' - 1
  BY <1>1, <1>2 DEF StorageInv
<1>6. StorageInv'
  <2>1. /\ \A n : n \in DOMAIN out <=>
                    \E r \in 1 .. n_rows : \E c \in 1 .. n_cols :
                       Written(r, c) /\ n = Offset(r, c)
        /\ \A r \in 1 .. n_rows : \A c \in 1 .. n_cols :
              Written(r, c) =>
                 /\ out[Offset(r, c)] \in Cell
                 /\ KeptHere(array[r].items[c], out[Offset(r, c)])
    BY <1>1 DEF StorageInv
  <2>2. col' <= n_cols + 1 /\ phase' # "done"
    BY <1>1, <1>2 DEF Loops
  <2> QED
    BY <1>1, <1>3, <1>4, <1>5, <2>1, <2>2 DEF KeptHere, StorageInv, Taken, Loops
<1>7. DiagnosisInv'
  BY <1>1, <1>3 DEF DiagnosisInv, Taken, Loops, Vectorizable, RowFits
<1>8. Cursor'
  BY <1>1, <1>2, <1>3 DEF Cursor
<1> QED
  BY <1>3, <1>6, <1>7, <1>8 DEF IInv

LEMMA FinishInv == ASSUME IInv, Finish \/ UNCHANGED vars PROVE IInv'
<1>1. /\ Inputs /\ Cursor /\ DiagnosisInv /\ StorageInv /\ n_rows \in Nat \ {0}
      /\ \/ phase' = phase
         \/ phase \in Loops /\ phase' = "done" /\ row > n_rows
      /\ UNCHANGED <<array, type_policy, int64_opt, row, col, matrix_doctor, n_cols, i, j, out>>
  BY Bounds DEF IInv, Finish, vars, inputs, Loops
<1>2. /\ n_rows' = n_rows /\ AllKinds' = AllKinds /\ Inputs'
      /\ Verdict' <=> Verdict
  BY <1>1 DEF n_rows, AllKinds, Inputs, Verdict, IsRectangular, NullsAhead
<1>3. Cursor'
  BY <1>1, <1>2 DEF Cursor, Loops
<1>4. DiagnosisInv'
  BY <1>1, <1>2 DEF DiagnosisInv, Taken, Loops, Vectorizable, RowFits, Seen
<1>5. StorageInv'
  <2>1. /\ \A r, c : (Written(r, c)' <=> Written(r, c)) /\ Offset(r, c)' = Offset(r, c)
    BY <1>1 DEF Written, Offset, n_rows
  <2>2. phase' = "done" => row = n_rows + 1
    BY <1>1 DEF Cursor, StorageInv, Loops
  <2> QED
    BY <1>1, <1>2, <2>1, <2>2 DEF KeptHere, StorageInv, Taken, Loops
<1> QED
  BY <1>2, <1>3, <1>4, <1>5 DEF IInv

LEMMA IInvHolds == Spec => []IInv
<1>1. IInv /\ [Next]_vars => IInv'
  BY DiagnoseRowInv, DecideInv, BuildElementInv, BuildRowEndInv, FinishInv
  DEF Next, Returned
<1> QED
  BY <1>1, InitInv, PTL DEF Spec

-----------------------------------------------------------------------------
(* Every variable keeps its type, and no cell is written outside of the    *)
(* n_rows * n_cols that were allocated.                                    *)
THEOREM TypeCorrect == Spec => []TypeOK
<1>1. IInv => TypeOK
  <2> SUFFICES ASSUME IInv PROVE TypeOK
    OBVIOUS
  <2>1. Inputs /\ Cursor /\ StorageInv /\ n_rows \in Nat \ {0}
    BY Bounds DEF IInv
  <2>2. /\ i \in Nat /\ j \in 0 .. n_rows
        /\ DOMAIN out \subseteq 0 .. n_rows * n_cols - 1
        /\ \A n \in DOMAIN out : out[n] \in Cell
    <3>1. CASE phase \in Taken
      <4>1. i = (col - 1) * n_rows /\ (col - 1) * n_rows \in Nat /\ j = row - 1
        BY <2>1, <3>1 DEF StorageInv, Cursor
      <4>2. n_cols \in Nat
        BY <3>1, TakenRows
      <4>3. ASSUME NEW n \in DOMAIN out
            PROVE  n \in 0 .. n_rows * n_cols - 1 /\ out[n] \in Cell
        <5>1. PICK r \in 1 .. n_rows, c \in 1 .. n_cols : Written(r, c) /\ n = Offset(r, c)
          BY <2>1, <3>1, <4>3 DEF StorageInv
        <5> QED
          BY <2>1, <3>1, <4>2, <5>1, Places DEF StorageInv, Offset
      <4> QED
        BY <2>1, <4>1, <4>3 DEF Cursor
    <3>2. CASE phase \notin Taken
      BY <2>1, <3>2 DEF StorageInv, Cursor, Taken
    <3> QED
      BY <3>1, <3>2
  <2> QED
    BY <2>1, <2>2 DEF TypeOK, Inputs, Cursor
<1> QED
  BY <1>1, IInvHolds, PTL

(* A matrix of any size has every cell written, and each holds the element *)
(* of its row and column.                                                  *)
THEOREM HoldsItsElements == Spec => []MatrixHoldsItsElements
<1>1. IInv => MatrixHoldsItsElements
  <2> SUFFICES ASSUME IInv, phase = "done"
               PROVE  /\ DOMAIN out = 0 .. n_rows * n_cols - 1
                      /\ \A r \in 1 .. n_rows : \A c \in 1 .. n_cols :
                            KeptHere(array[r].items[c], out[Offset(r, c)])
    BY DEF MatrixHoldsItsElements, KeptHere, Offset, Place
  <2>1. /\ n_rows \in Nat \ {0} /\ n_cols \in Nat
        /\ StorageInv /\ phase \in Taken /\ row = n_rows + 1
    BY TakenRows DEF IInv, StorageInv, Taken
  <2>2. \A r \in 1 .. n_rows : \A c \in 1 .. n_cols : Written(r, c)
    BY <2>1 DEF Written
  <2>3. \A n : n \in DOMAIN out <=>
                 \E r \in 1 .. n_rows : \E c \in 1 .. n_cols : n = Offset(r, c)
    BY <2>1, <2>2 DEF StorageInv
  <2> DEFINE Cells == 0 .. n_rows * n_cols - 1
  <2>4. \A r \in 1 .. n_rows : \A c \in 1 .. n_cols : Offset(r, c) \in Cells
    BY <2>1, Places DEF Offset
  <2>5. \A k \in Cells : \E r \in 1 .. n_rows : \E c \in 1 .. n_cols : k = Offset(r, c)
    BY <2>1, Places DEF Offset
  <2> HIDE DEF Cells
  <2>6. DOMAIN out = Cells
    BY <2>3, <2>4, <2>5
  <2> QED
    BY <2>1, <2>2, <2>6 DEF StorageInv, Cells
<1> QED
  BY <1>1, IInvHolds, PTL

(* The early return at the first row that does not fit never changes the   *)
(* verdict on the whole, but for nulls ahead.                              *)
THEOREM SameVerdict == Spec => []SameVerdictAsVector
<1>1. IInv => SameVerdictAsVector
  <2> SUFFICES ASSUME IInv, phase \in Taken \cup {"nullopt"}
               PROVE  phase # "nullopt" <=> Verdict
    BY DEF SameVerdictAsVector, Verdict, Taken
  <2>1. CASE phase = "nullopt"
    BY <2>1 DEF IInv, DiagnosisInv
  <2>2. CASE phase \in Taken
    <3>1. /\ Inputs /\ n_rows \in Nat \ {0}
          /\ \A r \in 1 .. n_rows : RowFits(r)
          /\ Vectorizable(AllKinds) /\ Vectorizable(KindsIn(array[1].items))
      BY <2>2, Bounds DEF IInv, DiagnosisInv
    <3>2. IsRectangular
      BY <3>1 DEF IsRectangular, RowFits
    <3>3. NullsAhead => type_policy = "anything_goes"
      <4>1. KindsIn(array[1].items) \in SUBSET ElementKind
        BY <3>1, Bounds
      <4> QED
        BY <3>1, <4>1, NullsAlone DEF NullsAhead, Vectorizable, Inputs
    <3> QED
      BY <2>2, <3>1, <3>2, <3>3 DEF Verdict, Vectorizable, Taken
  <2> QED
    BY <2>1, <2>2
<1> QED
  BY <1>1, IInvHolds, PTL
=============================================================================
