---------------------------- MODULE VectorProofs ----------------------------
(***************************************************************************)
(* What is proved of simplify_vector() for arrays of any length and any    *)
(* elements, under any policies.                                           *)
(***************************************************************************)
EXTENDS Vector, TLAPS

(* The upper and the lower case flags of a doctor are raised together.     *)
Coupled(o, d) ==
    /\ "ARRAY" \in d.types <=> "array" \in d.flags
    /\ "OBJECT" \in d.types <=> "object" \in d.flags
    /\ "STRING" \in d.types <=> "chr" \in d.flags
    /\ "DOUBLE" \in d.types <=> "dbl" \in d.flags
    /\ "INT64" \in d.types <=> "i64" \in d.flags \/ "i32" \in d.flags
    /\ "BOOL" \in d.types <=> "lgl" \in d.flags
    /\ "NULL_VALUE" \in d.types <=> "null" \in d.flags
    /\ "UINT64" \in d.types <=> "u64" \in d.flags
    /\ o = "Always" => "i32" \notin d.flags

(* The doctor has examined an element of this kind.                        *)
Knows(o, d, kind) == element_type(kind) \in d.types /\ lower_flag(o, kind) \in d.flags

(* What NothingLost says of one element and what became of it.             *)
KeptHere(v, c) == Kept(type_policy, int64_opt, KindsIn(array), v, c)

(* The doctor has no flag that no element raised.                          *)
FlagsSeen ==
    \A f \in type_doctor.flags : \E n \in DOMAIN array : lower_flag(int64_opt, array[n].kind) = f

Loops == {"typed", "mixed", "list"}

DoctorInv ==
    /\ Coupled(int64_opt, type_doctor)
    /\ FlagsSeen
    /\ \A n \in DOMAIN array :
          phase = "diagnose" /\ n < i => Knows(int64_opt, type_doctor, array[n].kind)
    /\ \A n \in DOMAIN array :
          phase # "diagnose" => Knows(int64_opt, type_doctor, array[n].kind)

DecisionInv ==
    /\ phase \in {"typed", "mixed"} => is_vectorizable(type_policy, type_doctor)
    /\ phase = "typed" => is_homogeneous(type_doctor)

IInv ==
    /\ TypeOK /\ DoctorInv /\ DecisionInv
    /\ \A n \in DOMAIN out : KeptHere(array[n], out[n])

-----------------------------------------------------------------------------
(* The doctor *)

(* One more element leaves the flags coupled, and known what was known.    *)
LEMMA AddElement ==
    ASSUME NEW o \in Int64Opt, NEW d \in Doctor, NEW kind \in ElementKind, Coupled(o, d)
    PROVE  /\ add_element(o, d, kind) \in Doctor
           /\ Coupled(o, add_element(o, d, kind))
           /\ Knows(o, add_element(o, d, kind), kind)
           /\ \A k : Knows(o, d, k) => Knows(o, add_element(o, d, kind), k)
<1> DEFINE t == element_type(kind)
           f == lower_flag(o, kind)
           d2 == add_element(o, d, kind)
<1>1. t \in ElementType /\ f \in rcpp_T
  BY DEF element_type, lower_flag, ElementKind, ElementType, rcpp_T
<1>2. /\ f = "array" <=> t = "ARRAY"
      /\ f = "object" <=> t = "OBJECT"
      /\ f = "chr" <=> t = "STRING"
      /\ f = "dbl" <=> t = "DOUBLE"
      /\ f \in {"i64", "i32"} <=> t = "INT64"
      /\ f = "lgl" <=> t = "BOOL"
      /\ f = "null" <=> t = "NULL_VALUE"
      /\ f = "u64" <=> t = "UINT64"
      /\ o = "Always" => f # "i32"
  BY DEF element_type, lower_flag, ElementKind
<1>3. d2 = [types |-> d.types \cup {t}, flags |-> d.flags \cup {f}]
  BY DEF add_element
<1> HIDE DEF t, f, d2
<1>4. d2 \in Doctor
  BY <1>1, <1>3 DEF Doctor
<1>5. Coupled(o, d2)
  BY <1>2, <1>3 DEF Coupled
<1>6. t \in d2.types /\ f \in d2.flags /\ d.types \subseteq d2.types /\ d.flags \subseteq d2.flags
  BY <1>3
<1> QED
  BY <1>4, <1>5, <1>6 DEF Knows, t, f, d2

-----------------------------------------------------------------------------
(* The R type of a vectorizable array *)

Above(r) ==
    CASE r = "chr"  -> {}
      [] r = "u64"  -> {"chr"}
      [] r = "dbl"  -> {"chr", "u64"}
      [] r = "i64"  -> {"chr", "u64", "dbl"}
      [] r = "i32"  -> {"chr", "u64", "dbl", "i64"}
      [] r = "lgl"  -> {"chr", "u64", "dbl", "i64", "i32"}
      [] r = "null" -> {"chr", "u64", "dbl", "i64", "i32", "lgl"}

(* It is one of the types the doctor has seen, and none that outranks it   *)
(* has been seen; only "anything_goes" mixes doubles with text, and strict *)
(* does not mix them with wide integers.                                   *)
LEMMA RTypeDominates ==
    ASSUME NEW policy \in TypePolicy, NEW d \in Doctor, is_vectorizable(policy, d)
    PROVE  LET r == common_R_type(policy, d)
           IN  /\ r \in {"chr", "u64", "dbl", "i64", "i32", "lgl", "null"}
               /\ r # "null" => r \in d.flags
               /\ Above(r) \cap d.flags = {}
               /\ {"object", "array"} \cap d.flags = {}
               /\ policy = "strict" => ~({"dbl", "i64"} \subseteq d.flags)
               /\ policy # "anything_goes" /\ "dbl" \in d.flags => {"chr", "u64"} \cap d.flags = {}
<1> DEFINE r == common_R_type(policy, d)
<1>1. "object" \notin d.flags /\ "array" \notin d.flags
  BY DEF is_vectorizable
<1>2. CASE policy = "anything_goes"
  BY <1>1, <1>2 DEF common_R_type, Above
<1>3. CASE policy = "ints_as_dbls"
  BY <1>1, <1>3 DEF common_R_type, is_vectorizable, Only, Above
<1>4. CASE policy = "strict"
  BY <1>1, <1>4 DEF common_R_type, is_vectorizable, Only, Above
<1> QED
  BY <1>2, <1>3, <1>4 DEF TypePolicy

-----------------------------------------------------------------------------
(* The loops *)

(* A flag has a kind of element behind it.                                 *)
LEMMA FlagsHaveKinds ==
    ASSUME array \in Seq(Value), FlagsSeen
    PROVE  /\ "dbl" \in type_doctor.flags => "DOUBLE" \in KindsIn(array)
           /\ "chr" \in type_doctor.flags => "STRING" \in KindsIn(array)
           /\ "u64" \in type_doctor.flags => "UINT64" \in KindsIn(array)
<1>1. \A n \in DOMAIN array : array[n].kind \in ElementKind /\ array[n].kind \in KindsIn(array)
  <2>1. \A n \in DOMAIN array : array[n] \in Value
    OBVIOUS
  <2>2. \A v \in Value : v.kind \in ElementKind
    BY DEF Value
  <2>3. \A n \in DOMAIN array : array[n].kind \in KindsIn(array)
    BY DEF KindsIn
  <2> QED
    BY <2>1, <2>2, <2>3
<1>2. \A k \in ElementKind : /\ lower_flag(int64_opt, k) = "dbl" => k = "DOUBLE"
                             /\ lower_flag(int64_opt, k) = "chr" => k = "STRING"
                             /\ lower_flag(int64_opt, k) = "u64" => k = "UINT64"
  BY DEF lower_flag, ElementKind
<1> QED BY <1>1, <1>2 DEF FlagsSeen

(* The type of the vector keeps a value that it can hold, or gives it up   *)
(* as the policies have it.                                                *)
LEMMA StoredKeeps ==
    ASSUME NEW v \in Value, TypeOK, FlagsSeen, R_Type # "null",
           Knows(int64_opt, type_doctor, v.kind),
           is_vectorizable(type_policy, type_doctor)
    PROVE  KeptHere(v, stored(vector_type(R_Type), v))
<1>1. /\ int64_opt \in Int64Opt /\ type_policy \in TypePolicy /\ type_doctor \in Doctor
      /\ array \in Seq(Value) /\ v.kind \in ElementKind
  BY DEF TypeOK, Value
<1>2. /\ R_Type \in {"chr", "u64", "dbl", "i64", "i32", "lgl"}
      /\ R_Type \in type_doctor.flags
      /\ Above(R_Type) \cap type_doctor.flags = {}
      /\ type_policy = "strict" => ~({"dbl", "i64"} \subseteq type_doctor.flags)
      /\ type_policy # "anything_goes" /\ "dbl" \in type_doctor.flags
           => {"chr", "u64"} \cap type_doctor.flags = {}
  BY <1>1, RTypeDominates DEF R_Type
<1>3. lower_flag(int64_opt, v.kind) \in type_doctor.flags
  BY DEF Knows
<1> DEFINE t == vector_type(R_Type)
<1>4. /\ t \in {"STRSXP", "REALSXP", "INTSXP", "LGLSXP", "integer64"}
      /\ t = "integer64" => int64_opt \in {"Integer64", "Always"}
  BY <1>1, <1>2 DEF vector_type, int64_storage, Int64Opt
<1>5. t = "INTSXP" => v.kind \notin {"INT64", "LLONG_MIN"}
  BY <1>1, <1>2, <1>3 DEF vector_type, int64_storage, Above, lower_flag
<1>6. ASSUME t = "REALSXP", v.kind = "INT64"
      PROVE  int64_opt = "Double" \/ (type_policy # "strict" /\ "DOUBLE" \in KindsIn(array))
  <2>1. "i64" \in type_doctor.flags
    BY <1>3, <1>6 DEF lower_flag
  <2>2. R_Type = "dbl" \/ int64_opt = "Double"
    BY <1>1, <1>2, <1>6 DEF vector_type, int64_storage
  <2> QED
    BY <1>1, <1>2, <2>1, <2>2, FlagsHaveKinds
<1>7. ASSUME t = "STRSXP", v.kind = "DOUBLE"
      PROVE  type_policy = "anything_goes" /\ KindsIn(array) \cap {"STRING", "UINT64"} # {}
  <2>1. "dbl" \in type_doctor.flags
    BY <1>3, <1>7 DEF lower_flag
  <2>2. R_Type \in {"chr", "u64"}
    BY <1>1, <1>2, <1>7, <2>1 DEF vector_type, int64_storage, Above
  <2> QED
    BY <1>1, <1>2, <2>1, <2>2, FlagsHaveKinds
<1> HIDE DEF t
<1>8. KeptHere(v, stored(t, v))
  BY <1>4, <1>5, <1>6, <1>7 DEF stored, KeptHere, Kept, Survives, LostByPolicy
<1> QED BY <1>8 DEF t

(* The typed loops cast every element to the type it has.                  *)
LEMMA TypedKeeps ==
    ASSUME NEW v \in Value, TypeOK, FlagsSeen, Coupled(int64_opt, type_doctor),
           Knows(int64_opt, type_doctor, v.kind),
           is_vectorizable(type_policy, type_doctor), is_homogeneous(type_doctor)
    PROVE  KeptHere(v, TypedElement(v))
<1>1. /\ int64_opt \in Int64Opt /\ type_policy \in TypePolicy /\ type_doctor \in Doctor
      /\ v.kind \in ElementKind
  BY DEF TypeOK, Value
<1>2. /\ R_Type \in {"chr", "u64", "dbl", "i64", "i32", "lgl", "null"}
      /\ R_Type # "null" => R_Type \in type_doctor.flags
      /\ Above(R_Type) \cap type_doctor.flags = {}
      /\ {"object", "array"} \cap type_doctor.flags = {}
  BY <1>1, RTypeDominates DEF R_Type
<1>3. PICK t \in ElementType \ {"NULL_VALUE"} : type_doctor.types \ {"NULL_VALUE"} = {t}
  BY DEF is_homogeneous
<1>4. t \in type_doctor.types /\ \A u \in type_doctor.types : u = t \/ u = "NULL_VALUE"
  BY <1>3
<1>5. R_Type # "null"
  BY <1>2, <1>3, <1>4 DEF Above, Coupled, ElementType
<1>6. typed_in(R_Type) = t
  BY <1>2, <1>4, <1>5 DEF Coupled, typed_in
<1>7. CASE v.kind = "NULL_VALUE"
  <2>1. has_null(type_doctor)
    BY <1>7 DEF Knows, has_null, lower_flag
  <2> QED
    BY <1>5, <1>7, <2>1 DEF TypedElement, get_scalar, KeptHere, Kept, Survives
<1>8. CASE v.kind # "NULL_VALUE"
  <2>1. element_type(v.kind) = t
    BY <1>1, <1>4, <1>8 DEF Knows, element_type, ElementKind
  <2>2. TypedElement(v) = stored(vector_type(R_Type), v)
    BY <1>5, <1>6, <1>8, <2>1 DEF TypedElement, get_scalar
  <2> QED
    BY <1>5, <2>2, StoredKeeps
<1> QED
  BY <1>7, <1>8

(* The mixed loops dispatch on all the types there can be. *)
LEMMA MixedKeeps ==
    ASSUME NEW v \in Value, TypeOK, FlagsSeen, Knows(int64_opt, type_doctor, v.kind),
           is_vectorizable(type_policy, type_doctor)
    PROVE  KeptHere(v, MixedElement(v))
<1>1. /\ int64_opt \in Int64Opt /\ type_policy \in TypePolicy /\ type_doctor \in Doctor
      /\ v.kind \in ElementKind
  BY DEF TypeOK, Value
<1>2. /\ R_Type \in {"chr", "u64", "dbl", "i64", "i32", "lgl", "null"}
      /\ Above(R_Type) \cap type_doctor.flags = {}
      /\ {"object", "array"} \cap type_doctor.flags = {}
  BY <1>1, RTypeDominates DEF R_Type
<1>3. lower_flag(int64_opt, v.kind) \notin Above(R_Type) \cup {"object", "array"}
  BY <1>2 DEF Knows
<1>4. CASE v.kind = "NULL_VALUE"
  <2>1. MixedElement(v) = NA
    BY <1>2, <1>4 DEF MixedElement, get_scalar_dispatch, dispatches, vector_type,
                      int64_storage, Scalars, Integers64
  <2> QED
    BY <1>4, <2>1 DEF KeptHere, Kept, Survives
<1>5. CASE v.kind # "NULL_VALUE"
  <2>1. R_Type # "null"
    BY <1>1, <1>3, <1>5 DEF Above, lower_flag, ElementKind
  <2>2. v.kind \in dispatches(vector_type(R_Type))
    BY <1>1, <1>2, <1>3, <1>5, <2>1
    DEF vector_type, int64_storage, Above, lower_flag, dispatches, ElementKind, Int64Opt,
        Scalars, Integers64
  <2>3. MixedElement(v) = stored(vector_type(R_Type), v)
    BY <2>1, <2>2 DEF MixedElement, get_scalar_dispatch
  <2> QED
    BY <2>1, <2>3, StoredKeeps
<1> QED
  BY <1>4, <1>5

(* Either way an element is a cell. *)
LEMMA ElementIsCell ==
    ASSUME NEW v \in Value, TypeOK, is_vectorizable(type_policy, type_doctor)
    PROVE  TypedElement(v) \in Cell /\ MixedElement(v) \in Cell
<1>1. /\ int64_opt \in Int64Opt /\ type_policy \in TypePolicy /\ type_doctor \in Doctor
  BY DEF TypeOK
<1>2. R_Type \in {"chr", "u64", "dbl", "i64", "i32", "lgl", "null"}
  BY <1>1, RTypeDominates DEF R_Type
<1>3. NA \in Cell /\ Thrown \in Cell
  BY DEF NA, Thrown, Cell, NoValue, Value, Representation, ElementKind
<1>4. R_Type # "null" =>
        vector_type(R_Type) \in {"STRSXP", "REALSXP", "INTSXP", "LGLSXP", "integer64"}
  BY <1>1, <1>2 DEF vector_type, int64_storage, Int64Opt
<1>5. R_Type # "null" => stored(vector_type(R_Type), v) \in Cell
  BY <1>3, <1>4 DEF stored, Cell, Representation
<1> QED
  BY <1>3, <1>5 DEF TypedElement, MixedElement, get_scalar, get_scalar_dispatch

-----------------------------------------------------------------------------
(* IInv is inductive *)

LEMMA InitInv == Init => IInv
<1> SUFFICES ASSUME Init PROVE IInv
  OBVIOUS
<1>1. array \in Seq(Value) \ {<<>>} /\ type_policy \in TypePolicy /\ int64_opt \in Int64Opt
  BY ArraysAssumption, VectorOptionsAssumption DEF Init
<1>2. Len(array) \in Nat /\ Len(array) > 0 /\ DOMAIN array = 1 .. Len(array)
  BY <1>1
<1>3. TypeOK
  BY <1>1, <1>2 DEF Init, TypeOK, EmptyDoctor, Doctor
<1>4. DoctorInv
  BY <1>2 DEF Init, DoctorInv, FlagsSeen, Coupled, EmptyDoctor
<1> QED
  BY <1>3, <1>4 DEF Init, IInv, DecisionInv

LEMMA Bounds ==
    ASSUME TypeOK
    PROVE  /\ Len(array) \in Nat /\ DOMAIN array = 1 .. Len(array)
           /\ Len(out) \in Nat /\ DOMAIN out = 1 .. Len(out)
           /\ \A n \in DOMAIN array : array[n] \in Value /\ array[n].kind \in ElementKind
<1>1. array \in Seq(Value) /\ out \in Seq(Cell)
  BY DEF TypeOK
<1>2. \A v \in Value : v.kind \in ElementKind
  BY DEF Value
<1> QED
  BY <1>1, <1>2

LEMMA DiagnoseInv == ASSUME IInv, Diagnose PROVE IInv'
<1>1. /\ TypeOK /\ phase = "diagnose" /\ phase' = "diagnose"
      /\ i \in DOMAIN array /\ i' = i + 1
      /\ array[i].kind \in ElementKind
      /\ UNCHANGED <<array, type_policy, int64_opt, out>>
      /\ type_doctor' = add_element(int64_opt, type_doctor, array[i].kind)
  BY Bounds DEF IInv, TypeOK, Diagnose, inputs
<1>2. /\ int64_opt \in Int64Opt /\ type_doctor \in Doctor /\ Coupled(int64_opt, type_doctor)
  BY DEF IInv, TypeOK, DoctorInv
<1> DEFINE d == type_doctor
           d2 == add_element(int64_opt, type_doctor, array[i].kind)
<1>3. /\ d2 \in Doctor /\ Coupled(int64_opt, d2)
      /\ Knows(int64_opt, d2, array[i].kind)
      /\ \A k : Knows(int64_opt, d, k) => Knows(int64_opt, d2, k)
  BY <1>1, <1>2, AddElement
<1> HIDE DEF d2
<1>4. type_doctor' = d2
  BY <1>1 DEF d2
<1>5. TypeOK'
  BY <1>1, <1>3, <1>4, Bounds DEF TypeOK
<1>6. ASSUME NEW n \in DOMAIN array, n < i + 1
      PROVE  Knows(int64_opt, d2, array[n].kind)
  <2>1. CASE n = i
    BY <1>3, <2>1
  <2>2. CASE n < i
    BY <1>1, <1>3, <2>2 DEF IInv, DoctorInv
  <2> QED
    BY <1>1, <1>6, <2>1, <2>2, Bounds
<1>7. FlagsSeen'
  <2>1. d2.flags = d.flags \cup {lower_flag(int64_opt, array[i].kind)}
    BY DEF d2, add_element
  <2> QED
    BY <1>1, <1>4, <2>1 DEF IInv, DoctorInv, FlagsSeen
<1>8. DoctorInv'
  BY <1>1, <1>3, <1>4, <1>6, <1>7 DEF DoctorInv
<1> QED
  BY <1>1, <1>5, <1>8 DEF IInv, DecisionInv, KeptHere

LEMMA DecideInv == ASSUME IInv, Decide PROVE IInv'
<1>1. /\ TypeOK /\ phase = "diagnose" /\ phase' \in Loops
      /\ i' = 1 /\ i > Len(array)
      /\ UNCHANGED <<array, type_policy, int64_opt, out, type_doctor>>
  BY DEF IInv, Decide, Loops, inputs
<1>2. TypeOK'
  BY <1>1, Bounds DEF TypeOK, Loops
<1>3. \A n \in DOMAIN array : n < i
  BY <1>1, Bounds DEF TypeOK
<1>4. DoctorInv'
  BY <1>1, <1>3 DEF IInv, DoctorInv, FlagsSeen, Loops
<1>5. DecisionInv'
  BY <1>1 DEF Decide, DecisionInv
<1> QED
  BY <1>1, <1>2, <1>4, <1>5 DEF IInv, KeptHere

LEMMA BuildInv == ASSUME IInv, Build PROVE IInv'
<1> DEFINE e == CASE phase = "typed" -> TypedElement(array[i])
                  [] phase = "mixed" -> MixedElement(array[i])
                  [] phase = "list"  -> ListElement(array[i])
<1>1. /\ TypeOK /\ phase \in Loops /\ phase' = phase
      /\ i \in DOMAIN array /\ i' = i + 1
      /\ array[i] \in Value
      /\ UNCHANGED <<array, type_policy, int64_opt, type_doctor>>
      /\ out \in Seq(Cell) /\ Len(out) = i - 1
      /\ out' = Append(out, e)
  BY Bounds DEF IInv, TypeOK, Build, Loops, inputs
<1>2. e \in Cell /\ KeptHere(array[i], e)
  <2>1. FlagsSeen /\ Coupled(int64_opt, type_doctor) /\ Knows(int64_opt, type_doctor, array[i].kind)
    BY <1>1 DEF IInv, DoctorInv, Loops
  <2>2. CASE phase = "typed"
    BY <1>1, <2>1, <2>2, TypedKeeps, ElementIsCell DEF IInv, DecisionInv
  <2>3. CASE phase = "mixed"
    BY <1>1, <2>1, <2>3, MixedKeeps, ElementIsCell DEF IInv, DecisionInv
  <2>4. CASE phase = "list"
    BY <1>1, <2>4 DEF ListElement, KeptHere, Kept, Survives, Cell, Representation
  <2> QED
    BY <1>1, <2>2, <2>3, <2>4 DEF Loops
<1> HIDE DEF e
<1>3. /\ out' \in Seq(Cell) /\ Len(out') = i
      /\ DOMAIN out' = 1 .. i /\ out'[i] = e
      /\ \A n \in 1 .. i - 1 : out'[n] = out[n] /\ n \in DOMAIN out
  BY <1>1, <1>2, Bounds
<1>4. TypeOK'
  BY <1>1, <1>3, Bounds DEF TypeOK, Loops
<1>5. \A n \in DOMAIN out' : KeptHere(array[n], out'[n])
  <2>1. \A n \in 1 .. i - 1 : KeptHere(array[n], out'[n])
    BY <1>3 DEF IInv
  <2>2. KeptHere(array[i], out'[i])
    BY <1>2, <1>3
  <2>3. \A n \in DOMAIN out' : n \in 1 .. i - 1 \/ n = i
    BY <1>1, <1>3, Bounds
  <2> QED
    BY <2>1, <2>2, <2>3
<1>6. DoctorInv' /\ DecisionInv'
  BY <1>1 DEF IInv, DoctorInv, FlagsSeen, DecisionInv, Loops
<1> QED
  BY <1>1, <1>4, <1>5, <1>6 DEF IInv, KeptHere

LEMMA FinishInv == ASSUME IInv, Finish \/ UNCHANGED vars PROVE IInv'
<1>1. /\ phase' = phase \/ (phase \in Loops /\ phase' = "done")
      /\ UNCHANGED <<array, type_policy, int64_opt, i, type_doctor, out>>
  BY DEF Finish, vars, inputs, Loops
<1>2. TypeOK'
  BY <1>1 DEF IInv, TypeOK, Loops
<1> QED
  BY <1>1, <1>2 DEF IInv, DoctorInv, FlagsSeen, DecisionInv, Loops, KeptHere

LEMMA IInvHolds == Spec => []IInv
<1>1. IInv /\ [Next]_vars => IInv'
  BY DiagnoseInv, DecideInv, BuildInv, FinishInv DEF Next, Returned
<1> QED
  BY <1>1, InitInv, PTL DEF Spec

-----------------------------------------------------------------------------
(* Every variable keeps its type, and no loop runs off the array. *)
THEOREM TypeCorrect == Spec => []TypeOK
<1>1. IInv => TypeOK
  BY DEF IInv
<1> QED
  BY <1>1, IInvHolds, PTL

(* No element of an array of any length is lost on its way to the vector,  *)
(* but for what the policies give up: the loops that cast without looking  *)
(* never meet an element of another type, none narrows an integer that     *)
(* does not fit, and where a number is rounded or cut short the array has  *)
(* an element because of which it is.                                      *)
THEOREM NothingIsLost == Spec => []NothingLost
<1>1. IInv => NothingLost
  BY DEF IInv, NothingLost, KeptHere
<1> QED
  BY <1>1, IInvHolds, PTL

-----------------------------------------------------------------------------
(* What is documented of the policies *)

(* A vectorizable array becomes an atomic vector, another one a list of    *)
(* all its elements.                                                       *)
ShapeInv ==
    LET vectorizable == is_vectorizable(type_policy, type_doctor)
        Atomic == \A n \in DOMAIN out : out[n].as # "VECSXP"
        AsList == \A n \in DOMAIN out : out[n].as = "VECSXP"
    IN  /\ phase \in {"typed", "mixed"} => vectorizable /\ Atomic
        /\ phase = "list" => ~vectorizable /\ AsList
        /\ phase = "done" => /\ i = Len(array) + 1
                             /\ (vectorizable /\ Atomic) \/ (~vectorizable /\ AsList)

(* No element of an atomic vector is a list.                               *)
LEMMA ElementIsAtomic ==
    ASSUME NEW v \in Value, TypeOK, is_vectorizable(type_policy, type_doctor)
    PROVE  TypedElement(v).as # "VECSXP" /\ MixedElement(v).as # "VECSXP"
<1>1. /\ int64_opt \in Int64Opt /\ type_policy \in TypePolicy /\ type_doctor \in Doctor
  BY DEF TypeOK
<1>2. R_Type \in {"chr", "u64", "dbl", "i64", "i32", "lgl", "null"}
  BY <1>1, RTypeDominates DEF R_Type
<1>3. NA.as # "VECSXP" /\ Thrown.as # "VECSXP"
  BY DEF NA, Thrown
<1>4. R_Type # "null" => vector_type(R_Type) # "VECSXP"
  BY <1>1, <1>2 DEF vector_type, int64_storage, Int64Opt
<1>5. R_Type # "null" => stored(vector_type(R_Type), v).as # "VECSXP"
  BY <1>3, <1>4 DEF stored
<1> QED
  BY <1>3, <1>5 DEF TypedElement, MixedElement, get_scalar, get_scalar_dispatch

LEMMA ShapeDiagnose == ASSUME IInv, ShapeInv, Diagnose PROVE ShapeInv'
<1>1. /\ TypeOK /\ phase = "diagnose" /\ phase' = "diagnose" /\ i \in DOMAIN array
      /\ UNCHANGED <<array, int64_opt>>
      /\ type_doctor'.flags = type_doctor.flags \cup {lower_flag(int64_opt, array[i].kind)}
  BY Bounds DEF IInv, TypeOK, Diagnose, inputs, add_element
<1> QED
  BY <1>1 DEF ShapeInv

LEMMA ShapeBuild == ASSUME IInv, ShapeInv, Build PROVE ShapeInv'
<1> DEFINE e == CASE phase = "typed" -> TypedElement(array[i])
                  [] phase = "mixed" -> MixedElement(array[i])
                  [] phase = "list"  -> ListElement(array[i])
<1>1. /\ TypeOK /\ phase \in Loops /\ phase' = phase
      /\ i \in DOMAIN array /\ array[i] \in Value
      /\ UNCHANGED <<array, type_policy, int64_opt, type_doctor>>
      /\ out \in Seq(Cell) /\ out' = Append(out, e)
  BY Bounds DEF IInv, TypeOK, Build, Loops, inputs
<1>2. /\ phase \in {"typed", "mixed"} => e.as # "VECSXP"
      /\ phase = "list" => e.as = "VECSXP"
  BY <1>1, ElementIsAtomic DEF ShapeInv, ListElement
<1> HIDE DEF e
<1>3. \A n \in DOMAIN out' : (n \in DOMAIN out /\ out'[n] = out[n]) \/ out'[n] = e
  BY <1>1
<1> QED
  BY <1>1, <1>2, <1>3 DEF ShapeInv, Loops

LEMMA ShapeInvHolds == Spec => []ShapeInv
<1>1. Init => ShapeInv
  BY DEF Init, ShapeInv, EmptyDoctor
<1>2. IInv /\ ShapeInv /\ [Next]_vars => ShapeInv'
  <2> SUFFICES ASSUME IInv, ShapeInv, [Next]_vars PROVE ShapeInv'
    OBVIOUS
  <2>1. CASE Diagnose
    BY <2>1, ShapeDiagnose
  <2>2. CASE Decide
    <3>1. DOMAIN out = {}
      BY <2>2, Bounds DEF Decide, IInv, TypeOK
    <3> QED
      BY <2>2, <3>1 DEF Decide, inputs, ShapeInv
  <2>3. CASE Build
    BY <2>3, ShapeBuild
  <2>4. CASE Finish
    <3>1. i = Len(array) + 1
      BY <2>4, Bounds DEF Finish, IInv, TypeOK
    <3> QED
      BY <2>4, <3>1 DEF Finish, inputs, ShapeInv
  <2>5. CASE UNCHANGED vars
    BY <2>5 DEF vars, inputs, ShapeInv
  <2> QED
    BY <2>1, <2>2, <2>3, <2>4, <2>5 DEF Next, Returned
<1> QED
  BY <1>1, <1>2, IInvHolds, PTL DEF Spec

(* "strict" vectorizes one type only, nulls apart.                         *)
LEMMA StrictIsPure ==
    ASSUME NEW d \in Doctor, is_vectorizable("strict", d),
           NEW r \in d.flags \ {"null"}, NEW s \in d.flags \ {"null"}
    PROVE  r = s
<1>1. /\ r \in {"chr", "dbl", "i64", "i32", "lgl", "u64"}
      /\ s \in {"chr", "dbl", "i64", "i32", "lgl", "u64"}
  BY DEF Doctor, rcpp_T, is_vectorizable
<1> QED
  BY <1>1 DEF is_vectorizable, Only

(* For any array and policy, "anything_goes" makes an atomic vector of any *)
(* non-recursive array, and "strict" of none with two types.               *)
THEOREM PoliciesHold == Spec => []PoliciesAsDocumented
<1>1. IInv /\ ShapeInv => PoliciesAsDocumented
  <2> SUFFICES ASSUME IInv, ShapeInv, phase = "done" PROVE
                 /\ type_policy = "anything_goes" /\ ~IsRecursive => ~IsList
                 /\ (type_policy = "strict" /\ \E r, s \in TypesPresent : r # s) => IsList
    BY DEF PoliciesAsDocumented
  <2> DEFINE vectorizable == is_vectorizable(type_policy, type_doctor)
  <2>1. /\ type_doctor \in Doctor /\ Len(out) = Len(array) /\ Len(array) > 0
        /\ DOMAIN out = 1 .. Len(out) /\ Len(array) \in Nat
        /\ \A n \in DOMAIN array : array[n].kind \in ElementKind
    BY Bounds DEF IInv, TypeOK, ShapeInv
  <2>2. /\ vectorizable => ~IsList
        /\ ~vectorizable => IsList
    <3>1. \/ vectorizable /\ \A n \in DOMAIN out : out[n].as # "VECSXP"
          \/ ~vectorizable /\ \A n \in DOMAIN out : out[n].as = "VECSXP"
      BY DEF ShapeInv
    <3>2. 1 \in DOMAIN out
      BY <2>1
    <3> HIDE DEF vectorizable
    <3> QED
      BY <3>1, <3>2 DEF IsList
  <2>3. ASSUME type_policy = "anything_goes", ~IsRecursive PROVE vectorizable
    <3>1. \A n \in DOMAIN array : lower_flag(int64_opt, array[n].kind) \notin {"array", "object"}
      BY <2>1, <2>3 DEF IsRecursive, lower_flag, ElementKind
    <3>2. {"object", "array"} \cap type_doctor.flags = {}
      BY <3>1 DEF IInv, DoctorInv, FlagsSeen
    <3> QED
      BY <2>3, <3>2 DEF is_vectorizable
  <2>4. ASSUME type_policy = "strict", NEW r \in TypesPresent, NEW s \in TypesPresent, r # s
        PROVE  ~vectorizable
    <3>1. TypesPresent \subseteq type_doctor.flags \ {"null"}
      BY DEF TypesPresent, IInv, DoctorInv, Knows
    <3> QED
      BY <2>1, <2>4, <3>1, StrictIsPure
  <2> QED
    BY <2>2, <2>3, <2>4
<1> QED
  BY <1>1, IInvHolds, ShapeInvHolds, PTL
=============================================================================
