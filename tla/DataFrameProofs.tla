-------------------------- MODULE DataFrameProofs --------------------------
(***************************************************************************)
(* What is proved of the data frame builder for arrays of any number of    *)
(* rows and fields, any keys and any hashing threshold.                    *)
(***************************************************************************)
EXTENDS DataFrame, FiniteSetTheorems, WellFoundedInduction, TLAPS

(* The parts of the inductive invariant.                                   *)

KeysDistinct == \A j, l \in DOMAIN keys : keys[j] = keys[l] => j = l

(* Once the schema is wide, the index is a function from keys to columns.  *)
IndexAgrees ==
    Len(keys) >= MIN_HASHED_COLUMNS =>
        \A k \in Key :
           \/ index[k] \in DOMAIN keys /\ keys[index[k]] = k
           \/ index[k] = 0 /\ \A j \in DOMAIN keys : keys[j] # k

KeysComplete ==
    \A i \in DOMAIN array : \A p \in DOMAIN array[i].fields :
       Diagnosed(i, p) => \E j \in DOMAIN keys : keys[j] = array[i].fields[p].key

(* The cursor of a finished loop is at the start of a row.                 *)
CursorAtEnd == i_row > Len(array) => pos = 1

(* The fields fs, up to but not including field n, have the keys ks.       *)
Follows(ks, fs, n) ==
    \A p \in DOMAIN fs : p < n => p <= Len(ks) /\ fs[p].key = ks[p]

(* As long as the rows look regular, all columns come from the first row,  *)
(* or else from the row at hand, which then is too long.                   *)
RegularSoFar ==
    phase = "diagnose" /\ is_regular =>
        /\ \A i \in 1 .. i_row - 1 :
              /\ Len(array[i].fields) = first_row_length
              /\ Follows(keys, array[i].fields, Len(array[i].fields) + 1)
        /\ i_row <= Len(array) => Follows(keys, Fields, pos)
        /\ i_row = 1 => Len(keys) = pos - 1
        /\ i_row > 1 => \/ Len(keys) = first_row_length
                        \/ Len(keys) = pos - 1 /\ Len(keys) > first_row_length

FirstRowKnown == phase = "diagnose" => (first_row_length = -1 <=> i_row = 1)

Regular ==
    phase \in {"fill", "done"} /\ is_regular =>
        \A i \in DOMAIN array :
           /\ Len(array[i].fields) = Len(keys)
           /\ Follows(keys, array[i].fields, Len(array[i].fields) + 1)

SchemaInv ==
    /\ TypeOK /\ KeysDistinct /\ IndexAgrees /\ KeysComplete
    /\ CursorAtEnd /\ FirstRowKnown /\ RegularSoFar /\ Regular

-----------------------------------------------------------------------------
(* Types *)

(* The types of the document's parts. *)
LEMMA RowTypes ==
    ASSUME TypeOK
    PROVE  /\ Len(array) \in Nat /\ Len(array) > 0 /\ DOMAIN array = 1 .. Len(array)
           /\ \A i \in DOMAIN array :
                /\ Len(array[i].fields) \in Nat
                /\ DOMAIN array[i].fields = 1 .. Len(array[i].fields)
                /\ \A p \in DOMAIN array[i].fields :
                     /\ array[i].fields[p].key \in Key
                     /\ array[i].fields[p].value \in Value
                     /\ array[i].fields[p].value.kind \in ElementKind
<1>1. array \in Seq(Row) /\ array # <<>>
  BY DEF TypeOK
<1>2. Len(array) \in Nat /\ Len(array) > 0 /\ DOMAIN array = 1 .. Len(array)
  BY <1>1
<1>3. ASSUME NEW i \in DOMAIN array
      PROVE  array[i].fields \in Seq(Field)
  <2>1. array[i] \in Row
    BY <1>1
  <2> QED
    BY <2>1 DEF Row
<1>4. ASSUME NEW i \in DOMAIN array, NEW p \in DOMAIN array[i].fields
      PROVE  array[i].fields[p] \in Field
  BY <1>3
<1> QED
  BY <1>2, <1>3, <1>4 DEF Field, Value

(* The columns and their types. *)
LEMMA KeysTypes ==
    ASSUME TypeOK
    PROVE  /\ Len(keys) \in Nat /\ DOMAIN keys = 1 .. Len(keys)
           /\ \A j \in DOMAIN keys : keys[j] \in Key /\ schema[j] \in Doctor
           /\ DOMAIN schema = DOMAIN keys
  BY DEF TypeOK

(* Every conversion yields a cell. *)
LEMMA CellType ==
    ASSUME NEW kind \in Col_Kind, NEW v \in Value PROVE cell(kind, v) \in Cell
<1>1. NA \in Cell
  BY DEF NA, Cell, NoValue, Value, Representation, ElementKind
<1>2. ASSUME NEW rtype \in {"STRSXP", "REALSXP", "INTSXP", "LGLSXP", "integer64"}
      PROVE  get_scalar_dispatch(rtype, v) \in Cell
  BY <1>1, <1>2 DEF get_scalar_dispatch, stored, Cell, Representation
<1>3. [as |-> "VECSXP", of |-> v] \in Cell
  BY DEF Cell, Representation
<1> QED
  BY <1>1, <1>2, <1>3 DEF cell, Col_Kind

(* Every element leaves a doctor a doctor, and every doctor's verdict is a *)
(* column kind.                                                            *)
LEMMA DoctorType ==
    ASSUME NEW o \in Int64Opt, NEW d \in Doctor, NEW kind \in ElementKind
    PROVE  add_element(o, d, kind) \in Doctor
<1>1. element_type(kind) \in ElementType
  BY DEF element_type, ElementKind, ElementType
<1>2. lower_flag(o, kind) \in rcpp_T
  BY DEF lower_flag, ElementKind, rcpp_T
<1> QED
  BY <1>1, <1>2 DEF add_element, Doctor

LEMMA ColKindType ==
    ASSUME NEW o \in Int64Opt, NEW r PROVE col_kind(o, r) \in Col_Kind
  BY DEF col_kind, Int64Opt, Col_Kind

-----------------------------------------------------------------------------
(* Column_Schema::find() returns the column of the key, or 0. *)
LEMMA FindIsRight ==
    ASSUME TypeOK, KeysDistinct, IndexAgrees, NEW key \in Key, NEW p \in Nat \ {0}
    PROVE  \/ find(key, p) \in DOMAIN keys /\ keys[find(key, p)] = key
           \/ find(key, p) = 0 /\ \A j \in DOMAIN keys : keys[j] # key
<1>1. Len(keys) \in Nat /\ DOMAIN keys = 1 .. Len(keys)
  BY KeysTypes
<1>2. CASE p <= Len(keys) /\ keys[p] = key
  BY <1>1, <1>2 DEF find
<1>3. CASE /\ ~(p <= Len(keys) /\ keys[p] = key)
           /\ Len(keys) < MIN_HASHED_COLUMNS
  <2>1. ASSUME NEW n \in DOMAIN keys, keys[n] = key
        PROVE  \A i \in 1 .. n - 1 : keys[i] # key
    BY <1>1, <2>1 DEF KeysDistinct
  <2> QED
    BY <1>3, <2>1 DEF find
<1>4. CASE /\ ~(p <= Len(keys) /\ keys[p] = key)
           /\ Len(keys) >= MIN_HASHED_COLUMNS
  BY <1>1, <1>4, MinHashedAssumption DEF find, IndexAgrees
<1> QED
  BY <1>1, <1>2, <1>3, <1>4, MinHashedAssumption

(* A field's position in its object is shared with a column only if that   *)
(* is the field's column, so that a regular row is one whose keys match.   *)
LEMMA FoundAtPosition ==
    ASSUME TypeOK, KeysDistinct, IndexAgrees, NEW key \in Key, NEW p \in DOMAIN keys,
           keys[p] = key
    PROVE  find(key, p) = p
  BY KeysTypes DEF find

(* Column_Schema::add() keeps the index in agreement with the keys. *)
LEMMA AddIsRight ==
    ASSUME TypeOK, KeysDistinct, IndexAgrees, NEW key \in Key, add(key),
           \A j \in DOMAIN keys : keys[j] # key
    PROVE  /\ keys' = Append(keys, key) /\ keys' \in Seq(Key)
           /\ Len(keys') = Len(keys) + 1
           /\ \A j \in DOMAIN keys : keys'[j] = keys[j]
           /\ keys'[Len(keys) + 1] = key
           /\ index' \in [Key -> Nat]
           /\ KeysDistinct' /\ IndexAgrees'
<1>1. Len(keys) \in Nat /\ DOMAIN keys = 1 .. Len(keys) /\ keys \in Seq(Key)
  BY KeysTypes DEF TypeOK
<1>2. /\ keys' = Append(keys, key) /\ keys' \in Seq(Key)
      /\ Len(keys') = Len(keys) + 1 /\ DOMAIN keys' = 1 .. Len(keys) + 1
      /\ \A j \in DOMAIN keys : keys'[j] = keys[j]
      /\ keys'[Len(keys) + 1] = key
  BY <1>1 DEF add
<1>3. KeysDistinct'
  BY <1>1, <1>2 DEF KeysDistinct
<1>4. \A j \in DOMAIN keys' : \A i \in 1 .. j - 1 : keys'[i] # keys'[j]
  BY <1>1, <1>2, <1>3 DEF KeysDistinct
<1>5. CASE Len(keys) + 1 = MIN_HASHED_COLUMNS
  <2> DEFINE column(k) == IF \E j \in DOMAIN keys' : keys'[j] = k
                          THEN CHOOSE j \in DOMAIN keys' :
                                 keys'[j] = k /\ \A i \in 1 .. j - 1 : keys'[i] # k
                          ELSE 0
  <2>1. index' = [k \in Key |-> column(k)]
    BY <1>5 DEF add
  <2>2. ASSUME NEW k \in Key
        PROVE  \/ column(k) \in DOMAIN keys' /\ keys'[column(k)] = k
               \/ column(k) = 0 /\ \A j \in DOMAIN keys' : keys'[j] # k
    BY <1>4
  <2> HIDE DEF column
  <2>3. \A k \in Key : column(k) \in Nat
    BY <1>1, <1>2, <2>2
  <2>4. index' \in [Key -> Nat]
    BY <2>1, <2>3
  <2> QED
    BY <1>2, <1>3, <2>1, <2>2, <2>4 DEF IndexAgrees
<1>6. CASE Len(keys) + 1 > MIN_HASHED_COLUMNS
  <2>1. index[key] = 0 /\ Len(keys) >= MIN_HASHED_COLUMNS
    BY <1>1, <1>6, MinHashedAssumption DEF IndexAgrees
  <2>2. index' = [index EXCEPT ![key] = Len(keys) + 1]
    BY <1>1, <1>6, <2>1, MinHashedAssumption DEF add
  <2>3. index \in [Key -> Nat]
    BY DEF TypeOK
  <2>4. IndexAgrees'
    BY <1>1, <1>2, <2>1, <2>2, <2>3 DEF IndexAgrees
  <2> QED
    BY <1>1, <1>2, <1>3, <2>2, <2>3, <2>4
<1>7. CASE Len(keys) + 1 < MIN_HASHED_COLUMNS
  <2>1. index' = index
    BY <1>1, <1>7, MinHashedAssumption DEF add
  <2> QED
    BY <1>1, <1>2, <1>3, <1>7, <2>1, MinHashedAssumption DEF IndexAgrees, TypeOK
<1> QED
  BY <1>1, <1>5, <1>6, <1>7, MinHashedAssumption

-----------------------------------------------------------------------------
(* SchemaInv is inductive *)

(* What one field of the first pass does to the schema: it is assigned     *)
(* column col, an old one or the next one, and only the doctor of that one *)
(* has seen one more value.                                                *)
Assigns(key, col) ==
    /\ keys' \in Seq(Key) /\ schema' \in Seq(Doctor) /\ Len(schema') = Len(keys')
    /\ \A j \in 1 .. Len(keys) : keys'[j] = keys[j]
    /\ \/ Len(keys') = Len(keys) /\ col \in 1 .. Len(keys)
       \/ Len(keys') = Len(keys) + 1 /\ col = Len(keys) + 1
    /\ keys'[col] = key
    /\ \A j \in 1 .. Len(keys) : j # col => schema'[j] = schema[j]
    /\ schema'[col] = add_element(int64_opt,
                                  IF col \in 1 .. Len(keys) THEN schema[col] ELSE EmptyDoctor,
                                  Fields[pos].value.kind)
    /\ is_regular' = (is_regular /\ col = pos)
    /\ index' \in [Key -> Nat]
    /\ KeysDistinct' /\ IndexAgrees'

(* The field the first pass is at, and what the step leaves alone. *)
LEMMA DiagnosedField ==
    ASSUME SchemaInv, DiagnoseField
    PROVE  /\ phase = "diagnose" /\ phase' = "diagnose"
           /\ i_row \in DOMAIN array /\ i_row' = i_row
           /\ pos \in DOMAIN Fields /\ pos \in Nat \ {0} /\ pos' = pos + 1
           /\ Fields[pos].key \in Key /\ Fields[pos].value.kind \in ElementKind
           /\ UNCHANGED <<array, type_policy, int64_opt, first_row_length>>
<1>1. TypeOK
  BY DEF SchemaInv
<1>2. i_row \in DOMAIN array /\ pos \in DOMAIN Fields
  BY <1>1, RowTypes DEF DiagnoseField, TypeOK, Fields
<1> QED
  BY <1>1, <1>2, RowTypes DEF DiagnoseField, TypeOK, Fields, inputs

LEMMA FieldIsAssigned ==
    ASSUME SchemaInv, DiagnoseField
    PROVE  \E col \in Nat : Assigns(Fields[pos].key, col)
<1> DEFINE key   == Fields[pos].key
           kind  == Fields[pos].value.kind
           found == find(key, pos)
<1>1. /\ TypeOK /\ KeysDistinct /\ IndexAgrees
      /\ key \in Key /\ kind \in ElementKind /\ pos \in Nat \ {0}
      /\ Len(keys) \in Nat /\ DOMAIN keys = 1 .. Len(keys)
      /\ int64_opt \in Int64Opt /\ schema \in Seq(Doctor)
      /\ Len(schema) = Len(keys)
  BY DiagnosedField, KeysTypes DEF SchemaInv, TypeOK
<1> HIDE DEF key, kind
<1>2. IF found = 0
      THEN /\ add(key)
           /\ schema' = Append(schema, add_element(int64_opt, EmptyDoctor, kind))
           /\ is_regular' = (is_regular /\ Len(keys) + 1 = pos)
      ELSE /\ schema' = [schema EXCEPT ![found] = add_element(int64_opt, @, kind)]
           /\ is_regular' = (is_regular /\ found = pos)
           /\ UNCHANGED <<keys, index>>
  BY DEF DiagnoseField, key, kind
<1>3. CASE found = 0
  <2>1. \A j \in DOMAIN keys : keys[j] # key
    BY <1>1, <1>3, FindIsRight
  <2>2. add_element(int64_opt, EmptyDoctor, kind) \in Doctor
    BY <1>1, DoctorType DEF EmptyDoctor, Doctor
  <2>3. /\ schema' \in Seq(Doctor) /\ Len(schema') = Len(schema) + 1
        /\ \A j \in 1 .. Len(keys) : schema'[j] = schema[j]
        /\ schema'[Len(keys) + 1] = add_element(int64_opt, EmptyDoctor, kind)
    BY <1>1, <1>2, <1>3, <2>2
  <2>4. Assigns(key, Len(keys) + 1)
    BY <1>1, <1>2, <1>3, <2>1, <2>3, AddIsRight DEF Assigns, kind
  <2> QED
    BY <1>1, <2>4 DEF key
<1>4. CASE found # 0
  <2>1. found \in 1 .. Len(keys) /\ keys[found] = key
    BY <1>1, <1>4, FindIsRight
  <2>2. add_element(int64_opt, schema[found], kind) \in Doctor
    BY <1>1, <2>1, DoctorType
  <2>3. /\ schema' \in Seq(Doctor) /\ Len(schema') = Len(schema)
        /\ \A j \in 1 .. Len(keys) : j # found => schema'[j] = schema[j]
        /\ schema'[found] = add_element(int64_opt, schema[found], kind)
    BY <1>1, <1>2, <1>4, <2>1, <2>2
  <2>4. keys' = keys /\ index' = index
    BY <1>2, <1>4
  <2>5. KeysDistinct' /\ IndexAgrees'
    BY <1>1, <2>4 DEF KeysDistinct, IndexAgrees
  <2>6. Assigns(key, found)
    BY <1>1, <1>2, <1>4, <2>1, <2>3, <2>4, <2>5 DEF Assigns, TypeOK, kind
  <2> QED
    BY <1>1, <2>1, <2>6 DEF key
<1> QED
  BY <1>3, <1>4

LEMMA DiagnoseFieldInv == ASSUME SchemaInv, DiagnoseField PROVE SchemaInv'
<1>1. PICK col \in Nat : Assigns(Fields[pos].key, col)
  BY FieldIsAssigned
<1>2. /\ TypeOK
      /\ Len(keys) \in Nat /\ DOMAIN keys = 1 .. Len(keys)
      /\ Len(keys') \in Nat /\ DOMAIN keys' = 1 .. Len(keys')
      /\ Len(array) \in Nat /\ DOMAIN array = 1 .. Len(array)
      /\ \A i \in DOMAIN array :
           /\ Len(array[i].fields) \in Nat
           /\ DOMAIN array[i].fields = 1 .. Len(array[i].fields)
  BY <1>1, KeysTypes, RowTypes DEF SchemaInv, Assigns
<1>3. TypeOK'
  <2>1. is_regular' \in BOOLEAN
    BY <1>1, Zenon DEF Assigns
  <2>2. pos' \in Nat \ {0} /\ (i_row' <= Len(array) => pos' <= Len(Fields) + 1)
    BY <1>2, DiagnosedField DEF Fields
  <2> QED
    BY <1>1, <1>2, <2>1, <2>2, DiagnosedField DEF Assigns, TypeOK, Fields
<1>4. KeysComplete'
  <2>1. SUFFICES ASSUME NEW i \in DOMAIN array, NEW p \in DOMAIN array[i].fields,
                        Diagnosed(i, p)'
                 PROVE  \E j \in DOMAIN keys' : keys'[j] = array[i].fields[p].key
    BY DiagnosedField DEF KeysComplete
  <2>2. CASE Diagnosed(i, p)
    <3>1. PICK j \in DOMAIN keys : keys[j] = array[i].fields[p].key
      BY <2>2 DEF SchemaInv, KeysComplete
    <3> QED
      BY <1>1, <1>2, <3>1 DEF Assigns
  <2>3. CASE ~Diagnosed(i, p)
    <3>1. i = i_row /\ p = pos
      BY <1>2, <2>1, <2>3, DiagnosedField DEF Diagnosed
    <3>2. col \in DOMAIN keys' /\ keys'[col] = Fields[pos].key
      BY <1>1, <1>2 DEF Assigns
    <3> QED
      BY <3>1, <3>2 DEF Fields
  <2> QED
    BY <2>2, <2>3
<1>5. CursorAtEnd' /\ FirstRowKnown' /\ Regular'
  BY <1>2, DiagnosedField DEF SchemaInv, CursorAtEnd, FirstRowKnown, Regular
<1>6. RegularSoFar'
  <2> SUFFICES ASSUME is_regular' PROVE RegularSoFar'
    BY DEF RegularSoFar
  <2>1. is_regular /\ col = pos /\ pos <= Len(keys') /\ keys'[pos] = Fields[pos].key
    <3>1. is_regular /\ col = pos
      BY <1>1, Zenon DEF Assigns
    <3> QED
      BY <1>1, <1>2, <3>1 DEF Assigns
  <2>2. ASSUME NEW fs, NEW n, Follows(keys, fs, n), DOMAIN fs \subseteq Nat \ {0}
        PROVE  Follows(keys', fs, n)
    BY <1>1, <1>2, <2>2 DEF Follows, Assigns
  <2>3. ASSUME NEW i \in 1 .. i_row - 1
        PROVE  /\ Len(array[i].fields) = first_row_length
               /\ Follows(keys', array[i].fields, Len(array[i].fields) + 1)
    <3>1. i \in DOMAIN array
      BY <1>2, DiagnosedField
    <3>2. /\ Len(array[i].fields) = first_row_length
          /\ Follows(keys, array[i].fields, Len(array[i].fields) + 1)
      BY <2>1, DiagnosedField DEF SchemaInv, RegularSoFar
    <3> QED
      BY <1>2, <2>2, <3>1, <3>2
  <2>4. Follows(keys', Fields, pos)
    <3>1. Follows(keys, Fields, pos)
      BY <1>2, <2>1, DiagnosedField DEF SchemaInv, RegularSoFar
    <3> QED
      BY <1>2, <2>2, <3>1, DiagnosedField DEF Fields
  <2>5. Follows(keys', Fields, pos + 1)
    BY <1>2, <2>1, <2>4, DiagnosedField DEF Follows, Fields
  <2>6. /\ i_row = 1 => Len(keys') = pos
        /\ i_row > 1 => \/ Len(keys') = first_row_length
                        \/ Len(keys') = pos /\ Len(keys') > first_row_length
    <3>1. /\ i_row = 1 => Len(keys) = pos - 1
          /\ i_row > 1 => \/ Len(keys) = first_row_length
                          \/ Len(keys) = pos - 1 /\ Len(keys) > first_row_length
      BY <2>1, DiagnosedField DEF SchemaInv, RegularSoFar
    <3>2. \/ Len(keys') = Len(keys) /\ pos \in 1 .. Len(keys)
          \/ Len(keys') = Len(keys) + 1 /\ pos = Len(keys) + 1
      BY <1>1, <2>1 DEF Assigns
    <3>3. first_row_length \in Int /\ Len(keys) \in Nat /\ pos \in Nat
      BY <1>2 DEF TypeOK
    <3> QED
      BY <3>1, <3>2, <3>3
  <2> QED
    BY <1>2, <2>3, <2>5, <2>6, DiagnosedField DEF RegularSoFar, Fields
<1> QED
  BY <1>1, <1>3, <1>4, <1>5, <1>6 DEF SchemaInv, Assigns

LEMMA DiagnoseRowEndInv == ASSUME SchemaInv, DiagnoseRowEnd PROVE SchemaInv'
<1>1. /\ TypeOK
      /\ Len(keys) \in Nat /\ DOMAIN keys = 1 .. Len(keys)
      /\ Len(array) \in Nat /\ DOMAIN array = 1 .. Len(array)
      /\ \A i \in DOMAIN array :
           /\ Len(array[i].fields) \in Nat
           /\ DOMAIN array[i].fields = 1 .. Len(array[i].fields)
  BY KeysTypes, RowTypes DEF SchemaInv
<1>2. /\ phase = "diagnose" /\ phase' = "diagnose"
      /\ i_row \in DOMAIN array /\ i_row' = i_row + 1
      /\ pos = Len(Fields) + 1 /\ pos' = 1
      /\ Len(Fields) \in Nat
      /\ UNCHANGED <<array, type_policy, int64_opt, keys, index, schema,
                     kinds, vecs, last_row>>
  <2>1. /\ phase = "diagnose" /\ phase' = "diagnose"
        /\ i_row \in DOMAIN array /\ i_row' = i_row + 1 /\ pos' = 1
        /\ pos > Len(Fields)
        /\ UNCHANGED <<array, type_policy, int64_opt, keys, index, schema,
                       kinds, vecs, last_row>>
    BY <1>1 DEF DiagnoseRowEnd, TypeOK, inputs
  <2>2. Len(Fields) \in Nat
    BY <1>1, <2>1 DEF Fields
  <2>3. pos \in Nat /\ pos <= Len(Fields) + 1
    BY <1>1, <2>1 DEF TypeOK
  <2> QED
    BY <2>1, <2>2, <2>3
<1>3. /\ first_row_length' \in Nat
      /\ i_row = 1 => first_row_length' = pos - 1
      /\ i_row > 1 => first_row_length' = first_row_length
      /\ is_regular' = (is_regular /\ pos - 1 = first_row_length')
  BY <1>1, <1>2 DEF DiagnoseRowEnd, TypeOK, SchemaInv, FirstRowKnown
<1>4. is_regular' \in BOOLEAN
  BY <1>3, Zenon
<1>5. TypeOK'
  BY <1>1, <1>2, <1>3, <1>4 DEF TypeOK, Fields
<1>6. KeysComplete'
  <2>1. ASSUME NEW i \in DOMAIN array, NEW p \in DOMAIN array[i].fields, Diagnosed(i, p)'
        PROVE  Diagnosed(i, p)
    BY <1>1, <1>2, <2>1 DEF Diagnosed, Fields
  <2> QED
    BY <1>2, <2>1 DEF SchemaInv, KeysComplete
<1>7. CursorAtEnd' /\ FirstRowKnown' /\ Regular' /\ KeysDistinct' /\ IndexAgrees'
  BY <1>1, <1>2, <1>3
  DEF SchemaInv, CursorAtEnd, FirstRowKnown, Regular, KeysDistinct, IndexAgrees
<1>8. RegularSoFar'
  <2> SUFFICES ASSUME is_regular' PROVE RegularSoFar'
    BY DEF RegularSoFar
  <2>1. is_regular /\ pos - 1 = first_row_length'
    BY <1>3, Zenon
  <2>2. /\ \A i \in 1 .. i_row - 1 :
             /\ Len(array[i].fields) = first_row_length
             /\ Follows(keys, array[i].fields, Len(array[i].fields) + 1)
        /\ Follows(keys, Fields, pos)
        /\ i_row = 1 => Len(keys) = pos - 1
        /\ i_row > 1 => \/ Len(keys) = first_row_length
                        \/ Len(keys) = pos - 1 /\ Len(keys) > first_row_length
    BY <1>1, <1>2, <2>1 DEF SchemaInv, RegularSoFar
  <2>3. Len(keys) = first_row_length'
    BY <1>1, <1>2, <1>3, <2>1, <2>2
  <2>4. ASSUME NEW i \in 1 .. i_row
        PROVE  /\ Len(array[i].fields) = first_row_length'
               /\ Follows(keys, array[i].fields, Len(array[i].fields) + 1)
    <3>1. CASE i = i_row
      BY <1>2, <2>1, <2>2, <3>1 DEF Fields
    <3>2. CASE i < i_row
      BY <1>1, <1>2, <1>3, <2>2, <3>2
    <3> QED
      BY <1>1, <1>2, <3>1, <3>2
  <2>5. Follows(keys, array[i_row + 1].fields, 1) \/ i_row + 1 > Len(array)
    BY <1>1, <1>2 DEF Follows
  <2> QED
    BY <1>1, <1>2, <2>3, <2>4, <2>5 DEF RegularSoFar, Fields
<1> QED
  BY <1>5, <1>6, <1>7, <1>8 DEF SchemaInv

LEMMA BuildColumnsInv == ASSUME SchemaInv, BuildColumns PROVE SchemaInv'
<1>1. /\ TypeOK
      /\ Len(keys) \in Nat /\ DOMAIN keys = 1 .. Len(keys)
      /\ Len(array) \in Nat /\ Len(array) > 0 /\ DOMAIN array = 1 .. Len(array)
      /\ \A i \in DOMAIN array : Len(array[i].fields) \in Nat
  BY KeysTypes, RowTypes DEF SchemaInv
<1>2. /\ phase = "diagnose" /\ phase' = "fill"
      /\ i_row = Len(array) + 1 /\ pos = 1
      /\ i_row' = 1 /\ pos' = 1
      /\ UNCHANGED <<array, type_policy, int64_opt, keys, index, schema,
                     is_regular, first_row_length>>
  BY <1>1 DEF BuildColumns, TypeOK, SchemaInv, CursorAtEnd, inputs, cols
<1>3. kinds' \in [DOMAIN keys -> Col_Kind]
  BY <1>1, ColKindType DEF BuildColumns, TypeOK
<1>4. vecs' \in [DOMAIN keys -> [DOMAIN array -> Cell]]
  <2>1. NA \in Cell
    BY DEF NA, Cell, NoValue, Value, Representation, ElementKind
  <2> QED
    BY <2>1 DEF BuildColumns
<1>5. last_row' \in [DOMAIN keys -> 0 .. Len(array)]
  BY <1>1 DEF BuildColumns
<1>6. TypeOK'
  BY <1>1, <1>2, <1>3, <1>4, <1>5 DEF TypeOK, Fields
<1>7. KeysComplete'
  <2>1. \A i \in DOMAIN array : \A p \in DOMAIN array[i].fields : Diagnosed(i, p)
    BY <1>1, <1>2 DEF Diagnosed
  <2> QED
    BY <1>2, <2>1 DEF SchemaInv, KeysComplete
<1>8. Regular'
  <2> SUFFICES ASSUME is_regular
               PROVE  \A i \in DOMAIN array :
                         /\ Len(array[i].fields) = Len(keys)
                         /\ Follows(keys, array[i].fields, Len(array[i].fields) + 1)
    BY <1>2 DEF Regular
  <2>1. /\ \A i \in 1 .. i_row - 1 :
             /\ Len(array[i].fields) = first_row_length
             /\ Follows(keys, array[i].fields, Len(array[i].fields) + 1)
        /\ i_row > 1 => \/ Len(keys) = first_row_length
                        \/ Len(keys) = pos - 1 /\ Len(keys) > first_row_length
    BY <1>2 DEF SchemaInv, RegularSoFar
  <2>2. first_row_length >= 0
    BY <1>1, <1>2, <2>1
  <2> QED
    BY <1>1, <1>2, <2>1, <2>2
<1> QED
  BY <1>1, <1>2, <1>6, <1>7, <1>8
  DEF SchemaInv, CursorAtEnd, FirstRowKnown, RegularSoFar, KeysDistinct, IndexAgrees

-----------------------------------------------------------------------------
(* The fill loop: a field is routed to the column of its key. *)
LEMMA RoutedRight ==
    ASSUME SchemaInv, phase = "fill", i_row \in DOMAIN array, pos \in DOMAIN Fields
    PROVE  Route \in DOMAIN keys /\ keys[Route] = Fields[pos].key
<1>1. /\ TypeOK /\ KeysDistinct /\ IndexAgrees
      /\ DOMAIN keys = 1 .. Len(keys) /\ Len(keys) \in Nat
      /\ DOMAIN Fields = 1 .. Len(Fields) /\ Len(Fields) \in Nat
      /\ Fields[pos].key \in Key /\ pos \in Nat \ {0}
  BY KeysTypes, RowTypes DEF SchemaInv, Fields
<1>2. CASE is_regular
  BY <1>1, <1>2 DEF SchemaInv, Regular, Follows, Route, Fields
<1>3. CASE ~is_regular
  <2>1. \E j \in DOMAIN keys : keys[j] = Fields[pos].key
    BY DEF SchemaInv, KeysComplete, Diagnosed, Fields
  <2> QED
    BY <1>1, <1>3, <2>1, FindIsRight DEF Route
<1> QED
  BY <1>2, <1>3

LEMMA FillFieldInv == ASSUME SchemaInv, FillField PROVE SchemaInv'
<1>1. /\ TypeOK
      /\ Len(array) \in Nat /\ DOMAIN array = 1 .. Len(array)
      /\ DOMAIN Fields = 1 .. Len(Fields) /\ Len(Fields) \in Nat
      /\ i_row \in DOMAIN array /\ pos \in DOMAIN Fields /\ pos \in Nat \ {0}
      /\ Fields[pos].value \in Value
      /\ phase = "fill"
  <2>1. i_row \in DOMAIN array
    BY RowTypes DEF FillField, SchemaInv, TypeOK
  <2> QED
    BY <2>1, RowTypes DEF FillField, SchemaInv, TypeOK, Fields
<1>2. /\ Route \in DOMAIN keys
      /\ kinds \in [DOMAIN keys -> Col_Kind]
      /\ vecs \in [DOMAIN keys -> [DOMAIN array -> Cell]]
      /\ last_row \in [DOMAIN keys -> 0 .. Len(array)]
  BY <1>1, RoutedRight DEF TypeOK
<1>3. vecs' \in [DOMAIN keys -> [DOMAIN array -> Cell]]
  <2>1. cell(kinds[Route], Fields[pos].value) \in Cell
    BY <1>1, <1>2, CellType
  <2>2. \/ vecs' = vecs
        \/ vecs' = [vecs EXCEPT ![Route][i_row] = cell(kinds[Route], Fields[pos].value)]
    BY DEF FillField, SetCell
  <2>3. CASE vecs' = vecs
    BY <1>2, <2>3
  <2>4. CASE vecs' = [vecs EXCEPT ![Route][i_row] = cell(kinds[Route], Fields[pos].value)]
    <3> DEFINE c == cell(kinds[Route], Fields[pos].value)
               r == Route
    <3>1. c \in Cell /\ r \in DOMAIN keys
      BY <1>2, <2>1
    <3>2. vecs' = [vecs EXCEPT ![r] = [vecs[r] EXCEPT ![i_row] = c]]
      BY <1>2, <2>4
    <3> HIDE DEF c, r
    <3>3. [vecs[r] EXCEPT ![i_row] = c] \in [DOMAIN array -> Cell]
      BY <1>1, <1>2, <3>1
    <3>4. vecs' \in [DOMAIN keys -> [DOMAIN array -> Cell]]
      BY <1>2, <3>1, <3>2, <3>3
    <3> QED
      BY <3>4
  <2> QED
    BY <2>2, <2>3, <2>4
<1>4. last_row' \in [DOMAIN keys -> 0 .. Len(array)]
  <2>1. last_row' = last_row \/ last_row' = [last_row EXCEPT ![Route] = i_row]
    BY DEF FillField
  <2> QED
    BY <1>1, <1>2, <2>1
<1>5. UNCHANGED <<array, type_policy, int64_opt, phase, i_row, keys, index, schema,
                  is_regular, first_row_length, kinds>> /\ pos' = pos + 1
  BY DEF FillField, inputs, cols
<1>6. TypeOK'
  BY <1>1, <1>3, <1>4, <1>5 DEF TypeOK, Fields
<1>7. KeysComplete'
  BY <1>1, <1>5 DEF SchemaInv, KeysComplete, Diagnosed
<1> QED
  BY <1>1, <1>5, <1>6, <1>7
  DEF SchemaInv, CursorAtEnd, FirstRowKnown, RegularSoFar, Regular, KeysDistinct, IndexAgrees

LEMMA OtherStepsInv ==
    ASSUME SchemaInv, NotADataFrame \/ FillRowEnd \/ Finish \/ UNCHANGED vars
    PROVE  SchemaInv'
<1>1. /\ TypeOK /\ Len(array) \in Nat /\ DOMAIN array = 1 .. Len(array)
      /\ \A i \in DOMAIN array : Len(array[i].fields) \in Nat
  BY RowTypes DEF SchemaInv
<1>2. CASE NotADataFrame
  <2>1. /\ phase = "diagnose" /\ phase' = "nullopt"
        /\ UNCHANGED <<inputs, i_row, pos, cols, kinds, vecs, last_row>>
    BY <1>2 DEF NotADataFrame
  <2>2. TypeOK'
    BY <1>1, <2>1 DEF TypeOK, Fields, inputs, cols
  <2>3. KeysComplete' /\ CursorAtEnd'
    BY <2>1 DEF SchemaInv, KeysComplete, Diagnosed, CursorAtEnd, inputs, cols
  <2> QED
    BY <2>1, <2>2, <2>3
    DEF SchemaInv, FirstRowKnown, RegularSoFar, Regular, KeysDistinct, IndexAgrees,
        inputs, cols
<1>3. CASE FillRowEnd
  <2>1. /\ phase = "fill" /\ phase' = "fill"
        /\ i_row \in DOMAIN array /\ i_row' = i_row + 1 /\ pos' = 1
        /\ UNCHANGED <<inputs, cols, kinds, vecs, last_row>>
    BY <1>1, <1>3 DEF FillRowEnd, TypeOK
  <2>2. i_row' <= Len(array) => 1 <= Len(array[i_row'].fields) + 1
    BY <1>1, <2>1
  <2>3. TypeOK'
    BY <1>1, <2>1, <2>2 DEF TypeOK, Fields, inputs, cols
  <2>4. KeysComplete' /\ CursorAtEnd'
    BY <2>1 DEF SchemaInv, KeysComplete, Diagnosed, CursorAtEnd, inputs, cols
  <2> QED
    BY <2>1, <2>3, <2>4
    DEF SchemaInv, FirstRowKnown, RegularSoFar, Regular, KeysDistinct, IndexAgrees,
        inputs, cols
<1>4. CASE Finish
  <2>1. /\ phase = "fill" /\ phase' = "done"
        /\ UNCHANGED <<inputs, i_row, pos, cols, kinds, vecs, last_row>>
    BY <1>4 DEF Finish
  <2>2. TypeOK'
    BY <1>1, <2>1 DEF TypeOK, Fields, inputs, cols
  <2>3. KeysComplete' /\ CursorAtEnd'
    BY <2>1 DEF SchemaInv, KeysComplete, Diagnosed, CursorAtEnd, inputs, cols
  <2> QED
    BY <2>1, <2>2, <2>3
    DEF SchemaInv, FirstRowKnown, RegularSoFar, Regular, KeysDistinct, IndexAgrees,
        inputs, cols
<1>5. CASE UNCHANGED vars
  <2>1. UNCHANGED <<inputs, phase, i_row, pos, cols, kinds, vecs, last_row>>
    BY <1>5 DEF vars
  <2>2. TypeOK'
    BY <1>1, <2>1 DEF TypeOK, Fields, inputs, cols
  <2>3. KeysComplete' /\ CursorAtEnd'
    BY <2>1 DEF SchemaInv, KeysComplete, Diagnosed, CursorAtEnd, inputs, cols
  <2> QED
    BY <2>1, <2>2, <2>3
    DEF SchemaInv, FirstRowKnown, RegularSoFar, Regular, KeysDistinct, IndexAgrees, Fields,
        inputs, cols
<1> QED
  BY <1>2, <1>3, <1>4, <1>5

LEMMA InitInv == Init => SchemaInv
<1> SUFFICES ASSUME Init PROVE SchemaInv
  OBVIOUS
<1>1. array \in Seq(Row) \ {<<>>} /\ type_policy \in TypePolicy /\ int64_opt \in Int64Opt
  BY DocsAssumption, OptionsAssumption DEF Init
<1>2. Len(array) \in Nat /\ Len(array) > 0 /\ DOMAIN array = 1 .. Len(array)
  BY <1>1
<1>3. Fields \in Seq(Field)
  <2>1. array[1] \in Row
    BY <1>1, <1>2
  <2> QED
    BY <2>1 DEF Init, Fields, Row
<1>4. TypeOK
  BY <1>1, <1>2, <1>3 DEF Init, TypeOK
<1>5. KeysDistinct /\ IndexAgrees
  BY MinHashedAssumption DEF Init, KeysDistinct, IndexAgrees
<1>6. /\ phase = "diagnose" /\ i_row = 1 /\ pos = 1 /\ Len(keys) = 0
      /\ first_row_length = -1
  BY DEF Init
<1>7. \A i \in DOMAIN array : DOMAIN array[i].fields \subseteq Nat \ {0}
  BY <1>4, RowTypes
<1>8. KeysComplete
  BY <1>2, <1>6, <1>7 DEF KeysComplete, Diagnosed
<1>9. CursorAtEnd /\ FirstRowKnown /\ Regular
  BY <1>2, <1>6 DEF CursorAtEnd, FirstRowKnown, Regular
<1>10. Follows(keys, Fields, 1)
  BY <1>2, <1>6, <1>7 DEF Follows, Fields
<1>11. RegularSoFar
  BY <1>2, <1>6, <1>10 DEF RegularSoFar
<1> QED
  BY <1>4, <1>5, <1>8, <1>9, <1>11 DEF SchemaInv

LEMMA NextInv == SchemaInv /\ [Next]_vars => SchemaInv'
  BY DiagnoseFieldInv, DiagnoseRowEndInv, BuildColumnsInv, FillFieldInv, OtherStepsInv
  DEF Next, Returned

LEMMA SchemaInvHolds == Spec => []SchemaInv
  BY InitInv, NextInv, PTL DEF Spec

-----------------------------------------------------------------------------
(* The columns: their order, their doctors, and what made them irregular   *)

(* The second part of ColumnsInFirstSeenOrder: where column j came from.   *)
FirstSeen(j) ==
    \E i \in DOMAIN array : \E p \in DOMAIN array[i].fields :
       /\ Diagnosed(i, p)
       /\ array[i].fields[p].key = keys[j]
       /\ \A i2 \in DOMAIN array : \A p2 \in DOMAIN array[i2].fields :
            Before(i2, p2, i, p) =>
              \E l \in 1 .. j - 1 : keys[l] = array[i2].fields[p2].key

FirstLength ==
    phase = "diagnose" /\ i_row > 1 => first_row_length = Len(array[1].fields)

(* A key is in another place than its column, or rows differ in length.    *)
(* Neither can be undone by the rows to come.                              *)
Misplaced ==
    \E i \in DOMAIN array : \E p \in DOMAIN array[i].fields : \E j \in DOMAIN keys :
       keys[j] = array[i].fields[p].key /\ j # p

Ragged ==
    \E i, i2 \in DOMAIN array : Len(array[i].fields) # Len(array[i2].fields)

ColumnsInv ==
    /\ \A j \in DOMAIN keys : FirstSeen(j)
    /\ DoctorsSawTheirColumn
    /\ FirstLength
    /\ ~is_regular => Misplaced \/ Ragged

(* The steps other than DiagnoseField diagnose nothing. *)
LEMMA NothingDiagnosed ==
    ASSUME SchemaInv, [Next]_vars, ~DiagnoseField
    PROVE  /\ UNCHANGED <<array, int64_opt, keys, schema>>
           /\ \A i \in DOMAIN array : \A p \in DOMAIN array[i].fields :
                Diagnosed(i, p)' <=> Diagnosed(i, p)
<1>1. /\ TypeOK
      /\ Len(array) \in Nat /\ DOMAIN array = 1 .. Len(array)
      /\ \A i \in DOMAIN array :
           /\ Len(array[i].fields) \in Nat
           /\ DOMAIN array[i].fields = 1 .. Len(array[i].fields)
  BY RowTypes DEF SchemaInv
<1>2. UNCHANGED <<array, int64_opt, keys, schema>>
  BY DEF Next, NotADataFrame, DiagnoseRowEnd, BuildColumns, FillField, FillRowEnd,
         Finish, Returned, vars, inputs, cols
<1>3. ASSUME NEW i \in DOMAIN array, NEW p \in DOMAIN array[i].fields
      PROVE  Diagnosed(i, p)' <=> Diagnosed(i, p)
  <2>1. CASE DiagnoseRowEnd
    BY <1>1, <1>2, <2>1 DEF DiagnoseRowEnd, Diagnosed, TypeOK, Fields
  <2>2. CASE BuildColumns
    <3>1. i < i_row /\ phase' = "fill"
      BY <1>1, <2>2 DEF BuildColumns, TypeOK
    <3> QED
      BY <1>2, <3>1 DEF Diagnosed
  <2>3. CASE NotADataFrame \/ UNCHANGED vars
    BY <2>3 DEF NotADataFrame, Diagnosed, vars, inputs
  <2>4. CASE FillField \/ FillRowEnd \/ Finish
    BY <2>4 DEF FillField, FillRowEnd, Finish, Diagnosed, inputs
  <2> QED
    BY <2>1, <2>2, <2>3, <2>4 DEF Next, Returned
<1> QED
  BY <1>2, <1>3

(* DiagnoseField diagnoses the field it is at. *)
LEMMA OneDiagnosed ==
    ASSUME SchemaInv, DiagnoseField
    PROVE  /\ ~Diagnosed(i_row, pos)
           /\ \A i \in DOMAIN array : \A p \in DOMAIN array[i].fields :
                /\ Diagnosed(i, p)' <=> Diagnosed(i, p) \/ (i = i_row /\ p = pos)
                /\ Before(i, p, i_row, pos) => Diagnosed(i, p)
<1>1. /\ TypeOK
      /\ Len(array) \in Nat /\ DOMAIN array = 1 .. Len(array)
      /\ \A i \in DOMAIN array :
           /\ Len(array[i].fields) \in Nat
           /\ DOMAIN array[i].fields = 1 .. Len(array[i].fields)
  BY RowTypes DEF SchemaInv
<1>2. /\ phase = "diagnose" /\ phase' = "diagnose"
      /\ i_row \in DOMAIN array /\ i_row' = i_row
      /\ pos \in DOMAIN array[i_row].fields /\ pos' = pos + 1
      /\ i_row \in Nat /\ pos \in Nat /\ array' = array
  BY <1>1, DiagnosedField DEF DiagnoseField, inputs, Fields
<1>3. ~Diagnosed(i_row, pos)
  BY <1>2 DEF Diagnosed
<1> QED
  BY <1>1, <1>2, <1>3 DEF Diagnosed, Before

(* A doctor is the doctor of the values it has seen. *)
LEMMA DoctorGrows ==
    ASSUME NEW o, NEW K, NEW kind
    PROVE  /\ DoctorOf(o, {}) = EmptyDoctor
           /\ DoctorOf(o, K \cup {kind}) = add_element(o, DoctorOf(o, K), kind)
<1>1. DoctorOf(o, {}) = EmptyDoctor
  BY DEF DoctorOf, EmptyDoctor
<1>2. /\ {element_type(k) : k \in K \cup {kind}}
           = {element_type(k) : k \in K} \cup {element_type(kind)}
      /\ {lower_flag(o, k) : k \in K \cup {kind}}
           = {lower_flag(o, k) : k \in K} \cup {lower_flag(o, kind)}
  OBVIOUS
<1>3. DoctorOf(o, K \cup {kind}) = add_element(o, DoctorOf(o, K), kind)
  BY <1>2 DEF DoctorOf, add_element
<1> QED
  BY <1>1, <1>3

LEMMA ColumnsFieldInv == ASSUME SchemaInv, ColumnsInv, DiagnoseField PROVE ColumnsInv'
<1> DEFINE key  == Fields[pos].key
           kind == Fields[pos].value.kind
<1>1. PICK col \in Nat : Assigns(key, col)
  BY FieldIsAssigned
<1>2. /\ TypeOK
      /\ Len(keys) \in Nat /\ DOMAIN keys = 1 .. Len(keys)
      /\ Len(keys') \in Nat /\ DOMAIN keys' = 1 .. Len(keys')
      /\ DOMAIN array \subseteq Nat
      /\ \A i \in DOMAIN array : DOMAIN array[i].fields \subseteq Nat
  BY <1>1, KeysTypes, RowTypes DEF SchemaInv, Assigns
<1>3. /\ i_row \in DOMAIN array /\ pos \in DOMAIN array[i_row].fields
      /\ array[i_row].fields[pos].key = key
      /\ array[i_row].fields[pos].value.kind = kind /\ kind \in ElementKind
      /\ phase' = phase /\ i_row' = i_row
      /\ UNCHANGED <<array, int64_opt, first_row_length>>
  BY DiagnosedField DEF Fields
<1>4. /\ \A j \in DOMAIN keys : j \in DOMAIN keys' /\ keys'[j] = keys[j]
      /\ col \in DOMAIN keys' /\ keys'[col] = key
      /\ \A j \in DOMAIN keys' : j \in DOMAIN keys \/ j = col
      /\ KeysDistinct'
  BY <1>1, <1>2 DEF Assigns
<1>5. ASSUME NEW j \in DOMAIN keys' PROVE FirstSeen(j)'
  <2>1. CASE j \in DOMAIN keys
    <3> DEFINE SeenAt(i, p) ==
                 /\ Diagnosed(i, p)
                 /\ array[i].fields[p].key = keys[j]
                 /\ \A i2 \in DOMAIN array : \A p2 \in DOMAIN array[i2].fields :
                      Before(i2, p2, i, p) =>
                        \E l \in 1 .. j - 1 : keys[l] = array[i2].fields[p2].key
    <3>0. PICK i \in DOMAIN array : \E p \in DOMAIN array[i].fields : SeenAt(i, p)
      BY <2>1 DEF ColumnsInv, FirstSeen
    <3>1. PICK p \in DOMAIN array[i].fields : SeenAt(i, p)
      BY <3>0
    <3>2. Diagnosed(i, p)'
      BY <3>1, OneDiagnosed
    <3>3. \A l \in 1 .. j - 1 : keys'[l] = keys[l]
      BY <1>2, <1>4, <2>1
    <3> QED
      BY <1>3, <1>4, <2>1, <3>1, <3>2, <3>3 DEF FirstSeen, Before
  <2>2. CASE j \notin DOMAIN keys
    <3>1. j = col /\ j = Len(keys) + 1
      BY <1>1, <1>2, <1>4, <2>2 DEF Assigns
    <3>2. ASSUME NEW i2 \in DOMAIN array, NEW p2 \in DOMAIN array[i2].fields,
                 Before(i2, p2, i_row, pos)
          PROVE  \E l \in 1 .. j - 1 : keys'[l] = array[i2].fields[p2].key
      <4>1. PICK l \in DOMAIN keys : keys[l] = array[i2].fields[p2].key
        BY <3>2, OneDiagnosed DEF SchemaInv, KeysComplete
      <4> QED
        BY <1>2, <1>4, <3>1, <4>1
    <3> QED
      BY <1>3, <1>4, <3>1, <3>2, OneDiagnosed DEF FirstSeen, Before
  <2> QED
    BY <2>1, <2>2
<1>6. ASSUME NEW j \in DOMAIN keys'
      PROVE  KindsUnder(keys[j])' = IF keys'[j] = key THEN KindsUnder(key) \cup {kind}
                                                      ELSE KindsUnder(keys'[j])
  BY <1>3, OneDiagnosed DEF KindsUnder
<1>7. DoctorsSawTheirColumn'
  <2> SUFFICES ASSUME NEW j \in DOMAIN keys'
               PROVE  schema'[j] = DoctorOf(int64_opt, KindsUnder(keys[j])')
    BY <1>3 DEF DoctorsSawTheirColumn
  <2>1. CASE j \in DOMAIN keys /\ j # col
    <3>1. keys'[j] # key /\ keys'[j] = keys[j] /\ schema'[j] = schema[j]
      BY <1>1, <1>2, <1>4, <2>1 DEF Assigns, KeysDistinct
    <3> QED
      BY <1>6, <2>1, <3>1 DEF ColumnsInv, DoctorsSawTheirColumn
  <2>2. CASE j \in DOMAIN keys /\ j = col
    <3>1. /\ keys'[j] = key /\ keys[j] = key
          /\ schema'[j] = add_element(int64_opt, schema[j], kind)
      BY <1>1, <1>2, <1>4, <2>2 DEF Assigns
    <3>2. schema[j] = DoctorOf(int64_opt, KindsUnder(key))
      BY <2>2, <3>1 DEF ColumnsInv, DoctorsSawTheirColumn
    <3> QED
      BY <1>6, <3>1, <3>2, DoctorGrows
  <2>3. CASE j \notin DOMAIN keys
    <3>1. j = col /\ keys'[j] = key /\ col \notin 1 .. Len(keys)
      BY <1>2, <1>4, <2>3
    <3>2. schema'[j] = add_element(int64_opt, EmptyDoctor, kind)
      BY <1>1, <3>1 DEF Assigns
    <3>3. \A l \in DOMAIN keys : keys[l] # key
      BY <1>4, <3>1, <2>3 DEF KeysDistinct
    <3>4. KindsUnder(key) = {}
      BY <3>3 DEF KindsUnder, SchemaInv, KeysComplete
    <3> QED
      <4>1. KindsUnder(keys[j])' = {} \cup {kind}
        BY <1>6, <3>1, <3>4
      <4>2. DoctorOf(int64_opt, {} \cup {kind}) = add_element(int64_opt, EmptyDoctor, kind)
        BY DoctorGrows
      <4> QED
        BY <3>1, <3>2, <4>1, <4>2, Zenon
  <2> QED
    BY <2>1, <2>2, <2>3
<1>8. ~is_regular' => (Misplaced \/ Ragged)'
  <2>1. CASE is_regular
    <3>1. ~is_regular' => col # pos
      BY <1>1, <2>1 DEF Assigns
    <3> QED
      BY <1>3, <1>4, <3>1 DEF Misplaced
  <2>2. CASE ~is_regular
    <3>1. Misplaced => Misplaced'
      BY <1>3, <1>4 DEF Misplaced
    <3>2. Ragged => Ragged'
      BY <1>3 DEF Ragged
    <3> QED
      BY <2>2, <3>1, <3>2 DEF ColumnsInv
  <2> QED
    BY <2>1, <2>2
<1>9. FirstLength'
  BY <1>3 DEF ColumnsInv, FirstLength
<1> QED
  BY <1>5, <1>7, <1>8, <1>9 DEF ColumnsInv

LEMMA ColumnsOtherInv ==
    ASSUME SchemaInv, ColumnsInv, [Next]_vars, ~DiagnoseField
    PROVE  ColumnsInv'
<1>1. /\ TypeOK
      /\ UNCHANGED <<array, int64_opt, keys, schema>>
      /\ \A i \in DOMAIN array : \A p \in DOMAIN array[i].fields :
           Diagnosed(i, p)' <=> Diagnosed(i, p)
  BY NothingDiagnosed DEF SchemaInv
<1>2. \A j \in DOMAIN keys' : FirstSeen(j)'
  BY <1>1 DEF ColumnsInv, FirstSeen, Before
<1>3. DoctorsSawTheirColumn'
  <2>1. \A k : KindsUnder(k)' = KindsUnder(k)
    BY <1>1 DEF KindsUnder
  <2> QED
    BY <1>1, <2>1 DEF ColumnsInv, DoctorsSawTheirColumn
<1>4. FirstLength' /\ (~is_regular' => (Misplaced \/ Ragged)')
  <2>1. CASE DiagnoseRowEnd
    <3>1. /\ i_row \in DOMAIN array /\ i_row \in Nat /\ phase = "diagnose"
          /\ 1 \in DOMAIN array
          /\ pos - 1 = Len(array[i_row].fields)
          /\ first_row_length' = IF first_row_length = -1 THEN pos - 1 ELSE first_row_length
          /\ is_regular' = (is_regular /\ pos - 1 = first_row_length')
      <4>1. i_row \in DOMAIN array /\ i_row \in Nat /\ 1 \in DOMAIN array /\ pos \in Nat
        BY <1>1, <2>1, RowTypes DEF DiagnoseRowEnd, TypeOK
      <4>2. pos - 1 = Len(array[i_row].fields)
        BY <1>1, <2>1, <4>1, RowTypes DEF DiagnoseRowEnd, TypeOK, Fields
      <4> QED
        BY <2>1, <4>1, <4>2 DEF DiagnoseRowEnd
    <3>2. first_row_length' = Len(array[1].fields)
      <4>1. CASE i_row = 1
        BY <3>1, <4>1 DEF SchemaInv, FirstRowKnown
      <4>2. CASE i_row > 1
        BY <3>1, <4>2 DEF SchemaInv, FirstRowKnown, ColumnsInv, FirstLength
      <4> QED
        BY <1>1, <3>1, <4>1, <4>2, RowTypes
    <3>3. FirstLength'
      BY <1>1, <3>2 DEF FirstLength
    <3>4. CASE is_regular
      BY <1>1, <3>1, <3>2, <3>3, <3>4 DEF Ragged
    <3>5. CASE ~is_regular
      BY <1>1, <3>3, <3>5 DEF ColumnsInv, Misplaced, Ragged
    <3> QED
      BY <3>4, <3>5
  <2>2. CASE ~DiagnoseRowEnd
    <3>1. is_regular' = is_regular
      BY <2>2 DEF Next, NotADataFrame, BuildColumns, FillField, FillRowEnd, Finish,
                  Returned, vars, cols
    <3>2. \/ phase' # "diagnose"
          \/ UNCHANGED <<phase, i_row, first_row_length>>
      BY <2>2 DEF Next, NotADataFrame, BuildColumns, FillField, FillRowEnd, Finish,
                  Returned, vars, cols
    <3> QED
      BY <1>1, <3>1, <3>2 DEF ColumnsInv, FirstLength, Misplaced, Ragged
  <2> QED
    BY <2>1, <2>2
<1> QED
  BY <1>2, <1>3, <1>4 DEF ColumnsInv

LEMMA ColumnsInvHolds == Spec => []ColumnsInv
<1>1. Init => ColumnsInv
  BY DEF Init, ColumnsInv, DoctorsSawTheirColumn, FirstLength
<1>2. SchemaInv /\ ColumnsInv /\ [Next]_vars => ColumnsInv'
  BY ColumnsFieldInv, ColumnsOtherInv
<1> QED
  BY <1>1, <1>2, SchemaInvHolds, PTL DEF Spec

-----------------------------------------------------------------------------
(* Every variable keeps its type. *)
THEOREM TypeCorrect == Spec => []TypeOK
<1>1. SchemaInv => TypeOK
  BY DEF SchemaInv
<1> QED
  BY <1>1, SchemaInvHolds, PTL

(* The fill loop never writes out of bounds, nor to another key's column.  *)
THEOREM Routing == Spec => []RoutedToItsColumn
<1>1. SchemaInv => RoutedToItsColumn
  <2> SUFFICES ASSUME SchemaInv, phase = "fill", i_row <= Len(array), pos <= Len(Fields)
               PROVE  Route \in DOMAIN keys /\ keys[Route] = Fields[pos].key
    BY DEF RoutedToItsColumn
  <2>1. i_row \in DOMAIN array
    BY RowTypes DEF SchemaInv, TypeOK
  <2>2. pos \in DOMAIN Fields
    BY <2>1, RowTypes DEF SchemaInv, TypeOK, Fields
  <2> QED
    BY <2>1, <2>2, RoutedRight
<1> QED
  BY <1>1, SchemaInvHolds, PTL

(* The columns are the distinct keys, in the order they are first seen in, *)
(* whatever mix of positions, scans and index finds them.                  *)
THEOREM FirstSeenOrder == Spec => []ColumnsInFirstSeenOrder
<1>1. SchemaInv /\ ColumnsInv => ColumnsInFirstSeenOrder
  <2> SUFFICES ASSUME SchemaInv, ColumnsInv, NEW j \in DOMAIN keys
               PROVE  /\ FirstSeen(j)
                      /\ \A l \in 1 .. j - 1 : keys[l] # keys[j]
    BY DEF ColumnsInFirstSeenOrder, FirstSeen, SchemaInv, KeysComplete
  <2>1. \A l \in 1 .. j - 1 : l \in DOMAIN keys /\ l # j
    BY KeysTypes DEF SchemaInv
  <2> QED
    BY <2>1 DEF SchemaInv, ColumnsInv, KeysDistinct
<1> QED
  BY <1>1, SchemaInvHolds, ColumnsInvHolds, PTL

(* is_regular is what it is taken for: it is raised exactly if every row   *)
(* has the column keys in column order, for any number of rows and keys.   *)
THEOREM RegularIsSameKeys == Spec => []RegularMeansSameKeys
<1>1. SchemaInv /\ ColumnsInv => RegularMeansSameKeys
  <2> SUFFICES ASSUME SchemaInv, ColumnsInv, phase \in {"fill", "done"}
               PROVE  is_regular <=> \A i \in DOMAIN array : KeysOf(i) = keys
    BY DEF RegularMeansSameKeys
  <2>1. /\ Len(keys) \in Nat /\ keys \in Seq(Key) /\ DOMAIN keys = 1 .. Len(keys)
        /\ \A i \in DOMAIN array :
             /\ Len(array[i].fields) \in Nat
             /\ DOMAIN array[i].fields = 1 .. Len(array[i].fields)
    BY KeysTypes, RowTypes DEF SchemaInv, TypeOK
  <2>2. ASSUME is_regular, NEW i \in DOMAIN array PROVE KeysOf(i) = keys
    <3>1. DOMAIN array[i].fields = DOMAIN keys
      BY <2>1, <2>2 DEF SchemaInv, Regular
    <3>2. \A p \in DOMAIN keys : array[i].fields[p].key = keys[p]
      BY <2>1, <2>2, <3>1 DEF SchemaInv, Regular, Follows
    <3>3. keys = [p \in DOMAIN keys |-> keys[p]]
      BY <2>1
    <3> QED
      BY <3>1, <3>2, <3>3 DEF KeysOf
  <2>3. ASSUME ~is_regular, \A i \in DOMAIN array : KeysOf(i) = keys PROVE FALSE
    <3>1. \A i \in DOMAIN array : DOMAIN array[i].fields = DOMAIN keys
      BY <2>3 DEF KeysOf
    <3>2. ~Ragged
      BY <2>1, <3>1 DEF Ragged
    <3>3. \A i \in DOMAIN array : \A p \in DOMAIN array[i].fields :
             array[i].fields[p].key = keys[p]
      BY <2>3 DEF KeysOf
    <3>4. ~Misplaced
      BY <3>1, <3>3 DEF Misplaced, SchemaInv, KeysDistinct
    <3> QED
      BY <2>3, <3>2, <3>4 DEF ColumnsInv
  <2> QED
    BY <2>2, <2>3
<1> QED
  BY <1>1, SchemaInvHolds, ColumnsInvHolds, PTL

(* No value that is stored in a column, repeated ones included, is missing *)
(* from the column's diagnosis, and no other is in it.                     *)
THEOREM DoctorsSawAll == Spec => []DoctorsSawTheirColumn
<1>1. ColumnsInv => DoctorsSawTheirColumn
  BY DEF ColumnsInv
<1> QED
  BY <1>1, ColumnsInvHolds, PTL

-----------------------------------------------------------------------------
(***************************************************************************)
(* The second pass: the contents of the finished columns.                  *)
(***************************************************************************)

KeyAt(i, p) == array[i].fields[p].key

(* The fields the second pass has been through.                            *)
Filled(i, p) == i < i_row \/ (i = i_row /\ p < pos)

(* Every cell is right for the part of its row that has been read.         *)
CellRight(i, j) ==
    /\ \A p \in DOMAIN array[i].fields :
         Filled(i, p) /\ KeyAt(i, p) = keys[j] /\ IsFirst(i, p) =>
             vecs[j][i] = cell(kinds[j], array[i].fields[p].value)
    /\ (\A p \in DOMAIN array[i].fields : Filled(i, p) => KeyAt(i, p) # keys[j])
         => vecs[j][i] = NA

(* last_row marks the columns written in the row at hand, if the rows have *)
(* to be watched for repeated keys.                                        *)
LastRowRight(j) ==
    /\ last_row[j] <= i_row
    /\ phase = "fill" /\ ~is_regular /\ i_row <= Len(array) =>
         (last_row[j] = i_row <=> \E p \in DOMAIN Fields : p < pos /\ Fields[p].key = keys[j])

FillInv ==
    phase \in {"fill", "done"} =>
        /\ \A i \in DOMAIN array : \A j \in DOMAIN keys : CellRight(i, j)
        /\ \A j \in DOMAIN keys : LastRowRight(j)
        /\ phase = "done" => i_row = Len(array) + 1

-----------------------------------------------------------------------------
LEMMA FillStart == ASSUME SchemaInv, BuildColumns PROVE FillInv'
<1>1. /\ TypeOK /\ Len(array) \in Nat /\ DOMAIN array = 1 .. Len(array)
      /\ \A i \in DOMAIN array : DOMAIN array[i].fields = 1 .. Len(array[i].fields)
  BY RowTypes DEF SchemaInv
<1>2. /\ phase' = "fill" /\ i_row' = 1 /\ pos' = 1
      /\ UNCHANGED <<array, keys, is_regular>>
      /\ \A j \in DOMAIN keys : last_row'[j] = 0
      /\ \A j \in DOMAIN keys : \A i \in DOMAIN array : vecs'[j][i] = NA
  BY DEF BuildColumns, inputs, cols
<1>3. \A i \in DOMAIN array : \A p \in DOMAIN array[i].fields : ~(i < 1 \/ (i = 1 /\ p < 1))
  BY <1>1
<1>4. \A i \in DOMAIN array' : \A j \in DOMAIN keys' : CellRight(i, j)'
  BY <1>2, <1>3 DEF CellRight, Filled
<1>5. \A j \in DOMAIN keys' : LastRowRight(j)'
  <2>1. Len(array) >= 1 => \A p \in DOMAIN array[1].fields : ~(p < 1)
    BY <1>1
  <2> QED
    BY <1>2, <2>1 DEF LastRowRight, Fields
<1> QED
  BY <1>2, <1>4, <1>5 DEF FillInv

(* The field being filled, and what has become of its column's cell. *)
LEMMA FillOne ==
    ASSUME SchemaInv, FillInv, FillField
    PROVE  /\ Route \in DOMAIN keys /\ keys[Route] = Fields[pos].key
           /\ \A j \in DOMAIN keys : j # Route => vecs'[j] = vecs[j]
           /\ \A i \in DOMAIN array : i # i_row => vecs'[Route][i] = vecs[Route][i]
           /\ IsFirst(i_row, pos)
                => vecs'[Route][i_row] = cell(kinds[Route], Fields[pos].value)
           /\ ~IsFirst(i_row, pos) => vecs'[Route][i_row] = vecs[Route][i_row]
           /\ ~is_regular => last_row'[Route] = i_row
           /\ \A j \in DOMAIN keys : j # Route => last_row'[j] = last_row[j]
           /\ is_regular => last_row' = last_row
<1>1. /\ TypeOK /\ phase = "fill" /\ i_row \in DOMAIN array
      /\ pos \in DOMAIN Fields /\ i_row <= Len(array)
      /\ DOMAIN Fields = 1 .. Len(Fields) /\ Len(Fields) \in Nat
      /\ Len(array) \in Nat
  <2>1. i_row \in DOMAIN array
    BY RowTypes DEF FillField, SchemaInv, TypeOK
  <2> QED
    BY <2>1, RowTypes DEF FillField, SchemaInv, TypeOK, Fields
<1>2. Route \in DOMAIN keys /\ keys[Route] = Fields[pos].key
  BY <1>1, RoutedRight
<1>3. /\ vecs \in [DOMAIN keys -> [DOMAIN array -> Cell]]
      /\ last_row \in [DOMAIN keys -> 0 .. Len(array)]
      /\ pos \in Nat
  BY <1>1 DEF TypeOK
<1>4. IsFirst(i_row, pos) <=> \A p \in DOMAIN Fields : p < pos => Fields[p].key # keys[Route]
  <2>1. \A p : p \in 1 .. pos - 1 <=> p \in DOMAIN Fields /\ p < pos
    BY <1>1, <1>3
  <2>2. IsFirst(i_row, pos) <=> \A p \in 1 .. pos - 1 : Fields[p].key # Fields[pos].key
    BY DEF IsFirst, Fields
  <2> QED
    BY <1>2, <2>1, <2>2
<1>5. is_regular => IsFirst(i_row, pos)
  <2> SUFFICES ASSUME is_regular, NEW p \in DOMAIN Fields, p < pos
               PROVE  Fields[p].key # keys[Route]
    BY <1>4
  <2>1. /\ p \in DOMAIN keys /\ Fields[p].key = keys[p]
    BY <1>1, KeysTypes DEF SchemaInv, Regular, Follows, Fields
  <2>2. Route = pos /\ p # pos
    BY <1>1 DEF Route
  <2> QED
    BY <1>2, <2>1, <2>2 DEF SchemaInv, KeysDistinct
<1>6. ~is_regular => (last_row[Route] = i_row <=> ~IsFirst(i_row, pos))
  BY <1>1, <1>2, <1>4 DEF FillInv, LastRowRight
<1>7. IsFirst(i_row, pos) =>
        /\ SetCell(Route)
        /\ last_row' = IF is_regular THEN last_row ELSE [last_row EXCEPT ![Route] = i_row]
  BY <1>6 DEF FillField
<1>8. ~IsFirst(i_row, pos) =>
        /\ vecs' = vecs /\ last_row' = last_row
        /\ ~is_regular /\ last_row[Route] = i_row
  BY <1>5, <1>6 DEF FillField
<1>9. ASSUME IsFirst(i_row, pos), kinds[Route] = "null"
      PROVE  vecs' = vecs /\ vecs[Route][i_row] = cell(kinds[Route], Fields[pos].value)
  <2>1. vecs' = vecs
    BY <1>7, <1>9 DEF SetCell
  <2>2. vecs[Route][i_row] = NA
    <3>1. CellRight(i_row, Route)
      BY <1>1, <1>2 DEF FillInv
    <3>2. \A p \in DOMAIN array[i_row].fields :
             Filled(i_row, p) => KeyAt(i_row, p) # keys[Route]
      BY <1>1, <1>4, <1>9 DEF Filled, KeyAt, Fields, TypeOK
    <3> QED
      BY <3>1, <3>2 DEF CellRight
  <2> QED
    BY <1>9, <2>1, <2>2 DEF cell
<1>10. ASSUME IsFirst(i_row, pos), kinds[Route] # "null"
       PROVE  vecs' = [vecs EXCEPT ![Route][i_row] = cell(kinds[Route], Fields[pos].value)]
  BY <1>7, <1>10 DEF SetCell
<1> DEFINE r == Route
           c == cell(kinds[Route], Fields[pos].value)
<1>11. /\ \A j \in DOMAIN keys : j # r => vecs'[j] = vecs[j]
       /\ \A i \in DOMAIN array : i # i_row => vecs'[r][i] = vecs[r][i]
       /\ IsFirst(i_row, pos) => vecs'[r][i_row] = c
       /\ ~IsFirst(i_row, pos) => vecs'[r][i_row] = vecs[r][i_row]
  <2>1. CASE IsFirst(i_row, pos) /\ kinds[r] # "null"
    <3>1. vecs' = [vecs EXCEPT ![r] = [vecs[r] EXCEPT ![i_row] = c]]
      BY <1>2, <1>3, <1>10, <2>1
    <3>2. r \in DOMAIN keys
      BY <1>2
    <3> HIDE DEF r, c
    <3>3. /\ vecs'[r] = [vecs[r] EXCEPT ![i_row] = c]
          /\ \A j \in DOMAIN keys : j # r => vecs'[j] = vecs[j]
      BY <1>3, <3>1, <3>2
    <3>4. vecs[r] \in [DOMAIN array -> Cell]
      BY <1>3, <3>2
    <3> QED
      BY <1>1, <2>1, <3>3, <3>4
  <2>2. CASE IsFirst(i_row, pos) /\ kinds[r] = "null"
    BY <1>9, <2>2
  <2>3. CASE ~IsFirst(i_row, pos)
    BY <1>8, <2>3
  <2> QED
    BY <2>1, <2>2, <2>3
<1>12. /\ ~is_regular => last_row'[r] = i_row
       /\ \A j \in DOMAIN keys : j # r => last_row'[j] = last_row[j]
       /\ is_regular => last_row' = last_row
  <2>1. r \in DOMAIN keys
    BY <1>2
  <2>2. \/ last_row' = last_row /\ (is_regular \/ last_row[r] = i_row)
        \/ last_row' = [last_row EXCEPT ![r] = i_row] /\ ~is_regular
    BY <1>7, <1>8
  <2> HIDE DEF r
  <2> QED
    BY <1>3, <2>1, <2>2
<1> QED
  BY <1>2, <1>11, <1>12

LEMMA FillStep == ASSUME SchemaInv, FillInv, FillField PROVE FillInv'
<1>1. /\ TypeOK /\ phase = "fill" /\ phase' = "fill" /\ i_row \in DOMAIN array
      /\ pos \in DOMAIN Fields /\ i_row <= Len(array)
      /\ pos \in Nat /\ pos' = pos + 1
      /\ DOMAIN Fields = 1 .. Len(Fields) /\ Len(Fields) \in Nat
      /\ DOMAIN array = 1 .. Len(array) /\ Len(array) \in Nat
      /\ \A i \in DOMAIN array : DOMAIN array[i].fields \subseteq Nat
      /\ UNCHANGED <<array, i_row, keys, kinds, is_regular>>
  <2>1. i_row \in DOMAIN array
    BY RowTypes DEF FillField, SchemaInv, TypeOK
  <2> QED
    BY <2>1, RowTypes DEF FillField, SchemaInv, TypeOK, Fields, inputs, cols
<1> DEFINE r == Route
<1>2. /\ r \in DOMAIN keys /\ keys[r] = Fields[pos].key
      /\ \A j \in DOMAIN keys : j # r => vecs'[j] = vecs[j]
      /\ \A i \in DOMAIN array : i # i_row => vecs'[r][i] = vecs[r][i]
      /\ IsFirst(i_row, pos) => vecs'[r][i_row] = cell(kinds[r], Fields[pos].value)
      /\ ~IsFirst(i_row, pos) => vecs'[r][i_row] = vecs[r][i_row]
      /\ ~is_regular => last_row'[r] = i_row
      /\ \A j \in DOMAIN keys : j # r => last_row'[j] = last_row[j]
      /\ is_regular => last_row' = last_row
  BY FillOne
<1> HIDE DEF r
<1>3. \A j \in DOMAIN keys : j # r => keys[j] # Fields[pos].key
  BY <1>2 DEF SchemaInv, KeysDistinct
<1>4. ASSUME NEW i \in DOMAIN array, NEW j \in DOMAIN keys
      PROVE  CellRight(i, j)'
  <2>1. CellRight(i, j)
    BY <1>1 DEF FillInv
  <2>2. CASE i # i_row
    <3>1. vecs'[j][i] = vecs[j][i]
      BY <1>2, <2>2
    <3>2. \A p : Filled(i, p)' <=> Filled(i, p)
      BY <1>1, <2>2 DEF Filled
    <3> QED
      BY <1>1, <2>1, <3>1, <3>2 DEF CellRight, KeyAt, IsFirst
  <2>3. CASE i = i_row /\ j # r
    <3>1. vecs'[j][i] = vecs[j][i]
      BY <1>2, <2>3
    <3>2. \A p \in DOMAIN array[i].fields :
             KeyAt(i, p) = keys[j] => (Filled(i, p)' <=> Filled(i, p))
      BY <1>1, <1>3, <2>3 DEF Filled, KeyAt, Fields
    <3> QED
      BY <1>1, <2>1, <3>1, <3>2 DEF CellRight, KeyAt, IsFirst
  <2>4. CASE i = i_row /\ j = r
    <3>1. /\ pos \in DOMAIN array[i].fields /\ KeyAt(i, pos) = keys[j]
          /\ i = i_row' /\ pos < pos'
      BY <1>1, <1>2, <2>4 DEF KeyAt, Fields
    <3>2. ASSUME NEW p \in DOMAIN array[i].fields, Filled(i, p)', KeyAt(i, p) = keys[j],
                 IsFirst(i, p)
          PROVE  vecs'[j][i] = cell(kinds[j], array[i].fields[p].value)
      <4>1. CASE p = pos
        BY <1>2, <2>4, <3>2, <4>1 DEF Fields
      <4>2. CASE p # pos
        <5>1. p \in Nat /\ p < pos
          BY <1>1, <2>4, <3>2, <4>2 DEF Filled
        <5>2. Filled(i, p)
          BY <2>4, <5>1 DEF Filled
        <5>3. p \in 1 .. pos - 1
          BY <1>1, <2>4, <5>1 DEF Fields
        <5>4. ~IsFirst(i_row, pos)
          BY <1>2, <2>4, <3>2, <5>3 DEF IsFirst, KeyAt, Fields
        <5> QED
          BY <1>2, <2>1, <2>4, <3>2, <5>2, <5>4 DEF CellRight
      <4> QED
        BY <4>1, <4>2
    <3>3. ~ \A p \in DOMAIN array[i].fields : Filled(i, p)' => KeyAt(i, p) # keys[j]
      BY <3>1 DEF Filled
    <3> QED
      BY <1>1, <3>2, <3>3 DEF CellRight, KeyAt, IsFirst
  <2> QED
    BY <2>2, <2>3, <2>4
<1>5. ASSUME NEW j \in DOMAIN keys
      PROVE  LastRowRight(j)'
  <2>1. LastRowRight(j) /\ last_row[j] <= i_row
    BY <1>1 DEF FillInv, LastRowRight
  <2>2. last_row'[j] <= i_row
    <3>1. is_regular => last_row'[j] = last_row[j]
      BY <1>2
    <3>2. ~is_regular => last_row'[j] = last_row[j] \/ last_row'[j] = i_row
      BY <1>2
    <3> QED
      BY <1>1, <2>1, <3>1, <3>2
  <2>3. ASSUME ~is_regular
        PROVE  last_row'[j] = i_row
                 <=> \E p \in DOMAIN Fields : p < pos + 1 /\ Fields[p].key = keys[j]
    <3>1. CASE j = r
      BY <1>1, <1>2, <2>3, <3>1
    <3>2. CASE j # r
      <4>1. last_row'[j] = last_row[j]
        BY <1>2, <3>2
      <4>2. last_row[j] = i_row
               <=> \E p \in DOMAIN Fields : p < pos /\ Fields[p].key = keys[j]
        BY <1>1, <2>1, <2>3 DEF LastRowRight
      <4>3. \A p \in DOMAIN Fields : Fields[p].key = keys[j] => (p < pos + 1 <=> p < pos)
        BY <1>1, <1>3, <3>2
      <4> QED
        BY <4>1, <4>2, <4>3
    <3> QED
      BY <3>1, <3>2
  <2> QED
    BY <1>1, <2>2, <2>3 DEF LastRowRight, Fields
<1> QED
  BY <1>1, <1>4, <1>5 DEF FillInv

LEMMA FillRowStep == ASSUME SchemaInv, FillInv, FillRowEnd PROVE FillInv'
<1>1. /\ TypeOK /\ phase = "fill" /\ phase' = "fill"
      /\ i_row \in Nat /\ i_row' = i_row + 1 /\ pos' = 1
      /\ i_row <= Len(array) /\ pos > Len(Fields) /\ pos \in Nat
      /\ DOMAIN array = 1 .. Len(array) /\ Len(array) \in Nat
      /\ \A i \in DOMAIN array : /\ Len(array[i].fields) \in Nat
                                 /\ DOMAIN array[i].fields = 1 .. Len(array[i].fields)
      /\ UNCHANGED <<array, keys, kinds, is_regular, vecs, last_row>>
  BY RowTypes DEF FillRowEnd, SchemaInv, TypeOK, inputs, cols
<1>2. ASSUME NEW i \in DOMAIN array, NEW p \in DOMAIN array[i].fields
      PROVE  Filled(i, p)' <=> Filled(i, p)
  <2>1. i \in Nat /\ p \in Nat /\ p >= 1
    BY <1>1
  <2>2. i = i_row => p < pos
    BY <1>1, <2>1 DEF Fields
  <2> QED
    BY <1>1, <2>1, <2>2 DEF Filled
<1>3. \A i \in DOMAIN array : \A j \in DOMAIN keys : CellRight(i, j)'
  <2> TAKE i \in DOMAIN array
  <2> TAKE j \in DOMAIN keys
  <2>1. CellRight(i, j)
    BY <1>1 DEF FillInv
  <2> QED
    BY <1>1, <1>2, <2>1 DEF CellRight, KeyAt, IsFirst
<1>4. ASSUME NEW j \in DOMAIN keys
      PROVE  LastRowRight(j)'
  <2>1. last_row[j] <= i_row /\ last_row[j] \in Nat
    BY <1>1 DEF FillInv, LastRowRight, TypeOK
  <2>2. last_row[j] # i_row + 1
    BY <1>1, <2>1
  <2>3. i_row + 1 <= Len(array) => \A p \in DOMAIN array[i_row + 1].fields : ~(p < 1)
    BY <1>1
  <2> QED
    BY <1>1, <2>1, <2>2, <2>3 DEF LastRowRight, Fields
<1> QED
  BY <1>1, <1>3, <1>4 DEF FillInv

LEMMA FillEnd == ASSUME SchemaInv, FillInv, Finish PROVE FillInv'
<1>1. /\ phase = "fill" /\ phase' = "done"
      /\ i_row = Len(array) + 1
      /\ UNCHANGED <<array, i_row, pos, keys, kinds, is_regular, vecs, last_row>>
  BY RowTypes DEF Finish, SchemaInv, TypeOK, inputs, cols
<1> QED
  BY <1>1 DEF FillInv, CellRight, LastRowRight, Filled, KeyAt, IsFirst

LEMMA FillOther ==
    ASSUME SchemaInv, FillInv,
           NotADataFrame \/ DiagnoseField \/ DiagnoseRowEnd \/ UNCHANGED vars
    PROVE  FillInv'
<1>1. CASE phase' \notin {"fill", "done"}
  BY <1>1 DEF FillInv
<1>2. CASE UNCHANGED vars
  BY <1>2 DEF vars, inputs, cols, FillInv, CellRight, LastRowRight, Filled, KeyAt,
              IsFirst, Fields
<1> QED
  BY <1>1, <1>2 DEF NotADataFrame, DiagnoseField, DiagnoseRowEnd

LEMMA FillInvHolds == Spec => []FillInv
<1>1. Init => FillInv
  BY DEF Init, FillInv
<1>2. SchemaInv /\ FillInv /\ [Next]_vars => FillInv'
  BY FillStart, FillStep, FillRowStep, FillEnd, FillOther DEF Next, Returned
<1> QED
  BY <1>1, <1>2, SchemaInvHolds, PTL DEF Spec

-----------------------------------------------------------------------------
(* In a finished data frame every cell holds the first occurrence of its   *)
(* key in its row, or NA, whether the rows were filled by position or by   *)
(* key.                                                                    *)
THEOREM FirstOneWins == Spec => []FirstOccurrenceWins
<1>1. SchemaInv /\ FillInv => FirstOccurrenceWins
  <2> SUFFICES ASSUME SchemaInv, FillInv, phase = "done",
                      NEW i \in DOMAIN array, NEW j \in DOMAIN keys
               PROVE  /\ \A p \in DOMAIN array[i].fields :
                           array[i].fields[p].key = keys[j] /\ IsFirst(i, p) =>
                               vecs[j][i] = cell(kinds[j], array[i].fields[p].value)
                      /\ (\A p \in DOMAIN array[i].fields : array[i].fields[p].key # keys[j])
                           => vecs[j][i] = NA
    BY DEF FirstOccurrenceWins
  <2>1. CellRight(i, j)
    BY DEF FillInv
  <2>2. \A p : Filled(i, p)
    BY RowTypes DEF FillInv, Filled, SchemaInv
  <2> QED
    BY <2>1, <2>2 DEF CellRight, KeyAt
<1> QED
  BY <1>1, SchemaInvHolds, FillInvHolds, PTL
-----------------------------------------------------------------------------
(* Nothing is lost under "anything_goes" *)

(* The columns are of the kinds their doctors gave them.                   *)
KindsRight ==
    phase \in {"fill", "done"} =>
        \A j \in DOMAIN keys :
           kinds[j] = col_kind(int64_opt, common_R_type(type_policy, schema[j]))

LEMMA KindsRightHolds == Spec => []KindsRight
<1>1. Init => KindsRight
  BY DEF Init, KindsRight
<1>2. KindsRight /\ [Next]_vars => KindsRight'
  <2> SUFFICES ASSUME KindsRight, [Next]_vars PROVE KindsRight'
    OBVIOUS
  <2>1. CASE BuildColumns
    BY <2>1 DEF BuildColumns, KindsRight, inputs, cols
  <2>2. CASE FillField \/ FillRowEnd \/ Finish
    BY <2>2 DEF FillField, FillRowEnd, Finish, KindsRight, inputs, cols
  <2>3. CASE NotADataFrame \/ DiagnoseField \/ DiagnoseRowEnd
    BY <2>3 DEF NotADataFrame, DiagnoseField, DiagnoseRowEnd, KindsRight
  <2>4. CASE UNCHANGED vars
    BY <2>4 DEF vars, inputs, cols, KindsRight
  <2> QED
    BY <2>1, <2>2, <2>3, <2>4 DEF Next, Returned
<1> QED
  BY <1>1, <1>2, PTL DEF Spec

(* The kind of a column under "anything_goes" has room for every value its *)
(* doctor has seen; where it rounds or cuts decimals, a double or a text   *)
(* has been seen that asks for it.                                         *)
LEMMA KindHasRoom ==
    ASSUME NEW o \in Int64Opt, NEW K \in SUBSET ElementKind, NEW v \in Value, v.kind \in K
    PROVE  LET kind == col_kind(o, common_R_type("anything_goes", DoctorOf(o, K)))
           IN  Kept("anything_goes", o, K, v, cell(kind, v))
<1> DEFINE f    == DoctorOf(o, K).flags
           t    == common_R_type("anything_goes", DoctorOf(o, K))
           flag == lower_flag(o, v.kind)
           kind == col_kind(o, t)
<1>1. v.kind \in ElementKind
  BY DEF Value
<1>2. flag \in f
  BY DEF DoctorOf
<1>3. /\ "object" \in f => t = "object"
      /\ "object" \notin f /\ "array" \in f => t = "array"
      /\ f \cap {"object", "array"} = {} =>
           /\ t \in {"chr", "u64", "dbl", "i64", "i32", "lgl", "null"}
           /\ t \in {"chr", "u64", "dbl"} => t \in f
           /\ t = "u64" => "chr" \notin f
           /\ t = "dbl" => f \cap {"chr", "u64"} = {}
           /\ t = "i64" => f \cap {"chr", "u64", "dbl"} = {}
           /\ t = "i32" => f \cap {"chr", "u64", "dbl", "i64"} = {}
           /\ t = "lgl" => f \cap {"chr", "u64", "dbl", "i64", "i32"} = {}
           /\ t = "null" => f \cap {"chr", "u64", "dbl", "i64", "i32", "lgl"} = {}
  <2> HIDE DEF f
  <2> QED
    BY DEF common_R_type, f
<1> HIDE DEF f, t
<1>4. CASE f \cap {"object", "array"} # {}
  <2>1. kind = "list"
    BY <1>3, <1>4 DEF col_kind
  <2> QED
    BY <2>1 DEF cell, Kept, Survives, t
<1>5. CASE f \cap {"object", "array"} = {}
  <2>1. v.kind \notin {"OBJECT", "ARRAY"}
    BY <1>2, <1>5 DEF lower_flag
  <2>2. CASE v.kind = "NULL_VALUE"
    <3>1. kind \in {"chr", "dbl", "i32", "lgl", "i64_bits", "null"}
      BY <1>3, <1>5 DEF col_kind, Int64Opt
    <3>2. cell(kind, v) = NA
      BY <2>2, <3>1 DEF cell, get_scalar_dispatch, dispatches, Scalars, Integers64
    <3> QED
      BY <2>2, <3>2 DEF Kept, Survives, t
  <2>3. CASE v.kind # "NULL_VALUE"
    <3>1. /\ kind \in {"chr", "dbl", "i32", "lgl", "i64_bits"}
          /\ kind = "dbl" => v.kind \in {"DOUBLE", "BOOL"} \cup Integers64
          /\ kind = "i32" => v.kind \in {"BOOL", "INT32"}
          /\ kind = "lgl" => v.kind = "BOOL"
          /\ kind = "i64_bits" => v.kind \in {"BOOL"} \cup Integers64
          /\ kind = "chr" => v.kind \in Scalars
          /\ kind = "i64_bits" => o \in {"Integer64", "Always"}
          /\ kind = "dbl" /\ v.kind = "INT64" => o = "Double" \/ "DOUBLE" \in K
          /\ kind = "chr" /\ v.kind = "DOUBLE" => K \cap {"STRING", "UINT64"} # {}
      <4>1. /\ v.kind = "STRING" => flag = "chr"
            /\ v.kind = "UINT64" => flag = "u64"
            /\ v.kind = "DOUBLE" => flag = "dbl"
            /\ v.kind \in {"INT64", "LLONG_MIN"} => flag = "i64"
            /\ v.kind = "INT32" => flag \in {"i32", "i64"}
            /\ v.kind = "BOOL" => flag = "lgl"
        BY DEF lower_flag
      <4> HIDE DEF flag
      <4>2. t # "null"
        BY <1>1, <1>2, <1>3, <1>5, <2>1, <2>3, <4>1 DEF ElementKind
      <4>3. /\ kind \in {"chr", "dbl", "i32", "lgl", "i64_bits"}
            /\ kind = "dbl" => t \in {"dbl", "i64"}
            /\ kind = "i32" => t = "i32"
            /\ kind = "lgl" => t = "lgl"
            /\ kind = "i64_bits" => t = "i64" /\ o \in {"Integer64", "Always"}
            /\ kind = "dbl" => t = "dbl" \/ o = "Double"
            /\ kind = "chr" => t \in {"chr", "u64", "i64"}
        BY <1>3, <1>5, <4>2 DEF col_kind, Int64Opt
      <4>4. /\ "dbl" \in f => "DOUBLE" \in K
            /\ "chr" \in f => "STRING" \in K
            /\ "u64" \in f => "UINT64" \in K
        <5>1. \A k \in ElementKind : /\ lower_flag(o, k) = "dbl" => k = "DOUBLE"
                                     /\ lower_flag(o, k) = "chr" => k = "STRING"
                                     /\ lower_flag(o, k) = "u64" => k = "UINT64"
          BY DEF lower_flag, ElementKind
        <5> QED
          BY <5>1 DEF DoctorOf, f
      <4> HIDE DEF kind
      <4>5. /\ kind = "dbl" /\ v.kind = "INT64" => o = "Double" \/ "DOUBLE" \in K
            /\ kind = "chr" /\ v.kind = "DOUBLE" => K \cap {"STRING", "UINT64"} # {}
        BY <1>2, <1>3, <1>5, <4>1, <4>3, <4>4
      <4> QED
        BY <1>1, <1>2, <1>3, <1>5, <2>1, <2>3, <4>1, <4>3, <4>5
        DEF ElementKind, Scalars, Integers64
    <3> HIDE DEF kind
    <3>2. /\ kind = "chr" => cell(kind, v) = stored("STRSXP", v)
          /\ kind = "dbl" => cell(kind, v) = stored("REALSXP", v)
          /\ kind = "i32" => cell(kind, v) = stored("INTSXP", v)
          /\ kind = "lgl" => cell(kind, v) = stored("LGLSXP", v)
          /\ kind = "i64_bits" => cell(kind, v) = stored("integer64", v)
      BY <3>1 DEF cell, get_scalar_dispatch, dispatches, Scalars, Integers64
    <3>3. Kept("anything_goes", o, K, v, cell(kind, v))
      BY <3>1, <3>2 DEF stored, Kept, Survives, LostByPolicy
    <3> QED
      BY <3>3 DEF kind, t
  <2> QED
    BY <2>2, <2>3
<1> QED
  BY <1>4, <1>5

(* Under "anything_goes" every value that wins a cell can be read back     *)
(* from it but for what the policies give up, for any mix of types in a    *)
(* column and of keys in the rows.                                         *)
THEOREM NothingIsLost == Spec => []NothingLostAnythingGoes
<1>1. /\ SchemaInv /\ DoctorsSawTheirColumn /\ KindsRight /\ FirstOccurrenceWins
      => NothingLostAnythingGoes
  <2> SUFFICES ASSUME SchemaInv, DoctorsSawTheirColumn, KindsRight, FirstOccurrenceWins,
                      phase = "done", type_policy = "anything_goes",
                      NEW i \in DOMAIN array, NEW p \in DOMAIN array[i].fields,
                      NEW j \in DOMAIN keys,
                      array[i].fields[p].key = keys[j], IsFirst(i, p)
               PROVE  Kept("anything_goes", int64_opt, KindsUnder(keys[j]),
                           array[i].fields[p].value, vecs[j][i])
    BY DEF NothingLostAnythingGoes
  <2> DEFINE v == array[i].fields[p].value
             K == KindsUnder(keys[j])
  <2>1. v \in Value /\ v.kind \in ElementKind /\ int64_opt \in Int64Opt
    BY RowTypes DEF SchemaInv, TypeOK
  <2>2. K \in SUBSET ElementKind /\ v.kind \in K
    BY <2>1 DEF KindsUnder, Diagnosed
  <2>3. kinds[j] = col_kind(int64_opt, common_R_type("anything_goes", DoctorOf(int64_opt, K)))
    BY DEF KindsRight, DoctorsSawTheirColumn
  <2>4. vecs[j][i] = cell(kinds[j], v)
    BY DEF FirstOccurrenceWins
  <2> HIDE DEF v, K
  <2>5. Kept("anything_goes", int64_opt, K, v, cell(kinds[j], v))
    BY <2>1, <2>2, <2>3, KindHasRoom
  <2> QED
    BY <2>4, <2>5 DEF v, K
<1> QED
  BY <1>1, SchemaInvHolds, DoctorsSawAll, KindsRightHolds, FirstOneWins, PTL

-----------------------------------------------------------------------------
(* The two passes implement AtKeyTable *)

(* A set of positions has a least one: of the initial segments that end in *)
(* them, one has no other inside it.                                       *)
LEMMA LeastPosition ==
    ASSUME NEW S \in SUBSET Nat, S # {}
    PROVE  \E n \in S : \A m \in S : n <= m
<1> DEFINE T == {0 .. n : n \in S}
<1>1. T # {}
  <2>1. PICK n \in S : TRUE
    OBVIOUS
  <2>2. 0 .. n \in T
    OBVIOUS
  <2> QED
    BY <2>2
<1>2. T \subseteq FiniteSubsetsOf(Nat)
  <2>1. \A n \in Nat : IsFiniteSet(0 .. n) /\ 0 .. n \subseteq Nat
    BY FS_Interval
  <2> QED
    BY <2>1 DEF FiniteSubsetsOf
<1>3. IsWellFoundedOn(StrictSubsetOrdering(Nat), FiniteSubsetsOf(Nat))
  BY FS_StrictSubsetOrderingWellFounded
<1> HIDE DEF T
<1>4. PICK X \in T : \A Y \in T : ~ (<<Y, X>> \in StrictSubsetOrdering(Nat))
  BY <1>1, <1>2, <1>3, WFMin
<1>5. PICK n \in S : X = 0 .. n
  BY DEF T
<1>6. ASSUME NEW m \in S, m < n PROVE FALSE
  <2>1. 0 .. m \in T
    BY DEF T
  <2>2. 0 .. m \subseteq 0 .. n /\ 0 .. m # 0 .. n /\ 0 .. n \subseteq Nat
    BY <1>6
  <2>3. <<0 .. m, X>> \in StrictSubsetOrdering(Nat)
    BY <1>5, <2>2 DEF StrictSubsetOrdering
  <2> QED
    BY <1>4, <2>1, <2>3
<1> QED
  BY <1>6

(* A row that is no object ends the first pass.                            *)
RowsAreObjects ==
    /\ phase = "diagnose" =>
         \A i \in DOMAIN array : i < i_row => array[i].type = "OBJECT"
    /\ phase \in {"fill", "done"} => \A i \in DOMAIN array : array[i].type = "OBJECT"

LEMMA RowsAreObjectsHolds == Spec => []RowsAreObjects
<1>1. Init => RowsAreObjects
  <2> SUFFICES ASSUME Init PROVE RowsAreObjects
    OBVIOUS
  <2>1. array \in Seq(Row)
    BY DocsAssumption DEF Init
  <2> QED
    BY <2>1 DEF Init, RowsAreObjects
<1>2. SchemaInv /\ RowsAreObjects /\ [Next]_vars => RowsAreObjects'
  <2> SUFFICES ASSUME SchemaInv, RowsAreObjects, [Next]_vars PROVE RowsAreObjects'
    OBVIOUS
  <2>1. /\ Len(array) \in Nat /\ DOMAIN array = 1 .. Len(array)
        /\ i_row \in Nat /\ UNCHANGED array
    BY RowTypes DEF SchemaInv, TypeOK, Next, NotADataFrame, DiagnoseField, DiagnoseRowEnd,
                    BuildColumns, FillField, FillRowEnd, Finish, Returned, vars, inputs
  <2>2. CASE DiagnoseRowEnd
    BY <2>1, <2>2 DEF DiagnoseRowEnd, RowsAreObjects
  <2>3. CASE BuildColumns
    BY <2>1, <2>3 DEF BuildColumns, RowsAreObjects
  <2>4. CASE NotADataFrame \/ DiagnoseField
    BY <2>1, <2>4 DEF NotADataFrame, DiagnoseField, RowsAreObjects
  <2>5. CASE FillField \/ FillRowEnd \/ Finish
    BY <2>1, <2>5 DEF FillField, FillRowEnd, Finish, RowsAreObjects
  <2>6. CASE UNCHANGED vars
    BY <2>1, <2>6 DEF vars, inputs, RowsAreObjects
  <2> QED
    BY <2>2, <2>3, <2>4, <2>5, <2>6 DEF Next, Returned
<1> QED
  BY <1>1, <1>2, SchemaInvHolds, PTL DEF Spec

(* Both specifications speak of the same columns and cells.                *)
LEMMA SameWords ==
    /\ Table!NA = NA /\ Table!Row = Row
    /\ Table!ElementKind = ElementKind
    /\ Table!TypePolicy = TypePolicy /\ Table!Int64Opt = Int64Opt
    /\ \A kind, v : Table!cell(kind, v) = cell(kind, v)
    /\ \A o, t : Table!col_kind(o, t) = col_kind(o, t)
    /\ \A o, K : Table!DoctorOf(o, K) = DoctorOf(o, K)
    /\ \A policy, d : Table!common_R_type(policy, d) = common_R_type(policy, d)
<1>1. /\ Table!ElementKind = ElementKind /\ Table!ElementType = ElementType
      /\ Table!TypePolicy = TypePolicy /\ Table!Int64Opt = Int64Opt
  BY DEF ElementKind, Table!ElementKind, ElementType, Table!ElementType,
         TypePolicy, Table!TypePolicy, Int64Opt, Table!Int64Opt
<1>2. Table!Value = Value /\ Table!NoValue = NoValue /\ Table!NA = NA
  BY <1>1 DEF Value, Table!Value, NoValue, Table!NoValue, NA, Table!NA
<1>3. Table!Row = Row
  BY <1>1, <1>2 DEF Row, Table!Row, Field, Table!Field
<1>4. /\ Table!Integers64 = Integers64 /\ Table!Scalars = Scalars
      /\ \A t : Table!dispatches(t) = dispatches(t)
      /\ \A t, v : Table!stored(t, v) = stored(t, v)
  BY <1>2 DEF Integers64, Table!Integers64, Scalars, Table!Scalars,
              dispatches, Table!dispatches, stored, Table!stored
<1>5. \A t, v : Table!get_scalar_dispatch(t, v) = get_scalar_dispatch(t, v)
  BY <1>2, <1>4 DEF get_scalar_dispatch, Table!get_scalar_dispatch
<1>6. \A kind, v : Table!cell(kind, v) = cell(kind, v)
  BY <1>2, <1>5 DEF cell, Table!cell
<1>7. \A o, t : Table!col_kind(o, t) = col_kind(o, t)
  BY DEF col_kind, Table!col_kind
<1>8. \A o, K : Table!DoctorOf(o, K) = DoctorOf(o, K)
  <2>1. /\ \A k : Table!element_type(k) = element_type(k)
        /\ \A o, k : Table!lower_flag(o, k) = lower_flag(o, k)
    BY DEF element_type, Table!element_type, lower_flag, Table!lower_flag
  <2> QED
    BY <2>1 DEF DoctorOf, Table!DoctorOf
<1>9. \A policy, d : Table!common_R_type(policy, d) = common_R_type(policy, d)
  BY DEF common_R_type, Table!common_R_type, Only, Table!Only
<1> QED
  BY <1>1, <1>2, <1>3, <1>6, <1>7, <1>8, <1>9

TableInv ==
    /\ SchemaInv /\ ColumnsInv /\ FillInv /\ KindsRight /\ RowsAreObjects

(* Once every row is diagnosed, the columns are the table's keys, and      *)
(* column_of() finds them.                                                 *)
LEMMA ColumnsAreKeys ==
    ASSUME TableInv, \A i \in DOMAIN array : \A p \in DOMAIN array[i].fields : Diagnosed(i, p)
    PROVE  /\ Table!ColumnKeys = {keys[j] : j \in DOMAIN keys}
           /\ \A j \in DOMAIN keys : keys[j] \in Key /\ column_of(keys[j]) = j
           /\ \A j \in DOMAIN keys : KindsUnder(keys[j]) = Table!KindsUnder(keys[j])
<1>1. TypeOK
  BY DEF TableInv, SchemaInv
<1>2. \A j \in DOMAIN keys : keys[j] \in Key
  BY <1>1, KeysTypes
<1>3. ASSUME NEW k \in Table!ColumnKeys PROVE k \in {keys[j] : j \in DOMAIN keys}
  <2>1. PICK i \in DOMAIN array : Table!Places(i, k) # {}
    BY <1>3 DEF Table!ColumnKeys
  <2>2. PICK p \in DOMAIN array[i].fields : array[i].fields[p].key = k
    BY <2>1 DEF Table!Places
  <2> QED
    BY <2>2 DEF TableInv, SchemaInv, KeysComplete
<1>4. ASSUME NEW j \in DOMAIN keys PROVE keys[j] \in Table!ColumnKeys
  <2>1. PICK i \in DOMAIN array : \E p \in DOMAIN array[i].fields : array[i].fields[p].key = keys[j]
    BY DEF TableInv, ColumnsInv, FirstSeen
  <2>2. Table!Places(i, keys[j]) # {}
    BY <2>1 DEF Table!Places
  <2> QED
    BY <1>2, <2>2 DEF Table!ColumnKeys
<1>5. \A j \in DOMAIN keys : column_of(keys[j]) = j
  BY DEF column_of, TableInv, SchemaInv, KeysDistinct
<1>6. \A j \in DOMAIN keys : KindsUnder(keys[j]) = Table!KindsUnder(keys[j])
  BY SameWords DEF KindsUnder, Table!KindsUnder, Table!Places
<1> QED
  BY <1>2, <1>3, <1>4, <1>5, <1>6

(* While the columns are filled, they are the table's. *)
LEMMA FillingTable ==
    ASSUME TableInv, phase \in {"fill", "done"}
    PROVE  /\ Table!ColumnKeys = {keys[j] : j \in DOMAIN keys}
           /\ \A j \in DOMAIN keys : keys[j] \in Key /\ column_of(keys[j]) = j
           /\ \A j \in DOMAIN keys : kinds[j] = Table!KindOf(keys[j])
<1>1. \A i \in DOMAIN array : \A p \in DOMAIN array[i].fields : Diagnosed(i, p)
  BY DEF Diagnosed
<1>2. /\ Table!ColumnKeys = {keys[j] : j \in DOMAIN keys}
      /\ \A j \in DOMAIN keys : keys[j] \in Key /\ column_of(keys[j]) = j
      /\ \A j \in DOMAIN keys : KindsUnder(keys[j]) = Table!KindsUnder(keys[j])
  BY <1>1, ColumnsAreKeys
<1>3. \A j \in DOMAIN keys : kinds[j] = Table!KindOf(keys[j])
  BY <1>2, SameWords
  DEF Table!KindOf, TableInv, KindsRight, ColumnsInv, DoctorsSawTheirColumn
<1> QED
  BY <1>2, <1>3

(* The value the table holds for a key is that of its first occurrence.    *)
LEMMA AtFirst ==
    ASSUME TypeOK, NEW i \in DOMAIN array, NEW p \in DOMAIN array[i].fields, IsFirst(i, p)
    PROVE  LET k == array[i].fields[p].key
           IN  Table!AtKey(i, k) = cell(Table!KindOf(k), array[i].fields[p].value)
<1> DEFINE k == array[i].fields[p].key
<1>1. p \in Table!Places(i, k)
  BY DEF Table!Places
<1>2. ASSUME NEW q \in Table!Places(i, k) PROVE p <= q
  <2>1. q \in DOMAIN array[i].fields /\ array[i].fields[q].key = k
    BY <1>2 DEF Table!Places
  <2>2. q \in Nat /\ p \in Nat /\ q >= 1
    BY <2>1, RowTypes
  <2>3. q \notin 1 .. p - 1
    BY <2>1 DEF IsFirst
  <2> QED
    BY <2>2, <2>3
<1>3. \A q \in Table!Places(i, k) : q \in Nat
  BY RowTypes DEF Table!Places
<1>4. Table!First(i, k) = p
  <2>1. \A q \in Table!Places(i, k) :
           (\A r \in Table!Places(i, k) : q <= r) => q = p
    BY <1>1, <1>2, <1>3
  <2> QED
    BY <1>1, <1>2, <2>1 DEF Table!First
<1> QED
  BY <1>1, <1>4, SameWords DEF Table!AtKey

-----------------------------------------------------------------------------
(* The steps of the two passes *)

LEMMA RejectsLikeTable == ASSUME TableInv, NotADataFrame PROVE Table!Reject
<1>1. i_row \in DOMAIN array
  BY RowTypes DEF NotADataFrame, TableInv, SchemaInv, TypeOK
<1> QED
  BY <1>1 DEF NotADataFrame, Table!Reject, Table!IsTable, inputs, cols

TableOf == [k \in {keys[j] : j \in DOMAIN keys} |-> vecs[column_of(k)]]

LEMMA AllocatesLikeTable == ASSUME TableInv, BuildColumns PROVE Table!Allocate
<1>1. /\ phase = "diagnose" /\ phase' = "fill" /\ i_row > Len(array) /\ i_row \in Nat
      /\ Len(array) \in Nat /\ DOMAIN array = 1 .. Len(array)
      /\ UNCHANGED <<array, type_policy, int64_opt, keys>>
      /\ vecs' = [j \in DOMAIN keys |-> [i \in DOMAIN array |-> NA]]
  BY RowTypes DEF BuildColumns, TableInv, SchemaInv, TypeOK, inputs, cols
<1>2. \A i \in DOMAIN array : i < i_row
  BY <1>1
<1>3. Table!IsTable
  BY <1>1, <1>2 DEF Table!IsTable, TableInv, RowsAreObjects
<1>4. /\ Table!ColumnKeys = {keys[j] : j \in DOMAIN keys}
      /\ \A j \in DOMAIN keys : column_of(keys[j]) = j
  BY <1>2, ColumnsAreKeys DEF Diagnosed
<1>5. TableOf' = [k \in {keys[j] : j \in DOMAIN keys} |-> vecs'[column_of(k)]]
  BY <1>1 DEF TableOf, column_of
<1>6. TableOf' = [k \in Table!ColumnKeys |-> [i \in DOMAIN array |-> NA]]
  BY <1>1, <1>4, <1>5
<1> QED
  BY <1>1, <1>3, <1>6, SameWords DEF Table!Allocate, TableOf

(* The first occurrence of a key fills the cell that the table fills; any  *)
(* other leaves the table alone.                                           *)
LEMMA FillsLikeTable ==
    ASSUME TableInv, TypeOK', FillField
    PROVE  \/ \E k \in Table!ColumnKeys, i \in DOMAIN array : Table!Fill(i, k)
           \/ UNCHANGED Table!vars
<1>1. /\ TypeOK /\ phase = "fill" /\ phase' = "fill"
      /\ i_row \in DOMAIN array /\ i_row <= Len(array)
      /\ pos \in DOMAIN Fields /\ pos \in Nat /\ DOMAIN Fields = 1 .. Len(Fields)
      /\ Len(Fields) \in Nat /\ i_row \in Nat
      /\ UNCHANGED <<array, type_policy, int64_opt, keys, kinds>>
  <2>1. i_row \in DOMAIN array
    BY RowTypes DEF FillField, TableInv, SchemaInv, TypeOK
  <2> QED
    BY <2>1, RowTypes DEF FillField, TableInv, SchemaInv, TypeOK, Fields, inputs, cols
<1>2. PICK i \in DOMAIN array, p \in DOMAIN Fields, r \in DOMAIN keys :
         i = i_row /\ p = pos /\ r = Route
  BY <1>1, FillOne DEF TableInv
<1>3. PICK k \in {keys[j] : j \in DOMAIN keys} : k = keys[r]
  OBVIOUS
<1>4. PICK v : v = Fields[p].value
  OBVIOUS
<1> DEFINE D == {keys[j] : j \in DOMAIN keys}
           c == cell(kinds[r], v)
<1>5. /\ k = Fields[p].key
      /\ \A j \in DOMAIN keys : j # r => vecs'[j] = vecs[j]
      /\ \A i2 \in DOMAIN array : i2 # i => vecs'[r][i2] = vecs[r][i2]
      /\ IsFirst(i_row, pos) => vecs'[r][i] = c
      /\ ~IsFirst(i_row, pos) => vecs'[r][i] = vecs[r][i]
  BY <1>2, <1>3, <1>4, FillOne DEF TableInv
<1>6. /\ vecs \in [DOMAIN keys -> [DOMAIN array -> Cell]]
      /\ vecs' \in [DOMAIN keys -> [DOMAIN array -> Cell]]
  BY <1>1 DEF TypeOK
<1>7. /\ Table!ColumnKeys = D
      /\ \A j \in DOMAIN keys : column_of(keys[j]) = j
      /\ kinds[r] = Table!KindOf(k)
  BY <1>1, <1>3, FillingTable
<1>8. TableOf' = [l \in D |-> vecs'[column_of(l)]]
  BY <1>1 DEF TableOf, column_of
<1>9. CASE IsFirst(i_row, pos)
  <2>1. vecs[r][i] = NA
    <3>1. CellRight(i, r)
      BY <1>1 DEF TableInv, FillInv
    <3>2. \A q \in DOMAIN array[i].fields : Filled(i, q) => KeyAt(i, q) # keys[r]
      BY <1>1, <1>2, <1>3, <1>5, <1>9 DEF Filled, KeyAt, IsFirst, Fields
    <3> QED
      BY <3>1, <3>2 DEF CellRight
  <2>2. Table!AtKey(i, k) = c
    <3>1. /\ p \in DOMAIN array[i].fields /\ IsFirst(i, p)
          /\ array[i].fields[p].key = k /\ array[i].fields[p].value = v
      BY <1>2, <1>4, <1>5, <1>9 DEF Fields, IsFirst
    <3> QED
      BY <1>1, <1>7, <3>1, AtFirst
  <2> HIDE DEF c, D
  <2>3. vecs'[r] = [vecs[r] EXCEPT ![i] = c]
    BY <1>2, <1>5, <1>6, <1>9
  <2>4. PICK w : w = [vecs[r] EXCEPT ![i] = c]
    OBVIOUS
  <2>5. TableOf'[k] = w /\ TableOf[k] = vecs[r]
    <3>1. k \in D /\ column_of(k) = r
      BY <1>3, <1>7 DEF D
    <3>2. TableOf'[k] = vecs'[column_of(k)]
      BY <1>8, <3>1
    <3>3. TableOf[k] = vecs[column_of(k)]
      BY <3>1 DEF TableOf, D
    <3> QED
      BY <2>3, <2>4, <3>1, <3>2, <3>3
  <2>6. \A l \in D : l # k => TableOf'[l] = TableOf[l]
    <3>1. \A l \in D : l # k => column_of(l) # r /\ column_of(l) \in DOMAIN keys
      BY <1>3, <1>7 DEF D
    <3> QED
      BY <1>5, <1>8, <3>1 DEF TableOf, D
  <2>7. k \in D /\ TableOf = [l \in D |-> TableOf[l]] /\ TableOf' = [l \in D |-> TableOf'[l]]
    BY <1>3, <1>8 DEF TableOf, D
  <2>8. TableOf' = [TableOf EXCEPT ![k] = w]
    BY <2>5, <2>6, <2>7
  <2>9. TableOf' = [TableOf EXCEPT ![k][i] = Table!AtKey(i, k)]
    BY <2>2, <2>4, <2>5, <2>8
  <2>10. Table!Fill(i, k)
    BY <1>1, <2>1, <2>5, <2>9, SameWords DEF Table!Fill, TableOf
  <2> QED
    BY <1>2, <1>7, <2>7, <2>10
<1>10. CASE ~IsFirst(i_row, pos)
  <2>1. vecs'[r] = vecs[r]
    BY <1>5, <1>6, <1>10
  <2>2. vecs' = vecs
    BY <1>5, <1>6, <2>1
  <2>3. TableOf' = TableOf
    BY <1>8, <2>2 DEF TableOf
  <2> QED
    BY <1>1, <2>3 DEF Table!vars, TableOf
<1> QED
  BY <1>9, <1>10

(* The data frame is handed over when every cell is as the table has it.   *)
LEMMA FinishesLikeTable == ASSUME TableInv, Finish PROVE Table!Finish
<1>1. /\ TypeOK /\ phase = "fill" /\ phase' = "done" /\ i_row > Len(array)
      /\ UNCHANGED <<array, type_policy, int64_opt, keys, vecs>>
  BY DEF TableInv, SchemaInv, Finish, inputs, cols
<1>2. /\ Table!ColumnKeys = {keys[j] : j \in DOMAIN keys}
      /\ \A j \in DOMAIN keys : column_of(keys[j]) = j /\ kinds[j] = Table!KindOf(keys[j])
  BY <1>1, FillingTable
<1>3. TableOf' = TableOf
  BY <1>1 DEF TableOf, column_of
<1>4. ASSUME NEW j \in DOMAIN keys, NEW i \in DOMAIN array
      PROVE  vecs[j][i] = Table!AtKey(i, keys[j])
  <2>1. CellRight(i, j)
    BY <1>1 DEF TableInv, FillInv
  <2>2. \A p : Filled(i, p)
    BY <1>1, RowTypes DEF Filled, TypeOK
  <2>3. CASE Table!Places(i, keys[j]) = {}
    <3>1. \A p \in DOMAIN array[i].fields : KeyAt(i, p) # keys[j]
      BY <2>3 DEF Table!Places, KeyAt
    <3> QED
      BY <2>1, <2>3, <3>1, SameWords DEF CellRight, Table!AtKey
  <2>4. CASE Table!Places(i, keys[j]) # {}
    <3>1. Table!Places(i, keys[j]) \in SUBSET Nat
      BY <1>1, RowTypes DEF Table!Places
    <3>2. PICK p \in Table!Places(i, keys[j]) :
             \A q \in Table!Places(i, keys[j]) : p <= q
      BY <2>4, <3>1, LeastPosition
    <3>3. /\ p \in DOMAIN array[i].fields /\ KeyAt(i, p) = keys[j]
          /\ array[i].fields[p].key = keys[j]
      BY DEF Table!Places, KeyAt
    <3>4. IsFirst(i, p)
      <4> SUFFICES ASSUME NEW q \in 1 .. p - 1, array[i].fields[q].key = keys[j]
                   PROVE  FALSE
        BY <3>3 DEF IsFirst
      <4>1. q \in DOMAIN array[i].fields /\ q < p
        BY <1>1, <3>3, RowTypes
      <4>2. q \in Table!Places(i, keys[j])
        BY <4>1 DEF Table!Places
      <4> QED
        BY <1>1, <3>2, <3>3, <4>1, <4>2, RowTypes
    <3>5. vecs[j][i] = cell(kinds[j], array[i].fields[p].value)
      BY <2>1, <2>2, <3>3, <3>4 DEF CellRight
    <3> QED
      BY <1>1, <1>2, <3>3, <3>4, <3>5, AtFirst
  <2> QED
    BY <2>3, <2>4
<1>5. \A k \in Table!ColumnKeys, i \in DOMAIN array :
         TableOf[k][i] = Table!AtKey(i, k)
  BY <1>2, <1>4 DEF TableOf
<1> QED
  BY <1>1, <1>3, <1>5 DEF Table!Finish, TableOf

LEMMA StepOfTable ==
    ASSUME TableInv, TypeOK', [Next]_vars PROVE [Table!Next]_Table!vars
<1>1. CASE NotADataFrame
  BY <1>1, RejectsLikeTable DEF Table!Next
<1>2. CASE BuildColumns
  BY <1>2, AllocatesLikeTable DEF Table!Next
<1>3. CASE FillField
  BY <1>3, FillsLikeTable DEF Table!Next
<1>4. CASE Finish
  BY <1>4, FinishesLikeTable DEF Table!Next
<1>5. CASE DiagnoseField \/ DiagnoseRowEnd
  BY <1>5 DEF DiagnoseField, DiagnoseRowEnd, Table!vars, inputs
<1>6. CASE FillRowEnd \/ UNCHANGED vars
  <2>1. UNCHANGED <<array, type_policy, int64_opt, phase, keys, vecs>>
    BY <1>6 DEF FillRowEnd, vars, inputs, cols
  <2>2. TableOf' = TableOf
    BY <2>1 DEF TableOf, column_of
  <2> QED
    BY <2>1, <2>2 DEF Table!vars, TableOf
<1> QED
  BY <1>1, <1>2, <1>3, <1>4, <1>5, <1>6 DEF Next, Returned

(* The data frame built in two passes, with its schema, its index and its  *)
(* routing by position, is the table that looks every key up in every row. *)
THEOREM IsAtKeyTable == Spec => ImplementsAtKeyTable
<1>1. Init /\ TypeOK => Table!Init
  BY SameWords DEF Init, TypeOK, Table!Init
<1>2. TableInv /\ TypeOK' /\ [Next]_vars => [Table!Next]_Table!vars
  BY StepOfTable
<1>3. Spec => [](TableInv /\ TypeOK)
  <2>1. SchemaInv /\ ColumnsInv /\ FillInv /\ KindsRight /\ RowsAreObjects
          => TableInv /\ TypeOK
    BY DEF TableInv, SchemaInv
  <2> QED
    BY <2>1, SchemaInvHolds, ColumnsInvHolds, FillInvHolds, KindsRightHolds,
       RowsAreObjectsHolds, PTL
<1> QED
  BY <1>1, <1>2, <1>3, PTL DEF Spec, Table!Spec, ImplementsAtKeyTable
=============================================================================
