----------------------------- MODULE DataFrame -----------------------------
(***************************************************************************)
(* diagnose_data_frame() and build_data_frame(): the two passes that turn  *)
(* a JSON array of objects into a data frame.  The first pass discovers    *)
(* the columns and what their values have in common; the second routes     *)
(* every field to its column, by position when all rows were seen to have  *)
(* the same keys in the same order, else with Column_Schema::find().       *)
(*                                                                         *)
(* Positions, rows and columns count from 1 here, and 0 stands for the     *)
(* code's -1.  A call processes one array, chosen in Init.                 *)
(***************************************************************************)
EXTENDS Columns

CONSTANTS Docs,                 \* the arrays the program may be given
          Options,              \* the <<type_policy, int64_opt>> of the call
          MIN_HASHED_COLUMNS    \* schemas this wide are hashed, others scanned

(* dispatch_simplify_array() keeps empty arrays away from this code. *)
ASSUME DocsAssumption == Docs \subseteq Seq(Row) /\ <<>> \notin Docs
ASSUME OptionsAssumption == Options \subseteq TypePolicy \X Int64Opt
ASSUME MinHashedAssumption == MIN_HASHED_COLUMNS \in Nat \ {0}

VARIABLES
    array, type_policy, int64_opt,  \* the arguments, and template arguments
    phase,              \* "diagnose", "fill", "done", "nullopt"
    i_row, pos,         \* the cursor of the running loop
    keys, index,        \* Column_Schema: keys by column, columns by key
    schema,             \*   one Type_Doctor per column
    is_regular,         \*   rows have exactly the columns' keys, in order
    first_row_length,   \* number of fields of the first row, -1 if not known
    kinds, vecs,        \* the columns: Col_Kind and cells
    last_row            \* the last row that wrote to a column

inputs == <<array, type_policy, int64_opt>>
cols   == <<keys, index, schema, is_regular, first_row_length>>
vars   == <<inputs, phase, i_row, pos, cols, kinds, vecs, last_row>>

Fields == array[i_row].fields

-----------------------------------------------------------------------------
(* Column_Schema *)

(* A seeded fault: the position is trusted beyond the first column. *)
FindTrustsPosition(key, p) ==
    IF p <= Len(keys) /\ (p > 1 \/ keys[p] = key) THEN p
    ELSE IF Len(keys) < MIN_HASHED_COLUMNS
    THEN IF \E j \in DOMAIN keys : keys[j] = key
         THEN CHOOSE j \in DOMAIN keys : keys[j] = key
         ELSE 0
    ELSE index[key]

(* The column of a key, the field being at position p of its object; 0 if  *)
(* there is none.                                                          *)
find(key, p) ==
    IF p <= Len(keys) /\ keys[p] = key THEN p
    ELSE IF Len(keys) < MIN_HASHED_COLUMNS
    THEN IF \E j \in DOMAIN keys : keys[j] = key
         THEN CHOOSE j \in DOMAIN keys :
                keys[j] = key /\ \A i \in 1 .. j - 1 : keys[i] # key
         ELSE 0
    ELSE index[key]

(* A seeded fault: the keys before the threshold are never indexed. *)
AddNoBackfill(key) ==
    /\ keys' = Append(keys, key)
    /\ index' = IF Len(keys) + 1 >= MIN_HASHED_COLUMNS /\ index[key] = 0
                THEN [index EXCEPT ![key] = Len(keys) + 1]
                ELSE index

(* A new last column.  The column that makes the schema wide enters all    *)
(* the keys into the index, later ones only their own; emplace() leaves a  *)
(* key that is there alone.                                                *)
add(key) ==
    /\ keys' = Append(keys, key)
    /\ index' =
         IF Len(keys) + 1 = MIN_HASHED_COLUMNS
         THEN [k \in Key |->
                 IF \E j \in DOMAIN keys' : keys'[j] = k
                 THEN CHOOSE j \in DOMAIN keys' :
                        keys'[j] = k /\ \A i \in 1 .. j - 1 : keys'[i] # k
                 ELSE 0]
         ELSE IF Len(keys) + 1 > MIN_HASHED_COLUMNS /\ index[key] = 0
         THEN [index EXCEPT ![key] = Len(keys) + 1]
         ELSE index

-----------------------------------------------------------------------------
(* The first pass: diagnose_data_frame() *)

Init ==
    /\ array \in Docs
    /\ \E o \in Options : type_policy = o[1] /\ int64_opt = o[2]
    /\ phase = "diagnose"
    /\ i_row = 1 /\ pos = 1
    /\ keys = <<>> /\ schema = <<>>
    /\ index = [k \in Key |-> 0]
    /\ is_regular = TRUE
    /\ first_row_length = -1
    /\ kinds = <<>> /\ vecs = <<>> /\ last_row = <<>>

(* An element that is not an object: this array is no data frame. *)
NotADataFrame ==
    /\ phase = "diagnose" /\ i_row <= Len(array)
    /\ array[i_row].type # "OBJECT"
    /\ phase' = "nullopt"
    /\ UNCHANGED <<inputs, i_row, pos, cols, kinds, vecs, last_row>>

(* A seeded fault: only the fields of new columns are diagnosed. *)
DiagnoseFieldOnce ==
    /\ phase = "diagnose" /\ i_row <= Len(array)
    /\ array[i_row].type = "OBJECT"
    /\ pos <= Len(Fields)
    /\ LET key   == Fields[pos].key
           kind  == Fields[pos].value.kind
           found == find(key, pos)
       IN  /\ IF found = 0
              THEN /\ add(key)
                   /\ schema' = Append(schema, add_element(int64_opt, EmptyDoctor, kind))
              ELSE UNCHANGED <<keys, index, schema>>
           /\ is_regular' = (is_regular /\ found \in {0, pos})
    /\ pos' = pos + 1
    /\ UNCHANGED <<inputs, phase, i_row, first_row_length, kinds, vecs, last_row>>

(* One field of an object: its column, new if need be, diagnoses its value.*)
DiagnoseField ==
    /\ phase = "diagnose" /\ i_row <= Len(array)
    /\ array[i_row].type = "OBJECT"
    /\ pos <= Len(Fields)
    /\ LET key   == Fields[pos].key
           kind  == Fields[pos].value.kind
           found == find(key, pos)
       IN  IF found = 0
           THEN /\ add(key)
                /\ schema' = Append(schema, add_element(int64_opt, EmptyDoctor, kind))
                /\ is_regular' = (is_regular /\ Len(keys) + 1 = pos)
           ELSE /\ schema' = [schema EXCEPT ![found] = add_element(int64_opt, @, kind)]
                /\ is_regular' = (is_regular /\ found = pos)
                /\ UNCHANGED <<keys, index>>
    /\ pos' = pos + 1
    /\ UNCHANGED <<inputs, phase, i_row, first_row_length, kinds, vecs, last_row>>

(* A seeded fault: a shorter row goes unnoticed. *)
DiagnoseRowEndNoLength ==
    /\ phase = "diagnose" /\ i_row <= Len(array)
    /\ array[i_row].type = "OBJECT"
    /\ pos > Len(Fields)
    /\ first_row_length' = IF first_row_length = -1 THEN pos - 1 ELSE first_row_length
    /\ i_row' = i_row + 1
    /\ pos' = 1
    /\ UNCHANGED <<inputs, phase, keys, index, schema, is_regular, kinds, vecs, last_row>>

(* A seeded fault: the position is not reset for the next row. *)
DiagnoseRowEndKeepsPos ==
    /\ phase = "diagnose" /\ i_row <= Len(array)
    /\ array[i_row].type = "OBJECT"
    /\ pos > Len(Fields)
    /\ first_row_length' = IF first_row_length = -1 THEN pos - 1 ELSE first_row_length
    /\ is_regular' = (is_regular /\ pos - 1 = first_row_length')
    /\ i_row' = i_row + 1
    /\ UNCHANGED <<inputs, phase, pos, keys, index, schema, kinds, vecs, last_row>>

(* The end of an object: it must be as long as the first one. *)
DiagnoseRowEnd ==
    /\ phase = "diagnose" /\ i_row <= Len(array)
    /\ array[i_row].type = "OBJECT"
    /\ pos > Len(Fields)
    /\ first_row_length' = IF first_row_length = -1 THEN pos - 1 ELSE first_row_length
    /\ is_regular' = (is_regular /\ pos - 1 = first_row_length')
    /\ i_row' = i_row + 1
    /\ pos' = 1
    /\ UNCHANGED <<inputs, phase, keys, index, schema, kinds, vecs, last_row>>

-----------------------------------------------------------------------------
(* The second pass: build_data_frame() and fill_data_frame() *)

(* The columns are allocated, all their cells NA. *)
BuildColumns ==
    /\ phase = "diagnose" /\ i_row > Len(array)
    /\ phase' = "fill"
    /\ kinds' = [j \in DOMAIN keys |->
                   col_kind(int64_opt, common_R_type(type_policy, schema[j]))]
    /\ vecs' = [j \in DOMAIN keys |-> [i \in DOMAIN array |-> NA]]
    /\ last_row' = [j \in DOMAIN keys |-> 0]
    /\ i_row' = 1 /\ pos' = 1
    /\ UNCHANGED <<inputs, cols>>

(* The column the current field is routed to. *)
Route == IF is_regular THEN pos ELSE find(Fields[pos].key, pos)

(* Column j takes the value of the current field. *)
SetCell(j) ==
    vecs' = IF kinds[j] = "null" THEN vecs
            ELSE [vecs EXCEPT ![j][i_row] = cell(kinds[j], Fields[pos].value)]

(* A seeded fault: a repeated key overwrites its cell. *)
FillFieldLastWins ==
    /\ phase = "fill" /\ i_row <= Len(array) /\ pos <= Len(Fields)
    /\ SetCell(Route)
    /\ last_row' = IF is_regular THEN last_row ELSE [last_row EXCEPT ![Route] = i_row]
    /\ pos' = pos + 1
    /\ UNCHANGED <<inputs, phase, i_row, cols, kinds>>

(* One field: skipped if its key was there before in this row, else stored.*)
FillField ==
    /\ phase = "fill" /\ i_row <= Len(array) /\ pos <= Len(Fields)
    /\ IF is_regular
       THEN SetCell(Route) /\ UNCHANGED last_row
       ELSE IF last_row[Route] = i_row
       THEN UNCHANGED <<vecs, last_row>>
       ELSE SetCell(Route) /\ last_row' = [last_row EXCEPT ![Route] = i_row]
    /\ pos' = pos + 1
    /\ UNCHANGED <<inputs, phase, i_row, cols, kinds>>

FillRowEnd ==
    /\ phase = "fill" /\ i_row <= Len(array) /\ pos > Len(Fields)
    /\ i_row' = i_row + 1
    /\ pos' = 1
    /\ UNCHANGED <<inputs, phase, cols, kinds, vecs, last_row>>

Finish ==
    /\ phase = "fill" /\ i_row > Len(array)
    /\ phase' = "done"
    /\ UNCHANGED <<inputs, i_row, pos, cols, kinds, vecs, last_row>>

(* The call has returned to simplify_data_frame(). *)
Returned == phase \in {"done", "nullopt"} /\ UNCHANGED vars

Next ==
    \/ NotADataFrame \/ DiagnoseField \/ DiagnoseRowEnd
    \/ BuildColumns \/ FillField \/ FillRowEnd \/ Finish
    \/ Returned

Spec == Init /\ [][Next]_vars

-----------------------------------------------------------------------------
(* Properties *)

(* Every variable holds values of its type, and the cursor of either loop  *)
(* stays within the array and within one field past the current object.    *)
TypeOK ==
    /\ array \in Seq(Row) \ {<<>>}
    /\ type_policy \in TypePolicy /\ int64_opt \in Int64Opt
    /\ phase \in {"diagnose", "fill", "done", "nullopt"}
    /\ i_row \in 1 .. Len(array) + 1
    /\ pos \in Nat \ {0}
    /\ i_row <= Len(array) => pos <= Len(Fields) + 1
    /\ keys \in Seq(Key)
    /\ index \in [Key -> Nat]
    /\ schema \in Seq(Doctor) /\ Len(schema) = Len(keys)
    /\ is_regular \in BOOLEAN
    /\ first_row_length \in Nat \cup {-1}
    /\ phase \in {"fill", "done"} =>
         /\ kinds \in [DOMAIN keys -> Col_Kind]
         /\ vecs \in [DOMAIN keys -> [DOMAIN array -> Cell]]
         /\ last_row \in [DOMAIN keys -> 0 .. Len(array)]

(* The fields the first pass has been through. *)
Diagnosed(i, p) ==
    /\ i \in DOMAIN array /\ p \in DOMAIN array[i].fields
    /\ \/ phase \in {"fill", "done"}
       \/ i < i_row
       \/ (i = i_row /\ p < pos)

Before(i, p, i2, p2) == i < i2 \/ (i = i2 /\ p < p2)

(* The columns are the distinct keys of the fields read so far, in the     *)
(* order in which each was first seen, whatever mix of scanning and        *)
(* hashing found them (Column_Schema).                                     *)
ColumnsInFirstSeenOrder ==
    /\ \A i \in DOMAIN array : \A p \in DOMAIN array[i].fields :
         Diagnosed(i, p) => \E j \in DOMAIN keys : keys[j] = array[i].fields[p].key
    /\ \A j \in DOMAIN keys :
         \E i \in DOMAIN array : \E p \in DOMAIN array[i].fields :
            /\ Diagnosed(i, p)
            /\ array[i].fields[p].key = keys[j]
            /\ \A l \in 1 .. j - 1 : keys[l] # keys[j]
            /\ \A i2 \in DOMAIN array : \A p2 \in DOMAIN array[i2].fields :
                 Before(i2, p2, i, p) =>
                   \E l \in 1 .. j - 1 : keys[l] = array[i2].fields[p2].key

KindsUnder(key) ==
    {kind \in ElementKind :
       \E i \in DOMAIN array : \E p \in DOMAIN array[i].fields :
          /\ Diagnosed(i, p)
          /\ array[i].fields[p].key = key
          /\ array[i].fields[p].value.kind = kind}

(* Each column's Type_Doctor has examined exactly the values that stand    *)
(* under the column's key, those of repeated keys too: nothing that will   *)
(* be stored in a column is missing from its diagnosis.                    *)
DoctorsSawTheirColumn ==
    \A j \in DOMAIN keys : schema[j] = DoctorOf(int64_opt, KindsUnder(keys[j]))

KeysOf(i) == [p \in DOMAIN array[i].fields |-> array[i].fields[p].key]

(* is_regular, the licence to fill by position without looking at keys, is *)
(* what its comment says it is: every object has exactly the column keys,  *)
(* in column order (dataframe.hpp:26).                                     *)
RegularMeansSameKeys ==
    phase \in {"fill", "done"} =>
        (is_regular <=> \A i \in DOMAIN array : KeysOf(i) = keys)

(* The fill loop indexes kinds, vecs and last_row with the column it found *)
(* and never tests it against -1: it must be the column of the field's key.*)
RoutedToItsColumn ==
    phase = "fill" /\ i_row <= Len(array) /\ pos <= Len(Fields) =>
        /\ Route \in DOMAIN keys
        /\ keys[Route] = Fields[pos].key

IsFirst(i, p) ==
    \A q \in 1 .. p - 1 : array[i].fields[q].key # array[i].fields[p].key

(* A finished cell holds the first occurrence of its column's key in its   *)
(* row, converted as its column is, or NA where the row lacks the key.     *)
FirstOccurrenceWins ==
    phase = "done" =>
        \A i \in DOMAIN array, j \in DOMAIN keys :
           /\ \A p \in DOMAIN array[i].fields :
                array[i].fields[p].key = keys[j] /\ IsFirst(i, p) =>
                    vecs[j][i] = cell(kinds[j], array[i].fields[p].value)
           /\ (\A p \in DOMAIN array[i].fields : array[i].fields[p].key # keys[j])
                => vecs[j][i] = NA

(* Under "anything_goes" a column takes the highest type of its values, so *)
(* that every one of them can be read off the data frame, but for what the *)
(* policies give up, by what else there is under the same key in any row.  *)
NothingLostAnythingGoes ==
    phase = "done" /\ type_policy = "anything_goes" =>
        \A i \in DOMAIN array : \A p \in DOMAIN array[i].fields : \A j \in DOMAIN keys :
           keys[j] = array[i].fields[p].key /\ IsFirst(i, p) =>
              Kept(type_policy, int64_opt, KindsUnder(keys[j]),
                   array[i].fields[p].value, vecs[j][i])

(* What the comments on Type_Policy and rcpp_T say of "strict" (no type    *)
(* promotion; chr always becomes character, dbl always double, i32 always  *)
(* int): a value that lands in an atomic column is stored in its own type. *)
OwnRepresentation(kind) ==
    CASE kind \in {"STRING", "UINT64"} -> {"STRSXP"}
      [] kind = "DOUBLE"               -> {"REALSXP"}
      [] kind = "BOOL"                 -> {"LGLSXP"}
      [] kind = "INT32"                -> {"INTSXP", int64_storage(int64_opt)}
      [] kind \in {"INT64", "LLONG_MIN"} ->
           {int64_storage(int64_opt), "NA"}
             \cup IF int64_opt = "Double" THEN {"rounded"} ELSE {}
      [] OTHER                         -> {"NA"}

StrictColumnsKeepTypes ==
    phase = "done" /\ type_policy = "strict" =>
        \A i \in DOMAIN array : \A p \in DOMAIN array[i].fields : \A j \in DOMAIN keys :
           keys[j] = array[i].fields[p].key /\ IsFirst(i, p) =>
              vecs[j][i].as \in {"VECSXP"} \cup OwnRepresentation(array[i].fields[p].value.kind)

(* The two passes implement the table that looks every key up in every     *)
(* row: a cell is written at most once, with the right value, and the data *)
(* frame is handed over only when all are.                                 *)
column_of(key) == CHOOSE j \in DOMAIN keys : keys[j] = key

Table == INSTANCE AtKeyTable WITH
    table  <- IF phase \in {"fill", "done"}
              THEN [k \in {keys[j] : j \in DOMAIN keys} |-> vecs[column_of(k)]]
              ELSE <<>>,
    status <- CASE phase = "diagnose" -> "open"
                [] phase = "fill"     -> "filling"
                [] phase = "done"     -> "done"
                [] phase = "nullopt"  -> "rejected"

ImplementsAtKeyTable == Table!Spec
=============================================================================
