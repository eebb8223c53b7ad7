--------------------------- MODULE Simplification ---------------------------
(***************************************************************************)
(* What the simplification of a JSON document promises: every array gets   *)
(* the highest simplification, of those the caller allows, whose           *)
(* conditions it meets, and every value is converted as the values of one  *)
(* data frame column are.  There are no early returns here, no typed       *)
(* loops, and no R heap.                                                   *)
(*                                                                         *)
(* A document is a table of its nodes in document order, which is that of  *)
(* simdjson's tape; node 1 is the root.  A node has a kind, the nodes of   *)
(* its elements or field values, and the keys of its fields.               *)
(***************************************************************************)
EXTENDS Columns, SequencesExt

SimplifyTo == {"data_frame", "matrix", "vector", "list"}
Option == [type_policy : TypePolicy, int64_opt : Int64Opt, simplify_to : SimplifyTo]

nodes(d) == DOMAIN d.kind

IsDocument(d) ==
    /\ d.kind \in Seq(ElementKind) \ {<<>>}
    /\ DOMAIN d.items = nodes(d) /\ DOMAIN d.keys = nodes(d)
    /\ \A n \in nodes(d) :
          /\ d.items[n] \in Seq(nodes(d)) /\ \A m \in Range(d.items[n]) : m > n
          /\ d.items[n] # <<>> => d.kind[n] \in {"ARRAY", "OBJECT"}
          /\ d.keys[n] \in Seq(Key)
          /\ d.kind[n] = "OBJECT" => Len(d.keys[n]) = Len(d.items[n])

value(d, n)   == [kind |-> d.kind[n], id |-> n]
kinds_in(d, s) == {d.kind[m] : m \in Range(s)}

(* An R object: its class, its elements, and its names or its dimensions.  *)
RObject(class, elems, attr) == [class |-> class, elems |-> elems, attr |-> attr]

-----------------------------------------------------------------------------
(* The columns of an array of objects: its keys as they are first seen. *)
rows(d, n) == d.items[n]

(* Where the rows have keys, in the order in which they are read. *)
KeyPlaces(d, n) == UNION {{i} \X DOMAIN d.keys[rows(d, n)[i]] : i \in DOMAIN rows(d, n)}
key_at(d, n, p) == d.keys[rows(d, n)[p[1]]][p[2]]
Before(p, q)    == p[1] < q[1] \/ (p[1] = q[1] /\ p[2] < q[2])

columns(d, n) ==
    LET First == {p \in KeyPlaces(d, n) :
                    \A q \in KeyPlaces(d, n) :
                       Before(q, p) => key_at(d, n, q) # key_at(d, n, p)}
    IN  [c \in 1 .. Cardinality(First) |->
           key_at(d, n, CHOOSE p \in First : Cardinality({q \in First : Before(q, p)}) = c - 1)]

(* The values under a key, in all the objects of the array. *)
ValuesUnder(d, n, k) ==
    UNION {{d.items[m][p] : p \in {q \in DOMAIN d.keys[m] : d.keys[m][q] = k}}
             : m \in Range(rows(d, n))}

common_kind(o, kinds) ==
    col_kind(o.int64_opt, common_R_type(o.type_policy, DoctorOf(o.int64_opt, kinds)))

column_kind(d, o, n, k) ==
    common_kind(o, {d.kind[m] : m \in ValuesUnder(d, n, k)})

FirstAt(d, m, k) == CHOOSE p \in DOMAIN d.keys[m] :
                       d.keys[m][p] = k /\ \A q \in 1 .. p - 1 : d.keys[m][q] # k

-----------------------------------------------------------------------------
(* The conditions of each level of simplification, for a non-empty array.  *)
IsTable(d, n) == \A m \in Range(d.items[n]) : d.kind[m] = "OBJECT"

vectorizable(o, kinds) == is_vectorizable(o.type_policy, DoctorOf(o.int64_opt, kinds))

IsMatrix(d, o, n) ==
    LET first == kinds_in(d, d.items[d.items[n][1]])
        all   == UNION {kinds_in(d, d.items[m]) : m \in Range(d.items[n])}
    IN  /\ \A m \in Range(d.items[n]) : d.kind[m] = "ARRAY"
        /\ \A m \in Range(d.items[n]) : Len(d.items[m]) = Len(d.items[d.items[n][1]])
        /\ vectorizable(o, all)
        /\ first \subseteq {"NULL_VALUE"} /\ all # first
             => o.type_policy = "anything_goes"

Meets(d, o, n, level) ==
    CASE level = "data_frame" -> IsTable(d, n)
      [] level = "matrix"     -> IsMatrix(d, o, n)
      [] level = "vector"     -> vectorizable(o, kinds_in(d, d.items[n]))
      [] level = "list"       -> TRUE

Levels == <<"data_frame", "matrix", "vector", "list">>

(* The first level from the one the caller allows whose condition is met.  *)
Level(d, o, n) ==
    LET from == CHOOSE l \in 1 .. 4 : Levels[l] = o.simplify_to
    IN  Levels[CHOOSE l \in from .. 4 :
                 /\ Meets(d, o, n, Levels[l])
                 /\ \A k \in from .. l - 1 : ~Meets(d, o, n, Levels[k])]

-----------------------------------------------------------------------------
(* Values that are given one storage together. *)
Together(d, o, s) == [i \in DOMAIN s |-> cell(common_kind(o, kinds_in(d, s)), value(d, s[i]))]

ByColumn(d, n) ==
    LET n_rows == Len(rows(d, n))
        n_cols == Len(d.items[rows(d, n)[1]])
    IN  [k \in 1 .. n_rows * n_cols |->
           d.items[rows(d, n)[((k - 1) % n_rows) + 1]][((k - 1) \div n_rows) + 1]]

MissingCell == RObject("vector", <<NA>>, <<>>)

(* The R object that node n becomes, when S has those of the nodes below.  *)
Object(d, o, S, n) ==
    IF d.kind[n] = "NULL_VALUE" THEN RObject("single_null", <<>>, <<>>)
    ELSE IF d.kind[n] \notin {"ARRAY", "OBJECT"}
    THEN RObject("vector", Together(d, o, <<n>>), <<>>)
    ELSE IF d.items[n] = <<>>
    THEN RObject(IF d.kind[n] = "ARRAY" THEN "empty_array" ELSE "empty_object",
                 <<>>, <<>>)
    ELSE IF d.kind[n] = "OBJECT"
    THEN RObject("list", [i \in DOMAIN d.items[n] |-> S[d.items[n][i]]], d.keys[n])
    ELSE CASE Level(d, o, n) = "data_frame" ->
                RObject("data.frame",
                  [c \in DOMAIN columns(d, n) |->
                     LET key  == columns(d, n)[c]
                         kind == column_kind(d, o, n, key)
                     IN  RObject(IF kind = "list" THEN "list" ELSE "vector",
                           [i \in DOMAIN rows(d, n) |->
                              LET m == rows(d, n)[i]
                                  v == d.items[m][FirstAt(d, m, key)]
                              IN  IF key \notin Range(d.keys[m])
                                  THEN IF kind = "list" THEN MissingCell ELSE NA
                                  ELSE IF kind = "list" THEN S[v]
                                  ELSE cell(kind, value(d, v))],
                           <<>>)],
                  columns(d, n))
           [] Level(d, o, n) = "matrix" ->
                RObject("matrix", Together(d, o, ByColumn(d, n)),
                        <<Len(rows(d, n)), Len(d.items[rows(d, n)[1]])>>)
           [] Level(d, o, n) = "vector" ->
                RObject("vector", Together(d, o, d.items[n]), <<>>)
           [] Level(d, o, n) = "list" ->
                RObject("list", [i \in DOMAIN d.items[n] |-> S[d.items[n][i]]], <<>>)

(* The R object that each node of a document becomes. *)
Simplified(d, o) == LET S[n \in nodes(d)] == Object(d, o, S, n) IN S
=============================================================================
