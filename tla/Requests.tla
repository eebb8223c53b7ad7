------------------------------ MODULE Requests ------------------------------
(***************************************************************************)
(* The calls of fparse() and fload(), and the answers they are made of.    *)
(* Documents and queries are names; what matters of them is whether they   *)
(* parse, and which queries find something in which document.              *)
(***************************************************************************)
EXTENDS Integers, Sequences

CONSTANTS Doc, Junk,            \* the documents, and those that do not parse
          Broken,               \* of these, files that memDecompress() fails on
          Query, EmptyQuery,    \* JSON pointers, and ""
          NA_STRING,            \* a missing document or query
          Resolves              \* the <<doc, query>> that at_pointer() finds

(* The arguments of a call.  A flat query is one row, for all documents; a *)
(* nested query has a row per document, or, as R counts the bytes of a raw *)
(* vector, per byte of the one document.  No query is one empty query.     *)
Call == [json_type : {"STRSXP", "RAWSXP", "VECSXP"},
         json : Seq(Doc \cup {NA_STRING}),
         query_type : {"NILSXP", "STRSXP", "VECSXP"},
         query : Seq(Seq(Query \cup {NA_STRING})),
         parse_error_ok : BOOLEAN,
         query_error_ok : BOOLEAN]

(* What the argument checks of fparse() let through. *)
IsChecked(c) ==
    /\ c.json = <<>> => c.json_type = "VECSXP"
    /\ c.json_type = "RAWSXP" => Len(c.json) = 1
    /\ c.json_type # "STRSXP" =>
          \A i \in DOMAIN c.json : c.json[i] \notin Broken \cup {NA_STRING}
    /\ c.query_type # "VECSXP" => Len(c.query) = 1 /\ c.query[1] # <<>>
    /\ c.query_type = "NILSXP" => c.query[1] = <<EmptyQuery>>
    /\ c.query_type = "VECSXP" => \/ c.json_type = "RAWSXP"
                                  \/ Len(c.query) = Len(c.json)
    /\ c.query # <<>>

ASSUME DocumentsAssumption ==
    Broken \subseteq Junk /\ Junk \subseteq Doc /\ NA_STRING \notin Doc \cup Query
ASSUME QueriesAssumption == EmptyQuery \in Query

-----------------------------------------------------------------------------
is_single_json(c) ==
    c.json_type = "RAWSXP" \/ (c.json_type = "STRSXP" /\ Len(c.json) = 1)

n_rows(c) == IF c.query_type = "VECSXP" THEN Len(c.query) ELSE Len(c.json)

Document(c, i) == IF is_single_json(c) THEN c.json[1] ELSE c.json[i]
Queries(c, i)  == IF c.query_type = "VECSXP" THEN c.query[i] ELSE c.query[1]

Answer == [is : {"NA", "on_parse_error", "on_query_error", "error"}]
            \cup [is : {"value"}, doc : Doc, at : Query]

NA           == [is |-> "NA"]
OnParseError == [is |-> "on_parse_error"]
OnQueryError == [is |-> "on_query_error"]
Error        == [is |-> "error"]
Value(d, q)  == [is |-> "value", doc |-> d, at |-> q]

(* A row is the list of a document's answers, or a lone object instead.    *)
Row == [lone : BOOLEAN, cells : Seq(Answer)]
=============================================================================
