--------------------------- MODULE QueryDispatch ---------------------------
(***************************************************************************)
(* no_query(), flat_query() and nested_query(): a call's documents are     *)
(* parsed one after the other by one dom::parser, whose memory each parse  *)
(* overwrites, and their queries answered from the element that the last   *)
(* parse has set.  Depending on the shape of the call, a document is       *)
(* parsed anew for each query or once for all of them, and the checks for  *)
(* missing documents and errors are not made at the same places.           *)
(***************************************************************************)
EXTENDS Requests

CONSTANTS Calls,    \* the calls the program may be given
          None      \* the content of a parser that has no document

ASSUME CallsAssumption == Calls \subseteq Call /\ \A c \in Calls : IsChecked(c)
ASSUME NoneAssumption == None \notin Doc

VARIABLES call,     \* the arguments
          pc,       \* "next", "parse", "query", "done", "stopped"
          i, j,     \* the document, and the query, the loops are at
          tape,     \* the document in the parser's memory
          out, res  \* the rows so far, and the cells of the current row
vars == <<call, pc, i, j, tape, out, res>>

single_json  == is_single_json(call)
single_query == call.query_type = "STRSXP" /\ Len(call.query[1]) = 1
json         == Document(call, i)
query        == Queries(call, i)

(* The loops that parse apart from querying: nested_query(), and           *)
(* flat_query() of several queries of a single document.                   *)
parses_apart ==
    \/ call.query_type = "VECSXP"
    \/ call.query_type = "STRSXP" /\ single_json /\ ~single_query

start == IF parses_apart THEN "parse" ELSE "next"

Init ==
    /\ call \in Calls
    /\ pc = start
    /\ i = 1 /\ j = 1
    /\ tape = None
    /\ out = <<>> /\ res = <<>>

-----------------------------------------------------------------------------
(* A failed parse leaves no document in the parser.  A missing one, where  *)
(* it is not noticed before, is parsed as the text "NA", or looked for in  *)
(* a file of that name.                                                    *)
parse(d) == IF d \in Junk \cup {NA_STRING} THEN None ELSE d

(* Where memDecompress() fails there is no parse, and no parse error.      *)
Pardoned == call.parse_error_ok /\ json \notin Broken

(* Rcpp::stop(), or the error of memDecompress() *)
Stop == pc' = "stopped" /\ UNCHANGED <<i, j, out, res>>

(* The current cell takes an answer. *)
Give(a) == res' = Append(res, a) /\ j' = j + 1 /\ UNCHANGED <<i, pc, out>>

(* The query of the element that the document in memory has. *)
query_and_deserialize(doc, q) ==
    IF q = NA_STRING THEN Give(NA)
    ELSE IF q = EmptyQuery THEN Give(Value(doc, EmptyQuery))
    ELSE IF <<doc, q>> \in Resolves THEN Give(Value(doc, q))
    ELSE IF call.query_error_ok THEN Give(OnQueryError)
    ELSE Stop

(* A seeded fault: a parse that failed leaves the document before it. *)
ParseQueryAndDeserializeStale ==
    /\ pc = "next" /\ i <= n_rows(call) /\ j <= Len(query)
    /\ IF json = NA_STRING
       THEN Give(NA) /\ UNCHANGED tape
       ELSE /\ tape' = IF parse(json) = None THEN tape ELSE json
            /\ IF tape' # None THEN query_and_deserialize(tape', query[j])
               ELSE IF Pardoned THEN Give(OnParseError) ELSE Stop
    /\ UNCHANGED call

(* parse_query_and_deserialize(), and parse_and_deserialize() for no query *)
ParseQueryAndDeserialize ==
    /\ pc = "next" /\ i <= n_rows(call) /\ j <= Len(query)
    /\ IF json = NA_STRING
       THEN Give(NA) /\ UNCHANGED tape
       ELSE /\ tape' = parse(json)
            /\ IF tape' # None THEN query_and_deserialize(tape', query[j])
               ELSE IF Pardoned THEN Give(OnParseError) ELSE Stop
    /\ UNCHANGED call

(* The parse of a document for all its queries.  If it fails the row, or   *)
(* of a single document the result, is the object on_parse_error.          *)
Parse ==
    /\ pc = "parse" /\ i <= n_rows(call)
    /\ tape' = parse(json)
    /\ IF tape' # None THEN pc' = "query" /\ UNCHANGED <<i, out>>
       ELSE IF ~Pardoned THEN pc' = "stopped" /\ UNCHANGED <<i, out>>
       ELSE /\ out' = Append(out, [lone |-> TRUE, cells |-> <<OnParseError>>])
            /\ i' = i + 1
            /\ pc' = IF single_json THEN "done" ELSE "parse"
    /\ UNCHANGED <<call, j, res>>

QueryAndDeserialize ==
    /\ pc = "query" /\ i <= n_rows(call) /\ j <= Len(query)
    /\ query_and_deserialize(tape, query[j])
    /\ UNCHANGED <<call, tape>>

(* A seeded fault: the cells of a row are not cleared for the next. *)
RowEndKeepsCells ==
    /\ pc \in {"next", "query"} /\ i <= n_rows(call) /\ j > Len(query)
    /\ out' = Append(out, [lone |-> FALSE, cells |-> res])
    /\ i' = i + 1 /\ j' = 1
    /\ pc' = IF parses_apart /\ ~single_json THEN "parse" ELSE pc
    /\ UNCHANGED <<call, tape, res>>

(* A seeded fault: only the first document is ever parsed. *)
RowEndNoParse ==
    /\ pc \in {"next", "query"} /\ i <= n_rows(call) /\ j > Len(query)
    /\ out' = Append(out, [lone |-> FALSE, cells |-> res])
    /\ res' = <<>>
    /\ i' = i + 1 /\ j' = 1
    /\ UNCHANGED <<call, pc, tape>>

(* The end of a row; the only document of a call is not parsed again. *)
RowEnd ==
    /\ pc \in {"next", "query"} /\ i <= n_rows(call) /\ j > Len(query)
    /\ out' = Append(out, [lone |-> FALSE, cells |-> res])
    /\ res' = <<>>
    /\ i' = i + 1 /\ j' = 1
    /\ pc' = IF parses_apart /\ ~single_json THEN "parse" ELSE pc
    /\ UNCHANGED <<call, tape>>

Finish ==
    /\ pc \in {"next", "parse", "query"} /\ i > n_rows(call)
    /\ pc' = "done"
    /\ UNCHANGED <<call, i, j, tape, out, res>>

(* The call has returned to R, or its error has. *)
Returned == pc \in {"done", "stopped"} /\ UNCHANGED vars

Next ==
    \/ ParseQueryAndDeserialize
    \/ Parse \/ QueryAndDeserialize
    \/ RowEnd \/ Finish \/ Returned

Spec == Init /\ [][Next]_vars

-----------------------------------------------------------------------------
(* Properties *)

(* Every variable holds values of its type, and a row under construction   *)
(* has an answer to each query before the one the loop is at.              *)
TypeOK ==
    /\ call \in Call /\ IsChecked(call)
    /\ pc \in {"next", "parse", "query", "done", "stopped"}
    /\ i \in 1 .. n_rows(call) + 1
    /\ j \in Nat \ {0}
    /\ tape \in (Doc \ Junk) \cup {None}
    /\ out \in Seq(Row)
    /\ res \in Seq(Answer) /\ Len(res) = j - 1

(* An element is only ever queried while the parser still holds the        *)
(* document the query is meant for.                                        *)
ElementIsCurrent == pc = "query" /\ i <= n_rows(call) => tape = json

(* However the call is shaped, vectorized or not, parsed once or again and *)
(* again, the answers are those that each document and query would have by *)
(* themselves, and an error of one is the error of all (R/fparse.R:76-105).*)
Promise == INSTANCE Answers WITH
    rows   <- IF pc = "done" THEN out ELSE <<>>,
    status <- CASE pc = "done"    -> "done"
                [] pc = "stopped" -> "stopped"
                [] OTHER          -> "working"

ImplementsAnswers == Promise!Spec
=============================================================================
