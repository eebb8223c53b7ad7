------------------------------ MODULE Answers ------------------------------
(***************************************************************************)
(* What fparse() promises for several documents and queries: every pair of *)
(* a document and a query has the answer it would have in a call of its    *)
(* own, whatever else is in the call; and if any answer is an error, the   *)
(* call is an error and returns nothing.                                   *)
(***************************************************************************)
EXTENDS Requests

VARIABLES call,     \* the arguments
          status,   \* "working", "done", "stopped"
          rows      \* what is returned, a row for every document
vars == <<call, status, rows>>

(* That a file cannot be decompressed is an error of R's, not the parser's. *)
Unparsed(c, d) ==
    IF c.parse_error_ok /\ d \notin Broken THEN OnParseError ELSE Error

(* The answer to one query of one document. *)
AnswerTo(c, d, q) ==
    CASE d = NA_STRING                       -> NA
      [] d \in Junk                          -> Unparsed(c, d)
      [] d \in Doc \ Junk /\ q = NA_STRING   -> NA
      [] d \in Doc \ Junk /\ q = EmptyQuery  -> Value(d, EmptyQuery)
      [] d \in Doc \ Junk /\ q \in Query \ {EmptyQuery} ->
           IF <<d, q>> \in Resolves THEN Value(d, q)
           ELSE IF c.query_error_ok THEN OnQueryError ELSE Error

(* Queries are asked together of the only document, or when each document  *)
(* has its own.                                                            *)
Together(c) ==
    \/ c.query_type = "VECSXP"
    \/ c.query_type = "STRSXP" /\ is_single_json(c) /\ Len(c.query[1]) > 1

(* A document that then fails to parse, or is missing, has no list of      *)
(* answers but on_parse_error in its place.                                *)
IsLone(c, i) == Together(c) /\ Document(c, i) \in Junk \cup {NA_STRING}

RowOf(c, i) ==
    IF IsLone(c, i)
    THEN [lone |-> TRUE, cells |-> <<Unparsed(c, Document(c, i))>>]
    ELSE [lone |-> FALSE,
          cells |-> [j \in DOMAIN Queries(c, i) |->
                       AnswerTo(c, Document(c, i), Queries(c, i)[j])]]

Fails(c, i) == \E j \in DOMAIN RowOf(c, i).cells : RowOf(c, i).cells[j] = Error

(* The rows; if there is but one document, a lone object is all there is.  *)
Rows(c) ==
    IF is_single_json(c) /\ IsLone(c, 1) THEN <<RowOf(c, 1)>>
    ELSE [i \in 1 .. n_rows(c) |-> RowOf(c, i)]

-----------------------------------------------------------------------------
Init == call \in Call /\ IsChecked(call) /\ status = "working" /\ rows = <<>>

Stop ==
    /\ status = "working"
    /\ \E i \in 1 .. n_rows(call) : Fails(call, i)
    /\ status' = "stopped"
    /\ UNCHANGED <<call, rows>>

Return ==
    /\ status = "working"
    /\ \A i \in 1 .. n_rows(call) : ~Fails(call, i)
    /\ status' = "done"
    /\ rows' = Rows(call)
    /\ UNCHANGED call

Next == Stop \/ Return

Spec == Init /\ [][Next]_vars
=============================================================================
