-------------------------- MODULE MCQueryDispatch --------------------------
(***************************************************************************)
(* All calls of up to two documents, any of them missing or junk, and of   *)
(* up to two queries per document, any of them missing, empty or finding   *)
(* nothing: character, raw and list arguments, flat and nested queries.    *)
(***************************************************************************)
EXTENDS QueryDispatch

CONSTANTS d1, d2, q, junk, broken

MCResolves == {<<d1, q>>}

UpTo(S, lo, hi) == UNION {[1 .. n -> S] : n \in lo .. hi}

Documents == Doc \cup {NA_STRING}
Pointers  == Query \cup {NA_STRING}

Jsons == ({"STRSXP"} \X UpTo(Documents, 1, 2))
            \cup ({"RAWSXP"} \X UpTo(Doc, 1, 1))
            \cup ({"VECSXP"} \X UpTo(Doc, 0, 2))

QueryArgs == {<<"NILSXP", << <<EmptyQuery>> >> >>}
            \cup {<<"STRSXP", <<qs>> >> : qs \in UpTo(Pointers, 1, 2)}
            \cup ({"VECSXP"} \X UpTo(UpTo(Pointers, 0, 2), 1, 2))

AllCalls ==
    {[json_type |-> js[1], json |-> js[2], query_type |-> qs[1], query |-> qs[2],
      parse_error_ok |-> p, query_error_ok |-> e] :
       js \in Jsons, qs \in QueryArgs, p, e \in BOOLEAN}

MCCalls == {c \in AllCalls : IsChecked(c)}
=============================================================================
