------------------------ MODULE QueryDispatchProofs ------------------------
(***************************************************************************)
(* Proofs about QueryDispatch, for any documents, queries and calls: the   *)
(* elements that are queried are current, and the loops implement Answers. *)
(***************************************************************************)
EXTENDS QueryDispatch, TLAPS

n == n_rows(call)

(* The rows so far are those of their documents, none of which fails. *)
RowsRight ==
    pc \in {"next", "parse", "query"} =>
       /\ Len(out) = i - 1
       /\ \A k \in 1 .. i - 1 : out[k] = Promise!RowOf(call, k) /\ ~Promise!Fails(call, k)

(* So are the cells of the current row. *)
CellsRight ==
    pc \in {"next", "parse", "query"} /\ i <= n =>
       /\ j <= Len(query) + 1
       /\ \A m \in 1 .. j - 1 :
             res[m] = Promise!AnswerTo(call, json, query[m]) /\ res[m] # Error

(* Which loop runs, and what it may rely on.  The single document of a     *)
(* call is parsed before the first row, and is there until the last.       *)
LoopRight ==
    /\ pc = "next" => ~parses_apart
    /\ pc \in {"parse", "query"} => parses_apart
    /\ pc = "parse" => j = 1 /\ (single_json => i = 1)
    /\ pc = "query" => /\ tape = json /\ json \in Doc \ Junk
                       /\ i > n => single_json

EndRight ==
    /\ pc = "done" => /\ out = Promise!Rows(call)
                      /\ \A k \in 1 .. n : ~Promise!Fails(call, k)
    /\ pc = "stopped" => \E k \in 1 .. n : Promise!Fails(call, k)

IInv == TypeOK /\ RowsRight /\ CellsRight /\ LoopRight /\ EndRight

-----------------------------------------------------------------------------
(* The arguments *)

(* The abstract specification speaks of the same calls and answers.        *)
LEMMA SameWords ==
    /\ Promise!NA = NA /\ Promise!Error = Error
    /\ Promise!OnParseError = OnParseError /\ Promise!OnQueryError = OnQueryError
    /\ \A d, q : Promise!Value(d, q) = Value(d, q)
    /\ \A c : /\ Promise!is_single_json(c) <=> is_single_json(c)
              /\ Promise!n_rows(c) = n_rows(c)
              /\ Promise!IsChecked(c) <=> IsChecked(c)
    /\ \A c, k : /\ Promise!Document(c, k) = Document(c, k)
                 /\ Promise!Queries(c, k) = Queries(c, k)
    /\ Promise!Call = Call
BY DEF NA, Promise!NA, Error, Promise!Error, OnParseError, Promise!OnParseError,
       OnQueryError, Promise!OnQueryError, Value, Promise!Value,
       is_single_json, Promise!is_single_json, n_rows, Promise!n_rows,
       IsChecked, Promise!IsChecked, Document, Promise!Document,
       Queries, Promise!Queries, Call, Promise!Call

(* The document and the queries of every row there is. *)
LEMMA Arguments ==
    ASSUME NEW c \in Call, IsChecked(c)
    PROVE  /\ n_rows(c) \in Nat
           /\ is_single_json(c) => n_rows(c) >= 1
           /\ \A k \in 1 .. n_rows(c) : /\ Document(c, k) \in Doc \cup {NA_STRING}
                                        /\ Queries(c, k) \in Seq(Query \cup {NA_STRING})
<1>1. /\ c.json \in Seq(Doc \cup {NA_STRING})
      /\ c.query \in Seq(Seq(Query \cup {NA_STRING}))
      /\ c.json_type \in {"STRSXP", "RAWSXP", "VECSXP"}
      /\ c.query_type \in {"NILSXP", "STRSXP", "VECSXP"}
  BY DEF Call
<1>2. n_rows(c) \in Nat BY <1>1 DEF n_rows
<1>3. c.query_type = "VECSXP" \/ c.json_type = "RAWSXP" \/ n_rows(c) = Len(c.json)
  BY DEF n_rows
<1>4. is_single_json(c) => Len(c.json) = 1
  BY DEF is_single_json, IsChecked
<1>5. c.query_type = "VECSXP" => n_rows(c) = Len(c.query) /\ Len(c.query) >= 1
  BY <1>1 DEF n_rows, IsChecked
<1>6. c.query_type # "VECSXP" => n_rows(c) = Len(c.json) /\ Len(c.query) = 1
  BY DEF n_rows, IsChecked
<1>7. c.query_type = "VECSXP" /\ ~is_single_json(c) => n_rows(c) = Len(c.json)
  BY <1>5 DEF IsChecked, is_single_json
<1>8. is_single_json(c) => n_rows(c) >= 1 BY <1>4, <1>5, <1>6
<1>9. ASSUME NEW k \in 1 .. n_rows(c)
      PROVE  /\ Document(c, k) \in Doc \cup {NA_STRING}
             /\ Queries(c, k) \in Seq(Query \cup {NA_STRING})
  <2>1. Document(c, k) \in Doc \cup {NA_STRING}
    BY <1>1, <1>2, <1>4, <1>6, <1>7, <1>9 DEF Document
  <2>2. Queries(c, k) \in Seq(Query \cup {NA_STRING})
    BY <1>1, <1>2, <1>5, <1>6, <1>9 DEF Queries
  <2> QED BY <2>1, <2>2
<1> QED BY <1>2, <1>8, <1>9

(* The code and the abstract specification agree on when documents are     *)
(* parsed apart from their queries.                                        *)
LEMMA ApartIsTogether ==
    ASSUME call \in Call, IsChecked(call) PROVE parses_apart <=> Promise!Together(call)
<1>1. call.query_type # "VECSXP" => Len(call.query[1]) \in Nat \ {0}
  BY DEF IsChecked, Call
<1>2. ASSUME NEW k \in Nat \ {0} PROVE k > 1 <=> k # 1 OBVIOUS
<1>3. Promise!is_single_json(call) <=> single_json BY SameWords DEF single_json
<1> QED BY <1>1, <1>2, <1>3, Zenon DEF parses_apart, Promise!Together, single_query

(* An answer is an answer. *)
LEMMA AnswerType ==
    ASSUME NEW c \in Call, NEW d \in Doc \cup {NA_STRING}, NEW q \in Query \cup {NA_STRING}
    PROVE  Promise!AnswerTo(c, d, q) \in Answer
BY DocumentsAssumption, QueriesAssumption, SameWords
DEF Promise!AnswerTo, Promise!Unparsed, Answer, NA, OnParseError, OnQueryError, Error, Value

(* A query of a document that was parsed gives its answer, or stops.       *)
LEMMA QueryAnswers ==
    ASSUME NEW d \in Doc \ Junk, NEW q \in Query \cup {NA_STRING},
           query_and_deserialize(d, q)
    PROVE  \/ Give(Promise!AnswerTo(call, d, q)) /\ Promise!AnswerTo(call, d, q) # Error
           \/ Stop /\ Promise!AnswerTo(call, d, q) = Error
<1>1. d # NA_STRING /\ EmptyQuery # NA_STRING
  BY DocumentsAssumption, QueriesAssumption
<1>2. CASE q = NA_STRING
  <2>0. q # EmptyQuery /\ q \notin Query BY <1>2, DocumentsAssumption, QueriesAssumption
  <2>1. Promise!AnswerTo(call, d, q) = NA
    BY <1>1, <1>2, <2>0, SameWords DEF Promise!AnswerTo
  <2> QED BY <1>2, <2>1 DEF query_and_deserialize, NA, Error
<1>3. CASE q = EmptyQuery
  <2>1. Promise!AnswerTo(call, d, q) = Value(d, EmptyQuery)
    BY <1>1, <1>3, SameWords DEF Promise!AnswerTo
  <2>2. Value(d, EmptyQuery).is # Error.is BY DEF Value, Error
  <2> QED BY <1>1, <1>3, <2>1, <2>2 DEF query_and_deserialize
<1>4. CASE q \in Query \ {EmptyQuery}
  <2>1. q # NA_STRING BY <1>4, DocumentsAssumption
  <2>2. Promise!AnswerTo(call, d, q) =
          IF <<d, q>> \in Resolves THEN Value(d, q)
          ELSE IF call.query_error_ok THEN OnQueryError ELSE Error
    BY <1>1, <1>4, <2>1, SameWords DEF Promise!AnswerTo
  <2>3. Value(d, q).is # Error.is /\ OnQueryError # Error
    BY DEF Value, OnQueryError, Error
  <2> QED BY <1>4, <2>1, <2>2, <2>3 DEF query_and_deserialize
<1> QED BY <1>2, <1>3, <1>4

-----------------------------------------------------------------------------
(* Rows *)

(* A row that is a lone object, and one that is a list of answers.         *)
LEMMA LoneRow ==
    ASSUME NEW c \in Call, NEW k, Promise!IsLone(c, k)
    PROVE  /\ c.parse_error_ok /\ Document(c, k) \notin Broken =>
                /\ Promise!RowOf(c, k) = [lone |-> TRUE, cells |-> <<OnParseError>>]
                /\ ~Promise!Fails(c, k)
           /\ ~(c.parse_error_ok /\ Document(c, k) \notin Broken) => Promise!Fails(c, k)
<1> DEFINE a == Promise!Unparsed(c, Document(c, k))
<1>1. Promise!RowOf(c, k) = [lone |-> TRUE, cells |-> <<a>>]
  BY SameWords DEF Promise!RowOf
<1>2. a = IF c.parse_error_ok /\ Document(c, k) \notin Broken THEN OnParseError ELSE Error
  BY SameWords DEF Promise!Unparsed
<1> HIDE DEF a
<1>3. Promise!Fails(c, k) <=> a = Error
  BY <1>1, SameWords DEF Promise!Fails
<1>4. OnParseError # Error BY DEF OnParseError, Error
<1> QED BY <1>1, <1>2, <1>3, <1>4

Cells(c, k) ==
    [m \in 1 .. Len(Queries(c, k)) |->
       Promise!AnswerTo(c, Document(c, k), Queries(c, k)[m])]

LEMMA ListRow ==
    ASSUME NEW c \in Call, NEW k, ~Promise!IsLone(c, k),
           Queries(c, k) \in Seq(Query \cup {NA_STRING})
    PROVE  /\ Promise!RowOf(c, k) = [lone |-> FALSE, cells |-> Cells(c, k)]
           /\ Promise!Fails(c, k) <=>
                \E m \in 1 .. Len(Queries(c, k)) :
                   Promise!AnswerTo(c, Document(c, k), Queries(c, k)[m]) = Error
<1>1. DOMAIN Queries(c, k) = 1 .. Len(Queries(c, k)) OBVIOUS
<1>2. Promise!RowOf(c, k) = [lone |-> FALSE, cells |-> Cells(c, k)]
  BY <1>1, SameWords DEF Promise!RowOf, Cells
<1>3. DOMAIN Cells(c, k) = 1 .. Len(Queries(c, k)) BY DEF Cells
<1>4. \A m \in 1 .. Len(Queries(c, k)) :
        Cells(c, k)[m] = Promise!AnswerTo(c, Document(c, k), Queries(c, k)[m])
  BY DEF Cells
<1> QED BY <1>2, <1>3, <1>4, SameWords DEF Promise!Fails

(* The cells of a row that has been completed are the row's. *)
LEMMA CompleteRow ==
    ASSUME TypeOK, CellsRight, pc \in {"next", "query"}, i <= n, j > Len(query),
           ~Promise!IsLone(call, i)
    PROVE  /\ Promise!RowOf(call, i) = [lone |-> FALSE, cells |-> res]
           /\ ~Promise!Fails(call, i)
<1>1. /\ call \in Call /\ i \in 1 .. n
      /\ query \in Seq(Query \cup {NA_STRING})
  BY Arguments DEF TypeOK, query, n
<1>2. /\ Promise!RowOf(call, i) = [lone |-> FALSE, cells |-> Cells(call, i)]
      /\ Promise!Fails(call, i) <=>
           \E m \in 1 .. Len(query) : Promise!AnswerTo(call, json, query[m]) = Error
  BY <1>1, ListRow DEF query, json
<1>3. Len(query) \in Nat /\ j = Len(query) + 1 /\ Len(res) = Len(query)
  BY <1>1 DEF CellsRight, TypeOK
<1>4. \A m \in 1 .. Len(query) :
        res[m] = Promise!AnswerTo(call, json, query[m]) /\ res[m] # Error
  BY <1>3 DEF CellsRight
<1>5. res = Cells(call, i)
  <2>1. res = [m \in 1 .. Len(query) |-> res[m]] BY <1>3 DEF TypeOK
  <2>2. Cells(call, i) = [m \in 1 .. Len(query) |-> Promise!AnswerTo(call, json, query[m])]
    BY DEF Cells, json, query
  <2> QED BY <1>4, <2>1, <2>2
<1>6. ~Promise!Fails(call, i) BY <1>2, <1>4
<1> QED BY <1>2, <1>5, <1>6

(* Which rows can be lone. *)
LEMMA LoneOnlyApart ==
    ASSUME TypeOK
    PROVE  /\ ~parses_apart => \A k : ~Promise!IsLone(call, k)
           /\ parses_apart => \A k :
                Promise!IsLone(call, k) <=> Document(call, k) \in Junk \cup {NA_STRING}
<1>1. parses_apart <=> Promise!Together(call) BY ApartIsTogether DEF TypeOK
<1> QED BY <1>1, SameWords DEF Promise!IsLone

-----------------------------------------------------------------------------
(* The invariant *)

LEMMA InitIInv == Init => IInv
<1> SUFFICES ASSUME Init PROVE IInv OBVIOUS
<1>1. call \in Call /\ IsChecked(call) BY CallsAssumption DEF Init
<1>2. n \in Nat /\ (1 <= n => query \in Seq(Query \cup {NA_STRING}))
  BY <1>1, Arguments DEF Init, n, query
<1>3. TypeOK BY <1>1, <1>2 DEF Init, TypeOK, start, n
<1>4. RowsRight BY DEF Init, RowsRight
<1>5. CellsRight BY <1>2 DEF Init, CellsRight
<1>6. LoopRight BY DEF Init, LoopRight, start
<1>7. EndRight BY DEF Init, EndRight, start
<1> QED BY <1>3, <1>4, <1>5, <1>6, <1>7 DEF IInv

(* The next cell of the row takes its answer. *)
LEMMA GiveIInv ==
    ASSUME IInv, pc \in {"next", "query"}, i <= n, j <= Len(query), call' = call,
           tape' \in (Doc \ Junk) \cup {None}, pc = "query" => tape' = tape,
           Give(Promise!AnswerTo(call, json, query[j])),
           Promise!AnswerTo(call, json, query[j]) # Error
    PROVE  IInv'
<1> DEFINE a == Promise!AnswerTo(call, json, query[j])
<1>1. /\ call \in Call /\ i \in 1 .. n /\ n \in Nat
      /\ json \in Doc \cup {NA_STRING} /\ query \in Seq(Query \cup {NA_STRING})
  BY Arguments DEF IInv, TypeOK, query, json, n
<1>2. j \in 1 .. Len(query) /\ Len(query) \in Nat BY <1>1 DEF IInv, TypeOK
<1>3. a \in Answer
  <2>1. query[j] \in Query \cup {NA_STRING} BY <1>1, <1>2
  <2> QED BY <1>1, <2>1, AnswerType
<1>4. /\ res' = Append(res, a) /\ j' = j + 1 /\ i' = i /\ pc' = pc /\ out' = out
      /\ call' = call
  BY DEF Give
<1>5. n' = n /\ json' = json /\ query' = query /\ (parses_apart' <=> parses_apart)
      /\ (single_json' <=> single_json)
  BY <1>4 DEF n, json, query, parses_apart, single_query, single_json
<1> HIDE DEF a
<1>6. TypeOK' BY <1>1, <1>3, <1>4, <1>5 DEF IInv, TypeOK, n
<1>7. RowsRight' BY <1>4, <1>5 DEF IInv, RowsRight
<1>8. CellsRight'
  <2>1. j' <= Len(query) + 1 BY <1>2, <1>4
  <2>2. ASSUME NEW m \in 1 .. j' - 1
        PROVE  res'[m] = Promise!AnswerTo(call, json, query[m]) /\ res'[m] # Error
    <3>1. res \in Seq(Answer) /\ Len(res) = j - 1 BY DEF IInv, TypeOK
    <3>2. CASE m = j BY <1>2, <1>3, <1>4, <3>1, <3>2 DEF a
    <3>3. CASE m < j
      <4>1. m \in 1 .. j - 1 /\ res'[m] = res[m] BY <1>2, <1>3, <1>4, <3>1, <3>3
      <4> QED BY <1>1, <4>1 DEF IInv, CellsRight
    <3>4. m = j \/ m < j BY <1>2, <1>4
    <3> QED BY <3>2, <3>3, <3>4
  <2> QED BY <1>4, <1>5, <2>1, <2>2 DEF CellsRight
<1>9. LoopRight' BY <1>4, <1>5 DEF IInv, LoopRight
<1>10. EndRight' BY <1>4 DEF EndRight
<1> QED BY <1>6, <1>7, <1>8, <1>9, <1>10 DEF IInv

(* The call stops at a document or query that fails. *)
LEMMA StopIInv ==
    ASSUME IInv, i <= n, call' = call, pc' = "stopped", i' = i, j' = j,
           out' = out, res' = res,
           tape' \in (Doc \ Junk) \cup {None}, Promise!Fails(call, i)
    PROVE  IInv'
<1>1. i \in 1 .. n /\ n' = n BY DEF IInv, TypeOK, n
<1>2. TypeOK' BY <1>1 DEF IInv, TypeOK, n
<1>3. RowsRight' BY DEF RowsRight
<1>4. CellsRight' BY DEF CellsRight
<1>5. LoopRight' BY DEF LoopRight
<1>6. EndRight' BY <1>1 DEF EndRight
<1> QED BY <1>2, <1>3, <1>4, <1>5, <1>6 DEF IInv

(* A query in the loops, whichever. *)
LEMMA QueryIInv ==
    ASSUME IInv, pc \in {"next", "query"}, i <= n, j <= Len(query), call' = call,
           json \in Doc \ Junk, tape' \in (Doc \ Junk) \cup {None},
           pc = "query" => tape' = tape, query_and_deserialize(json, query[j])
    PROVE  IInv'
<1>1. /\ call \in Call /\ i \in 1 .. n
      /\ query \in Seq(Query \cup {NA_STRING})
  BY Arguments DEF IInv, TypeOK, query, n
<1>2. j \in 1 .. Len(query) /\ query[j] \in Query \cup {NA_STRING}
  BY <1>1 DEF IInv, TypeOK
<1> DEFINE a == Promise!AnswerTo(call, json, query[j])
<1>3. (Give(a) /\ a # Error) \/ (Stop /\ a = Error)
  BY <1>2, QueryAnswers
<1>4. CASE Give(a) /\ a # Error BY <1>4, GiveIInv
<1>5. CASE Stop /\ a = Error
  <2>1. ~Promise!IsLone(call, i)
    BY DocumentsAssumption, LoneOnlyApart DEF IInv, json
  <2>2. Promise!Fails(call, i)
    BY <1>1, <1>2, <1>5, <2>1, ListRow DEF json, query
  <2> QED BY <1>5, <2>2, StopIInv DEF Stop
<1> QED BY <1>3, <1>4, <1>5

LEMMA ParseQueryAndDeserializeIInv == ASSUME IInv, ParseQueryAndDeserialize PROVE IInv'
<1>1. /\ pc = "next" /\ i <= n /\ j <= Len(query) /\ call' = call /\ TypeOK
  BY DEF ParseQueryAndDeserialize, n, IInv
<1>2. /\ call \in Call /\ i \in 1 .. n
      /\ json \in Doc \cup {NA_STRING}
      /\ query \in Seq(Query \cup {NA_STRING})
      /\ tape \in (Doc \ Junk) \cup {None}
  BY <1>1, Arguments DEF TypeOK, query, json, n
<1>3. j \in 1 .. Len(query) BY <1>1, <1>2 DEF TypeOK
<1>4. NA # Error /\ OnParseError # Error BY DEF NA, OnParseError, Error
<1> DEFINE a == Promise!AnswerTo(call, json, query[j])
<1>5. CASE json = NA_STRING
  <2>1. a = NA BY <1>5, DocumentsAssumption, SameWords DEF Promise!AnswerTo
  <2>2. Give(a) /\ tape' = tape BY <1>5, <2>1 DEF ParseQueryAndDeserialize
  <2> QED BY <1>1, <1>2, <1>4, <2>1, <2>2, GiveIInv
<1>6. CASE json \in Junk
  <2>1. a = IF Pardoned THEN OnParseError ELSE Error
    BY <1>6, DocumentsAssumption, SameWords
    DEF Promise!AnswerTo, Promise!Unparsed, Pardoned
  <2>2. /\ tape' = None
        /\ IF Pardoned THEN Give(OnParseError) ELSE Stop
    BY <1>6, DocumentsAssumption DEF ParseQueryAndDeserialize, parse
  <2>3. CASE Pardoned
    BY <1>1, <1>4, <2>1, <2>2, <2>3, GiveIInv
  <2>4. CASE ~Pardoned
    <3>1. ~Promise!IsLone(call, i) BY <1>1, LoneOnlyApart DEF IInv, LoopRight
    <3>2. Promise!Fails(call, i)
      BY <1>2, <1>3, <2>1, <2>4, <3>1, ListRow DEF json, query
    <3> QED BY <1>1, <2>2, <2>4, <3>2, StopIInv DEF Stop
  <2> QED BY <2>3, <2>4
<1>7. CASE json \in Doc \ Junk
  <2>1. tape' = json /\ query_and_deserialize(json, query[j])
    BY <1>7, DocumentsAssumption, NoneAssumption DEF ParseQueryAndDeserialize, parse
  <2> QED BY <1>1, <1>7, <2>1, QueryIInv
<1> QED BY <1>2, <1>5, <1>6, <1>7

LEMMA QueryAndDeserializeIInv == ASSUME IInv, QueryAndDeserialize PROVE IInv'
<1>1. /\ pc = "query" /\ i <= n /\ j <= Len(query) /\ call' = call
      /\ tape' = tape /\ query_and_deserialize(tape, query[j])
  BY DEF QueryAndDeserialize, n
<1>2. tape = json /\ json \in Doc \ Junk BY <1>1 DEF IInv, LoopRight
<1> QED BY <1>1, <1>2, QueryIInv

(* A call whose shape does not change has the same arguments at the same   *)
(* document.                                                               *)
LEMMA SameArguments ==
    ASSUME call' = call
    PROVE  /\ n' = n /\ (parses_apart' <=> parses_apart) /\ (single_json' <=> single_json)
           /\ i' = i => json' = json /\ query' = query
           /\ single_json => json' = json
BY DEF n, json, query, parses_apart, single_query, single_json, Document

(* A row that is added to the right rows. *)
LEMMA AppendRow ==
    ASSUME out \in Seq(Row), i \in 1 .. n, n \in Nat, Len(out) = i - 1,
           \A k \in 1 .. i - 1 : out[k] = Promise!RowOf(call, k) /\ ~Promise!Fails(call, k),
           NEW row \in Row, row = Promise!RowOf(call, i), ~Promise!Fails(call, i),
           out' = Append(out, row), i' = i + 1
    PROVE  /\ Len(out') = i' - 1
           /\ \A k \in 1 .. i' - 1 : out'[k] = Promise!RowOf(call, k) /\ ~Promise!Fails(call, k)
<1>1. Len(out') = i' - 1 OBVIOUS
<1>2. ASSUME NEW k \in 1 .. i' - 1
      PROVE  out'[k] = Promise!RowOf(call, k) /\ ~Promise!Fails(call, k)
  <2>1. CASE k = i BY <2>1
  <2>2. CASE k \in 1 .. i - 1
    <3>1. out'[k] = out[k] BY <2>2
    <3> QED BY <2>2, <3>1
  <2>3. k = i \/ k \in 1 .. i - 1 OBVIOUS
  <2> QED BY <2>1, <2>2, <2>3
<1> QED BY <1>1, <1>2

(* A document is parsed for all its queries. *)
LEMMA ParseIInv == ASSUME IInv, Parse PROVE IInv'
<1>1. /\ pc = "parse" /\ i <= n /\ call' = call /\ TypeOK /\ tape' = parse(json)
      /\ j' = j /\ res' = res /\ parses_apart /\ j = 1
  BY DEF Parse, n, IInv, LoopRight
<1>2. /\ call \in Call /\ i \in 1 .. n /\ n \in Nat
      /\ json \in Doc \cup {NA_STRING}
      /\ query \in Seq(Query \cup {NA_STRING})
  BY <1>1, Arguments DEF TypeOK, json, query, n
<1>3. Promise!IsLone(call, i) <=> json \in Junk \cup {NA_STRING}
  BY <1>1, LoneOnlyApart DEF json
<1>4. /\ n' = n /\ (parses_apart' <=> parses_apart) /\ (single_json' <=> single_json)
      /\ i' = i => json' = json /\ query' = query
  BY <1>1, SameArguments
<1>5. RowsRight /\ Len(out) = i - 1
      /\ \A k \in 1 .. i - 1 : out[k] = Promise!RowOf(call, k) /\ ~Promise!Fails(call, k)
  BY <1>1 DEF IInv, RowsRight
<1>6. CASE json \in Doc \ Junk
  <2>1. tape' = json /\ pc' = "query" /\ i' = i /\ out' = out
    BY <1>1, <1>6, DocumentsAssumption, NoneAssumption DEF Parse, parse
  <2>2. TypeOK' BY <1>1, <1>4, <1>6, <2>1 DEF TypeOK, n
  <2>3. RowsRight' BY <1>1, <1>5, <2>1 DEF RowsRight
  <2>4. CellsRight' BY <1>1, <1>2, <1>4, <2>1 DEF CellsRight
  <2>5. LoopRight' BY <1>1, <1>2, <1>4, <1>6, <2>1 DEF LoopRight
  <2>6. EndRight' BY <2>1 DEF EndRight
  <2> QED BY <2>2, <2>3, <2>4, <2>5, <2>6 DEF IInv
<1>7. CASE json \in Junk \cup {NA_STRING} /\ ~Pardoned
  <2>1. tape' = None /\ pc' = "stopped" /\ i' = i /\ out' = out
    BY <1>1, <1>7 DEF Parse, parse
  <2>2. Promise!Fails(call, i) BY <1>2, <1>3, <1>7, LoneRow DEF Pardoned, json
  <2> QED BY <1>1, <2>1, <2>2, StopIInv
<1>8. CASE json \in Junk \cup {NA_STRING} /\ Pardoned
  <2> DEFINE row == [lone |-> TRUE, cells |-> <<OnParseError>>]
  <2>1. /\ tape' = None /\ i' = i + 1 /\ out' = Append(out, row)
        /\ pc' = IF single_json THEN "done" ELSE "parse"
    BY <1>1, <1>8 DEF Parse, parse
  <2>2. row = Promise!RowOf(call, i) /\ ~Promise!Fails(call, i)
    BY <1>2, <1>3, <1>8, LoneRow DEF Pardoned, json
  <2>3. row \in Row
    <3>1. OnParseError \in Answer BY DEF OnParseError, Answer
    <3> QED BY <3>1 DEF Row
  <2> HIDE DEF row
  <2>4. TypeOK' BY <1>1, <1>2, <1>4, <2>1, <2>3 DEF TypeOK, n
  <2>5. /\ Len(out') = i' - 1
        /\ \A k \in 1 .. i' - 1 : out'[k] = Promise!RowOf(call, k) /\ ~Promise!Fails(call, k)
    BY <1>1, <1>2, <1>5, <2>1, <2>2, <2>3, AppendRow DEF TypeOK
  <2>6. RowsRight' BY <1>1, <2>5 DEF RowsRight
  <2>7. CASE ~single_json
    <3>1. pc' = "parse" BY <2>1, <2>7
    <3>2. CellsRight' BY <1>1, <1>2, <2>1, <2>4, <3>1 DEF CellsRight, TypeOK
    <3>3. LoopRight' BY <1>1, <1>4, <2>7, <3>1 DEF LoopRight
    <3>4. EndRight' BY <3>1 DEF EndRight
    <3> QED BY <2>4, <2>6, <3>2, <3>3, <3>4 DEF IInv
  <2>8. CASE single_json
    <3>1. pc' = "done" /\ i = 1 BY <1>1, <2>1, <2>8 DEF IInv, LoopRight
    <3>2. CellsRight' BY <3>1 DEF CellsRight
    <3>3. LoopRight' BY <3>1 DEF LoopRight
    <3>4. out' = <<Promise!RowOf(call, 1)>>
      BY <1>1, <1>5, <2>1, <2>2, <3>1 DEF TypeOK
    <3>5. Promise!Rows(call) = <<Promise!RowOf(call, 1)>>
      BY <1>3, <1>8, <2>8, <3>1, SameWords DEF Promise!Rows, single_json
    <3>6. ASSUME NEW k \in 1 .. n PROVE ~Promise!Fails(call, k)
      <4>1. Document(call, k) = json BY <2>8 DEF Document, json, single_json
      <4>2. Promise!IsLone(call, k) BY <1>1, <1>8, <4>1, LoneOnlyApart
      <4> QED BY <1>2, <1>8, <4>1, <4>2, LoneRow DEF Pardoned
    <3>7. EndRight' BY <1>1, <1>4, <3>1, <3>4, <3>5, <3>6 DEF EndRight
    <3> QED BY <2>4, <2>6, <3>2, <3>3, <3>7 DEF IInv
  <2> QED BY <2>7, <2>8
<1> QED BY <1>2, <1>6, <1>7, <1>8

LEMMA RowEndIInv == ASSUME IInv, RowEnd PROVE IInv'
<1> DEFINE row == [lone |-> FALSE, cells |-> res]
<1>1. /\ pc \in {"next", "query"} /\ i <= n /\ j > Len(query) /\ call' = call /\ TypeOK
      /\ tape' = tape /\ res' = <<>> /\ j' = 1 /\ i' = i + 1 /\ out' = Append(out, row)
      /\ pc' = IF parses_apart /\ ~single_json THEN "parse" ELSE pc
  BY DEF RowEnd, n, IInv
<1>2. /\ call \in Call /\ i \in 1 .. n /\ n \in Nat /\ json \in Doc \cup {NA_STRING}
  BY <1>1, Arguments DEF TypeOK, json, n
<1>3. ~Promise!IsLone(call, i)
  <2>1. CASE pc = "next" BY <1>1, <2>1, LoneOnlyApart DEF IInv, LoopRight
  <2>2. CASE pc = "query"
    BY <1>1, <2>2, LoneOnlyApart, DocumentsAssumption DEF IInv, LoopRight, json
  <2> QED BY <1>1, <2>1, <2>2
<1>4. row = Promise!RowOf(call, i) /\ ~Promise!Fails(call, i)
  BY <1>1, <1>3, CompleteRow DEF IInv
<1>5. row \in Row BY <1>1 DEF TypeOK, Row
<1>6. /\ n' = n /\ (parses_apart' <=> parses_apart) /\ (single_json' <=> single_json)
      /\ single_json => json' = json
  BY <1>1, SameArguments
<1> HIDE DEF row
<1>7. TypeOK' BY <1>1, <1>2, <1>5, <1>6 DEF TypeOK, n
<1>8. RowsRight'
  <2>1. /\ Len(out) = i - 1
        /\ \A k \in 1 .. i - 1 : out[k] = Promise!RowOf(call, k) /\ ~Promise!Fails(call, k)
    BY <1>1 DEF IInv, RowsRight
  <2>2. /\ Len(out') = i' - 1
        /\ \A k \in 1 .. i' - 1 : out'[k] = Promise!RowOf(call, k) /\ ~Promise!Fails(call, k)
    BY <1>1, <1>2, <1>4, <1>5, <2>1, AppendRow DEF TypeOK
  <2> QED BY <1>1, <2>2 DEF RowsRight
<1>9. CellsRight' BY <1>1 DEF CellsRight
<1>10. LoopRight'
  <2>1. CASE parses_apart /\ ~single_json
    BY <1>1, <1>6, <2>1 DEF LoopRight
  <2>2. CASE ~(parses_apart /\ ~single_json)
    <3>1. pc' = pc BY <1>1, <2>2
    <3>2. pc = "query" => single_json BY <1>1, <2>2 DEF IInv, LoopRight
    <3> QED BY <1>1, <1>6, <3>1, <3>2 DEF IInv, LoopRight
  <2> QED BY <2>1, <2>2
<1>11. EndRight' BY <1>1 DEF EndRight
<1> QED BY <1>7, <1>8, <1>9, <1>10, <1>11 DEF IInv

LEMMA FinishIInv == ASSUME IInv, Finish PROVE IInv'
<1>1. /\ pc \in {"next", "parse", "query"} /\ i > n /\ pc' = "done" /\ TypeOK
      /\ UNCHANGED <<call, i, j, tape, out, res>>
  BY DEF Finish, n, IInv
<1>2. call \in Call /\ n \in Nat /\ (single_json => n >= 1) /\ i = n + 1
  BY <1>1, Arguments DEF TypeOK, n, single_json
<1>3. Len(out) = n /\ \A k \in 1 .. n : out[k] = Promise!RowOf(call, k) /\ ~Promise!Fails(call, k)
  BY <1>1, <1>2 DEF IInv, RowsRight
<1>4. ~(single_json /\ Promise!IsLone(call, 1))
  <2> SUFFICES ASSUME single_json PROVE ~Promise!IsLone(call, 1) OBVIOUS
  <2>1. CASE pc = "next" BY <1>1, <2>1, LoneOnlyApart DEF IInv, LoopRight
  <2>2. pc # "parse" BY <1>2 DEF IInv, LoopRight
  <2>3. CASE pc = "query"
    <3>1. Document(call, 1) = json BY DEF Document, json, single_json
    <3> QED BY <1>1, <2>3, <3>1, LoneOnlyApart, DocumentsAssumption DEF IInv, LoopRight
  <2> QED BY <1>1, <2>1, <2>2, <2>3
<1>5. out = Promise!Rows(call)
  <2>1. Promise!Rows(call) = [k \in 1 .. n |-> Promise!RowOf(call, k)]
    BY <1>4, SameWords DEF Promise!Rows, single_json, n
  <2>2. out = [k \in 1 .. n |-> out[k]] BY <1>1, <1>3 DEF TypeOK
  <2> QED BY <1>3, <2>1, <2>2
<1>6. TypeOK' BY <1>1 DEF TypeOK
<1>7. RowsRight' /\ CellsRight' /\ LoopRight' BY <1>1 DEF RowsRight, CellsRight, LoopRight
<1>8. EndRight' BY <1>1, <1>3, <1>5 DEF EndRight, n
<1> QED BY <1>6, <1>7, <1>8 DEF IInv

LEMMA NextIInv == IInv /\ [Next]_vars => IInv'
<1> SUFFICES ASSUME IInv, [Next]_vars PROVE IInv' OBVIOUS
<1>1. CASE ParseQueryAndDeserialize BY <1>1, ParseQueryAndDeserializeIInv
<1>2. CASE Parse BY <1>2, ParseIInv
<1>3. CASE QueryAndDeserialize BY <1>3, QueryAndDeserializeIInv
<1>4. CASE RowEnd BY <1>4, RowEndIInv
<1>5. CASE Finish BY <1>5, FinishIInv
<1>6. CASE UNCHANGED vars
  <2>1. TypeOK' BY <1>6 DEF vars, IInv, TypeOK
  <2>2. RowsRight' /\ CellsRight'
    BY <1>6 DEF vars, IInv, RowsRight, CellsRight, n, json, query
  <2>3. LoopRight'
    BY <1>6 DEF vars, IInv, LoopRight, n, json, parses_apart, single_json, single_query
  <2>4. EndRight' BY <1>6 DEF vars, IInv, EndRight, n
  <2> QED BY <2>1, <2>2, <2>3, <2>4 DEF IInv
<1> QED BY <1>1, <1>2, <1>3, <1>4, <1>5, <1>6 DEF Next, Returned

LEMMA IInvHolds == Spec => []IInv
BY InitIInv, NextIInv, PTL DEF Spec

-----------------------------------------------------------------------------
(* Theorems *)

(* The variables keep their types. *)
THEOREM TypeCorrect == Spec => []TypeOK
<1>1. IInv => TypeOK BY DEF IInv
<1> QED BY <1>1, IInvHolds, PTL

(* No query is ever answered from an element whose document the parser no  *)
(* longer holds.                                                           *)
THEOREM AlwaysCurrent == Spec => []ElementIsCurrent
<1>1. IInv => ElementIsCurrent BY DEF IInv, LoopRight, ElementIsCurrent
<1> QED BY <1>1, IInvHolds, PTL

-----------------------------------------------------------------------------
(* Refinement *)

LEMMA InitImplements == Init => Promise!Init
<1> SUFFICES ASSUME Init PROVE Promise!Init OBVIOUS
<1>1. call \in Promise!Call /\ Promise!IsChecked(call)
  BY CallsAssumption, SameWords DEF Init
<1>2. pc # "done" /\ pc # "stopped" BY DEF Init, start
<1> QED BY <1>1, <1>2 DEF Promise!Init

(* A step that ends the call is the abstract one that ends it so; all      *)
(* others are invisible.                                                   *)
LEMMA StepImplements ==
    ASSUME IInv, IInv', [Next]_vars PROVE [Promise!Next]_(Promise!vars)
<1>1. CASE UNCHANGED vars BY <1>1 DEF vars, Promise!vars
<1> SUFFICES ASSUME Next, ~UNCHANGED vars PROVE [Promise!Next]_(Promise!vars)
  BY <1>1
<1>2. call' = call /\ pc \in {"next", "parse", "query"}
  BY DEF Next, ParseQueryAndDeserialize, Parse, QueryAndDeserialize, RowEnd, Finish, Returned
<1>3. n' = n /\ n = Promise!n_rows(call) BY <1>2, SameWords DEF n
<1>4. CASE pc' = "done"
  <2>1. out' = Promise!Rows(call) /\ \A k \in 1 .. n : ~Promise!Fails(call, k)
    BY <1>2, <1>3, <1>4 DEF IInv, EndRight
  <2>2. Promise!Return BY <1>2, <1>3, <1>4, <2>1 DEF Promise!Return
  <2> QED BY <2>2 DEF Promise!Next
<1>5. CASE pc' = "stopped"
  <2>1. \E k \in 1 .. n : Promise!Fails(call, k)
    BY <1>2, <1>3, <1>5 DEF IInv, EndRight
  <2>2. Promise!Stop BY <1>2, <1>3, <1>5, <2>1 DEF Promise!Stop
  <2> QED BY <2>2 DEF Promise!Next
<1>6. CASE pc' \notin {"done", "stopped"}
  BY <1>2, <1>6 DEF Promise!vars
<1> QED BY <1>4, <1>5, <1>6

(* Whatever the shape of a call, its answers are those that each document  *)
(* and query would have by themselves, and one error is the error of all.  *)
THEOREM LoopsImplementAnswers == Spec => ImplementsAnswers
<1>1. IInv /\ IInv' /\ [Next]_vars => [Promise!Next]_(Promise!vars)
  BY StepImplements
<1> QED
  BY <1>1, InitImplements, IInvHolds, PTL DEF Spec, ImplementsAnswers, Promise!Spec
=============================================================================
