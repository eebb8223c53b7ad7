------------------------------ MODULE Simplify ------------------------------
(***************************************************************************)
(* simplify_element() and the functions it calls, which call it again for  *)
(* nested values: how one parsed document becomes R objects, while any     *)
(* allocation may collect every object that C++ has not protected.         *)
(*                                                                         *)
(* The stack holds one frame per running call of simplify_element(): the   *)
(* node, its template arguments, where it is and its loops' cursors.       *)
(* Rcpp::Shield pushes on R's protection stack; Rcpp's vector classes      *)
(* enter their object into the list of precious objects.  Destructors      *)
(* undo both, on return and when a C++ exception passes, and not when an   *)
(* R error jumps over them.  An SEXP that is returned is protected by      *)
(* nothing until the caller stores it.                                     *)
(*                                                                         *)
(* R is taken to collect at each allocation all that it may collect.       *)
(***************************************************************************)
EXTENDS Simplification

CONSTANTS Docs,     \* the documents the program may be given
          Options,  \* the options of the call
          None      \* no object

(* An address says for which node the object is, and which one. *)
Address == Nat \X {"empty_array", "empty_object", "single_null",
                   "out", "names", "vec", "na"} \X Nat

ASSUME NoneAssumption == None \notin Address
ASSUME DocumentsAssumption == \A d \in Docs : IsDocument(d)
ASSUME SimplifyOptionsAssumption == Options \subseteq Option

VARIABLES doc, option, \* the document, and how to simplify it
          stack,      \* the running calls, the last one on top
          ret,        \* the SEXP that the last call returned
          heap,       \* address -> RObject whose elements may be addresses
          protects, precious,
          status      \* "running", "throwing", "returned", "thrown", "jumped"
args == <<doc, option>>
vars == <<args, stack, ret, heap, protects, precious, status>>

Running == status = "running"
top  == stack[Len(stack)]
node == top.node
opts == top.opts
here == doc.items[node]

(* The addresses of the objects that a call makes for its node. *)
out       == <<node, "out", 0>>
out_names == <<node, "names", 0>>
vec(j)    == <<node, "vec", j>>
na(j)     == <<node, "na", j>>

CallersObject(kind) ==
    <<0, CASE kind = "ARRAY"      -> "empty_array"
           [] kind = "OBJECT"     -> "empty_object"
           [] kind = "NULL_VALUE" -> "single_null", 0>>

Callers == {CallersObject(kind) : kind \in {"ARRAY", "OBJECT", "NULL_VALUE"}}

Frame(n, o) ==
    [node |-> n, opts |-> o, pc |-> "element", i |-> 1, j |-> 1, kinds |-> <<>>]

Init ==
    /\ doc \in Docs
    /\ option \in Options
    /\ stack = <<Frame(1, option)>>
    /\ ret = None
    /\ heap = [a \in Callers |-> RObject(a[2], <<>>, <<>>)]
    /\ protects = <<>> /\ precious = {}
    /\ status = "running"

-----------------------------------------------------------------------------
(* R's collector *)

IsRecursive(o) == o.class \in {"list", "data.frame"}

Refs(o) ==
    IF IsRecursive(o)
    THEN (Range(o.elems) \ {None}) \cup (IF o.attr = <<>> THEN {} ELSE {o.attr})
    ELSE {}

Reachable ==
    LET From[S \in SUBSET DOMAIN heap] ==
          LET near == S \cup UNION {Refs(heap[a]) : a \in S}
          IN  IF near = S THEN S ELSE From[near]
    IN  From[(Callers \cup Range(protects) \cup precious) \cap DOMAIN heap]

Collected == [a \in Reachable |-> heap[a]]

With(a, obj, h) == [b \in {a} \cup DOMAIN h |-> IF b = a THEN obj ELSE h[b]]

(* An allocation: whatever may be collected is, and a new object is there. *)
Allocate(a, obj) == heap' = With(a, obj, Collected)

(* An allocation of R's own, or a CHARSXP that is stored right away; it    *)
(* happens before object `a' is changed to `obj'.                          *)
AllocateAndSet(a, obj) == heap' = [Collected EXCEPT ![a] = obj]

SetElt(a, k, x) == heap' = [heap EXCEPT ![a].elems[k] = x]

-----------------------------------------------------------------------------
(* Frames *)

SetTop(f) == stack' = [stack EXCEPT ![Len(stack)] = f]
Goto(pc)  == SetTop([top EXCEPT !.pc = pc])

(* The destructors of the running call. *)
Mine == {out, out_names}

LeaveScope ==
    LET n == Cardinality({k \in DOMAIN protects : protects[k] \in Mine})
    IN  /\ protects' = SubSeq(protects, 1, Len(protects) - n)
        /\ precious' = precious \ Mine

Return(a) ==
    /\ ret' = a
    /\ LeaveScope
    /\ stack' = SubSeq(stack, 1, Len(stack) - 1)
    /\ status' = IF Len(stack) = 1 THEN "returned" ELSE "running"

(* A call of simplify_element() with the same template arguments. *)
Call(n) == stack' = Append(stack, Frame(n, opts))

Shield(a)   == protects' = Append(protects, a) /\ UNCHANGED precious
Preserve(a) == precious' = precious \cup {a} /\ UNCHANGED protects

-----------------------------------------------------------------------------
(* simplify_element() and the fallback from level to level *)

SimplifyElement ==
    /\ Running /\ top.pc = "element"
    /\ IF doc.kind[node] \notin {"ARRAY", "OBJECT", "NULL_VALUE"}
       THEN Goto("scalar") /\ UNCHANGED <<ret, protects, precious, status>>
       ELSE IF here = <<>>
       THEN Return(CallersObject(doc.kind[node]))
       ELSE /\ Goto(IF doc.kind[node] = "OBJECT" THEN "object" ELSE opts.simplify_to)
            /\ UNCHANGED <<ret, protects, precious, status>>
    /\ UNCHANGED <<args, heap>>

(* matrix::diagnose(): after each row, its length and the types so far.    *)
diagnose ==
    \A r \in DOMAIN here :
       /\ doc.kind[here[r]] = "ARRAY"
       /\ Len(doc.items[here[r]]) = Len(doc.items[here[1]])
       /\ vectorizable(opts, UNION {kinds_in(doc, doc.items[here[q]]) : q \in 1 .. r})

(* simplify_data_frame(), _matrix() and _vector(): one level further down  *)
(* if this one is not for the array.                                       *)
TryLevel ==
    /\ Running /\ top.pc \in {"data_frame", "matrix", "vector"}
    /\ Goto(CASE top.pc = "data_frame" ->
                   IF IsTable(doc, node) THEN "frame" ELSE "matrix"
              [] top.pc = "matrix" ->
                   IF diagnose THEN "build_matrix" ELSE "vector"
              [] top.pc = "vector" ->
                   IF vectorizable(opts, kinds_in(doc, here)) THEN "build_vector" ELSE "list")
    /\ UNCHANGED <<args, ret, heap, protects, precious, status>>

-----------------------------------------------------------------------------
(* Scalars, vectors and matrices: nothing nested in them.  What the loops  *)
(* of the builders store is taken from their own modules.                  *)

AsVector(d) == INSTANCE Vector WITH
    Arrays <- {}, Options <- {}, array <- <<>>, phase <- "done", i <- 1, out <- <<>>,
    type_policy <- opts.type_policy, int64_opt <- opts.int64_opt, type_doctor <- d

AsMatrix(d, loop) == INSTANCE Matrix WITH
    Arrays <- {}, Options <- {}, array <- <<>>, phase <- loop, row <- 1, col <- 1,
    i <- 0, j <- 0, out <- <<>>, n_cols <- 1,
    type_policy <- opts.type_policy, int64_opt <- opts.int64_opt, matrix_doctor <- d

doctor(s) == DoctorOf(opts.int64_opt, kinds_in(doc, s))
loop_for(d) == IF is_homogeneous(d) THEN "typed" ELSE "mixed"

(* resolve_int64() and Rcpp::wrap() *)
ScalarOf(v) ==
    CASE v.kind \in {"STRING", "UINT64"} -> stored("STRSXP", v)
      [] v.kind = "DOUBLE"               -> stored("REALSXP", v)
      [] v.kind = "BOOL"                 -> stored("LGLSXP", v)
      [] v.kind \in Integers64           ->
           IF v.kind = "INT32" /\ opts.int64_opt # "Always" THEN stored("INTSXP", v)
           ELSE stored(int64_storage(opts.int64_opt), v)

VectorOf(s) ==
    [k \in DOMAIN s |-> IF is_homogeneous(doctor(s))
                        THEN AsVector(doctor(s))!TypedElement(value(doc, s[k]))
                        ELSE AsVector(doctor(s))!MixedElement(value(doc, s[k]))]

MatrixOf(s) ==
    [k \in DOMAIN s |->
       AsMatrix(doctor(s), loop_for(doctor(s)))!Element(value(doc, s[k]))]

Atomic ==
    CASE top.pc = "scalar" ->
           RObject("vector", <<ScalarOf(value(doc, node))>>, <<>>)
      [] top.pc = "build_vector" -> RObject("vector", VectorOf(here), <<>>)
      [] top.pc = "build_matrix" ->
           RObject("matrix", MatrixOf(ByColumn(doc, node)),
                   <<Len(here), Len(doc.items[here[1]])>>)

(* Matrices and integer64 vectors are Rcpp objects, others under a Shield. *)
IsRcppObject ==
    \/ top.pc = "build_matrix"
    \/ \E k \in DOMAIN Atomic.elems : Atomic.elems[k].as = "integer64"

AllocateAtomic ==
    /\ Running /\ top.pc \in {"scalar", "build_vector", "build_matrix"}
    /\ Allocate(out, Atomic)
    /\ IF IsRcppObject THEN Preserve(out) ELSE Shield(out)
    /\ Goto("fill")
    /\ UNCHANGED <<args, ret, status>>

(* The loop, which makes a CHARSXP for each string, and the attributes.    *)
FillAtomic ==
    /\ Running /\ top.pc = "fill"
    /\ AllocateAndSet(out, heap[out])
    /\ Return(out)
    /\ UNCHANGED args

-----------------------------------------------------------------------------
(* simplify_list() and simplify_object() *)

NewList(n) == RObject("list", [k \in 1 .. n |-> None], <<>>)
NewNames(n) == RObject("vector", [k \in 1 .. n |-> None], <<>>)

AllocateList ==
    /\ Running /\ top.pc \in {"list", "object"}
    /\ Allocate(out, NewList(Len(here)))
    /\ Shield(out)
    /\ Goto(IF top.pc = "list" THEN "items" ELSE "names")
    /\ UNCHANGED <<args, ret, status>>

AllocateNames ==
    /\ Running /\ top.pc = "names"
    /\ Allocate(out_names, NewNames(Len(here)))
    /\ Shield(out_names)
    /\ Goto("items")
    /\ UNCHANGED <<args, ret, status>>

(* A seeded fault: nested values are simplified only as far as this one.   *)
CallItemAtOwnLevel ==
    /\ Running /\ top.pc = "items" /\ top.i <= Len(here) /\ ret = None
    /\ stack' = Append(stack,
         Frame(here[top.i], IF doc.kind[node] = "ARRAY"
                            THEN [opts EXCEPT !.simplify_to = "list"] ELSE opts))
    /\ UNCHANGED <<args, ret, heap, protects, precious, status>>

CallItem ==
    /\ Running /\ top.pc = "items" /\ top.i <= Len(here) /\ ret = None
    /\ Call(here[top.i])
    /\ UNCHANGED <<args, ret, heap, protects, precious, status>>

(* A seeded fault: the attributes go to the nested value. *)
SetItemNamed ==
    /\ Running /\ top.pc = "items" /\ ret # None
    /\ heap' = [heap EXCEPT ![out].elems[top.i] = ret, ![ret].attr = <<1>>]
    /\ ret' = None
    /\ IF doc.kind[node] = "OBJECT" THEN Goto("key") ELSE SetTop([top EXCEPT !.i = @ + 1])
    /\ UNCHANGED <<args, protects, precious, status>>

SetItem ==
    /\ Running /\ top.pc = "items" /\ ret # None
    /\ SetElt(out, top.i, ret)
    /\ ret' = None
    /\ IF doc.kind[node] = "OBJECT" THEN Goto("key") ELSE SetTop([top EXCEPT !.i = @ + 1])
    /\ UNCHANGED <<args, protects, precious, status>>

SetKey ==
    /\ Running /\ top.pc = "key"
    /\ AllocateAndSet(out_names,
         [heap[out_names] EXCEPT !.elems[top.i] = doc.keys[node][top.i]])
    /\ SetTop([top EXCEPT !.pc = "items", !.i = @ + 1])
    /\ UNCHANGED <<args, ret, protects, precious, status>>

ReturnList ==
    /\ Running /\ top.pc = "items" /\ top.i > Len(here)
    /\ IF doc.kind[node] = "OBJECT"
       THEN AllocateAndSet(out, [heap[out] EXCEPT !.attr = out_names])
       ELSE UNCHANGED heap
    /\ Return(out)
    /\ UNCHANGED args

-----------------------------------------------------------------------------
(* build_data_frame() and fill_data_frame() *)

cols  == columns(doc, node)
kinds == top.kinds

AllocateFrame ==
    /\ Running /\ top.pc = "frame"
    /\ Allocate(out, RObject("data.frame", [j \in DOMAIN cols |-> None], <<>>))
    /\ Preserve(out)
    /\ SetTop([top EXCEPT !.pc = "frame_names",
                          !.kinds = [j \in DOMAIN cols |->
                                       column_kind(doc, opts, node, cols[j])]])
    /\ UNCHANGED <<args, ret, status>>

AllocateFrameNames ==
    /\ Running /\ top.pc = "frame_names"
    /\ Allocate(out_names, RObject("vector", cols, <<>>))
    /\ Preserve(out_names)
    /\ Goto("columns")
    /\ UNCHANGED <<args, ret, status>>

(* A column of NAs. *)
Column(j) ==
    IF kinds[j] = "list" THEN NewList(Len(here))
    ELSE RObject("vector", [i \in DOMAIN here |-> NA], <<>>)

(* A seeded fault: columns are entered into the data frame when complete.  *)
BuildColumnOutside ==
    /\ Running /\ top.pc = "columns" /\ top.j <= Len(kinds)
    /\ Allocate(vec(top.j), Column(top.j))
    /\ IF kinds[top.j] = "list" THEN Goto("missing") ELSE SetTop([top EXCEPT !.j = @ + 1])
    /\ UNCHANGED <<args, ret, protects, precious, status>>

(* A column is allocated, and in the data frame from then on; its name was *)
(* stored before.                                                          *)
BuildColumn ==
    /\ Running /\ top.pc = "columns" /\ top.j <= Len(kinds)
    /\ heap' = With(vec(top.j), Column(top.j),
                    [Collected EXCEPT ![out].elems[top.j] = vec(top.j)])
    /\ IF kinds[top.j] = "list" THEN Goto("missing") ELSE SetTop([top EXCEPT !.j = @ + 1])
    /\ UNCHANGED <<args, ret, protects, precious, status>>

(* The one NA that all cells of a list column share. *)
FillMissing ==
    /\ Running /\ top.pc = "missing"
    /\ heap' = With(na(top.j), MissingCell,
                    [Collected EXCEPT ![vec(top.j)].elems = [i \in DOMAIN here |-> na(top.j)]])
    /\ SetTop([top EXCEPT !.pc = "columns", !.j = @ + 1])
    /\ UNCHANGED <<args, ret, protects, precious, status>>

ColumnsBuilt ==
    /\ Running /\ top.pc = "columns" /\ top.j > Len(kinds)
    /\ SetTop([top EXCEPT !.pc = "rows", !.i = 1, !.j = 1])
    /\ UNCHANGED <<args, ret, heap, protects, precious, status>>

(* The field the fill loop is at. *)
row_node   == here[top.i]
key        == doc.keys[row_node][top.j]
IsRepeated == \E p \in 1 .. top.j - 1 : doc.keys[row_node][p] = key
column_of  == CHOOSE c \in DOMAIN cols : cols[c] = key
field      == doc.items[row_node][top.j]

InFill     == Running /\ top.pc = "rows" /\ top.i <= Len(here)
AtField    == InFill /\ top.j <= Len(doc.items[row_node])
NextField  == SetTop([top EXCEPT !.j = @ + 1])

FillCell ==
    /\ AtField /\ (IsRepeated \/ kinds[column_of] # "list")
    /\ IF IsRepeated \/ kinds[column_of] = "null" THEN UNCHANGED heap
       ELSE LET c == cell(kinds[column_of], value(doc, field))
            IN  IF kinds[column_of] = "chr"
                THEN AllocateAndSet(vec(column_of),
                       [heap[vec(column_of)] EXCEPT !.elems[top.i] = c])
                ELSE SetElt(vec(column_of), top.i, c)
    /\ NextField
    /\ UNCHANGED <<args, ret, protects, precious, status>>

CallListCell ==
    /\ AtField /\ ~IsRepeated /\ kinds[column_of] = "list" /\ ret = None
    /\ Call(field)
    /\ UNCHANGED <<args, ret, heap, protects, precious, status>>

SetListCell ==
    /\ AtField /\ ~IsRepeated /\ kinds[column_of] = "list" /\ ret # None
    /\ SetElt(vec(column_of), top.i, ret)
    /\ ret' = None
    /\ NextField
    /\ UNCHANGED <<args, protects, precious, status>>

FillRowEnd ==
    /\ InFill /\ top.j > Len(doc.items[row_node])
    /\ SetTop([top EXCEPT !.i = @ + 1, !.j = 1])
    /\ UNCHANGED <<args, ret, heap, protects, precious, status>>

ReturnFrame ==
    /\ Running /\ top.pc = "rows" /\ top.i > Len(here)
    /\ AllocateAndSet(out, [heap[out] EXCEPT !.attr = out_names])
    /\ Return(out)
    /\ UNCHANGED args

-----------------------------------------------------------------------------
(* Errors *)

Allocates ==
    \/ top.pc \in {"scalar", "build_vector", "build_matrix", "fill", "list", "object",
                   "names", "key", "frame", "frame_names", "missing"}
    \/ top.pc = "columns" /\ top.j <= Len(kinds)
    \/ AtField /\ ~IsRepeated /\ kinds[column_of] = "chr"
    \/ top.pc = "rows" /\ top.i > Len(here)
    \/ top.pc = "items" /\ top.i > Len(here) /\ doc.kind[node] = "OBJECT"

(* R is out of memory: its error jumps out of all the calls.  R unwinds    *)
(* its own protection stack; no destructor runs.                           *)
AllocationFails ==
    /\ Running /\ Allocates
    /\ status' = "jumped"
    /\ stack' = <<>> /\ protects' = <<>> /\ ret' = None
    /\ UNCHANGED <<args, heap, precious>>

(* The strings that the next step hands to make_charsxp_cached(). *)
MakesCharsxp ==
    \/ top.pc = "key"
    \/ top.pc = "columns" /\ top.j <= Len(kinds)
    \/ /\ top.pc = "fill"
       /\ \E k \in DOMAIN heap[out].elems : /\ heap[out].elems[k].as = "STRSXP"
                                            /\ heap[out].elems[k].of.kind = "STRING"
    \/ /\ AtField /\ ~IsRepeated /\ kinds[column_of] = "chr"
       /\ doc.kind[field] = "STRING"

(* One of them has a nul in it: make_charsxp() throws. *)
EmbeddedNul ==
    /\ Running /\ MakesCharsxp
    /\ status' = "throwing" /\ ret' = None
    /\ UNCHANGED <<args, stack, heap, protects, precious>>

(* A seeded fault: only Shields are undone. *)
UnwindShieldsOnly ==
    /\ status = "throwing"
    /\ protects' = SelectSeq(protects, LAMBDA a : a \notin Mine)
    /\ stack' = SubSeq(stack, 1, Len(stack) - 1)
    /\ status' = IF Len(stack) = 1 THEN "thrown" ELSE "throwing"
    /\ UNCHANGED <<args, ret, heap, precious>>

(* A seeded fault: the exception stops at the innermost call. *)
UnwindOne ==
    /\ status = "throwing"
    /\ LeaveScope
    /\ stack' = SubSeq(stack, 1, Len(stack) - 1)
    /\ status' = "thrown"
    /\ UNCHANGED <<args, ret, heap>>

(* The exception passes one call, whose destructors run. *)
Unwind ==
    /\ status = "throwing"
    /\ LeaveScope
    /\ stack' = SubSeq(stack, 1, Len(stack) - 1)
    /\ status' = IF Len(stack) = 1 THEN "thrown" ELSE "throwing"
    /\ UNCHANGED <<args, ret, heap>>

Ended == status \in {"returned", "thrown", "jumped"}

(* The call has returned to query_and_deserialize(), or its error has.     *)
Finished == Ended /\ UNCHANGED vars

Next ==
    \/ SimplifyElement \/ TryLevel
    \/ AllocateAtomic \/ FillAtomic
    \/ AllocateList \/ AllocateNames \/ CallItem \/ SetItem \/ SetKey \/ ReturnList
    \/ AllocateFrame \/ AllocateFrameNames \/ BuildColumn \/ FillMissing \/ ColumnsBuilt
    \/ FillCell \/ CallListCell \/ SetListCell \/ FillRowEnd \/ ReturnFrame
    \/ AllocationFails \/ EmbeddedNul \/ Unwind
    \/ Finished

Spec == Init /\ [][Next]_vars

-----------------------------------------------------------------------------
(* Properties *)

(* Every variable holds values of its type; the cursors stay within the    *)
(* document, and calls are running exactly while the status says so.       *)
TypeOK ==
    /\ IsDocument(doc) /\ option \in Option
    /\ \A k \in DOMAIN stack :
         /\ stack[k].node \in nodes(doc)
         /\ stack[k].opts \in Option
         /\ stack[k].i \in 1 .. Len(doc.items[stack[k].node]) + 1
         /\ stack[k].j \in Nat \ {0} /\ stack[k].kinds \in Seq(Col_Kind)
    /\ (stack # <<>>) = (status \in {"running", "throwing"})
    /\ protects \in Seq(nodes(doc) \X {"out", "names"} \X {0})
    /\ precious \subseteq nodes(doc) \X {"out", "names"} \X {0}

(* Inside a call that is to be resumed, and in the running one, the SEXPs  *)
(* that its locals hold.                                                   *)
Locals(f) ==
    LET n == f.node
        made == {"fill", "names", "items", "key", "frame_names", "columns", "missing", "rows"}
    IN  {a \in {<<n, "out", 0>>} : f.pc \in made}
        \cup {a \in {<<n, "names", 0>>} :
                \/ f.pc \in {"key", "columns", "missing", "rows"}
                \/ f.pc = "items" /\ doc.kind[n] = "OBJECT"}
        \cup {<<n, "vec", j>> : j \in
                CASE f.pc = "columns" -> 1 .. f.j - 1
                  [] f.pc = "missing" -> 1 .. f.j
                  [] f.pc = "rows"    -> DOMAIN f.kinds
                  [] OTHER            -> {}}

(* No object is collected that C++ still uses: what the locals of a call   *)
(* point to, what has just been returned, and everything in any of these.  *)
(* In particular a data frame's columns, held as bare pointers, stay while *)
(* nested values are simplified between two of their cells.                *)
NothingInUseIsCollected ==
    Running \/ status = "returned" =>
        LET used == (UNION {Locals(stack[k]) : k \in DOMAIN stack}) \cup ({ret} \ {None})
        IN  /\ used \subseteq DOMAIN heap
            /\ \A a \in used : Refs(heap[a]) \subseteq DOMAIN heap

(* What R sees at an address, when At has what it sees at the others. *)
Seen(At, a) ==
    IF IsRecursive(heap[a])
    THEN RObject(heap[a].class,
                 [k \in DOMAIN heap[a].elems |-> At[heap[a].elems[k]]],
                 IF heap[a].attr = <<>> THEN <<>> ELSE heap[heap[a].attr].elems)
    ELSE heap[a]

Read == LET At[a \in DOMAIN heap] == Seen(At, a) IN At

(* The call returns the R object that the document is promised to become:  *)
(* whatever levels were tried and given up on the way, in whichever array  *)
(* the value is nested, with the same options at every depth, each value   *)
(* stored as the values of one column are.                                 *)
ReturnsItsSimplification ==
    status = "returned" => Read[ret] = Simplified(doc, option)[1]

(* Once the call is over, returned or left by a C++ exception, nothing is  *)
(* protected or precious any more; only R errors leave objects behind.     *)
NothingStaysProtected ==
    status \in {"returned", "thrown"} => protects = <<>> /\ precious = {}

(* An object is complete when it is handed over: no later step of the call *)
(* changes one that a running call did not make for its own node.          *)
HandedOverComplete ==
    [][\A a \in DOMAIN heap \cap DOMAIN heap' :
          heap'[a] # heap[a] => stack # <<>> /\ a[1] = node]_vars
=============================================================================
