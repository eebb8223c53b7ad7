--------------------------- MODULE SimplifyProofs ---------------------------
(***************************************************************************)
(* Proofs about Simplify, for any documents and options: that its calls    *)
(* undo what they protect, that no object is collected while a call still  *)
(* uses it, that none changes once it has been handed over, and that what  *)
(* is returned is what Simplification promises of the document.            *)
(***************************************************************************)
EXTENDS Simplify, FiniteSetTheorems, WellFoundedInduction, TLAPS

(***************************************************************************)
(* What R's collector keeps.                                               *)
(***************************************************************************)

(* f follows near from any set until that adds nothing. *)
Follows(f, near, D) == f = [S \in SUBSET D |-> IF near[S] = S THEN S ELSE f[near[S]]]

LEMMA HasFixpoint ==
    ASSUME NEW D, NEW near \in [SUBSET D -> SUBSET D],
           \A S \in SUBSET D : S \subseteq near[S],
           \A S, T \in SUBSET D : S \subseteq T => near[S] \subseteq near[T]
    PROVE  \E f : Follows(f, near, D)
<1> DEFINE Least(S) == {a \in D : \A T \in SUBSET D : S \subseteq T /\ near[T] = T => a \in T}
           f == [S \in SUBSET D |-> Least(S)]
<1>1. ASSUME NEW S \in SUBSET D
      PROVE  Least(S) = IF near[S] = S THEN S ELSE f[near[S]]
  <2>1. CASE near[S] = S
    <3>1. Least(S) = S BY <2>1
    <3> QED BY <2>1, <3>1
  <2>2. CASE near[S] # S
    <3>1. \A T \in SUBSET D : near[T] = T => (S \subseteq T <=> near[S] \subseteq T)
      OBVIOUS
    <3>2. Least(near[S]) = Least(S) BY <3>1
    <3>3. f[near[S]] = Least(near[S]) OBVIOUS
    <3> QED BY <2>2, <3>2, <3>3
  <2> QED BY <2>1, <2>2
<1> HIDE DEF Least
<1>2. f = [S \in SUBSET D |-> IF near[S] = S THEN S ELSE f[near[S]]] BY <1>1
<1> QED BY <1>2 DEF Follows

(* There is no largest set for which it would not come to a fixed point.   *)
LEMMA FixpointIsClosed ==
    ASSUME NEW D, IsFiniteSet(D), NEW near \in [SUBSET D -> SUBSET D],
           \A S \in SUBSET D : S \subseteq near[S],
           NEW f, Follows(f, near, D)
    PROVE  \A S \in SUBSET D :
              f[S] \in SUBSET D /\ S \subseteq f[S] /\ near[f[S]] = f[S]
<1> DEFINE Good(S) == f[S] \in SUBSET D /\ S \subseteq f[S] /\ near[f[S]] = f[S]
           Bad  == {S \in SUBSET D : ~Good(S)}
           Rest == {D \ S : S \in Bad}
<1>1. ASSUME NEW S \in SUBSET D, near[S] = S \/ Good(near[S]) PROVE Good(S)
  <2>1. f[S] = IF near[S] = S THEN S ELSE f[near[S]] BY DEF Follows
  <2> QED BY <1>1, <2>1
<1> HIDE DEF Good
<1>2. ASSUME Bad # {} PROVE FALSE
  <2>1. Rest # {} /\ Rest \subseteq FiniteSubsetsOf(D)
    <3>1. \A S \in SUBSET D : IsFiniteSet(D \ S) /\ D \ S \subseteq D BY FS_Subset
    <3>2. Rest # {}
      <4>1. PICK S \in Bad : TRUE BY <1>2
      <4>2. D \ S \in Rest OBVIOUS
      <4> QED BY <4>2
    <3>3. ASSUME NEW X \in Rest PROVE X \in FiniteSubsetsOf(D)
      <4>1. PICK S \in Bad : X = D \ S OBVIOUS
      <4> QED BY <3>1, <4>1 DEF FiniteSubsetsOf
    <3> QED BY <3>2, <3>3
  <2>2. IsWellFoundedOn(StrictSubsetOrdering(D), FiniteSubsetsOf(D))
    BY FS_StrictSubsetOrderingWellFounded
  <2> HIDE DEF Rest
  <2>3. PICK X \in Rest : \A Y \in Rest : ~ (<<Y, X>> \in StrictSubsetOrdering(D))
    BY <2>1, <2>2, WFMin
  <2>4. PICK S \in Bad : X = D \ S BY DEF Rest
  <2>5. S \in SUBSET D /\ near[S] # S /\ near[S] \in Bad /\ S \subseteq near[S] BY <1>1
  <2>6. <<D \ near[S], X>> \in StrictSubsetOrdering(D) /\ D \ near[S] \in Rest
    BY <2>4, <2>5 DEF StrictSubsetOrdering, Rest
  <2> QED BY <2>3, <2>6
<1> QED BY <1>2 DEF Good

NoDangling == \A a \in DOMAIN heap : Refs(heap[a]) \subseteq DOMAIN heap

Roots == Callers \cup Range(protects) \cup precious

(* What is protected is kept, and all that what is kept refers to. *)
LEMMA ReachableIsClosed ==
    ASSUME IsFiniteSet(DOMAIN heap), NoDangling
    PROVE  /\ Reachable \subseteq DOMAIN heap
           /\ Roots \cap DOMAIN heap \subseteq Reachable
           /\ \A a \in Reachable : Refs(heap[a]) \subseteq Reachable
<1>1. PICK D : D = DOMAIN heap OBVIOUS
<1>2. PICK refs : refs = [a \in D |-> Refs(heap[a])] OBVIOUS
<1> DEFINE Near(S) == S \cup UNION {refs[a] : a \in S}
           near == [S \in SUBSET D |-> Near(S)]
           Is(f) == f = [S \in SUBSET DOMAIN heap |->
                     LET x == S \cup UNION {Refs(heap[a]) : a \in S}
                     IN  IF x = S THEN S ELSE f[x]]
           From == CHOOSE f : Is(f)
<1>3. Reachable = From[Roots \cap D] BY <1>1 DEF Reachable, Roots
<1>4. IsFiniteSet(D) /\ \A a \in D : refs[a] \in SUBSET D BY <1>1, <1>2 DEF NoDangling
<1>5. \A S \in SUBSET D : /\ near[S] = Near(S) /\ near[S] \in SUBSET D /\ S \subseteq near[S]
                          /\ near[S] = S => \A a \in S : refs[a] \subseteq S
  BY <1>4
<1>6. \A S, T \in SUBSET D : S \subseteq T => near[S] \subseteq near[T] BY <1>5
<1>7. near \in [SUBSET D -> SUBSET D] BY <1>5
<1>8. \A S \in SUBSET DOMAIN heap : S \cup UNION {Refs(heap[a]) : a \in S} = near[S]
  BY <1>1, <1>2, <1>5
<1> HIDE DEF near
<1>9. \A f : Is(f) <=> Follows(f, near, D) BY <1>1, <1>8 DEF Follows
<1>10. \E f : Follows(f, near, D) BY <1>5, <1>6, <1>7, HasFixpoint
<1> HIDE DEF Is
<1>11. Is(From) BY <1>9, <1>10
<1> HIDE DEF From
<1>12. PICK f : f = From /\ Follows(f, near, D) BY <1>9, <1>11
<1>13. IsFiniteSet(D) /\ \A S \in SUBSET D : S \subseteq near[S] BY <1>4, <1>5
<1>14. \A S \in SUBSET D : f[S] \in SUBSET D /\ S \subseteq f[S] /\ near[f[S]] = f[S]
  BY <1>7, <1>12, <1>13, FixpointIsClosed
<1>15. PICK R \in SUBSET D : R = Roots \cap D OBVIOUS
<1>16. Reachable = f[R] BY <1>3, <1>12, <1>15
<1>17. Reachable \in SUBSET D /\ R \subseteq Reachable /\ near[Reachable] = Reachable
  BY <1>14, <1>16
<1>18. \A a \in Reachable : refs[a] \subseteq Reachable BY <1>5, <1>17
<1> QED BY <1>1, <1>2, <1>15, <1>17, <1>18

-----------------------------------------------------------------------------
(* The calls *)

PCs == {"element", "scalar", "data_frame", "matrix", "vector", "list", "object",
        "build_vector", "build_matrix", "fill", "names", "items", "key",
        "frame", "frame_names", "columns", "missing", "rows"}
InFrame == {"frame_names", "columns", "missing", "rows"}

cols_of(n)   == columns(doc, n)
kind_of(n, c) == column_kind(doc, option, n, cols_of(n)[c])

(* The field at which a call fills a list column. *)
AtListCell(f) ==
    LET row == doc.items[f.node][f.i]
        k   == doc.keys[row][f.j]
        c   == CHOOSE c \in DOMAIN cols_of(f.node) : cols_of(f.node)[c] = k
    IN  /\ f.j <= Len(doc.items[row])
        /\ ~ \E p \in 1 .. f.j - 1 : doc.keys[row][p] = k
        /\ f.kinds[c] = "list"

(* A call that waits for another, or has what that returned. *)
Waits(f) ==
    /\ f.i <= Len(doc.items[f.node])
    /\ f.pc = "items" \/ (f.pc = "rows" /\ AtListCell(f))

Frames == [node : nodes(doc), opts : {option}, pc : PCs, i : Nat, j : Nat \ {0},
           kinds : Seq(Col_Kind)]

FrameOK(f) ==
    /\ f \in Frames
    /\ f.i \in 1 .. Len(doc.items[f.node]) + 1
    /\ f.pc = "key" => f.i <= Len(doc.items[f.node])
    /\ f.pc = "missing" => f.j <= Len(f.kinds)
    /\ f.pc = "columns" => f.j <= Len(f.kinds) + 1
    /\ f.pc \in SimplifyTo => doc.kind[f.node] # "OBJECT"
    /\ f.pc \notin {"columns", "missing", "rows"} => f.j = 1
    /\ f.pc \in InFrame \cup {"frame"} => IsTable(doc, f.node)
    /\ f.pc \in InFrame => f.kinds = [c \in DOMAIN cols_of(f.node) |-> kind_of(f.node, c)]

(* Each call is for a node below that of the call it was made from. *)
CallsInv ==
    /\ doc \in Docs /\ option \in Options
    /\ stack \in Seq(Frames)
    /\ \A k \in DOMAIN stack : FrameOK(stack[k])
    /\ \A k, l \in DOMAIN stack : k < l => stack[k].node < stack[l].node
    /\ \A k \in DOMAIN stack : k < Len(stack) => Waits(stack[k])
    /\ status \in {"running", "throwing", "returned", "thrown", "jumped"}
    /\ stack # <<>> <=> status \in {"running", "throwing"}
    /\ ret # None => status = "returned" \/ (Running /\ Waits(top))

-----------------------------------------------------------------------------
(* What is protected *)

Own == nodes(doc) \X {"out", "names"} \X {0}

IsOnStack(n) == \E k \in DOMAIN stack : stack[k].node = n

(* The protection stack has the objects of the calls in their order. *)
ProtectionInv ==
    /\ protects \in Seq(Own) /\ precious \subseteq Own
    /\ \A p, q \in DOMAIN protects : p < q => protects[p][1] <= protects[q][1]
    /\ \A p \in DOMAIN protects : IsOnStack(protects[p][1])
    /\ status # "jumped" => \A a \in precious : IsOnStack(a[1])

-----------------------------------------------------------------------------
(* The heap *)

IsObject(o) ==
    /\ o = RObject(o.class, o.elems, o.attr)
    /\ o.elems = [k \in DOMAIN o.elems |-> o.elems[k]]

ObjectOK(a, o) ==
    /\ IsObject(o)
    /\ a[2] = "names" => o.class = "vector"
    /\ a[2] = "vec" =>
         /\ a[3] \in DOMAIN cols_of(a[1])
         /\ o.class = IF kind_of(a[1], a[3]) = "list" THEN "list" ELSE "vector"

HeapInv ==
    /\ IsFiniteSet(DOMAIN heap) /\ Callers \subseteq DOMAIN heap
    /\ NoDangling
    /\ heap = [a \in DOMAIN heap |-> heap[a]]
    /\ \A a \in DOMAIN heap : ObjectOK(a, heap[a])

(* What a call uses is protected, or a column of a frame that is.          *)
Protected == Range(protects) \cup precious

HasOut(f)   == f.pc \in {"fill", "names", "items", "key"} \cup InFrame
HasNames(f) == \/ f.pc \in {"key", "columns", "missing", "rows"}
               \/ f.pc = "items" /\ doc.kind[f.node] = "OBJECT"
HasColumn(f, c) == CASE f.pc = "columns" -> c < f.j
                     [] f.pc = "missing" -> c <= f.j
                     [] f.pc = "rows"    -> TRUE
                     [] OTHER            -> FALSE

Rooted(f) ==
    LET n == f.node IN
    /\ HasOut(f) => <<n, "out", 0>> \in Protected \cap DOMAIN heap
    /\ HasNames(f) => <<n, "names", 0>> \in Protected \cap DOMAIN heap
    /\ f.pc \in InFrame =>
         /\ heap[<<n, "out", 0>>].class = "data.frame"
         /\ DOMAIN heap[<<n, "out", 0>>].elems = DOMAIN cols_of(n)
         /\ \A c \in DOMAIN cols_of(n) :
              HasColumn(f, c) => heap[<<n, "out", 0>>].elems[c] = <<n, "vec", c>>

InUse ==
    /\ Running => \A k \in DOMAIN stack : Rooted(stack[k])
    /\ ret # None => ret \in DOMAIN heap

IInv == CallsInv /\ ProtectionInv /\ HeapInv /\ InUse

-----------------------------------------------------------------------------
(***************************************************************************)
(* The calls that are running.                                             *)
(***************************************************************************)

LEMMA DocFacts ==
    ASSUME doc \in Docs
    PROVE  /\ IsDocument(doc) /\ nodes(doc) \subseteq Nat \ {0} /\ 1 \in nodes(doc)
           /\ \A n \in nodes(doc) :
                /\ Len(doc.items[n]) \in Nat
                /\ DOMAIN doc.items[n] = 1 .. Len(doc.items[n])
                /\ \A i \in 1 .. Len(doc.items[n]) :
                     doc.items[n][i] \in nodes(doc) /\ doc.items[n][i] > n
<1>1. IsDocument(doc) BY DocumentsAssumption
<1>2. nodes(doc) = 1 .. Len(doc.kind) /\ Len(doc.kind) \in Nat \ {0}
  BY <1>1 DEF IsDocument, nodes
<1>3. ASSUME NEW n \in nodes(doc)
      PROVE  /\ Len(doc.items[n]) \in Nat
             /\ DOMAIN doc.items[n] = 1 .. Len(doc.items[n])
             /\ \A i \in 1 .. Len(doc.items[n]) :
                  doc.items[n][i] \in nodes(doc) /\ doc.items[n][i] > n
  <2>1. doc.items[n] \in Seq(nodes(doc)) /\ \A m \in Range(doc.items[n]) : m > n
    BY <1>1 DEF IsDocument
  <2> QED BY <2>1 DEF Range
<1> QED BY <1>1, <1>2, <1>3

LEMMA PlacesOfKeys ==
    ASSUME NEW d, IsDocument(d), NEW n \in nodes(d)
    PROVE  IsFiniteSet(KeyPlaces(d, n)) /\ KeyPlaces(d, n) \subseteq Nat \X Nat
<1>1. rows(d, n) \in Seq(nodes(d)) BY DEF IsDocument, rows
<1>2. PICK m \in Nat : DOMAIN rows(d, n) = 1 .. m BY <1>1
<1> DEFINE In == [i \in 1 .. m |-> {i} \X DOMAIN d.keys[rows(d, n)[i]]]
<1>3. IsFiniteSet(Range(In))
  <2>1. IsFiniteSet(1 .. m) BY FS_Interval
  <2>2. In \in Surjection(1 .. m, Range(In)) BY DEF Surjection, Range
  <2> QED BY <2>1, <2>2, FS_Surjection DEF ExistsSurjection
<1>4. ASSUME NEW T \in Range(In) PROVE IsFiniteSet(T) /\ T \subseteq Nat \X Nat
  <2>1. PICK i \in 1 .. m : T = {i} \X DOMAIN d.keys[rows(d, n)[i]]
    BY DEF Range
  <2>2. rows(d, n)[i] \in nodes(d) BY <1>1, <1>2
  <2>3. PICK l \in Nat : DOMAIN d.keys[rows(d, n)[i]] = 1 .. l
    BY <2>2 DEF IsDocument
  <2>4. IsFiniteSet(1 .. l) BY FS_Interval
  <2>5. IsFiniteSet({i}) BY FS_Singleton
  <2>6. IsFiniteSet(T) BY <2>1, <2>3, <2>4, <2>5, FS_Product
  <2> QED BY <2>1, <2>3, <2>6
<1>5. KeyPlaces(d, n) = UNION Range(In) BY <1>2 DEF KeyPlaces, Range
<1>6. IsFiniteSet(KeyPlaces(d, n)) BY <1>3, <1>4, <1>5, FS_UNION
<1>7. KeyPlaces(d, n) \subseteq Nat \X Nat BY <1>4, <1>5
<1> QED BY <1>6, <1>7

LEMMA ColumnsType ==
    ASSUME NEW d, IsDocument(d), NEW n \in nodes(d)
    PROVE  \E c \in Nat : DOMAIN columns(d, n) = 1 .. c
<1> DEFINE First == {p \in KeyPlaces(d, n) :
                       \A q \in KeyPlaces(d, n) :
                         Before(q, p) => key_at(d, n, q) # key_at(d, n, p)}
<1>1. IsFiniteSet(First) BY PlacesOfKeys, FS_Subset
<1>2. Cardinality(First) \in Nat BY <1>1, FS_CardinalityType
<1>3. DOMAIN columns(d, n) = 1 .. Cardinality(First) BY DEF columns
<1> QED BY <1>2, <1>3

(* Of places in the rows, one comes first, and they can be counted off. *)
LEMMA PlacesAreOrdered ==
    /\ \A p, q \in Nat \X Nat : p # q => Before(p, q) \/ Before(q, p)
    /\ \A p \in Nat \X Nat : ~Before(p, p)
    /\ \A p, q, r \in Nat \X Nat : Before(p, q) /\ Before(q, r) => Before(p, r)
BY DEF Before

LEMMA FirstPlace ==
    ASSUME NEW S, IsFiniteSet(S), S \subseteq Nat \X Nat, S # {}
    PROVE  \E p \in S : \A q \in S : ~Before(q, p)
<1> DEFINE Upto(p) == {q \in S : Before(q, p)}
           T == {Upto(p) : p \in S}
<1>1. T # {}
  <2>1. PICK p \in S : TRUE OBVIOUS
  <2>2. Upto(p) \in T OBVIOUS
  <2> QED BY <2>2
<1>2. T \subseteq FiniteSubsetsOf(S)
  <2>1. \A X \in SUBSET S : IsFiniteSet(X) BY FS_Subset
  <2> QED BY <2>1 DEF FiniteSubsetsOf
<1>3. IsWellFoundedOn(StrictSubsetOrdering(S), FiniteSubsetsOf(S))
  BY FS_StrictSubsetOrderingWellFounded
<1> HIDE DEF T
<1>4. PICK X \in T : \A Y \in T : ~ (<<Y, X>> \in StrictSubsetOrdering(S))
  BY <1>1, <1>2, <1>3, WFMin
<1>5. PICK p \in S : X = Upto(p) BY DEF T
<1>6. ASSUME NEW q \in S, Before(q, p) PROVE FALSE
  <2>1. Upto(q) \in T BY DEF T
  <2>2. Upto(q) \subseteq Upto(p) /\ q \in Upto(p) /\ q \notin Upto(q)
    BY <1>6, PlacesAreOrdered
  <2>3. <<Upto(q), X>> \in StrictSubsetOrdering(S)
    BY <1>5, <2>2 DEF StrictSubsetOrdering
  <2> QED BY <1>4, <2>1, <2>3
<1> QED BY <1>6

LEMMA RanksDiffer ==
    ASSUME NEW F, IsFiniteSet(F), F \subseteq Nat \X Nat,
           NEW rank, rank = [p \in F |-> Cardinality({q \in F : Before(q, p)})]
    PROVE  /\ \A p \in F : rank[p] \in 0 .. Cardinality(F) - 1
           /\ \A p, q \in F : Before(p, q) => rank[p] < rank[q]
           /\ \A p, q \in F : rank[p] = rank[q] => p = q
<1> DEFINE Upto(p) == {q \in F : Before(q, p)}
<1>1. \A p \in F : IsFiniteSet(Upto(p)) /\ rank[p] = Cardinality(Upto(p)) BY FS_Subset
<1>2. \A p \in F : rank[p] \in Nat BY <1>1, FS_CardinalityType
<1>3. ASSUME NEW X, NEW Y, IsFiniteSet(Y), X \subseteq Y, NEW y \in Y, y \notin X
      PROVE  Cardinality(X) < Cardinality(Y)
  <2>1. IsFiniteSet(X) BY <1>3, FS_Subset
  <2>2. Cardinality(X) \in Nat /\ Cardinality(Y) \in Nat BY <1>3, <2>1, FS_CardinalityType
  <2>3. Cardinality(X) <= Cardinality(Y) BY <1>3, FS_Subset
  <2>4. Cardinality(X) # Cardinality(Y) BY <1>3, FS_Subset
  <2> QED BY <2>2, <2>3, <2>4
<1>4. ASSUME NEW p \in F PROVE rank[p] \in 0 .. Cardinality(F) - 1
  <2>1. p \notin Upto(p) /\ Upto(p) \subseteq F BY PlacesAreOrdered
  <2>2. Cardinality(Upto(p)) < Cardinality(F) BY <1>3, <2>1
  <2>3. Cardinality(F) \in Nat BY FS_CardinalityType
  <2> QED BY <1>1, <1>2, <2>2, <2>3
<1>5. ASSUME NEW p \in F, NEW q \in F, Before(p, q) PROVE rank[p] < rank[q]
  <2>1. p \notin Upto(p) /\ p \in Upto(q) /\ Upto(p) \subseteq Upto(q)
    BY <1>5, PlacesAreOrdered
  <2>2. IsFiniteSet(Upto(q)) BY <1>1
  <2> HIDE DEF Upto
  <2>3. Cardinality(Upto(p)) < Cardinality(Upto(q)) BY <1>3, <2>1, <2>2
  <2> QED BY <1>1, <2>3
<1>6. ASSUME NEW p \in F, NEW q \in F, rank[p] = rank[q] PROVE p = q
  <2>1. Before(p, q) => rank[p] < rank[q] BY <1>5
  <2>2. Before(q, p) => rank[q] < rank[p] BY <1>5
  <2>3. rank[p] \in Nat /\ rank[q] \in Nat BY <1>2
  <2>4. ~Before(p, q) /\ ~Before(q, p) BY <1>6, <2>1, <2>2, <2>3
  <2> QED BY <2>4, PlacesAreOrdered
<1> QED BY <1>4, <1>5, <1>6

(* Every key of every row is that of a column. *)
LEMMA EveryKeyHasAColumn ==
    ASSUME NEW d, IsDocument(d), NEW n \in nodes(d), NEW i \in DOMAIN rows(d, n),
           NEW j \in DOMAIN d.keys[rows(d, n)[i]]
    PROVE  \E c \in DOMAIN columns(d, n) : columns(d, n)[c] = d.keys[rows(d, n)[i]][j]
<1>1. PICK K : K = KeyPlaces(d, n) OBVIOUS
<1>2. IsFiniteSet(K) /\ K \subseteq Nat \X Nat BY <1>1, PlacesOfKeys
<1>3. PICK k : k = [p \in K |-> key_at(d, n, p)] OBVIOUS
<1>4. <<i, j>> \in K /\ k[<<i, j>>] = d.keys[rows(d, n)[i]][j]
  BY <1>1, <1>3 DEF KeyPlaces, key_at
<1>5. PICK F : F = {p \in K : \A q \in K : Before(q, p) => k[q] # k[p]} OBVIOUS
<1>6. IsFiniteSet(F) /\ F \subseteq Nat \X Nat BY <1>2, <1>5, FS_Subset
<1>7. PICK p \in F : k[p] = k[<<i, j>>]
  <2>1. PICK S : S = {q \in K : k[q] = k[<<i, j>>]} OBVIOUS
  <2>2. IsFiniteSet(S) /\ S \subseteq Nat \X Nat /\ S # {}
    BY <1>2, <1>4, <2>1, FS_Subset
  <2>3. PICK p \in S : \A q \in S : ~Before(q, p) BY <2>2, FirstPlace
  <2> QED BY <1>5, <2>1, <2>3
<1>8. PICK rank : rank = [q \in F |-> Cardinality({r \in F : Before(r, q)})] OBVIOUS
<1>9. rank[p] \in 0 .. Cardinality(F) - 1 /\ \A q \in F : rank[q] = rank[p] => q = p
  BY <1>6, <1>8, RanksDiffer
<1>10. Cardinality(F) \in Nat BY <1>6, FS_CardinalityType
<1>11. PICK c \in 1 .. Cardinality(F) : c = rank[p] + 1 BY <1>9, <1>10
<1>12. columns(d, n) = [b \in 1 .. Cardinality(F) |->
                          key_at(d, n, CHOOSE q \in F : Cardinality({r \in F : Before(r, q)}) = b - 1)]
  <2>1. F = {q \in KeyPlaces(d, n) : \A r \in KeyPlaces(d, n) :
                Before(r, q) => key_at(d, n, r) # key_at(d, n, q)}
    BY <1>1, <1>3, <1>5
  <2> QED BY <2>1 DEF columns
<1>13. (CHOOSE q \in F : Cardinality({r \in F : Before(r, q)}) = c - 1) = p
  BY <1>8, <1>9, <1>11
<1>14. c \in DOMAIN columns(d, n) /\ columns(d, n)[c] = key_at(d, n, p)
  BY <1>12, <1>13
<1> QED BY <1>3, <1>4, <1>5, <1>7, <1>14

LEMMA KindsType ==
    ASSUME doc \in Docs, NEW n \in nodes(doc)
    PROVE  /\ [c \in DOMAIN cols_of(n) |-> kind_of(n, c)] \in Seq(Col_Kind)
           /\ DOMAIN cols_of(n) = 1 .. Len([c \in DOMAIN cols_of(n) |-> kind_of(n, c)])
<1>1. PICK m \in Nat : DOMAIN cols_of(n) = 1 .. m
  <2>1. PICK d : d = doc OBVIOUS
  <2> QED BY <2>1, DocFacts, ColumnsType DEF cols_of
<1>2. \A c : kind_of(n, c) \in Col_Kind
  BY DEF kind_of, column_kind, common_kind, col_kind, Col_Kind
<1> QED BY <1>1, <1>2

LEMMA TopFacts ==
    ASSUME CallsInv, stack # <<>>
    PROVE  /\ Len(stack) \in Nat \ {0} /\ DOMAIN stack = 1 .. Len(stack)
           /\ top = stack[Len(stack)] /\ top \in Frames /\ FrameOK(top)
           /\ node \in nodes(doc) /\ node \in Nat \ {0} /\ opts = option
           /\ Len(here) \in Nat /\ DOMAIN here = 1 .. Len(here)
           /\ top.i \in 1 .. Len(here) + 1 /\ top.j \in Nat \ {0}
           /\ \A i \in 1 .. Len(here) : here[i] \in nodes(doc) /\ here[i] > node
           /\ \A k \in DOMAIN stack :
                /\ FrameOK(stack[k]) /\ stack[k].node \in nodes(doc) /\ stack[k].node \in Nat
                /\ k < Len(stack) => stack[k].node < node /\ Waits(stack[k])
<1>1. Len(stack) \in Nat \ {0} /\ DOMAIN stack = 1 .. Len(stack)
  BY DEF CallsInv
<1>2. top = stack[Len(stack)] /\ FrameOK(top) BY <1>1 DEF CallsInv, top
<1>3. top \in Frames BY <1>2 DEF FrameOK, Frames
<1>4. node \in nodes(doc) /\ opts = option BY <1>3 DEF Frames, node, opts
<1>5. ASSUME NEW k \in DOMAIN stack
      PROVE  /\ FrameOK(stack[k]) /\ stack[k].node \in nodes(doc) /\ stack[k].node \in Nat
             /\ k < Len(stack) => stack[k].node < node /\ Waits(stack[k])
  <2>1. FrameOK(stack[k]) BY DEF CallsInv
  <2>2. stack[k].node \in nodes(doc) BY <2>1 DEF FrameOK, Frames
  <2>3. stack[k].node \in Nat BY <2>2, DocFacts DEF CallsInv
  <2>4. k < Len(stack) => stack[k].node < node /\ Waits(stack[k])
    BY <1>1, <1>2 DEF CallsInv, node
  <2> QED BY <2>1, <2>2, <2>3, <2>4
<1>6. Len(here) \in Nat /\ DOMAIN here = 1 .. Len(here) /\ node \in Nat \ {0}
      /\ \A i \in 1 .. Len(here) : here[i] \in nodes(doc) /\ here[i] > node
  BY <1>4, DocFacts DEF CallsInv, here
<1>7. top.i \in 1 .. Len(here) + 1 /\ top.j \in Nat \ {0}
  BY <1>2, <1>3 DEF FrameOK, Frames, here, node
<1> QED BY <1>1, <1>2, <1>3, <1>4, <1>5, <1>6, <1>7

(* Nothing that is said of a frame changes but with the document. *)
LEMMA SameDoc ==
    ASSUME UNCHANGED args
    PROVE  \A f : /\ FrameOK(f)' <=> FrameOK(f)
                  /\ Waits(f)' <=> Waits(f)
BY DEF args, FrameOK, Frames, Waits, AtListCell, cols_of, kind_of

(* The running call goes on. *)
LEMMA StaysOn ==
    ASSUME CallsInv, Running, NEW g, SetTop(g), g.node = node, FrameOK(g),
           UNCHANGED <<args, status>>, ret' # None => Waits(g)
    PROVE  CallsInv'
<1>1. stack # <<>> /\ status' = "running" /\ UNCHANGED args
  BY DEF CallsInv, Running
<1>2. /\ Len(stack) \in Nat \ {0} /\ DOMAIN stack = 1 .. Len(stack)
      /\ top = stack[Len(stack)]
  BY <1>1, TopFacts
<1>3. stack \in Seq(Frames) /\ g \in Frames BY DEF CallsInv, Frames, FrameOK
<1>4. /\ stack' \in Seq(Frames) /\ Len(stack') = Len(stack) /\ DOMAIN stack' = DOMAIN stack
      /\ stack'[Len(stack)] = g /\ \A k \in DOMAIN stack : k # Len(stack) => stack'[k] = stack[k]
  BY <1>2, <1>3 DEF SetTop
<1>5. Frames' = Frames /\ doc' = doc /\ option' = option BY <1>1 DEF Frames, args
<1>6. \A k \in DOMAIN stack : FrameOK(stack'[k])
  BY <1>4 DEF CallsInv
<1>7. \A k \in DOMAIN stack' : FrameOK(stack[k])'
  BY <1>1, <1>4, <1>6, SameDoc
<1>8. \A k \in DOMAIN stack : stack'[k].node = stack[k].node
  BY <1>2, <1>4 DEF node
<1>9. \A k, l \in DOMAIN stack' : k < l => stack'[k].node < stack'[l].node
  BY <1>4, <1>8 DEF CallsInv
<1>10. \A k \in DOMAIN stack' : k < Len(stack') => Waits(stack[k])'
  <2>1. \A k \in DOMAIN stack : k < Len(stack) => Waits(stack'[k])
    BY <1>4 DEF CallsInv
  <2> QED BY <1>1, <1>4, <2>1, SameDoc
<1>11. stack' # <<>> BY <1>2, <1>4
<1>12. ret' # None => Waits(top)'
  BY <1>1, <1>4, SameDoc DEF top
<1> QED
  BY <1>1, <1>4, <1>5, <1>7, <1>9, <1>10, <1>11, <1>12 DEF CallsInv, Running, Frames

(* It waits for a new one. *)
LEMMA CallsOn ==
    ASSUME CallsInv, Running, Waits(top), NEW n \in nodes(doc), n > node, Call(n),
           UNCHANGED <<args, status>>, ret' = None
    PROVE  CallsInv'
<1>1. stack # <<>> /\ status' = "running" /\ UNCHANGED args /\ doc \in Docs
  BY DEF CallsInv, Running
<1>2. /\ Len(stack) \in Nat \ {0} /\ DOMAIN stack = 1 .. Len(stack)
      /\ top = stack[Len(stack)] /\ opts = option
  BY <1>1, TopFacts
<1>3. PICK g : g = Frame(n, opts) OBVIOUS
<1>4. FrameOK(g) /\ g \in Frames /\ g.node = n
  BY <1>1, <1>2, <1>3, DocFacts DEF FrameOK, Frame, Frames, PCs, InFrame, SimplifyTo
<1>5. stack \in Seq(Frames) BY DEF CallsInv, Frames
<1>6. /\ stack' \in Seq(Frames) /\ Len(stack') = Len(stack) + 1
      /\ DOMAIN stack' = 1 .. Len(stack) + 1
      /\ stack'[Len(stack) + 1] = g /\ \A k \in DOMAIN stack : stack'[k] = stack[k]
  BY <1>2, <1>3, <1>4, <1>5 DEF Call
<1>7. Frames' = Frames /\ doc' = doc /\ option' = option BY <1>1 DEF Frames, args
<1>8. \A k \in DOMAIN stack' : FrameOK(stack[k])'
  <2>1. \A k \in DOMAIN stack' : FrameOK(stack'[k])
    BY <1>1, <1>2, <1>4, <1>6, TopFacts
  <2> QED BY <1>1, <2>1, SameDoc
<1>9. ASSUME NEW k \in DOMAIN stack', NEW l \in DOMAIN stack', k < l
      PROVE  stack'[k].node < stack'[l].node
  <2>1. CASE l \in DOMAIN stack
    <3>1. k \in DOMAIN stack BY <1>2, <1>6, <1>9, <2>1
    <3> QED BY <1>6, <1>9, <2>1, <3>1 DEF CallsInv
  <2>2. CASE l = Len(stack) + 1
    <3>1. k \in DOMAIN stack BY <1>2, <1>6, <1>9, <2>2
    <3>2. stack[k].node \in Nat /\ stack[k].node <= node /\ node \in Nat /\ n \in Nat
      BY <1>1, <1>2, <3>1, TopFacts, DocFacts DEF node
    <3> QED BY <1>4, <1>6, <2>2, <3>1, <3>2
  <2> QED BY <1>2, <1>6, <2>1, <2>2
<1>10. \A k \in DOMAIN stack' : k < Len(stack') => Waits(stack[k])'
  <2>1. \A k \in DOMAIN stack : Waits(stack'[k])
    BY <1>1, <1>2, <1>6, TopFacts
  <2> QED BY <1>1, <1>2, <1>6, <2>1, SameDoc
<1>11. stack' # <<>> BY <1>2, <1>6
<1> QED
  BY <1>1, <1>6, <1>7, <1>8, <1>9, <1>10, <1>11 DEF CallsInv, Running, Frames

(* It ends, and the call it was made from goes on. *)
LEMMA EndsOn ==
    ASSUME CallsInv, stack # <<>>, UNCHANGED args,
           stack' = SubSeq(stack, 1, Len(stack) - 1),
           \/ status' = IF Len(stack) = 1 THEN "returned" ELSE "running"
           \/ status' = (IF Len(stack) = 1 THEN "thrown" ELSE "throwing") /\ ret' = None
    PROVE  /\ CallsInv'
           /\ Len(stack') = Len(stack) - 1 /\ DOMAIN stack' = 1 .. Len(stack) - 1
           /\ \A k \in DOMAIN stack' : stack'[k] = stack[k]
<1>1. doc \in Docs BY DEF CallsInv
<1>2. Len(stack) \in Nat \ {0} /\ DOMAIN stack = 1 .. Len(stack) BY TopFacts
<1>3. stack \in Seq(Frames) BY DEF CallsInv, Frames
<1>4. /\ stack' \in Seq(Frames) /\ Len(stack') = Len(stack) - 1
      /\ DOMAIN stack' = 1 .. Len(stack) - 1
      /\ \A k \in DOMAIN stack' : stack'[k] = stack[k]
  BY <1>2, <1>3
<1>5. Frames' = Frames /\ doc' = doc /\ option' = option BY DEF Frames, args
<1>6. \A k \in DOMAIN stack' : FrameOK(stack[k])'
  <2>1. \A k \in DOMAIN stack' : FrameOK(stack'[k])
    BY <1>2, <1>4 DEF CallsInv
  <2> QED BY <2>1, SameDoc
<1>k. \A k \in DOMAIN stack' : k \in DOMAIN stack /\ k < Len(stack) BY <1>2, <1>4
<1>7. \A k, l \in DOMAIN stack' : k < l => stack'[k].node < stack'[l].node
  BY <1>4, <1>k DEF CallsInv
<1>8. \A k \in DOMAIN stack' : Waits(stack[k])'
  <2>1. \A k \in DOMAIN stack' : Waits(stack'[k])
    BY <1>4, <1>k DEF CallsInv
  <2> QED BY <2>1, SameDoc
<1>9. stack' = <<>> <=> Len(stack) = 1
  <2>1. PICK s \in Seq(Frames) : s = stack' BY <1>4
  <2>2. s = <<>> <=> Len(s) = 0 OBVIOUS
  <2>3. Len(s) = Len(stack) - 1 BY <1>4, <2>1
  <2>4. Len(s) = 0 <=> Len(stack) = 1 BY <1>2, <2>3
  <2> QED BY <2>1, <2>2, <2>4
<1>10. stack' # <<>> => Waits(top)'
  <2>1. stack' # <<>> => Len(stack') \in DOMAIN stack' BY <1>2, <1>4
  <2> QED BY <1>8, <2>1 DEF top
<1> QED
  BY <1>1, <1>2, <1>4, <1>5, <1>6, <1>7, <1>8, <1>9, <1>10 DEF CallsInv, Running, Frames

(* The running call waits, or nothing has been returned to it. *)
LEMMA NothingReturned ==
    ASSUME CallsInv, Running, ~Waits(top)
    PROVE  ret = None
BY DEF CallsInv, Running

LEMMA GoesOn ==
    ASSUME CallsInv, Running, UNCHANGED <<args, status>>,
           NEW p \in PCs \ ({"key", "missing"} \cup InFrame), Goto(p), ret' = None,
           top.pc \notin {"columns", "missing", "rows"},
           p \in SimplifyTo => doc.kind[node] # "OBJECT", p = "frame" => IsTable(doc, node)
    PROVE  CallsInv'
<1>1. top \in Frames /\ FrameOK(top) BY TopFacts DEF CallsInv, Running
<1>2. PICK g : g = [top EXCEPT !.pc = p] OBVIOUS
<1>3. g \in Frames /\ g.node = node /\ g.i = top.i /\ g.j = top.j /\ g.pc = p
  BY <1>1, <1>2 DEF Frames, node
<1>4. FrameOK(g) BY <1>1, <1>3 DEF FrameOK, node
<1>5. SetTop(g) BY <1>2 DEF Goto
<1> QED BY <1>3, <1>4, <1>5, StaysOn

LEMMA SimplifyElementCalls == ASSUME CallsInv, SimplifyElement PROVE CallsInv'
<1>1. /\ Running /\ ret = None /\ top \in Frames /\ stack # <<>> /\ option \in Option
  <2>1. Running /\ stack # <<>> BY DEF SimplifyElement, CallsInv, Running
  <2>2. ~Waits(top) BY DEF SimplifyElement, Waits
  <2> QED BY <2>1, <2>2, NothingReturned, TopFacts, SimplifyOptionsAssumption DEF CallsInv
<1>2. UNCHANGED args BY DEF SimplifyElement
<1>3. ASSUME NEW p \in PCs \ ({"key", "missing", "frame"} \cup InFrame), Goto(p),
             UNCHANGED <<ret, status>>, p \in SimplifyTo => doc.kind[node] # "OBJECT"
      PROVE  CallsInv'
  <2>1. top.pc \notin {"columns", "missing", "rows"} BY DEF SimplifyElement
  <2> QED BY <1>1, <1>2, <1>3, <2>1, GoesOn
<1>4. ASSUME NEW a, Return(a) PROVE CallsInv'
  BY <1>1, <1>2, <1>4, EndsOn DEF Return
<1>5. opts.simplify_to \in SimplifyTo
  BY <1>1, TopFacts DEF Option
<1>6. PICK p : p = IF doc.kind[node] = "OBJECT" THEN "object" ELSE opts.simplify_to
  OBVIOUS
<1>7. /\ p \in PCs \ ({"key", "missing", "frame"} \cup InFrame)
      /\ p \in SimplifyTo => doc.kind[node] # "OBJECT"
  BY <1>5, <1>6 DEF SimplifyTo, PCs, InFrame
<1>8. "scalar" \in PCs \ ({"key", "missing", "frame"} \cup InFrame) /\ "scalar" \notin SimplifyTo
  BY DEF PCs, InFrame, SimplifyTo
<1>9. PICK a : a = CallersObject(doc.kind[node]) OBVIOUS
<1>10. \/ Goto("scalar") /\ UNCHANGED <<ret, status>>
       \/ Return(a)
       \/ Goto(p) /\ UNCHANGED <<ret, status>>
  BY <1>6, <1>9 DEF SimplifyElement
<1> QED BY <1>3, <1>4, <1>7, <1>8, <1>10

(* The steps on which no other call is made. *)
LEMMA GotoCalls ==
    ASSUME CallsInv,
           TryLevel \/ AllocateAtomic \/ AllocateList \/ AllocateNames
    PROVE  CallsInv'
<1>1. Running /\ ret = None /\ UNCHANGED <<args, ret, status>>
  <2>1. Running /\ ~Waits(top) /\ UNCHANGED <<args, ret, status>>
    BY DEF TryLevel, AllocateAtomic, AllocateList, AllocateNames, Waits
  <2> QED BY <2>1, NothingReturned
<1> DEFINE Good(p) == /\ p \in PCs \ ({"key", "missing"} \cup InFrame)
                      /\ p \in SimplifyTo => doc.kind[node] # "OBJECT"
                      /\ p = "frame" => IsTable(doc, node)
<1>2. \E p : Good(p) /\ Goto(p)
  <2>1. CASE TryLevel
    <3>1. PICK p : p = (CASE top.pc = "data_frame" ->
                                IF IsTable(doc, node) THEN "frame" ELSE "matrix"
                          [] top.pc = "matrix" ->
                                IF diagnose THEN "build_matrix" ELSE "vector"
                          [] top.pc = "vector" ->
                                IF vectorizable(opts, kinds_in(doc, here))
                                THEN "build_vector" ELSE "list")
      OBVIOUS
    <3>2. Goto(p) BY <2>1, <3>1 DEF TryLevel
    <3>3. top.pc \in {"data_frame", "matrix", "vector"} BY <2>1 DEF TryLevel
    <3>4. p \in {"frame", "matrix", "build_matrix", "vector", "build_vector", "list"}
          /\ (p = "frame" => IsTable(doc, node))
      BY <3>1, <3>3
    <3>5. doc.kind[node] # "OBJECT"
      <4>1. FrameOK(top) BY <1>1, TopFacts DEF CallsInv, Running
      <4> QED BY <3>3, <4>1 DEF FrameOK, SimplifyTo, node
    <3> QED BY <3>2, <3>4, <3>5 DEF PCs, InFrame
  <2>2. CASE AllocateAtomic BY <2>2 DEF AllocateAtomic, PCs, InFrame, SimplifyTo
  <2>3. CASE AllocateNames BY <2>3 DEF AllocateNames, PCs, InFrame, SimplifyTo
  <2>4. CASE AllocateList
    <3>1. PICK p \in {"items", "names"} : p = IF top.pc = "list" THEN "items" ELSE "names"
      OBVIOUS
    <3>2. Goto(p) BY <2>4, <3>1 DEF AllocateList
    <3> QED BY <3>2 DEF PCs, InFrame, SimplifyTo
  <2> QED BY <2>1, <2>2, <2>3, <2>4
<1>3. top.pc \notin {"columns", "missing", "rows"}
  BY DEF TryLevel, AllocateAtomic, AllocateList, AllocateNames
<1>4. PICK p \in PCs \ ({"key", "missing"} \cup InFrame) : Good(p) /\ Goto(p) BY <1>2
<1> QED BY <1>1, <1>3, <1>4, GoesOn

LEMMA ReturnCalls ==
    ASSUME CallsInv, FillAtomic \/ ReturnList \/ ReturnFrame
    PROVE  CallsInv'
<1>1. /\ stack # <<>> /\ UNCHANGED args /\ stack' = SubSeq(stack, 1, Len(stack) - 1)
      /\ status' = IF Len(stack) = 1 THEN "returned" ELSE "running"
  BY DEF FillAtomic, ReturnList, ReturnFrame, Return, CallsInv, Running
<1> QED BY <1>1, EndsOn

(* A frame whose cursors alone have moved. *)
LEMMA MovesOn ==
    ASSUME CallsInv, Running, UNCHANGED <<args, status>>, ret' = None,
           NEW i \in 1 .. Len(here) + 1, NEW j \in Nat \ {0}, NEW p \in PCs,
           p = "key" => i <= Len(here), p = "missing" => j <= Len(kinds),
           p = "columns" => j <= Len(kinds) + 1,
           p \in InFrame => top.pc \in InFrame, p \notin SimplifyTo \cup {"frame"},
           p \notin {"columns", "missing", "rows"} => j = 1,
           SetTop([top EXCEPT !.pc = p, !.i = i, !.j = j])
    PROVE  CallsInv'
<1>1. top \in Frames /\ FrameOK(top) BY TopFacts DEF CallsInv, Running
<1>2. PICK g : g = [top EXCEPT !.pc = p, !.i = i, !.j = j] OBVIOUS
<1>3. i \in Nat BY TopFacts DEF CallsInv, Running
<1>4. /\ g \in Frames /\ g.node = node /\ g.i = i /\ g.j = j /\ g.pc = p
      /\ g.kinds = kinds
  BY <1>1, <1>2, <1>3 DEF Frames, node, kinds
<1>5. kinds = [c \in DOMAIN cols_of(node) |-> kind_of(node, c)] \/ p \notin InFrame
  BY <1>1 DEF FrameOK, node, kinds
<1>6. p \in InFrame => IsTable(doc, node) BY <1>1 DEF FrameOK, node
<1>7. FrameOK(g)
  <2>1. /\ g.i \in 1 .. Len(doc.items[g.node]) + 1
        /\ g.pc = "key" => g.i <= Len(doc.items[g.node])
        /\ g.pc = "missing" => g.j <= Len(g.kinds)
        /\ g.pc = "columns" => g.j <= Len(g.kinds) + 1
    BY <1>4 DEF here
  <2> QED BY <1>4, <1>5, <1>6, <2>1 DEF FrameOK
<1> QED BY <1>2, <1>4, <1>7, StaysOn

LEMMA ListCalls ==
    ASSUME CallsInv, CallItem \/ SetItem \/ SetKey
    PROVE  CallsInv'
<1>1. /\ Running /\ UNCHANGED <<args, status>> /\ top \in Frames /\ FrameOK(top)
      /\ Len(here) \in Nat /\ top.i \in 1 .. Len(here) + 1 /\ top.j \in Nat \ {0}
      /\ stack # <<>>
  BY TopFacts DEF CallItem, SetItem, SetKey, CallsInv, Running
<1>j. top.pc \in {"items", "key"} => top.j = 1 BY <1>1 DEF FrameOK
<1>2. CASE CallItem
  <2>1. top.pc = "items" /\ top.i <= Len(here) /\ ret' = None /\ Call(here[top.i])
    BY <1>2 DEF CallItem
  <2>2. Waits(top) BY <2>1 DEF Waits, here, node
  <2>3. here[top.i] \in nodes(doc) /\ here[top.i] > node BY <1>1, <2>1, TopFacts
  <2> QED BY <1>1, <2>1, <2>2, <2>3, CallsOn
<1>3. CASE SetItem
  <2>1. top.pc = "items" /\ top.i <= Len(here) /\ ret' = None
    <3>1. top.pc = "items" /\ ret # None /\ ret' = None BY <1>3 DEF SetItem
    <3>2. Waits(top) BY <1>1, <3>1 DEF CallsInv, Running
    <3> QED BY <3>1, <3>2 DEF Waits, here, node
  <2>2. CASE doc.kind[node] = "OBJECT"
    <3>1. SetTop([top EXCEPT !.pc = "key"]) BY <1>3, <2>2 DEF SetItem, Goto
    <3>2. [top EXCEPT !.pc = "key"] = [top EXCEPT !.pc = "key", !.i = top.i, !.j = top.j]
      BY <1>1 DEF Frames
    <3>3. PICK i \in 1 .. Len(here) + 1, j \in Nat \ {0} : i = top.i /\ j = top.j BY <1>1
    <3>4. SetTop([top EXCEPT !.pc = "key", !.i = i, !.j = j]) BY <3>1, <3>2, <3>3
    <3> QED BY <1>1, <2>1, <3>3, <3>4, <1>j, MovesOn DEF PCs, InFrame, SimplifyTo
  <2>3. CASE doc.kind[node] # "OBJECT"
    <3>1. SetTop([top EXCEPT !.i = top.i + 1]) BY <1>1, <1>3, <2>3 DEF SetItem
    <3>2. [top EXCEPT !.i = top.i + 1]
            = [top EXCEPT !.pc = "items", !.i = top.i + 1, !.j = top.j]
      BY <1>1, <2>1 DEF Frames
    <3>3. PICK i \in 1 .. Len(here) + 1, j \in Nat \ {0} : i = top.i + 1 /\ j = top.j
      BY <1>1, <2>1
    <3>4. SetTop([top EXCEPT !.pc = "items", !.i = i, !.j = j]) BY <3>1, <3>2, <3>3
    <3> QED BY <1>1, <2>1, <3>3, <3>4, <1>j, MovesOn DEF PCs, InFrame, SimplifyTo
  <2> QED BY <2>2, <2>3
<1>4. CASE SetKey
  <2>1. top.pc = "key" /\ top.i <= Len(here) BY <1>1, <1>4 DEF SetKey, FrameOK, here, node
  <2>2. ret' = None
    <3>1. ~Waits(top) /\ ret' = ret BY <1>4 DEF SetKey, Waits
    <3> QED BY <1>1, <3>1, NothingReturned
  <2>3. SetTop([top EXCEPT !.pc = "items", !.i = top.i + 1]) BY <1>4 DEF SetKey
  <2>4. [top EXCEPT !.pc = "items", !.i = top.i + 1]
          = [top EXCEPT !.pc = "items", !.i = top.i + 1, !.j = top.j]
    BY <1>1 DEF Frames
  <2>5. PICK i \in 1 .. Len(here) + 1, j \in Nat \ {0} : i = top.i + 1 /\ j = top.j
    BY <1>1, <2>1
  <2>6. SetTop([top EXCEPT !.pc = "items", !.i = i, !.j = j]) BY <2>3, <2>4, <2>5
  <2> QED BY <1>1, <2>2, <2>5, <2>6, <1>j, <2>1, MovesOn DEF PCs, InFrame, SimplifyTo
<1> QED BY <1>2, <1>3, <1>4

(* The call that fills a data frame waits where it is at a list column.    *)
LEMMA FieldFacts ==
    ASSUME CallsInv, Running, top.pc = "rows"
    PROVE  /\ Waits(top) <=> /\ AtField /\ ~IsRepeated /\ kinds[column_of] = "list"
           /\ AtField => /\ row_node \in nodes(doc) /\ row_node > node
                         /\ Len(doc.items[row_node]) \in Nat
                         /\ field \in nodes(doc) /\ field > node
           /\ InFill => Len(doc.items[row_node]) \in Nat
<1>1. stack # <<>> /\ doc \in Docs BY DEF CallsInv, Running
<1>2. Waits(top) <=> AtField /\ ~IsRepeated /\ kinds[column_of] = "list"
  BY DEF Waits, AtListCell, AtField, InFill, IsRepeated, kinds, column_of, key, row_node,
         cols, cols_of, here, node
<1>3. ASSUME InFill PROVE row_node \in nodes(doc) /\ row_node > node
  BY <1>1, <1>3, TopFacts DEF InFill, row_node
<1>4. ASSUME InFill PROVE Len(doc.items[row_node]) \in Nat
  BY <1>1, <1>3, <1>4, DocFacts
<1>5. ASSUME AtField PROVE field \in nodes(doc) /\ field > node
  <2>1. row_node \in nodes(doc) /\ row_node > node BY <1>3, <1>5 DEF AtField
  <2>2. top.j \in 1 .. Len(doc.items[row_node])
    <3>1. top.j \in Nat \ {0} BY <1>1, TopFacts
    <3>2. Len(doc.items[row_node]) \in Nat BY <1>1, <2>1, DocFacts
    <3> QED BY <1>5, <3>1, <3>2 DEF AtField
  <2>3. field \in nodes(doc) /\ field > row_node
    BY <1>1, <2>1, <2>2, DocFacts DEF field
  <2>4. field \in Nat /\ row_node \in Nat /\ node \in Nat
    BY <1>1, <2>1, <2>3, DocFacts, TopFacts
  <2> QED BY <2>1, <2>3, <2>4
<1> QED BY <1>2, <1>3, <1>4, <1>5 DEF AtField

LEMMA AllocateFrameCalls == ASSUME CallsInv, AllocateFrame PROVE CallsInv'
<1>1. /\ Running /\ UNCHANGED <<args, ret, status>> /\ top.pc = "frame" /\ stack # <<>>
      /\ doc \in Docs
  BY DEF AllocateFrame, CallsInv, Running
<1>2. ret = None /\ top \in Frames /\ FrameOK(top) /\ node \in nodes(doc) /\ opts = option
  <2>1. ~Waits(top) BY <1>1 DEF Waits
  <2> QED BY <1>1, <2>1, NothingReturned, TopFacts
<1>3. PICK ks \in Seq(Col_Kind) : ks = [c \in DOMAIN cols_of(node) |-> kind_of(node, c)]
  BY <1>1, <1>2, KindsType
<1>4. ks = [c \in DOMAIN cols |-> column_kind(doc, opts, node, cols[c])]
  BY <1>2, <1>3 DEF kind_of, cols_of, cols
<1>5. PICK g : g = [top EXCEPT !.pc = "frame_names", !.kinds = ks] OBVIOUS
<1>6. SetTop(g) BY <1>4, <1>5 DEF AllocateFrame
<1>7. /\ g \in Frames /\ g.node = node /\ g.i = top.i /\ g.j = top.j
      /\ g.pc = "frame_names" /\ g.kinds = ks
  BY <1>2, <1>3, <1>5 DEF Frames, PCs, node
<1>8. FrameOK(g) BY <1>1, <1>2, <1>3, <1>7 DEF FrameOK, SimplifyTo, node
<1> QED BY <1>1, <1>2, <1>6, <1>7, <1>8, StaysOn

(* The steps on a data frame's columns. *)
LEMMA ColumnCalls ==
    ASSUME CallsInv, AllocateFrameNames \/ BuildColumn \/ FillMissing \/ ColumnsBuilt
    PROVE  CallsInv'
<1>1. /\ Running /\ UNCHANGED <<args, ret, status>>
      /\ top.pc \in {"frame_names", "columns", "missing"}
  BY DEF AllocateFrameNames, BuildColumn, FillMissing, ColumnsBuilt
<1>2. /\ ret = None /\ top \in Frames /\ FrameOK(top) /\ stack # <<>>
      /\ Len(here) \in Nat /\ top.i \in 1 .. Len(here) + 1 /\ top.j \in Nat \ {0}
  <2>1. ~Waits(top) /\ stack # <<>> BY <1>1 DEF Waits, CallsInv, Running
  <2> QED BY <1>1, <2>1, NothingReturned, TopFacts
<1>3. top.pc \in InFrame BY <1>1 DEF InFrame
<1>4. ASSUME NEW i \in 1 .. Len(here) + 1, NEW j \in Nat \ {0}, NEW p \in {"columns", "missing", "rows"},
             p = "missing" => j <= Len(kinds), p = "columns" => j <= Len(kinds) + 1,
             SetTop([top EXCEPT !.pc = p, !.i = i, !.j = j])
      PROVE  CallsInv'
  <2>1. p \in PCs /\ p \notin SimplifyTo \cup {"frame"} BY DEF PCs, SimplifyTo
  <2> QED BY <1>1, <1>2, <1>3, <1>4, <2>1, MovesOn
<1>f. /\ Len(kinds) \in Nat
      /\ top.pc = "missing" => top.j <= Len(kinds)
      /\ top.pc = "frame_names" => top.j = 1
  BY <1>2 DEF FrameOK, Frames, kinds
<1>5. PICK i \in 1 .. Len(here) + 1, j \in Nat \ {0} : i = top.i /\ j = top.j BY <1>2
<1>6. PICK k \in Nat \ {0} : k = top.j + 1 BY <1>2
<1>8. CASE AllocateFrameNames
  <2>1. SetTop([top EXCEPT !.pc = "columns"]) BY <1>8 DEF AllocateFrameNames, Goto
  <2>3. j <= Len(kinds) + 1 BY <1>5, <1>8, <1>f DEF AllocateFrameNames
  <2>2. [top EXCEPT !.pc = "columns"] = [top EXCEPT !.pc = "columns", !.i = i, !.j = j]
    BY <1>2, <1>5 DEF Frames
  <2> QED BY <1>4, <2>1, <2>2, <2>3
<1>9. CASE BuildColumn
  <2>1. top.pc = "columns" /\ top.j <= Len(kinds) BY <1>9 DEF BuildColumn
  <2>2. CASE kinds[top.j] = "list"
    <3>1. SetTop([top EXCEPT !.pc = "missing"]) BY <1>9, <2>2 DEF BuildColumn, Goto
    <3>2. [top EXCEPT !.pc = "missing"] = [top EXCEPT !.pc = "missing", !.i = i, !.j = j]
      BY <1>2, <1>5 DEF Frames
    <3> QED BY <1>4, <1>5, <2>1, <3>1, <3>2
  <2>3. CASE kinds[top.j] # "list"
    <3>1. SetTop([top EXCEPT !.j = k]) BY <1>2, <1>6, <1>9, <2>3 DEF BuildColumn
    <3>2. [top EXCEPT !.j = k] = [top EXCEPT !.pc = "columns", !.i = i, !.j = k]
      BY <1>2, <1>5, <2>1 DEF Frames
    <3>3. k <= Len(kinds) + 1 BY <1>2, <1>6, <1>f, <2>1
    <3> QED BY <1>4, <3>1, <3>2, <3>3
  <2> QED BY <2>2, <2>3
<1>10. CASE FillMissing
  <2>1. SetTop([top EXCEPT !.pc = "columns", !.j = k])
    BY <1>2, <1>6, <1>10 DEF FillMissing
  <2>2. [top EXCEPT !.pc = "columns", !.j = k] = [top EXCEPT !.pc = "columns", !.i = i, !.j = k]
    BY <1>2, <1>5 DEF Frames
  <2>3. k <= Len(kinds) + 1 BY <1>2, <1>6, <1>10, <1>f DEF FillMissing
  <2> QED BY <1>4, <2>1, <2>2, <2>3
<1>11. CASE ColumnsBuilt
  <2>1. SetTop([top EXCEPT !.pc = "rows", !.i = 1, !.j = 1]) BY <1>11 DEF ColumnsBuilt
  <2>2. PICK a \in 1 .. Len(here) + 1, b \in Nat \ {0} : a = 1 /\ b = 1 BY <1>2
  <2>3. SetTop([top EXCEPT !.pc = "rows", !.i = a, !.j = b]) BY <2>1, <2>2
  <2> QED BY <1>4, <2>3
<1> QED BY <1>8, <1>9, <1>10, <1>11

(* The steps on its rows. *)
LEMMA RowCalls ==
    ASSUME CallsInv, FillCell \/ CallListCell \/ SetListCell \/ FillRowEnd
    PROVE  CallsInv'
<1>1. /\ Running /\ UNCHANGED <<args, status>> /\ top.pc = "rows" /\ top.i <= Len(here)
      /\ InFill /\ stack # <<>>
  BY DEF FillCell, CallListCell, SetListCell, FillRowEnd, AtField, InFill, CallsInv, Running
<1>2. /\ top \in Frames /\ Len(here) \in Nat /\ top.i \in 1 .. Len(here) + 1
      /\ top.j \in Nat \ {0} /\ Len(doc.items[row_node]) \in Nat
  BY <1>1, TopFacts, FieldFacts
<1>3. CASE CallListCell
  <2>1. /\ Waits(top) /\ field \in nodes(doc) /\ field > node /\ Call(field) /\ ret' = None
    BY <1>1, <1>3, FieldFacts DEF CallListCell
  <2> QED BY <1>1, <2>1, CallsOn
<1>4. ret' = None \/ CallListCell
  <2>1. CASE FillCell
    <3>1. ~Waits(top) BY <1>1, <2>1, FieldFacts DEF FillCell
    <3> QED BY <1>1, <2>1, <3>1, NothingReturned DEF FillCell
  <2>2. CASE FillRowEnd
    <3>1. ~AtField BY <1>2, <2>2 DEF FillRowEnd, AtField
    <3>2. ~Waits(top) BY <1>1, <3>1, FieldFacts
    <3> QED BY <1>1, <2>2, <3>2, NothingReturned DEF FillRowEnd
  <2> QED BY <2>1, <2>2 DEF SetListCell
<1>5. ASSUME NEW i \in 1 .. Len(here) + 1, NEW j \in Nat \ {0}, ret' = None,
             SetTop([top EXCEPT !.pc = "rows", !.i = i, !.j = j])
      PROVE  CallsInv'
  BY <1>1, <1>5, MovesOn DEF PCs, InFrame, SimplifyTo
<1>6. CASE ~CallListCell /\ ~FillRowEnd
  <2>1. SetTop([top EXCEPT !.j = top.j + 1])
    BY <1>2, <1>6 DEF FillCell, SetListCell, NextField
  <2>2. PICK i \in 1 .. Len(here) + 1, k \in Nat \ {0} : i = top.i /\ k = top.j + 1
    BY <1>2
  <2>3. [top EXCEPT !.j = top.j + 1] = [top EXCEPT !.pc = "rows", !.i = i, !.j = k]
    BY <1>1, <1>2, <2>2 DEF Frames
  <2> QED BY <1>4, <1>5, <1>6, <2>1, <2>3
<1>7. CASE FillRowEnd
  <2>1. SetTop([top EXCEPT !.i = top.i + 1, !.j = 1]) BY <1>2, <1>7 DEF FillRowEnd
  <2>2. PICK i \in 1 .. Len(here) + 1, k \in Nat \ {0} : i = top.i + 1 /\ k = 1
    BY <1>1, <1>2
  <2>3. [top EXCEPT !.i = top.i + 1, !.j = 1] = [top EXCEPT !.pc = "rows", !.i = i, !.j = k]
    BY <1>1, <1>2, <2>2 DEF Frames
  <2>4. ret' = None \/ CallListCell BY <1>4
  <2> QED BY <1>3, <1>5, <2>1, <2>3, <2>4
<1> QED BY <1>3, <1>6, <1>7

LEMMA CallsKept == CallsInv /\ [Next]_vars => CallsInv'
<1> SUFFICES ASSUME CallsInv, [Next]_vars PROVE CallsInv' OBVIOUS
<1>1. CASE UNCHANGED vars
  <2>1. UNCHANGED <<args, doc, option, stack, ret, status>> BY <1>1 DEF vars, args
  <2>2. Frames' = Frames /\ top' = top /\ (Running' <=> Running)
    BY <2>1 DEF Frames, top, Running
  <2>3. \A f : (FrameOK(f)' <=> FrameOK(f)) /\ (Waits(f)' <=> Waits(f)) BY <2>1, SameDoc
  <2>4. /\ \A k \in DOMAIN stack : FrameOK(stack[k])'
        /\ \A k \in DOMAIN stack : k < Len(stack) => Waits(stack[k])'
        /\ ret # None => status = "returned" \/ (Running /\ Waits(top)')
    BY <2>1, <2>2, <2>3 DEF CallsInv
  <2> QED BY <2>1, <2>2, <2>4 DEF CallsInv
<1>2. CASE AllocationFails
  <2>1. /\ status' = "jumped" /\ stack' = <<>> /\ ret' = None /\ doc' = doc
        /\ option' = option
    BY <1>2 DEF AllocationFails, args
  <2>2. <<>> \in Seq(Frames') /\ DOMAIN <<>> = {} OBVIOUS
  <2>3. doc' \in Docs /\ option' \in Options BY <2>1 DEF CallsInv
  <2>4. stack' \in Seq(Frames)' /\ DOMAIN stack' = {} BY <2>1, <2>2
  <2> QED BY <2>1, <2>3, <2>4 DEF CallsInv
<1>3. CASE EmbeddedNul
  <2>1. /\ Running /\ status' = "throwing" /\ ret' = None /\ UNCHANGED <<args, stack>>
    BY <1>3 DEF EmbeddedNul
  <2>2. Frames' = Frames /\ doc' = doc /\ option' = option BY <2>1 DEF Frames, args
  <2>3. \A f : (FrameOK(f)' <=> FrameOK(f)) /\ (Waits(f)' <=> Waits(f)) BY <2>1, SameDoc
  <2>4. stack # <<>> BY <2>1 DEF CallsInv, Running
  <2>5. \A k \in DOMAIN stack : FrameOK(stack[k])'
    BY <2>1, <2>3 DEF CallsInv
  <2>6. \A k \in DOMAIN stack : k < Len(stack) => Waits(stack[k])'
    BY <2>1, <2>3 DEF CallsInv
  <2> QED BY <2>1, <2>2, <2>4, <2>5, <2>6 DEF CallsInv, Frames
<1>4. CASE Unwind
  <2>1. status = "throwing" /\ stack # <<>> /\ ret = None
    BY <1>4 DEF Unwind, CallsInv, Running
  <2>2. /\ UNCHANGED args /\ stack' = SubSeq(stack, 1, Len(stack) - 1) /\ ret' = None
        /\ status' = IF Len(stack) = 1 THEN "thrown" ELSE "throwing"
    BY <1>4, <2>1 DEF Unwind
  <2> QED BY <2>1, <2>2, EndsOn
<1> QED
  BY <1>1, <1>2, <1>3, <1>4, SimplifyElementCalls, GotoCalls, ReturnCalls, ListCalls,
     AllocateFrameCalls, ColumnCalls, RowCalls DEF Next, Finished

-----------------------------------------------------------------------------
(***************************************************************************)
(* What is protected.                                                      *)
(***************************************************************************)

(* A set of places that has all those after its first is as large as the   *)
(* rest of the sequence is long.                                           *)
LEMMA Suffix ==
    ASSUME NEW L \in Nat, NEW K \in SUBSET (1 .. L),
           \A k \in K, q \in 1 .. L : k < q => q \in K
    PROVE  Cardinality(K) \in 0 .. L /\ K = (L - Cardinality(K) + 1) .. L
<1>1. CASE K = {}
  <2>1. Cardinality(K) = 0 BY <1>1, FS_EmptySet
  <2> QED BY <1>1, <2>1
<1>2. CASE K # {}
  <2> DEFINE T == {1 .. k : k \in K}
  <2>a. T # {}
    <3>1. PICK k \in K : TRUE BY <1>2
    <3>2. 1 .. k \in T OBVIOUS
    <3> QED BY <3>2
  <2>b. T \subseteq FiniteSubsetsOf(Nat)
    <3>1. \A k \in Nat : IsFiniteSet(1 .. k) /\ 1 .. k \subseteq Nat BY FS_Interval
    <3> QED BY <3>1 DEF FiniteSubsetsOf
  <2>c. IsWellFoundedOn(StrictSubsetOrdering(Nat), FiniteSubsetsOf(Nat))
    BY FS_StrictSubsetOrderingWellFounded
  <2> HIDE DEF T
  <2>d. PICK X \in T : \A Y \in T : ~ (<<Y, X>> \in StrictSubsetOrdering(Nat))
    BY <2>a, <2>b, <2>c, WFMin
  <2>e. PICK m \in K : X = 1 .. m BY DEF T
  <2>1. ASSUME NEW k \in K, k < m PROVE FALSE
    <3>1. 1 .. k \in T BY DEF T
    <3>2. 1 .. k \subseteq 1 .. m /\ 1 .. k # 1 .. m /\ 1 .. m \subseteq Nat BY <2>1
    <3>3. <<1 .. k, X>> \in StrictSubsetOrdering(Nat)
      BY <2>e, <3>2 DEF StrictSubsetOrdering
    <3> QED BY <2>d, <3>1, <3>3
  <2>2. K = m .. L
    <3>1. K \subseteq m .. L BY <2>1
    <3>2. \A q \in m .. L : q = m \/ (m < q /\ q \in 1 .. L) OBVIOUS
    <3>3. m .. L \subseteq K BY <3>2
    <3> QED BY <3>1, <3>3
  <2>3. Cardinality(K) = L - m + 1 BY <2>2, FS_Interval
  <2> QED BY <2>2, <2>3
<1> QED BY <1>1, <1>2

LEMMA CallsProtect ==
    ASSUME CallsInv, ProtectionInv, UNCHANGED <<doc, protects, precious>>, status # "jumped",
           \A n : IsOnStack(n) => IsOnStack(n)'
    PROVE  ProtectionInv'
<1>1. Own' = Own BY DEF Own
<1>2. \A p \in DOMAIN protects : IsOnStack(protects[p][1])' BY DEF ProtectionInv
<1>3. \A a \in precious : IsOnStack(a[1])' BY DEF ProtectionInv
<1> QED BY <1>1, <1>2, <1>3 DEF ProtectionInv

(* The running call protects an object. *)
LEMMA Protects ==
    ASSUME CallsInv, ProtectionInv, Running, UNCHANGED doc, NEW a \in Mine,
           Shield(a) \/ Preserve(a), \A n : IsOnStack(n) => IsOnStack(n)'
    PROVE  ProtectionInv'
<1>1. stack # <<>> /\ Own' = Own BY DEF CallsInv, Running, Own
<1>2. /\ Len(stack) \in Nat \ {0} /\ DOMAIN stack = 1 .. Len(stack) /\ node = stack[Len(stack)].node
      /\ node \in nodes(doc) /\ node \in Nat
      /\ \A k \in DOMAIN stack : stack[k].node \in Nat /\ stack[k].node <= node
  BY <1>1, TopFacts DEF node
<1>3. a \in Own /\ a[1] = node /\ IsOnStack(a[1])'
  <2>1. IsOnStack(node) BY <1>2 DEF IsOnStack
  <2>2. a \in Own /\ a[1] = node BY <1>2 DEF Mine, out, out_names, Own
  <2> QED BY <2>1, <2>2
<1>4. CASE Preserve(a)
  <2>1. \A p \in DOMAIN protects : IsOnStack(protects[p][1])'
    BY <1>4 DEF ProtectionInv, Preserve
  <2>2. \A b \in precious \cup {a} : IsOnStack(b[1])'
    BY <1>3 DEF ProtectionInv, Running
  <2> QED BY <1>1, <1>3, <1>4, <2>1, <2>2 DEF ProtectionInv, Preserve
<1>5. CASE Shield(a)
  <2>1. protects \in Seq(Own) /\ protects' = Append(protects, a) /\ precious' = precious
    BY <1>5 DEF ProtectionInv, Shield
  <2>2. PICK s \in Seq(Own) : s = protects BY <2>1
  <2>3. PICK t \in Seq(Own) : t = Append(s, a)
    <3>1. Append(s, a) \in Seq(Own) BY <1>3
    <3> QED BY <3>1
  <2>4. /\ Len(s) \in Nat /\ DOMAIN s = 1 .. Len(s) /\ DOMAIN t = 1 .. Len(s) + 1
        /\ t[Len(s) + 1] = a /\ \A p \in DOMAIN s : t[p] = s[p]
    BY <1>3, <2>3
  <2>5. ASSUME NEW p \in DOMAIN s PROVE s[p][1] \in Nat /\ s[p][1] <= node
    BY <1>2, <2>2 DEF ProtectionInv, IsOnStack
  <2>6. \A p, q \in DOMAIN t : p < q => t[p][1] <= t[q][1]
    <3>1. \A p, q \in DOMAIN s : p < q => t[p][1] <= t[q][1]
      BY <2>2, <2>4 DEF ProtectionInv
    <3>2. \A p \in DOMAIN t : t[p][1] <= t[Len(s) + 1][1]
      BY <1>2, <1>3, <2>4, <2>5
    <3> QED BY <2>4, <3>1, <3>2
  <2>7. \A p \in DOMAIN t : IsOnStack(t[p][1])'
    <3>1. \A p \in DOMAIN s : IsOnStack(s[p][1])' BY <2>2 DEF ProtectionInv
    <3> QED BY <1>3, <2>4, <3>1
  <2>8. \A b \in precious : IsOnStack(b[1])'
    BY DEF ProtectionInv, Running
  <2> QED BY <1>1, <2>1, <2>2, <2>3, <2>6, <2>7, <2>8 DEF ProtectionInv
<1> QED BY <1>4, <1>5

(* The running call ends and undoes what it did. *)
LEMMA ScopeUndone ==
    ASSUME CallsInv, ProtectionInv, stack # <<>>, status # "jumped", UNCHANGED doc,
           LeaveScope, DOMAIN stack' = 1 .. Len(stack) - 1,
           \A k \in DOMAIN stack' : stack'[k] = stack[k]
    PROVE  ProtectionInv' /\ \A a \in Protected : a[1] # node => a \in Protected'
<1>1. /\ Len(stack) \in Nat \ {0} /\ DOMAIN stack = 1 .. Len(stack)
      /\ node = stack[Len(stack)].node /\ node \in Nat
      /\ \A k \in DOMAIN stack : /\ stack[k].node \in Nat
                                 /\ k < Len(stack) => stack[k].node < node
  BY TopFacts DEF node
<1>2. PICK s \in Seq(Own) : s = protects BY DEF ProtectionInv
<1>3. Len(s) \in Nat /\ DOMAIN s = 1 .. Len(s) OBVIOUS
<1>4. \A a \in Own : a[1] \in nodes(doc) /\ (a \in Mine <=> a[1] = node)
  BY DEF Own, Mine, out, out_names
<1>5. \A n : IsOnStack(n) => n \in Nat /\ n <= node /\ (n # node => IsOnStack(n)')
  BY <1>1 DEF IsOnStack
<1> DEFINE K == {k \in DOMAIN s : s[k] \in Mine}
<1>6. \A k \in DOMAIN s : /\ s[k] \in Own /\ IsOnStack(s[k][1])
                          /\ k \in K <=> s[k][1] = node
  BY <1>2, <1>4 DEF ProtectionInv
<1>7. \A k, q \in DOMAIN s : k < q => s[k][1] <= s[q][1] BY <1>2 DEF ProtectionInv
<1>8. ASSUME NEW k \in K, NEW q \in DOMAIN s, k < q PROVE q \in K
  <2>1. s[k][1] = node /\ s[k][1] <= s[q][1] BY <1>6, <1>7, <1>8
  <2>2. s[q][1] \in Nat /\ s[q][1] <= node BY <1>5, <1>6
  <2>3. s[q][1] = node BY <1>1, <2>1, <2>2
  <2> QED BY <1>6, <2>3
<1>9. Cardinality(K) \in 0 .. Len(s) /\ K = (Len(s) - Cardinality(K) + 1) .. Len(s)
  BY <1>3, <1>8, Suffix
<1>10. protects' = SubSeq(s, 1, Len(s) - Cardinality(K)) /\ precious' = precious \ Mine
  BY <1>2 DEF LeaveScope
<1> HIDE DEF K
<1>11. PICK m \in 0 .. Len(s) : m = Len(s) - Cardinality(K) BY <1>3, <1>9
<1>12. PICK t \in Seq(Own) : t = protects'
  <2>1. SubSeq(s, 1, m) \in Seq(Own) OBVIOUS
  <2> QED BY <1>10, <1>11, <2>1
<1>13. DOMAIN t = 1 .. m /\ \A p \in 1 .. m : t[p] = s[p] /\ p \in DOMAIN s /\ p \notin K
  <2>1. DOMAIN t = 1 .. m /\ \A p \in 1 .. m : t[p] = s[p] BY <1>10, <1>11, <1>12
  <2>2. \A p \in 1 .. m : p \in DOMAIN s /\ p \notin K BY <1>3, <1>9, <1>11
  <2> QED BY <2>1, <2>2
<1>14. \A p \in DOMAIN t : IsOnStack(t[p][1])' BY <1>5, <1>6, <1>13
<1>15. \A p, q \in DOMAIN t : p < q => t[p][1] <= t[q][1] BY <1>7, <1>13
<1>16. precious' \subseteq Own /\ \A a \in precious' : IsOnStack(a[1])'
  <2>1. ASSUME NEW a \in precious' PROVE IsOnStack(a[1])'
    <3>1. a \in Own /\ a \notin Mine /\ IsOnStack(a[1]) BY <1>10, <2>1 DEF ProtectionInv
    <3> QED BY <1>4, <1>5, <3>1
  <2> QED BY <1>10, <2>1 DEF ProtectionInv
<1>17. Own' = Own BY DEF Own
<1>18. ProtectionInv' BY <1>12, <1>14, <1>15, <1>16, <1>17 DEF ProtectionInv
<1>19. ASSUME NEW a \in Protected, a[1] # node PROVE a \in Protected'
  <2>1. CASE a \in precious
    <3>1. a \in Own BY <2>1 DEF ProtectionInv
    <3>2. a \notin Mine BY <1>4, <1>19, <3>1
    <3> QED BY <1>10, <2>1, <3>2 DEF Protected
  <2>2. CASE a \in Range(protects)
    <3>1. PICK k \in DOMAIN s : a = s[k] BY <1>2, <2>2 DEF Range
    <3>2. k \notin K BY <1>6, <1>19, <3>1
    <3>3. k \in 1 .. m BY <1>3, <1>9, <1>11, <3>2
    <3>4. k \in DOMAIN t /\ t[k] = a BY <1>13, <3>1, <3>3
    <3> QED BY <1>12, <3>4 DEF Protected, Range
  <2> QED BY <2>1, <2>2 DEF Protected
<1> QED BY <1>18, <1>19

(* The calls that are running stay until they end. *)
LEMMA NodesStay ==
    ASSUME CallsInv, stack # <<>>,
           \/ \E g : SetTop(g) /\ g.node = node
           \/ \E n : Call(n)
           \/ UNCHANGED stack
    PROVE  \A n : IsOnStack(n) => IsOnStack(n)'
<1>1. PICK s \in Seq(Frames) : s = stack BY DEF CallsInv
<1>2. /\ Len(s) \in Nat \ {0} /\ DOMAIN s = 1 .. Len(s) /\ node = s[Len(s)].node
  BY <1>1, TopFacts DEF node
<1>3. \A n : IsOnStack(n) <=> \E k \in DOMAIN s : s[k].node = n BY <1>1 DEF IsOnStack
<1>4. CASE UNCHANGED stack BY <1>4 DEF IsOnStack
<1>5. ASSUME NEW g, SetTop(g), g.node = node PROVE \A n : IsOnStack(n) => IsOnStack(n)'
  <2>1. stack' = [s EXCEPT ![Len(s)] = g] BY <1>1, <1>5 DEF SetTop
  <2>2. DOMAIN stack' = DOMAIN s /\ \A k \in DOMAIN s : stack'[k].node = s[k].node
    BY <1>2, <1>5, <2>1
  <2> QED BY <1>3, <2>2 DEF IsOnStack
<1>6. ASSUME NEW n, Call(n) PROVE \A m : IsOnStack(m) => IsOnStack(m)'
  <2>1. stack' = Append(s, Frame(n, opts)) BY <1>1, <1>6 DEF Call
  <2>2. \A k \in DOMAIN s : k \in DOMAIN stack' /\ stack'[k] = s[k] BY <1>2, <2>1
  <2> QED BY <1>3, <2>2 DEF IsOnStack
<1> QED BY <1>4, <1>5, <1>6

LEMMA AllocatesOnStack ==
    ASSUME CallsInv,
           \/ AllocateAtomic \/ AllocateList \/ AllocateNames
           \/ AllocateFrame \/ AllocateFrameNames
    PROVE  \A n : IsOnStack(n) => IsOnStack(n)'
<1>1. Running /\ stack # <<>>
  BY DEF AllocateAtomic, AllocateList, AllocateNames, AllocateFrame, AllocateFrameNames,
         CallsInv, Running
<1>2. top \in Frames BY <1>1, TopFacts
<1>3. \A p : [top EXCEPT !.pc = p].node = node BY <1>2 DEF Frames, node
<1>4. \A p, ks : [top EXCEPT !.pc = p, !.kinds = ks].node = node BY <1>2 DEF Frames, node
<1>5. CASE AllocateFrame
  <2>1. PICK g : g = [top EXCEPT !.pc = "frame_names",
                                 !.kinds = [j \in DOMAIN cols |->
                                              column_kind(doc, opts, node, cols[j])]]
    OBVIOUS
  <2>2. SetTop(g) /\ g.node = node BY <1>4, <1>5, <2>1 DEF AllocateFrame
  <2> QED BY <1>1, <2>2, NodesStay
<1>6. CASE AllocateList
  <2>1. PICK p : p = IF top.pc = "list" THEN "items" ELSE "names" OBVIOUS
  <2>2. Goto(p) BY <1>6, <2>1 DEF AllocateList
  <2> QED BY <1>1, <1>3, <2>2, NodesStay DEF Goto
<1>7. CASE AllocateAtomic \/ AllocateNames \/ AllocateFrameNames
  <2>1. Goto("fill") \/ Goto("items") \/ Goto("columns")
    BY <1>7 DEF AllocateAtomic, AllocateNames, AllocateFrameNames
  <2>2. \E g : SetTop(g) /\ g.node = node BY <1>3, <2>1 DEF Goto
  <2> QED BY <1>1, <2>2, NodesStay
<1> QED BY <1>5, <1>6, <1>7

(* The running call goes on, or waits for another. *)
Continues == \/ TryLevel \/ CallItem \/ SetItem \/ SetKey
             \/ BuildColumn \/ FillMissing \/ ColumnsBuilt
             \/ FillCell \/ CallListCell \/ SetListCell \/ FillRowEnd

LEMMA ContinuesOnStack ==
    ASSUME CallsInv, Continues
    PROVE  \A n : IsOnStack(n) => IsOnStack(n)'
<1>1. Running /\ stack # <<>>
  BY DEF Continues, TryLevel, CallItem, SetItem, SetKey, BuildColumn, FillMissing,
         ColumnsBuilt, FillCell, CallListCell, SetListCell, FillRowEnd, AtField, InFill,
         CallsInv, Running
<1>2. top \in Frames BY <1>1, TopFacts
<1>3. \A p : [top EXCEPT !.pc = p].node = node BY <1>2 DEF Frames, node
<1>4. \A i, j : /\ [top EXCEPT !.i = i].node = node /\ [top EXCEPT !.j = j].node = node
                /\ [top EXCEPT !.i = i, !.j = j].node = node
  BY <1>2 DEF Frames, node
<1>5. \A p, i, j : /\ [top EXCEPT !.pc = p, !.i = i].node = node
                   /\ [top EXCEPT !.pc = p, !.j = j].node = node
                   /\ [top EXCEPT !.pc = p, !.i = i, !.j = j].node = node
  BY <1>2 DEF Frames, node
<1>6. \/ \E g : SetTop(g) /\ g.node = node
      \/ \E n : Call(n)
  <2>1. CASE TryLevel
    <3>1. PICK p : p = (CASE top.pc = "data_frame" ->
                                IF IsTable(doc, node) THEN "frame" ELSE "matrix"
                          [] top.pc = "matrix" ->
                                IF diagnose THEN "build_matrix" ELSE "vector"
                          [] top.pc = "vector" ->
                                IF vectorizable(opts, kinds_in(doc, here))
                                THEN "build_vector" ELSE "list")
      OBVIOUS
    <3>2. Goto(p) BY <2>1, <3>1 DEF TryLevel
    <3> QED BY <1>3, <3>2 DEF Goto
  <2>2. CASE CallItem \/ CallListCell BY <2>2 DEF CallItem, CallListCell
  <2>3. CASE SetItem
    <3>1. Goto("key") \/ SetTop([top EXCEPT !.i = top.i + 1])
      BY <1>2, <2>3 DEF SetItem, Frames
    <3> QED BY <1>3, <1>4, <3>1 DEF Goto
  <2>4. CASE SetKey
    <3>1. SetTop([top EXCEPT !.pc = "items", !.i = top.i + 1])
      BY <1>2, <2>4 DEF SetKey, Frames
    <3> QED BY <1>5, <3>1
  <2>5. CASE BuildColumn
    <3>1. Goto("missing") \/ SetTop([top EXCEPT !.j = top.j + 1])
      BY <1>2, <2>5 DEF BuildColumn, Frames
    <3> QED BY <1>3, <1>4, <3>1 DEF Goto
  <2>6. CASE FillMissing
    <3>1. SetTop([top EXCEPT !.pc = "columns", !.j = top.j + 1])
      BY <1>2, <2>6 DEF FillMissing, Frames
    <3> QED BY <1>5, <3>1
  <2>7. CASE ColumnsBuilt
    <3>1. SetTop([top EXCEPT !.pc = "rows", !.i = 1, !.j = 1]) BY <2>7 DEF ColumnsBuilt
    <3>2. PICK g : g = [top EXCEPT !.pc = "rows", !.i = 1, !.j = 1] OBVIOUS
    <3>3. [top EXCEPT !.pc = "rows", !.i = 1, !.j = 1].node = node BY <1>5
    <3>4. SetTop(g) /\ g.node = node BY <3>1, <3>2, <3>3
    <3> QED BY <3>4
  <2>8. CASE FillCell \/ SetListCell
    <3>1. SetTop([top EXCEPT !.j = top.j + 1])
      BY <1>2, <2>8 DEF FillCell, SetListCell, NextField, Frames
    <3> QED BY <1>4, <3>1
  <2>9. CASE FillRowEnd
    <3>1. SetTop([top EXCEPT !.i = top.i + 1, !.j = 1])
      BY <1>2, <2>9 DEF FillRowEnd, Frames
    <3> QED BY <1>4, <3>1
  <2> QED BY <2>1, <2>2, <2>3, <2>4, <2>5, <2>6, <2>7, <2>8, <2>9 DEF Continues
<1> QED BY <1>1, <1>6, NodesStay

LEMMA ProtectionKept == CallsInv /\ ProtectionInv /\ [Next]_vars => ProtectionInv'
<1> SUFFICES ASSUME CallsInv, ProtectionInv, [Next]_vars PROVE ProtectionInv' OBVIOUS
<1>1. ASSUME NEW a, Return(a), UNCHANGED args, Running PROVE ProtectionInv'
  <2>1. /\ UNCHANGED doc /\ stack # <<>> /\ status # "jumped"
        /\ stack' = SubSeq(stack, 1, Len(stack) - 1) /\ LeaveScope
        /\ status' = IF Len(stack) = 1 THEN "returned" ELSE "running"
    BY <1>1 DEF args, Return, CallsInv, Running
  <2>2. DOMAIN stack' = 1 .. Len(stack) - 1 /\ \A k \in DOMAIN stack' : stack'[k] = stack[k]
    BY <1>1, <2>1, EndsOn
  <2> QED BY <2>1, <2>2, ScopeUndone
<1>2. CASE Continues
  <2>1. UNCHANGED <<doc, protects, precious>> /\ status # "jumped"
    BY <1>2 DEF Continues, TryLevel, CallItem, SetItem, SetKey, BuildColumn, FillMissing,
         ColumnsBuilt, FillCell, CallListCell, SetListCell, FillRowEnd, AtField, InFill,
         Running, args
  <2> QED BY <1>2, <2>1, ContinuesOnStack, CallsProtect
<1>3. CASE SimplifyElement
  <2>1. PICK a : a = CallersObject(doc.kind[node]) OBVIOUS
  <2>2. CASE Return(a) BY <1>1, <1>3, <2>2 DEF SimplifyElement
  <2>3. PICK p : p = IF doc.kind[node] = "OBJECT" THEN "object" ELSE opts.simplify_to
    OBVIOUS
  <2>4. CASE (Goto("scalar") \/ Goto(p)) /\ UNCHANGED <<protects, precious>>
    <3>1. Running /\ UNCHANGED doc /\ status # "jumped" /\ stack # <<>>
      BY <1>3 DEF SimplifyElement, args, Running, CallsInv
    <3>2. top \in Frames BY <3>1, TopFacts
    <3>3. [top EXCEPT !.pc = "scalar"].node = node /\ [top EXCEPT !.pc = p].node = node
      BY <3>2 DEF Frames, node
    <3>4. \E g : SetTop(g) /\ g.node = node BY <2>4, <3>3 DEF Goto
    <3> QED BY <2>4, <3>1, <3>4, NodesStay, CallsProtect
  <2> QED BY <1>3, <2>1, <2>2, <2>3, <2>4 DEF SimplifyElement
<1>4. CASE AllocateAtomic \/ AllocateList \/ AllocateNames
           \/ AllocateFrame \/ AllocateFrameNames
  <2>1. PICK a \in Mine : Shield(a) \/ Preserve(a)
    BY <1>4 DEF Mine, AllocateAtomic, AllocateList, AllocateNames, AllocateFrame,
                AllocateFrameNames
  <2>2. Running /\ UNCHANGED doc
    BY <1>4 DEF AllocateAtomic, AllocateList, AllocateNames, AllocateFrame,
                AllocateFrameNames, args
  <2> QED BY <1>4, <2>1, <2>2, AllocatesOnStack, Protects
<1>5. CASE FillAtomic \/ ReturnList \/ ReturnFrame
  <2>1. PICK a : a = out OBVIOUS
  <2> QED BY <1>1, <1>5, <2>1 DEF FillAtomic, ReturnList, ReturnFrame
<1>6. CASE EmbeddedNul
  <2>1. UNCHANGED <<doc, protects, precious, stack>> /\ status # "jumped" /\ stack # <<>>
    BY <1>6 DEF EmbeddedNul, args, Running, CallsInv
  <2> QED BY <2>1, NodesStay, CallsProtect
<1>7. CASE Unwind
  <2>1. /\ stack # <<>> /\ UNCHANGED <<doc, args>> /\ LeaveScope /\ ret' = None
        /\ stack' = SubSeq(stack, 1, Len(stack) - 1) /\ status # "jumped"
        /\ status' = IF Len(stack) = 1 THEN "thrown" ELSE "throwing"
    BY <1>7 DEF Unwind, CallsInv, args, Running
  <2>2. DOMAIN stack' = 1 .. Len(stack) - 1 /\ \A k \in DOMAIN stack' : stack'[k] = stack[k]
    BY <2>1, EndsOn
  <2> QED BY <2>1, <2>2, ScopeUndone
<1>8. CASE AllocationFails
  <2>1. protects' = <<>> /\ UNCHANGED <<doc, precious>> /\ status' = "jumped"
    BY <1>8 DEF AllocationFails, args
  <2>2. Own' = Own BY <2>1 DEF Own
  <2>3. <<>> \in Seq(Own) /\ DOMAIN <<>> = {} OBVIOUS
  <2>4. protects' \in Seq(Own) /\ DOMAIN protects' = {} BY <2>1, <2>3
  <2> QED BY <2>1, <2>2, <2>4 DEF ProtectionInv
<1>9. CASE UNCHANGED vars
  BY <1>9 DEF vars, args, ProtectionInv, Own, IsOnStack
<1> QED
  BY <1>2, <1>3, <1>4, <1>5, <1>6, <1>7, <1>8, <1>9 DEF Next, Continues, Finished

LEMMA InitiallyOneCall == Init => CallsInv /\ ProtectionInv
<1> SUFFICES ASSUME Init PROVE CallsInv /\ ProtectionInv OBVIOUS
<1>1. PICK g : g = Frame(1, option) OBVIOUS
<1>2. /\ doc \in Docs /\ option \in Options /\ stack = <<g>> /\ ret = None
      /\ status = "running" /\ protects = <<>> /\ precious = {}
  BY <1>1 DEF Init
<1>3. 1 \in nodes(doc) /\ Len(doc.items[1]) \in Nat BY <1>2, DocFacts
<1>4. g \in Frames /\ g.node = 1 /\ g.i = 1 /\ g.j = 1 /\ g.pc = "element"
  BY <1>1, <1>3 DEF Frame, Frames, PCs
<1>5. FrameOK(g) BY <1>3, <1>4 DEF FrameOK, InFrame, SimplifyTo
<1>6. stack \in Seq(Frames) /\ Len(stack) = 1 /\ DOMAIN stack = {1} /\ stack[1] = g
      /\ stack # <<>>
  BY <1>2, <1>4
<1>7. CallsInv BY <1>2, <1>5, <1>6 DEF CallsInv
<1>8. <<>> \in Seq(Own) /\ DOMAIN <<>> = {} OBVIOUS
<1>9. protects \in Seq(Own) /\ DOMAIN protects = {} BY <1>2, <1>8
<1>10. ProtectionInv BY <1>2, <1>9 DEF ProtectionInv
<1> QED BY <1>7, <1>10

LEMMA CallsHold == Spec => [](CallsInv /\ ProtectionInv)
BY InitiallyOneCall, CallsKept, ProtectionKept, PTL DEF Spec

(* Every variable of simplify_element() and the functions it calls holds   *)
(* values of its type, whatever the documents and options: cursors stay    *)
(* within the arrays, and what is protected are objects made for nodes.    *)
THEOREM TypeCorrect == Spec => []TypeOK
<1>1. CallsInv /\ ProtectionInv => TypeOK
  <2> SUFFICES ASSUME CallsInv, ProtectionInv PROVE TypeOK OBVIOUS
  <2>1. IsDocument(doc) BY DocFacts DEF CallsInv
  <2>2. option \in Option BY SimplifyOptionsAssumption DEF CallsInv
  <2>3. ASSUME NEW k \in DOMAIN stack
        PROVE  /\ stack[k].node \in nodes(doc)
               /\ stack[k].opts \in Option
               /\ stack[k].i \in 1 .. Len(doc.items[stack[k].node]) + 1
               /\ stack[k].j \in Nat \ {0} /\ stack[k].kinds \in Seq(Col_Kind)
    <3>1. FrameOK(stack[k]) BY DEF CallsInv
    <3> QED BY <2>2, <3>1 DEF FrameOK, Frames
  <2>4. (stack # <<>>) = (status \in {"running", "throwing"}) BY DEF CallsInv
  <2>5. protects \in Seq(nodes(doc) \X {"out", "names"} \X {0})
        /\ precious \subseteq nodes(doc) \X {"out", "names"} \X {0}
    BY DEF ProtectionInv, Own
  <2> QED BY <2>1, <2>2, <2>3, <2>4, <2>5 DEF TypeOK
<1> QED BY <1>1, CallsHold, PTL

(* Whatever levels were tried, and at whichever depth a C++ exception was  *)
(* thrown: once the call of simplify_element() is over, its Shields and    *)
(* its Rcpp objects have taken back everything they protected, in order.   *)
THEOREM ProtectionIsUndone == Spec => []NothingStaysProtected
<1>1. CallsInv /\ ProtectionInv => NothingStaysProtected
  <2> SUFFICES ASSUME CallsInv, ProtectionInv, status \in {"returned", "thrown"}
               PROVE  protects = <<>> /\ precious = {}
    BY DEF NothingStaysProtected
  <2>1. stack = <<>> BY DEF CallsInv
  <2>2. DOMAIN stack = {} BY <2>1
  <2>3. \A n : ~IsOnStack(n) BY <2>2 DEF IsOnStack
  <2>4. precious = {} BY <2>3 DEF ProtectionInv
  <2>5. PICK s \in Seq(Own) : s = protects BY DEF ProtectionInv
  <2>6. DOMAIN s = {} BY <2>3, <2>5 DEF ProtectionInv
  <2>7. s = <<>> BY <2>6
  <2> QED BY <2>4, <2>5, <2>7
<1> QED BY <1>1, CallsHold, PTL

-----------------------------------------------------------------------------
(***************************************************************************)
(* What is on the heap.                                                    *)
(***************************************************************************)

LEMMA NewObject ==
    ASSUME NEW class, NEW D, NEW elem, NEW attr,
           NEW e, e = [k \in D |-> elem[k]],
           NEW o, o = RObject(class, e, attr)
    PROVE  /\ IsObject(o) /\ o.class = class /\ o.elems = e /\ o.attr = attr
           /\ DOMAIN o.elems = D
           /\ class \notin {"list", "data.frame"} => Refs(o) = {}
           /\ attr = <<>> /\ (\A k \in D : elem[k] = None) => Refs(o) = {}
<1>1. o.class = class /\ o.elems = e /\ o.attr = attr BY DEF RObject
<1>2. IsObject(o) BY <1>1 DEF IsObject
<1>3. class \notin {"list", "data.frame"} => Refs(o) = {}
  BY <1>1 DEF Refs, IsRecursive
<1>4. ASSUME attr = <<>>, \A k \in D : elem[k] = None PROVE Refs(o) = {}
  <2>1. Range(o.elems) \ {None} = {} BY <1>1, <1>4 DEF Range
  <2> QED BY <1>1, <1>4, <2>1 DEF Refs
<1> QED BY <1>1, <1>2, <1>3, <1>4

Entered(o, k, x) == [o EXCEPT !.elems[k] = x]

LEMMA SetElement ==
    ASSUME NEW o, IsObject(o), NEW k, NEW x, NEW p, p = Entered(o, k, x)
    PROVE  /\ IsObject(p) /\ p.class = o.class /\ p.attr = o.attr
           /\ DOMAIN p.elems = DOMAIN o.elems
           /\ \A i \in DOMAIN o.elems : p.elems[i] = IF i = k THEN x ELSE o.elems[i]
           /\ Refs(p) \subseteq Refs(o) \cup ({x} \ {None})
<1>1. p.class = o.class /\ p.attr = o.attr /\ p.elems = [o.elems EXCEPT ![k] = x]
      /\ p = RObject(p.class, p.elems, p.attr)
  BY DEF IsObject, RObject, Entered
<1>2. /\ DOMAIN p.elems = DOMAIN o.elems
      /\ \A i \in DOMAIN o.elems : p.elems[i] = IF i = k THEN x ELSE o.elems[i]
      /\ p.elems = [i \in DOMAIN p.elems |-> p.elems[i]]
  BY <1>1
<1>3. IsObject(p) BY <1>1, <1>2 DEF IsObject
<1>4. Range(p.elems) \subseteq Range(o.elems) \cup {x} BY <1>2 DEF Range
<1>5. Refs(p) \subseteq Refs(o) \cup ({x} \ {None})
  BY <1>1, <1>4 DEF Refs, IsRecursive
<1> QED BY <1>1, <1>2, <1>3, <1>5

Named(o, x) == [o EXCEPT !.attr = x]

LEMMA SetAttributes ==
    ASSUME NEW o, IsObject(o), NEW x, NEW p, p = Named(o, x)
    PROVE  /\ IsObject(p) /\ p.class = o.class /\ p.elems = o.elems
           /\ Refs(p) \subseteq Refs(o) \cup {x}
<1>1. p.class = o.class /\ p.elems = o.elems /\ p.attr = x
      /\ p = RObject(p.class, p.elems, p.attr)
  BY DEF IsObject, RObject, Named
<1> QED BY <1>1 DEF IsObject, Refs, IsRecursive

(* Of what was there S is kept, and only objects C of the running call are *)
(* new or changed.                                                         *)
Changes(S, C) ==
    /\ S \subseteq DOMAIN heap /\ Roots \cap DOMAIN heap \subseteq S
    /\ DOMAIN heap' = S \cup C /\ heap' = [a \in S \cup C |-> heap'[a]]
    /\ \A a \in S \ C : heap'[a] = heap[a]
    /\ \A a \in C : a[1] = node

(* The heap holds what it is to hold, after a step that changes C.         *)
LEMMA HeapChanges ==
    ASSUME HeapInv, UNCHANGED args, NEW S, NEW C, Changes(S, C), IsFiniteSet(C),
           \A a \in S : Refs(heap[a]) \subseteq S,
           NEW h, h = heap',
           \A a \in C : Refs(h[a]) \subseteq S \cup C /\ ObjectOK(a, h[a])
    PROVE  HeapInv'
<1>1. IsFiniteSet(S \cup C)
  <2>1. IsFiniteSet(S) BY FS_Subset DEF Changes, HeapInv
  <2> QED BY <2>1, FS_Union
<1>2. DOMAIN h = S \cup C /\ h = [a \in S \cup C |-> h[a]]
      /\ \A a \in S \ C : h[a] = heap[a]
  BY DEF Changes
<1>3. Callers \subseteq S BY DEF Changes, HeapInv, Roots
<1>4. \A a \in S \cup C : Refs(h[a]) \subseteq S \cup C BY <1>2
<1>5. \A a \in S \cup C : ObjectOK(a, h[a]) BY <1>2 DEF Changes, HeapInv
<1>6. \A a, o : ObjectOK(a, o)' <=> ObjectOK(a, o)
  BY DEF ObjectOK, cols_of, kind_of, args
<1>7. \A a \in S \cup C : ObjectOK(a, heap[a])' BY <1>5, <1>6
<1>8. Callers' = Callers OBVIOUS
<1>9. NoDangling' BY <1>2, <1>4 DEF NoDangling
<1> QED BY <1>1, <1>2, <1>3, <1>7, <1>8, <1>9 DEF HeapInv

(* What an allocation leaves. *)
LEMMA CollectedFacts ==
    ASSUME HeapInv
    PROVE  /\ Reachable \subseteq DOMAIN heap /\ Roots \cap DOMAIN heap \subseteq Reachable
           /\ \A a \in Reachable : Refs(heap[a]) \subseteq Reachable
           /\ DOMAIN Collected = Reachable /\ \A a \in Reachable : Collected[a] = heap[a]
BY ReachableIsClosed DEF HeapInv, Collected

LEMMA Allocates1 ==
    ASSUME HeapInv, NEW a, a[1] = node, NEW o, Allocate(a, o)
    PROVE  Changes(Reachable, {a}) /\ a \in DOMAIN heap' /\ heap'[a] = o
<1>1. /\ DOMAIN heap' = {a} \cup Reachable /\ heap'[a] = o
      /\ \A b \in Reachable \ {a} : heap'[b] = heap[b]
      /\ heap' = [b \in Reachable \cup {a} |-> heap'[b]]
  BY CollectedFacts DEF Allocate, With
<1> QED BY <1>1, CollectedFacts DEF Changes

LEMMA AllocatesAndSets ==
    ASSUME HeapInv, NEW a \in Reachable, a[1] = node, NEW o, AllocateAndSet(a, o)
    PROVE  Changes(Reachable, {a}) /\ DOMAIN heap' = Reachable /\ heap'[a] = o
<1>1. /\ DOMAIN heap' = Reachable /\ heap'[a] = o
      /\ \A b \in Reachable \ {a} : heap'[b] = heap[b]
      /\ heap' = [b \in Reachable |-> heap'[b]]
  BY CollectedFacts DEF AllocateAndSet
<1>2. Reachable \cup {a} = Reachable OBVIOUS
<1> QED BY <1>1, <1>2, CollectedFacts DEF Changes

LEMMA Sets ==
    ASSUME HeapInv, NEW a \in DOMAIN heap, a[1] = node, NEW k, NEW x, SetElt(a, k, x)
    PROVE  /\ Changes(DOMAIN heap, {a}) /\ DOMAIN heap' = DOMAIN heap
           /\ heap'[a] = Entered(heap[a], k, x)
<1>1. /\ DOMAIN heap' = DOMAIN heap /\ heap'[a] = Entered(heap[a], k, x)
      /\ \A b \in DOMAIN heap \ {a} : heap'[b] = heap[b]
      /\ heap' = [b \in DOMAIN heap |-> heap'[b]]
  BY DEF SetElt, Entered
<1>2. DOMAIN heap \cup {a} = DOMAIN heap OBVIOUS
<1> QED BY <1>1, <1>2 DEF Changes

(***************************************************************************)
(* What the calls use.                                                     *)
(***************************************************************************)

(* Another frame of the same call, whose objects are as they were.         *)
LEMMA StaysRooted ==
    ASSUME UNCHANGED args, NEW f, NEW g, Rooted(f), g.node = f.node,
           HasOut(g) => HasOut(f), HasNames(g) => HasNames(f),
           g.pc \in InFrame => f.pc \in InFrame,
           \A c \in DOMAIN cols_of(f.node) : HasColumn(g, c) => HasColumn(f, c),
           NEW S, NEW C, Changes(S, C),
           \A a \in Protected : a[1] = f.node => a \in Protected',
           g.pc \in InFrame => <<f.node, "out", 0>> \notin C
    PROVE  Rooted(g)'
<1>1. /\ \A n : cols_of(n)' = cols_of(n)
      /\ HasNames(g)' <=> HasNames(g)
  BY DEF args, cols_of, HasNames
<1>2. Protected \cap DOMAIN heap \subseteq S /\ S \subseteq DOMAIN heap'
      /\ \A a \in S \ C : heap'[a] = heap[a]
  BY DEF Changes, Roots, Protected
<1>o. PICK o : o = <<f.node, "out", 0>> OBVIOUS
<1>3. o = <<f.node, "out", 0>> /\ o[1] = f.node BY <1>o
<1>m. PICK m : m = <<f.node, "names", 0>> OBVIOUS
<1>4. m = <<f.node, "names", 0>> /\ m[1] = f.node BY <1>m
<1>5. HasOut(g) => o \in Protected' /\ o \in DOMAIN heap'
  BY <1>2, <1>3 DEF Rooted
<1>6. HasNames(g) => m \in Protected' /\ m \in DOMAIN heap'
  BY <1>2, <1>4 DEF Rooted
<1>7. ASSUME g.pc \in InFrame
      PROVE  /\ heap'[o].class = "data.frame"
             /\ DOMAIN heap'[o].elems = DOMAIN cols_of(f.node)
             /\ \A c \in DOMAIN cols_of(f.node) :
                  HasColumn(g, c) => heap'[o].elems[c] = <<f.node, "vec", c>>
  <2>1. HasOut(f) BY <1>7 DEF HasOut
  <2>2. heap'[o] = heap[o] BY <1>2, <1>3, <1>7, <2>1 DEF Rooted
  <2> QED BY <1>3, <1>7, <2>2 DEF Rooted
<1> QED BY <1>1, <1>3, <1>4, <1>5, <1>6, <1>7 DEF Rooted

LEMMA Unchanged ==
    ASSUME HeapInv, UNCHANGED heap
    PROVE  Changes(DOMAIN heap, {})
BY DEF HeapInv, Changes

(* The objects that the running call uses are reachable. *)
LEMMA TopHas ==
    ASSUME CallsInv, HeapInv, InUse, Running
    PROVE  /\ Rooted(top)
           /\ HasOut(top) => out \in Reachable /\ out \in DOMAIN heap /\ out \in Protected
           /\ HasNames(top) => /\ out_names \in Reachable /\ out_names \in DOMAIN heap
                               /\ out_names \in Protected
           /\ DOMAIN cols \subseteq Nat
           /\ top.pc \in InFrame =>
                /\ heap[out].class = "data.frame" /\ DOMAIN heap[out].elems = DOMAIN cols
                /\ kinds = [c \in DOMAIN cols |-> kind_of(node, c)]
                /\ Len(kinds) \in Nat /\ DOMAIN cols = 1 .. Len(kinds)
                /\ \A c \in DOMAIN cols :
                     HasColumn(top, c) => /\ heap[out].elems[c] = vec(c)
                                          /\ vec(c) \in Reachable /\ vec(c) \in DOMAIN heap
<1>1. /\ stack # <<>> /\ doc \in Docs BY DEF CallsInv, Running
<1>2. /\ top = stack[Len(stack)] /\ Len(stack) \in DOMAIN stack /\ top \in Frames /\ FrameOK(top)
      /\ node \in Nat /\ node \in nodes(doc)
  BY <1>1, TopFacts
<1>3. Rooted(top) BY <1>2 DEF InUse
<1>4. HasOut(top) => out \in Protected \cap DOMAIN heap BY <1>3 DEF Rooted, out, node
<1>5. HasNames(top) => out_names \in Protected \cap DOMAIN heap
  BY <1>3 DEF Rooted, out_names, node
<1>6. Protected \cap DOMAIN heap \subseteq Reachable
  BY CollectedFacts DEF Roots, Protected
<1>7. DOMAIN cols \subseteq Nat
  <2>1. PICK d : d = doc OBVIOUS
  <2>2. IsDocument(doc) BY <1>1, DocFacts
  <2>3. PICK c \in Nat : DOMAIN columns(doc, node) = 1 .. c
    BY <1>2, <2>1, <2>2, ColumnsType
  <2> QED BY <2>3 DEF cols
<1>8. ASSUME top.pc \in InFrame
      PROVE  /\ heap[out].class = "data.frame" /\ DOMAIN heap[out].elems = DOMAIN cols
             /\ kinds = [c \in DOMAIN cols |-> kind_of(node, c)]
             /\ Len(kinds) \in Nat /\ DOMAIN cols = 1 .. Len(kinds)
             /\ \A c \in DOMAIN cols :
                  HasColumn(top, c) => /\ heap[out].elems[c] = vec(c)
                                       /\ vec(c) \in Reachable /\ vec(c) \in DOMAIN heap
  <2>1. /\ heap[out].class = "data.frame" /\ DOMAIN heap[out].elems = DOMAIN cols
        /\ \A c \in DOMAIN cols : HasColumn(top, c) => heap[out].elems[c] = vec(c)
    BY <1>3, <1>8 DEF Rooted, out, vec, node, cols, cols_of
  <2>2. kinds = [c \in DOMAIN cols |-> kind_of(node, c)]
    BY <1>2, <1>8 DEF FrameOK, kinds, node, cols, cols_of
  <2>3. kinds \in Seq(Col_Kind) /\ DOMAIN cols = 1 .. Len(kinds)
    BY <1>1, <1>2, <2>2, KindsType DEF cols, cols_of
  <2>4. Len(kinds) \in Nat BY <2>3
  <2>5. ASSUME NEW c \in DOMAIN cols, HasColumn(top, c)
        PROVE  vec(c) \in Reachable /\ vec(c) \in DOMAIN heap
    <3>1. c \in Nat BY <1>7
    <3>2. vec(c) \in Address BY <1>2, <3>1 DEF vec, Address
    <3>3. vec(c) # None BY <3>2, NoneAssumption
    <3>4. vec(c) \in Refs(heap[out])
      BY <2>1, <2>5, <3>3 DEF Refs, IsRecursive, Range
    <3>5. out \in Reachable BY <1>4, <1>6, <1>8 DEF HasOut
    <3> QED BY <3>4, <3>5, CollectedFacts
  <2> QED BY <2>1, <2>2, <2>3, <2>4, <2>5
<1> QED BY <1>3, <1>4, <1>5, <1>6, <1>7, <1>8

(* The calls that wait keep what they use. *)
LEMMA OthersKeep ==
    ASSUME CallsInv, InUse, Running, UNCHANGED args, NEW S, NEW C, Changes(S, C),
           \A a \in Protected : a[1] # node => a \in Protected',
           NEW k \in DOMAIN stack, k < Len(stack), NEW f, f = stack[k]
    PROVE  Rooted(f)'
<1>1. f.node \in Nat /\ f.node < node /\ node \in Nat
  BY TopFacts DEF CallsInv, Running
<1>2. Rooted(f) BY DEF InUse
<1>3. <<f.node, "out", 0>> \notin C BY <1>1 DEF Changes
<1>4. \A a \in Protected : a[1] = f.node => a \in Protected' BY <1>1
<1> QED BY <1>2, <1>3, <1>4, StaysRooted

LEMMA StepKeeps ==
    ASSUME CallsInv, HeapInv, InUse, Running, UNCHANGED <<args, status>>, ret' = None,
           NEW S, S = Reachable \/ S = DOMAIN heap,
           NEW C, Changes(S, C), IsFiniteSet(C),
           NEW h, h = heap', \A a \in C : Refs(h[a]) \subseteq S \cup C /\ ObjectOK(a, h[a]),
           \A a \in Protected : a \in Protected',
           NEW g, SetTop(g), g.node = node, Rooted(g)'
    PROVE  HeapInv' /\ InUse'
<1>1. \A a \in S : Refs(heap[a]) \subseteq S
  BY CollectedFacts DEF HeapInv, NoDangling
<1>2. HeapInv' BY <1>1, HeapChanges
<1>3. PICK s \in Seq(Frames) : s = stack BY DEF CallsInv
<1>4. Len(s) \in Nat \ {0} /\ DOMAIN s = 1 .. Len(s) BY <1>3, TopFacts DEF CallsInv, Running
<1>5. stack' = [s EXCEPT ![Len(s)] = g] BY <1>3 DEF SetTop
<1>6. ASSUME NEW k \in DOMAIN stack' PROVE Rooted(stack[k])'
  <2>1. CASE k = Len(s)
    <3>1. stack'[k] = g BY <1>4, <1>5, <2>1
    <3> QED BY <3>1
  <2>2. CASE k # Len(s)
    <3>1. k \in DOMAIN stack /\ k < Len(stack) /\ stack'[k] = stack[k]
      BY <1>3, <1>4, <1>5, <2>2
    <3>2. PICK f : f = stack[k] OBVIOUS
    <3>3. Rooted(f)' BY <3>1, <3>2, OthersKeep
    <3> QED BY <3>1, <3>2, <3>3
  <2> QED BY <2>1, <2>2
<1> QED BY <1>2, <1>6 DEF InUse

(* Steps that leave the heap alone. *)
LEMMA QuietStep ==
    ASSUME CallsInv, HeapInv, InUse, Running, UNCHANGED <<args, status, heap>>, ret' = None,
           \A a \in Protected : a \in Protected',
           NEW g, SetTop(g), g.node = node,
           HasOut(g) => HasOut(top), HasNames(g) => HasNames(top),
           g.pc \in InFrame => top.pc \in InFrame,
           \A c \in DOMAIN cols : HasColumn(g, c) => HasColumn(top, c)
    PROVE  HeapInv' /\ InUse'
<1>1. Changes(DOMAIN heap, {}) BY Unchanged
<1>2. PICK f : f = top OBVIOUS
<1>3. Rooted(f) /\ f.node = node BY <1>2, TopHas DEF node
<1>4. /\ HasOut(g) => HasOut(f)
      /\ HasNames(g) => HasNames(f)
      /\ g.pc \in InFrame => f.pc \in InFrame
      /\ g.node = f.node /\ UNCHANGED args
      /\ \A a \in Protected : a[1] = f.node => a \in Protected'
  BY <1>2, <1>3
<1>5. \A c \in DOMAIN cols_of(f.node) : HasColumn(g, c) => HasColumn(f, c)
  BY <1>2, <1>3 DEF cols, cols_of
<1>6. PICK S, C : S = DOMAIN heap /\ C = {} OBVIOUS
<1>7. Changes(S, C) /\ IsFiniteSet(C) /\ <<f.node, "out", 0>> \notin C
  BY <1>1, <1>6, FS_EmptySet
<1>8. Rooted(g)' BY <1>3, <1>4, <1>5, <1>7, StaysRooted
<1>9. PICK h : h = heap' OBVIOUS
<1>10. \A a \in C : Refs(h[a]) \subseteq S \cup C /\ ObjectOK(a, h[a]) BY <1>6
<1> QED BY <1>6, <1>7, <1>8, <1>9, <1>10, StepKeeps

(* Nothing is used before it is made. *)
LEMMA UsesNothing ==
    ASSUME UNCHANGED args, NEW g, ~HasOut(g), ~HasNames(g)
    PROVE  Rooted(g)'
BY DEF Rooted, HasOut, HasNames, args

LEMMA CallStep ==
    ASSUME CallsInv, HeapInv, InUse, Running, NEW n, Call(n),
           UNCHANGED <<args, heap, protects, precious, status>>, ret' = None
    PROVE  HeapInv' /\ InUse'
<1>1. UNCHANGED <<doc, option>> BY DEF args
<1>2. HeapInv'
  <2>1. NoDangling' BY DEF NoDangling, HeapInv
  <2>2. \A a, o : ObjectOK(a, o)' <=> ObjectOK(a, o)
    BY <1>1 DEF ObjectOK, cols_of, kind_of
  <2>3. \A a \in DOMAIN heap : ObjectOK(a, heap[a])' BY <2>2 DEF HeapInv
  <2> QED BY <2>1, <2>3 DEF HeapInv
<1>3. PICK s \in Seq(Frames) : s = stack BY DEF CallsInv
<1>4. PICK g : g = Frame(n, opts) OBVIOUS
<1>5. /\ Len(s) \in Nat \ {0} /\ DOMAIN s = 1 .. Len(s)
      /\ stack' = Append(s, g) /\ DOMAIN stack' = 1 .. Len(s) + 1
      /\ stack'[Len(s) + 1] = g /\ \A k \in DOMAIN s : stack'[k] = s[k]
  BY <1>3, <1>4, TopFacts DEF CallsInv, Running, Call
<1>6. \A f : Rooted(f)' <=> Rooted(f)
  BY <1>1 DEF Rooted, HasNames, cols_of, Protected
<1>7. Rooted(g)
  <2>1. ~HasOut(g) /\ ~HasNames(g) BY <1>4 DEF Frame, HasOut, HasNames, InFrame
  <2> QED BY <2>1 DEF Rooted, HasOut
<1>8. \A k \in DOMAIN s : Rooted(s[k]) BY <1>3 DEF InUse
<1>9. \A k \in DOMAIN stack' : Rooted(stack'[k]) BY <1>5, <1>7, <1>8
<1>10. \A k \in DOMAIN stack' : Rooted(stack[k])' BY <1>6, <1>9
<1> QED BY <1>2, <1>10 DEF InUse

(* A call ends, and returns an object that is there. *)
LEMMA ReturnStep ==
    ASSUME CallsInv, HeapInv, InUse, ProtectionInv, Running, UNCHANGED args,
           NEW S, S = Reachable \/ S = DOMAIN heap,
           NEW C, Changes(S, C), IsFiniteSet(C),
           NEW h, h = heap', \A a \in C : Refs(h[a]) \subseteq S \cup C /\ ObjectOK(a, h[a]),
           NEW r, Return(r), r \in DOMAIN heap'
    PROVE  HeapInv' /\ InUse'
<1>1. \A a \in S : Refs(heap[a]) \subseteq S
  BY CollectedFacts DEF HeapInv, NoDangling
<1>2. HeapInv' BY <1>1, HeapChanges
<1>3. /\ stack # <<>> /\ stack' = SubSeq(stack, 1, Len(stack) - 1) /\ ret' = r /\ LeaveScope
      /\ status' = IF Len(stack) = 1 THEN "returned" ELSE "running"
  BY DEF Return, CallsInv, Running
<1>4. /\ DOMAIN stack' = 1 .. Len(stack) - 1 /\ \A k \in DOMAIN stack' : stack'[k] = stack[k]
      /\ Len(stack) \in Nat \ {0} /\ DOMAIN stack = 1 .. Len(stack)
  BY <1>3, EndsOn, TopFacts
<1>5. \A a \in Protected : a[1] # node => a \in Protected'
  <2>1. UNCHANGED doc /\ status # "jumped" BY DEF args, Running
  <2> QED BY <1>3, <1>4, <2>1, ScopeUndone
<1>6. ASSUME NEW k \in DOMAIN stack' PROVE Rooted(stack[k])'
  <2>1. k \in DOMAIN stack /\ k < Len(stack) /\ stack'[k] = stack[k] BY <1>4
  <2>2. PICK f : f = stack[k] OBVIOUS
  <2>3. Rooted(f)' BY <1>5, <2>1, <2>2, OthersKeep
  <2> QED BY <2>1, <2>2, <2>3
<1> QED BY <1>2, <1>3, <1>6 DEF InUse

(* New objects of the call. *)
LEMMA NewIsOwn ==
    ASSUME CallsInv, Running
    PROVE  /\ out[1] = node /\ out[2] = "out"
           /\ out_names[1] = node /\ out_names[2] = "names"
           /\ \A c : vec(c)[1] = node /\ vec(c)[2] = "vec" /\ vec(c)[3] = c
           /\ \A c : na(c)[1] = node /\ na(c)[2] = "na"
           /\ \A c : vec(c) # out /\ na(c) # vec(c) /\ na(c) # out
           /\ out # out_names
BY DEF out, out_names, vec, na

LEMMA ProtectsMore ==
    ASSUME ProtectionInv, NEW a, Shield(a) \/ Preserve(a)
    PROVE  a \in Protected' /\ \A b \in Protected : b \in Protected'
<1>1. CASE Preserve(a) BY <1>1 DEF Preserve, Protected
<1>2. CASE Shield(a)
  <2>1. PICK s \in Seq(Own) : s = protects BY DEF ProtectionInv
  <2>2. protects' = Append(s, a) /\ precious' = precious BY <1>2, <2>1 DEF Shield
  <2>3. /\ DOMAIN Append(s, a) = 1 .. Len(s) + 1 /\ Append(s, a)[Len(s) + 1] = a
        /\ Len(s) \in Nat /\ DOMAIN s = 1 .. Len(s)
        /\ \A k \in DOMAIN s : Append(s, a)[k] = s[k]
    OBVIOUS
  <2>4. a \in Range(protects') BY <2>2, <2>3 DEF Range
  <2>5. Range(protects) \subseteq Range(protects') BY <2>1, <2>2, <2>3 DEF Range
  <2> QED BY <2>2, <2>4, <2>5 DEF Protected
<1> QED BY <1>1, <1>2

(* A new object that refers to none. *)
LEMMA AllocatesOwn ==
    ASSUME CallsInv, ProtectionInv, HeapInv, InUse, Running, UNCHANGED <<args, status>>,
           ret' = None, NEW a, a = out \/ a = out_names, NEW o, Allocate(a, o),
           Shield(a) \/ Preserve(a), IsObject(o), Refs(o) = {},
           a = out_names => o.class = "vector",
           NEW g, SetTop(g), g.node = node, Rooted(g)'
    PROVE  HeapInv' /\ InUse'
<1>1. a[1] = node BY NewIsOwn
<1>2. Changes(Reachable, {a}) /\ heap'[a] = o BY <1>1, Allocates1
<1>3. PICK h : h = heap' OBVIOUS
<1>4. ObjectOK(a, o) BY NewIsOwn DEF ObjectOK
<1>5. \A b \in Protected : b \in Protected' BY ProtectsMore
<1>6. PICK S, C : S = Reachable /\ C = {a} OBVIOUS
<1>7. Changes(S, C) /\ IsFiniteSet(C) BY <1>2, <1>6, FS_Singleton
<1>8. \A b \in C : Refs(h[b]) \subseteq S \cup C /\ ObjectOK(b, h[b])
  BY <1>2, <1>3, <1>4, <1>6
<1> QED BY <1>3, <1>5, <1>6, <1>7, <1>8, StepKeeps

LEMMA AllocateAtomicKeeps ==
    ASSUME CallsInv, ProtectionInv, HeapInv, InUse, AllocateAtomic
    PROVE  HeapInv' /\ InUse'
<1>1. /\ Running /\ UNCHANGED <<args, ret, status>> /\ Allocate(out, Atomic) /\ Goto("fill")
      /\ top.pc \in {"scalar", "build_vector", "build_matrix"}
      /\ Shield(out) \/ Preserve(out)
  BY DEF AllocateAtomic
<1>2. ret = None /\ top \in Frames /\ FrameOK(top)
  <2>1. ~Waits(top) BY <1>1 DEF Waits
  <2> QED BY <1>1, <2>1, NothingReturned, TopFacts DEF CallsInv, Running
<1>3. PICK o : o = Atomic OBVIOUS
<1>4. IsObject(o) /\ Refs(o) = {}
  <2>1. \A x : <<x>> = [k \in {1} |-> x] OBVIOUS
  <2>2. CASE top.pc = "scalar"
    <3>1. PICK x : x = ScalarOf(value(doc, node)) OBVIOUS
    <3>2. o = RObject("vector", <<x>>, <<>>) BY <1>3, <2>2, <3>1 DEF Atomic
    <3> QED BY <2>1, <3>2 DEF RObject, IsObject, Refs, IsRecursive
  <2>3. CASE top.pc = "build_vector"
    <3>1. o = RObject("vector", VectorOf(here), <<>>) BY <1>3, <2>3 DEF Atomic
    <3>2. VectorOf(here) = [k \in DOMAIN VectorOf(here) |-> VectorOf(here)[k]]
      BY DEF VectorOf
    <3> HIDE DEF VectorOf
    <3> QED BY <3>1, <3>2 DEF RObject, IsObject, Refs, IsRecursive
  <2>4. CASE top.pc = "build_matrix"
    <3>1. PICK e : e = MatrixOf(ByColumn(doc, node)) OBVIOUS
    <3>2. e = [k \in DOMAIN e |-> e[k]] BY <3>1 DEF MatrixOf
    <3>3. PICK d : d = <<Len(here), Len(doc.items[here[1]])>> OBVIOUS
    <3>4. o = RObject("matrix", e, d) BY <1>3, <2>4, <3>1, <3>3 DEF Atomic
    <3> QED BY <3>2, <3>4 DEF RObject, IsObject, Refs, IsRecursive
  <2> QED BY <1>1, <2>2, <2>3, <2>4
<1>5. PICK g : g = [top EXCEPT !.pc = "fill"] OBVIOUS
<1>6. g.node = node /\ g.pc = "fill" /\ SetTop(g)
  BY <1>1, <1>2, <1>5 DEF Frames, node, Goto
<1>7. out \in DOMAIN heap' /\ out \in Protected'
  BY <1>1, <1>3, NewIsOwn, Allocates1, ProtectsMore
<1>8. Rooted(g)'
  <2>1. g.pc \notin InFrame /\ ~HasNames(g)' BY <1>6 DEF InFrame, HasNames
  <2>2. <<g.node, "out", 0>> = out BY <1>6 DEF out
  <2>3. <<g.node, "out", 0>> \in Protected' /\ <<g.node, "out", 0>> \in DOMAIN heap'
    BY <1>7, <2>2
  <2> QED BY <2>1, <2>3 DEF Rooted
<1>9. PICK a : a = out OBVIOUS
<1>10. Allocate(a, o) /\ (Shield(a) \/ Preserve(a)) BY <1>1, <1>3, <1>9
<1>11. a # out_names BY <1>9, <1>1, NewIsOwn
<1> QED BY <1>1, <1>2, <1>4, <1>6, <1>8, <1>9, <1>10, <1>11, AllocatesOwn

(* When a call has made the objects of a list or an object. *)
LEMMA HasOutAndNames ==
    ASSUME UNCHANGED args, NEW g, g.node = node, g.pc \notin InFrame,
           out \in DOMAIN heap' /\ out \in Protected',
           HasNames(g) => out_names \in DOMAIN heap' /\ out_names \in Protected'
    PROVE  Rooted(g)'
<1>1. HasNames(g)' <=> HasNames(g) BY DEF HasNames, args
<1>2. <<g.node, "out", 0>> = out /\ <<g.node, "names", 0>> = out_names
  BY DEF out, out_names
<1>3. /\ <<g.node, "out", 0>> \in Protected' /\ <<g.node, "out", 0>> \in DOMAIN heap'
      /\ HasNames(g) => /\ <<g.node, "names", 0>> \in Protected'
                        /\ <<g.node, "names", 0>> \in DOMAIN heap'
  BY <1>2
<1> QED BY <1>1, <1>3 DEF Rooted

LEMMA AllocateListKeeps ==
    ASSUME CallsInv, ProtectionInv, HeapInv, InUse, AllocateList
    PROVE  HeapInv' /\ InUse'
<1>1. /\ Running /\ UNCHANGED <<args, ret, status>> /\ Allocate(out, NewList(Len(here)))
      /\ Shield(out) /\ Goto(IF top.pc = "list" THEN "items" ELSE "names")
      /\ top.pc \in {"list", "object"}
  BY DEF AllocateList
<1>2. ret = None /\ top \in Frames /\ FrameOK(top)
  <2>1. ~Waits(top) BY <1>1 DEF Waits
  <2> QED BY <1>1, <2>1, NothingReturned, TopFacts DEF CallsInv, Running
<1>3. PICK o : o = NewList(Len(here)) OBVIOUS
<1>4. IsObject(o) /\ Refs(o) = {}
  BY <1>3 DEF NewList, RObject, IsObject, Refs, IsRecursive, Range
<1>5. PICK p : p = IF top.pc = "list" THEN "items" ELSE "names" OBVIOUS
<1>6. PICK g : g = [top EXCEPT !.pc = p] OBVIOUS
<1>7. g.node = node /\ g.pc = p /\ SetTop(g)
  BY <1>1, <1>2, <1>5, <1>6 DEF Frames, node, Goto
<1>8. PICK a : a = out OBVIOUS
<1>9. Allocate(a, o) /\ Shield(a) /\ a # out_names BY <1>1, <1>3, <1>8, NewIsOwn
<1>10. out \in DOMAIN heap' /\ out \in Protected'
  BY <1>1, <1>3, NewIsOwn, Allocates1, ProtectsMore
<1>11. ~HasNames(g)
  <2>1. top.pc = "list" => doc.kind[node] # "OBJECT"
    BY <1>2 DEF FrameOK, SimplifyTo, node
  <2> QED BY <1>5, <1>7, <2>1 DEF HasNames
<1>12. g.pc \notin InFrame BY <1>5, <1>7 DEF InFrame
<1>13. Rooted(g)' BY <1>1, <1>7, <1>10, <1>11, <1>12, HasOutAndNames
<1> QED BY <1>1, <1>2, <1>4, <1>7, <1>8, <1>9, <1>13, AllocatesOwn


LEMMA AllocateNamesKeeps ==
    ASSUME CallsInv, ProtectionInv, HeapInv, InUse, AllocateNames
    PROVE  HeapInv' /\ InUse'
<1>1. /\ Running /\ UNCHANGED <<args, ret, status>> /\ Allocate(out_names, NewNames(Len(here)))
      /\ Shield(out_names) /\ Goto("items") /\ top.pc = "names"
  BY DEF AllocateNames
<1>2. ret = None /\ top \in Frames
  <2>1. ~Waits(top) BY <1>1 DEF Waits
  <2> QED BY <1>1, <2>1, NothingReturned, TopFacts DEF CallsInv, Running
<1>3. PICK o : o = NewNames(Len(here)) OBVIOUS
<1>4. IsObject(o) /\ Refs(o) = {} /\ o.class = "vector"
  BY <1>3 DEF NewNames, RObject, IsObject, Refs, IsRecursive, Range
<1>5. PICK g : g = [top EXCEPT !.pc = "items"] OBVIOUS
<1>6. g.node = node /\ g.pc = "items" /\ SetTop(g)
  BY <1>1, <1>2, <1>5 DEF Frames, node, Goto
<1>7. PICK a : a = out_names OBVIOUS
<1>8. Allocate(a, o) /\ Shield(a) BY <1>1, <1>3, <1>7
<1>9. /\ out_names \in DOMAIN heap' /\ out_names \in Protected'
      /\ Reachable \subseteq DOMAIN heap' /\ \A b \in Protected : b \in Protected'
  BY <1>1, <1>3, NewIsOwn, Allocates1, ProtectsMore DEF Changes
<1>10. out \in DOMAIN heap' /\ out \in Protected'
  <2>1. HasOut(top) BY <1>1 DEF HasOut
  <2> QED BY <1>1, <1>9, <2>1, TopHas
<1>11. g.pc \notin InFrame BY <1>6 DEF InFrame
<1>12. Rooted(g)' BY <1>1, <1>6, <1>9, <1>10, <1>11, HasOutAndNames
<1> QED BY <1>1, <1>2, <1>4, <1>6, <1>7, <1>8, <1>12, AllocatesOwn

LEMMA AllocateFrameKeeps ==
    ASSUME CallsInv, ProtectionInv, HeapInv, InUse, AllocateFrame
    PROVE  HeapInv' /\ InUse'
<1>1. /\ Running /\ UNCHANGED <<args, ret, status>> /\ Preserve(out) /\ top.pc = "frame"
      /\ Allocate(out, RObject("data.frame", [j \in DOMAIN cols |-> None], <<>>))
  BY DEF AllocateFrame
<1>2. ret = None /\ top \in Frames
  <2>1. ~Waits(top) BY <1>1 DEF Waits
  <2> QED BY <1>1, <2>1, NothingReturned, TopFacts DEF CallsInv, Running
<1>3. PICK o : o = RObject("data.frame", [j \in DOMAIN cols |-> None], <<>>) OBVIOUS
<1>4. /\ IsObject(o) /\ Refs(o) = {} /\ o.class = "data.frame" /\ DOMAIN o.elems = DOMAIN cols
  BY <1>3 DEF RObject, IsObject, Refs, IsRecursive, Range
<1>5. PICK ks : ks = [j \in DOMAIN cols |-> column_kind(doc, opts, node, cols[j])] OBVIOUS
<1>6. PICK g : g = [top EXCEPT !.pc = "frame_names", !.kinds = ks] OBVIOUS
<1>7. g.node = node /\ g.pc = "frame_names" /\ SetTop(g)
  BY <1>2, <1>5, <1>6 DEF AllocateFrame, Frames, node
<1>8. PICK a : a = out OBVIOUS
<1>9. Allocate(a, o) /\ Preserve(a) /\ a # out_names BY <1>1, <1>3, <1>8, NewIsOwn
<1>10. out \in DOMAIN heap' /\ heap'[out] = o /\ out \in Protected'
  BY <1>1, <1>3, NewIsOwn, Allocates1, ProtectsMore
<1>11. Rooted(g)'
  <2>1. ~HasNames(g)' /\ \A c : ~HasColumn(g, c) BY <1>7 DEF HasNames, HasColumn
  <2>2. <<g.node, "out", 0>> = out BY <1>7 DEF out
  <2>3. DOMAIN cols_of(g.node)' = DOMAIN cols BY <1>1, <1>7 DEF cols, cols_of, args
  <2>4. /\ <<g.node, "out", 0>> \in Protected' /\ <<g.node, "out", 0>> \in DOMAIN heap'
        /\ heap'[<<g.node, "out", 0>>] = o
    BY <1>10, <2>2
  <2>5. /\ heap'[<<g.node, "out", 0>>].class = "data.frame"
        /\ DOMAIN heap'[<<g.node, "out", 0>>].elems = DOMAIN cols_of(g.node)'
    BY <1>4, <2>3, <2>4
  <2> QED BY <2>1, <2>4, <2>5 DEF Rooted
<1> QED BY <1>1, <1>2, <1>4, <1>7, <1>8, <1>9, <1>11, AllocatesOwn

(* When a call has made the objects of a data frame. *)
LEMMA HasFrame ==
    ASSUME UNCHANGED args, NEW g, g.node = node, g.pc \in InFrame,
           out \in DOMAIN heap' /\ out \in Protected',
           HasNames(g) => out_names \in DOMAIN heap' /\ out_names \in Protected',
           NEW o, o = heap'[out], o.class = "data.frame", DOMAIN o.elems = DOMAIN cols,
           \A c \in DOMAIN cols : HasColumn(g, c) => o.elems[c] = vec(c)
    PROVE  Rooted(g)'
<1>1. /\ HasNames(g)' <=> HasNames(g)
      /\ cols_of(g.node)' = cols
  BY DEF HasNames, args, cols, cols_of
<1>2. <<g.node, "out", 0>> = out /\ <<g.node, "names", 0>> = out_names
      /\ \A c : <<g.node, "vec", c>> = vec(c)
  BY DEF out, out_names, vec
<1>3. /\ <<g.node, "out", 0>> \in Protected' /\ <<g.node, "out", 0>> \in DOMAIN heap'
      /\ HasNames(g) => /\ <<g.node, "names", 0>> \in Protected'
                        /\ <<g.node, "names", 0>> \in DOMAIN heap'
      /\ heap'[<<g.node, "out", 0>>] = o
  BY <1>2
<1>4. /\ heap'[<<g.node, "out", 0>>].class = "data.frame"
      /\ DOMAIN heap'[<<g.node, "out", 0>>].elems = DOMAIN cols_of(g.node)'
      /\ \A c \in DOMAIN cols_of(g.node)' :
           HasColumn(g, c) => heap'[<<g.node, "out", 0>>].elems[c] = <<g.node, "vec", c>>
  BY <1>1, <1>2, <1>3
<1> QED BY <1>1, <1>3, <1>4 DEF Rooted

LEMMA AllocateFrameNamesKeeps ==
    ASSUME CallsInv, ProtectionInv, HeapInv, InUse, AllocateFrameNames
    PROVE  HeapInv' /\ InUse'
<1>1. /\ Running /\ UNCHANGED <<args, ret, status>> /\ top.pc = "frame_names"
      /\ Allocate(out_names, RObject("vector", cols, <<>>))
      /\ Preserve(out_names) /\ Goto("columns")
  BY DEF AllocateFrameNames
<1>2. ret = None /\ top \in Frames /\ FrameOK(top)
  <2>1. ~Waits(top) BY <1>1 DEF Waits
  <2> QED BY <1>1, <2>1, NothingReturned, TopFacts DEF CallsInv, Running
<1>3. PICK o : o = RObject("vector", cols, <<>>) OBVIOUS
<1>4. IsObject(o) /\ Refs(o) = {} /\ o.class = "vector"
  <2>1. cols = [k \in DOMAIN cols |-> cols[k]] BY DEF cols, columns
  <2> HIDE DEF cols
  <2> QED BY <1>3, <2>1 DEF RObject, IsObject, Refs, IsRecursive
<1>5. PICK g : g = [top EXCEPT !.pc = "columns"] OBVIOUS
<1>6. g.node = node /\ g.pc = "columns" /\ g.j = 1 /\ SetTop(g)
  BY <1>1, <1>2, <1>5 DEF Frames, FrameOK, node, Goto
<1>7. PICK a : a = out_names OBVIOUS
<1>8. Allocate(a, o) /\ Preserve(a) BY <1>1, <1>3, <1>7
<1>9. /\ out_names \in DOMAIN heap' /\ out_names \in Protected'
      /\ Changes(Reachable, {out_names}) /\ \A b \in Protected : b \in Protected'
  BY <1>1, <1>3, NewIsOwn, Allocates1, ProtectsMore
<1>10. HasOut(top) /\ top.pc \in InFrame /\ g.pc \in InFrame
  BY <1>1, <1>6 DEF HasOut, InFrame
<1>11. out \in DOMAIN heap' /\ out \in Protected' /\ heap'[out] = heap[out]
  BY <1>1, <1>9, <1>10, TopHas, NewIsOwn DEF Changes
<1>12. \A c \in DOMAIN cols : ~HasColumn(g, c)
  <2>1. DOMAIN cols = 1 .. Len(kinds) /\ Len(kinds) \in Nat BY <1>1, <1>10, TopHas
  <2> QED BY <1>6, <2>1 DEF HasColumn
<1>13. PICK f : f = heap[out] OBVIOUS
<1>14. f = heap'[out] /\ f.class = "data.frame" /\ DOMAIN f.elems = DOMAIN cols
  BY <1>1, <1>10, <1>11, <1>13, TopHas
<1>15. Rooted(g)' BY <1>1, <1>6, <1>9, <1>10, <1>11, <1>12, <1>14, HasFrame
<1> QED BY <1>1, <1>2, <1>4, <1>6, <1>7, <1>8, <1>15, AllocatesOwn

LEMMA SetItemKeeps ==
    ASSUME CallsInv, ProtectionInv, HeapInv, InUse, SetItem
    PROVE  HeapInv' /\ InUse'
<1>1. /\ Running /\ UNCHANGED <<args, status, protects, precious>> /\ ret' = None /\ ret # None
      /\ SetElt(out, top.i, ret) /\ top.pc = "items"
  BY DEF SetItem
<1>2. top \in Frames BY <1>1, TopFacts DEF CallsInv, Running
<1>3. /\ out \in DOMAIN heap /\ out \in Protected /\ ret \in DOMAIN heap
      /\ HasNames(top) => out_names \in DOMAIN heap /\ out_names \in Protected
  <2>1. HasOut(top) BY <1>1 DEF HasOut
  <2> QED BY <1>1, <2>1, TopHas DEF InUse
<1>4. /\ Changes(DOMAIN heap, {out}) /\ DOMAIN heap' = DOMAIN heap
      /\ heap'[out] = Entered(heap[out], top.i, ret)
  <2>1. PICK k, x : k = top.i /\ x = ret OBVIOUS
  <2>2. PICK a \in DOMAIN heap : a = out BY <1>3
  <2>3. SetElt(a, k, x) /\ a[1] = node BY <1>1, <2>1, <2>2, NewIsOwn
  <2>4. /\ Changes(DOMAIN heap, {a}) /\ DOMAIN heap' = DOMAIN heap
        /\ heap'[a] = Entered(heap[a], k, x)
    BY <2>3, Sets
  <2> QED BY <2>1, <2>2, <2>4
<1>5. PICK o : o = heap'[out] OBVIOUS
<1>6. IsObject(o) /\ Refs(o) \subseteq Refs(heap[out]) \cup {ret}
  <2>1. IsObject(heap[out]) BY <1>3 DEF HeapInv, ObjectOK
  <2>2. PICK p, k, x : p = heap[out] /\ k = top.i /\ x = ret OBVIOUS
  <2>3. o = Entered(p, k, x) BY <1>4, <1>5, <2>2
  <2>4. IsObject(p) BY <2>1, <2>2
  <2>5. IsObject(o) /\ Refs(o) \subseteq Refs(p) \cup ({x} \ {None})
    BY <2>3, <2>4, SetElement
  <2> QED BY <2>2, <2>5
<1>7. Refs(o) \subseteq DOMAIN heap BY <1>3, <1>6 DEF HeapInv, NoDangling
<1>8. ObjectOK(out, o) BY <1>1, <1>6, NewIsOwn DEF ObjectOK
<1>9. Protected' = Protected BY <1>1 DEF Protected
<1>10. PICK p, i : [top EXCEPT !.pc = p, !.i = i] = (IF doc.kind[node] = "OBJECT"
                       THEN [top EXCEPT !.pc = "key"] ELSE [top EXCEPT !.i = @ + 1])
                   /\ p = IF doc.kind[node] = "OBJECT" THEN "key" ELSE "items"
  <2>1. [top EXCEPT !.pc = "key"] = [top EXCEPT !.pc = "key", !.i = top.i] BY <1>2 DEF Frames
  <2>2. [top EXCEPT !.i = @ + 1] = [top EXCEPT !.pc = "items", !.i = top.i + 1]
    BY <1>1, <1>2 DEF Frames
  <2>3. PICK p, i : /\ p = IF doc.kind[node] = "OBJECT" THEN "key" ELSE "items"
                    /\ i = IF doc.kind[node] = "OBJECT" THEN top.i ELSE top.i + 1
    OBVIOUS
  <2> QED BY <2>1, <2>2, <2>3
<1>11. PICK g : g = [top EXCEPT !.pc = p, !.i = i] OBVIOUS
<1>12. g.node = node /\ g.pc = p BY <1>2, <1>11 DEF Frames, node
<1>13. SetTop(g) BY <1>10, <1>11 DEF SetItem, Goto
<1>14. p = "key" \/ p = "items" BY <1>10
<1>15. HasNames(g) => HasNames(top)
  BY <1>1, <1>10, <1>12 DEF HasNames, node
<1>16. Rooted(g)'
  <2>1. g.pc \notin InFrame BY <1>12, <1>14 DEF InFrame
  <2>2. out \in DOMAIN heap' /\ out \in Protected' BY <1>3, <1>4, <1>9
  <2>3. HasNames(g) => out_names \in DOMAIN heap' /\ out_names \in Protected'
    BY <1>3, <1>4, <1>9, <1>15
  <2> QED BY <1>1, <1>12, <2>1, <2>2, <2>3, HasOutAndNames
<1>17. PICK S, C, h : S = DOMAIN heap /\ C = {out} /\ h = heap' OBVIOUS
<1>18. Changes(S, C) /\ IsFiniteSet(C) BY <1>4, <1>17, FS_Singleton
<1>19. \A a \in C : Refs(h[a]) \subseteq S \cup C /\ ObjectOK(a, h[a])
  BY <1>5, <1>7, <1>8, <1>17
<1>20. \A a \in Protected : a \in Protected' BY <1>9
<1> QED BY <1>1, <1>12, <1>13, <1>16, <1>17, <1>18, <1>19, <1>20, StepKeeps

LEMMA SetKeyKeeps ==
    ASSUME CallsInv, ProtectionInv, HeapInv, InUse, SetKey
    PROVE  HeapInv' /\ InUse'
<1>1. /\ Running /\ UNCHANGED <<args, ret, status, protects, precious>> /\ top.pc = "key"
      /\ AllocateAndSet(out_names,
           [heap[out_names] EXCEPT !.elems[top.i] = doc.keys[node][top.i]])
  BY DEF SetKey
<1>2. ret = None /\ top \in Frames
  <2>1. ~Waits(top) BY <1>1 DEF Waits
  <2> QED BY <1>1, <2>1, NothingReturned, TopFacts DEF CallsInv, Running
<1>3. /\ out \in Reachable /\ out \in Protected
      /\ out_names \in Reachable /\ out_names \in Protected /\ out_names \in DOMAIN heap
  <2>1. HasOut(top) /\ HasNames(top) BY <1>1 DEF HasOut, HasNames
  <2> QED BY <1>1, <2>1, TopHas
<1>4. PICK o, x : /\ x = doc.keys[node][top.i]
                  /\ o = [heap[out_names] EXCEPT !.elems[top.i] = x]
  OBVIOUS
<1>5. Changes(Reachable, {out_names}) /\ DOMAIN heap' = Reachable /\ heap'[out_names] = o
  BY <1>1, <1>3, <1>4, NewIsOwn, AllocatesAndSets
<1>6. IsObject(o) /\ o.class = "vector"
  <2>1. IsObject(heap[out_names]) /\ heap[out_names].class = "vector"
    BY <1>1, <1>3, NewIsOwn DEF HeapInv, ObjectOK
  <2>2. PICK p, k : p = heap[out_names] /\ k = top.i OBVIOUS
  <2>3. o = Entered(p, k, x) BY <1>4, <2>2 DEF Entered
  <2> QED BY <2>1, <2>2, <2>3, SetElement
<1>7. Refs(o) = {} /\ ObjectOK(out_names, o)
  BY <1>1, <1>6, NewIsOwn DEF Refs, IsRecursive, ObjectOK
<1>8. Protected' = Protected BY <1>1 DEF Protected
<1>9. PICK g : g = [top EXCEPT !.pc = "items", !.i = @ + 1] OBVIOUS
<1>10. g.node = node /\ g.pc = "items" /\ SetTop(g)
  BY <1>2, <1>9 DEF SetKey, Frames, node
<1>11. g.pc \notin InFrame BY <1>10 DEF InFrame
<1>12. Rooted(g)' BY <1>1, <1>3, <1>5, <1>8, <1>10, <1>11, HasOutAndNames
<1>13. PICK S, C, h : S = Reachable /\ C = {out_names} /\ h = heap' OBVIOUS
<1>14. Changes(S, C) /\ IsFiniteSet(C) BY <1>5, <1>13, FS_Singleton
<1>15. \A a \in C : Refs(h[a]) \subseteq S \cup C /\ ObjectOK(a, h[a])
  BY <1>5, <1>7, <1>13
<1>16. \A a \in Protected : a \in Protected' BY <1>8
<1> QED BY <1>1, <1>2, <1>10, <1>12, <1>13, <1>14, <1>15, <1>16, StepKeeps

(* A column is entered into the data frame as it is made. *)
LEMMA BuildColumnKeeps ==
    ASSUME CallsInv, ProtectionInv, HeapInv, InUse, BuildColumn
    PROVE  HeapInv' /\ InUse'
<1>1. /\ Running /\ UNCHANGED <<args, ret, status, protects, precious>> /\ top.pc = "columns"
      /\ top.j <= Len(kinds)
  BY DEF BuildColumn
<1>2. ret = None /\ top \in Frames /\ top.j \in Nat \ {0} /\ node \in Nat
  <2>1. ~Waits(top) BY <1>1 DEF Waits
  <2> QED BY <1>1, <2>1, NothingReturned, TopFacts DEF CallsInv, Running
<1>3. HasOut(top) /\ HasNames(top) /\ top.pc \in InFrame
  BY <1>1 DEF HasOut, HasNames, InFrame
<1>4. /\ out \in Reachable /\ out \in Protected /\ out \in DOMAIN heap
      /\ out_names \in Reachable /\ out_names \in Protected
      /\ heap[out].class = "data.frame" /\ DOMAIN heap[out].elems = DOMAIN cols
      /\ kinds = [c \in DOMAIN cols |-> kind_of(node, c)]
      /\ Len(kinds) \in Nat /\ DOMAIN cols = 1 .. Len(kinds)
      /\ \A c \in DOMAIN cols : HasColumn(top, c) => heap[out].elems[c] = vec(c)
  BY <1>1, <1>3, TopHas
<1>5. PICK j \in DOMAIN cols : j = top.j BY <1>1, <1>2, <1>4
<1>6. PICK col : col = Column(j) OBVIOUS
<1>7. PICK p : p = [heap[out] EXCEPT !.elems[j] = vec(j)] OBVIOUS
<1>8. heap' = With(vec(j), col, [Collected EXCEPT ![out].elems[j] = vec(j)])
  BY <1>5, <1>6 DEF BuildColumn
<1>9. /\ DOMAIN heap' = Reachable \cup {vec(j), out}
      /\ heap'[vec(j)] = col /\ heap'[out] = p
      /\ \A a \in Reachable \ {vec(j), out} : heap'[a] = heap[a]
      /\ heap' = [a \in Reachable \cup {vec(j), out} |-> heap'[a]]
  <2>1. PICK w : w = [Collected EXCEPT ![out].elems[j] = vec(j)] OBVIOUS
  <2>2. /\ DOMAIN w = Reachable /\ w[out] = p
        /\ \A a \in Reachable \ {out} : w[a] = heap[a]
    BY <1>4, <1>7, <2>1, CollectedFacts
  <2>3. heap' = [a \in {vec(j)} \cup Reachable |-> IF a = vec(j) THEN col ELSE w[a]]
    BY <1>8, <2>1, <2>2 DEF With
  <2>4. vec(j) # out BY <1>1, NewIsOwn
  <2>5. {vec(j)} \cup Reachable = Reachable \cup {vec(j), out} BY <1>4
  <2> QED BY <1>4, <2>2, <2>3, <2>4, <2>5
<1>10. Changes(Reachable, {vec(j), out})
  BY <1>1, <1>9, NewIsOwn, CollectedFacts DEF Changes
<1>11. /\ IsObject(p) /\ p.class = "data.frame" /\ DOMAIN p.elems = DOMAIN cols
       /\ \A c \in DOMAIN cols : p.elems[c] = IF c = j THEN vec(j) ELSE heap[out].elems[c]
       /\ Refs(p) \subseteq Refs(heap[out]) \cup {vec(j)}
  <2>1. IsObject(heap[out]) BY <1>4 DEF HeapInv, ObjectOK
  <2>2. PICK o, x : o = heap[out] /\ x = vec(j) OBVIOUS
  <2>3. p = Entered(o, j, x) BY <1>7, <2>2 DEF Entered
  <2>4. IsObject(o) BY <2>1, <2>2
  <2>5. /\ IsObject(p) /\ p.class = o.class /\ DOMAIN p.elems = DOMAIN o.elems
        /\ \A c \in DOMAIN o.elems : p.elems[c] = IF c = j THEN x ELSE o.elems[c]
        /\ Refs(p) \subseteq Refs(o) \cup ({x} \ {None})
    BY <2>3, <2>4, SetElement
  <2> QED BY <1>4, <2>2, <2>5
<1>12. /\ IsObject(col) /\ Refs(col) = {}
       /\ col.class = IF kinds[j] = "list" THEN "list" ELSE "vector"
  BY <1>6 DEF Column, NewList, RObject, IsObject, Refs, IsRecursive, Range
<1>13. ObjectOK(vec(j), col)
  BY <1>1, <1>4, <1>12, NewIsOwn DEF ObjectOK, cols, cols_of
<1>14. ObjectOK(out, p) BY <1>1, <1>11, NewIsOwn DEF ObjectOK
<1>15. Refs(p) \subseteq Reachable \cup {vec(j), out}
  BY <1>4, <1>11, CollectedFacts
<1>16. Protected' = Protected BY <1>1 DEF Protected
<1>17. PICK g : g = IF kinds[j] = "list" THEN [top EXCEPT !.pc = "missing"]
                    ELSE [top EXCEPT !.j = @ + 1]
  OBVIOUS
<1>18. /\ g.node = node
       /\ \/ g.pc = "missing" /\ g.j = j
          \/ g.pc = "columns" /\ g.j = j + 1
  BY <1>1, <1>2, <1>5, <1>17 DEF Frames, node
<1>19. SetTop(g) BY <1>5, <1>17 DEF BuildColumn, Goto
<1>20. \A c \in DOMAIN cols : HasColumn(g, c) => p.elems[c] = vec(c)
  <2>1. j \in Nat /\ DOMAIN cols \subseteq Nat BY <1>4
  <2>2. \A c \in DOMAIN cols : HasColumn(g, c) => c <= j
    BY <1>18, <2>1 DEF HasColumn
  <2>3. \A c \in DOMAIN cols : HasColumn(top, c) <=> c < j
    BY <1>1, <1>5, <2>1 DEF HasColumn
  <2>4. \A c \in DOMAIN cols : c <= j => c = j \/ c < j BY <2>1
  <2> QED BY <1>4, <1>11, <2>2, <2>3, <2>4
<1>21. Rooted(g)'
  <2>1. g.pc \in InFrame BY <1>18 DEF InFrame
  <2>2. out \in DOMAIN heap' /\ out \in Protected' /\ p = heap'[out]
    BY <1>4, <1>9, <1>16
  <2>3. out_names \in DOMAIN heap' /\ out_names \in Protected' BY <1>4, <1>9, <1>16
  <2> QED BY <1>1, <1>11, <1>18, <1>20, <2>1, <2>2, <2>3, HasFrame
<1>22. PICK S, C, h : S = Reachable /\ C = {vec(j), out} /\ h = heap' OBVIOUS
<1>23. Changes(S, C) /\ IsFiniteSet(C)
  <2>1. IsFiniteSet({vec(j)} \cup {out}) BY FS_Singleton, FS_Union
  <2>2. {vec(j)} \cup {out} = C BY <1>22
  <2> QED BY <1>10, <1>22, <2>1, <2>2
<1>24. \A a \in C : Refs(h[a]) \subseteq S \cup C /\ ObjectOK(a, h[a])
  BY <1>9, <1>12, <1>13, <1>14, <1>15, <1>22
<1>25. \A a \in Protected : a \in Protected' BY <1>16
<1> QED BY <1>1, <1>2, <1>18, <1>19, <1>21, <1>22, <1>23, <1>24, <1>25, StepKeeps

(* All cells of a list column come to share one NA. *)
LEMMA FillMissingKeeps ==
    ASSUME CallsInv, ProtectionInv, HeapInv, InUse, FillMissing
    PROVE  HeapInv' /\ InUse'
<1>1. /\ Running /\ UNCHANGED <<args, ret, status, protects, precious>> /\ top.pc = "missing"
  BY DEF FillMissing
<1>2. ret = None /\ top \in Frames /\ FrameOK(top) /\ top.j \in Nat \ {0} /\ node \in Nat
  <2>1. ~Waits(top) BY <1>1 DEF Waits
  <2> QED BY <1>1, <2>1, NothingReturned, TopFacts DEF CallsInv, Running
<1>3. HasOut(top) /\ HasNames(top) /\ top.pc \in InFrame
  BY <1>1 DEF HasOut, HasNames, InFrame
<1>4. /\ out \in Reachable /\ out \in Protected
      /\ out_names \in Reachable /\ out_names \in Protected
      /\ heap[out].class = "data.frame" /\ DOMAIN heap[out].elems = DOMAIN cols
      /\ Len(kinds) \in Nat /\ DOMAIN cols = 1 .. Len(kinds)
      /\ \A c \in DOMAIN cols : HasColumn(top, c) =>
           heap[out].elems[c] = vec(c) /\ vec(c) \in Reachable /\ vec(c) \in DOMAIN heap
  BY <1>1, <1>3, TopHas
<1>5. PICK j \in DOMAIN cols : j = top.j
  <2>1. top.j <= Len(kinds) BY <1>1, <1>2 DEF FrameOK, kinds
  <2> QED BY <1>2, <1>4, <2>1
<1>6. \A c \in DOMAIN cols : HasColumn(top, c) <=> c <= j BY <1>1, <1>5 DEF HasColumn
<1>7. vec(j) \in Reachable /\ vec(j) \in DOMAIN heap
  <2>1. j <= j BY <1>4
  <2> QED BY <1>4, <1>6, <2>1
<1>8. PICK e : e = [i \in DOMAIN here |-> na(j)] OBVIOUS
<1>9. PICK p : p = [heap[vec(j)] EXCEPT !.elems = e] OBVIOUS
<1>10. heap' = With(na(j), MissingCell, [Collected EXCEPT ![vec(j)].elems = e])
  BY <1>5, <1>8 DEF FillMissing
<1>11. /\ DOMAIN heap' = Reachable \cup {vec(j), na(j)}
       /\ heap'[na(j)] = MissingCell /\ heap'[vec(j)] = p
       /\ \A a \in Reachable \ {vec(j), na(j)} : heap'[a] = heap[a]
       /\ heap' = [a \in Reachable \cup {vec(j), na(j)} |-> heap'[a]]
  <2>1. PICK w : w = [Collected EXCEPT ![vec(j)].elems = e] OBVIOUS
  <2>2. /\ DOMAIN w = Reachable /\ w[vec(j)] = p
        /\ \A a \in Reachable \ {vec(j)} : w[a] = heap[a]
    BY <1>7, <1>9, <2>1, CollectedFacts
  <2>3. PICK m : m = MissingCell OBVIOUS
  <2>4. heap' = [a \in {na(j)} \cup Reachable |-> IF a = na(j) THEN m ELSE w[a]]
    BY <1>10, <2>1, <2>2, <2>3 DEF With
  <2>5. na(j) # vec(j) BY <1>1, NewIsOwn
  <2>6. {na(j)} \cup Reachable = Reachable \cup {vec(j), na(j)} BY <1>7
  <2> QED BY <1>7, <2>2, <2>3, <2>4, <2>5, <2>6
<1>12. Changes(Reachable, {vec(j), na(j)})
  BY <1>1, <1>11, NewIsOwn, CollectedFacts DEF Changes
<1>13. ObjectOK(vec(j), heap[vec(j)]) BY <1>7 DEF HeapInv
<1>14. p.class = heap[vec(j)].class /\ p.attr = heap[vec(j)].attr /\ p.elems = e /\ IsObject(p)
  BY <1>8, <1>9, <1>13 DEF ObjectOK, IsObject, RObject
<1>15. Refs(p) \subseteq Reachable \cup {vec(j), na(j)}
  <2>1. Refs(p) \subseteq Refs(heap[vec(j)]) \cup {na(j)}
    BY <1>8, <1>14 DEF Refs, IsRecursive, Range
  <2> QED BY <1>7, <2>1, CollectedFacts
<1>16. ObjectOK(vec(j), p) BY <1>13, <1>14 DEF ObjectOK
<1>17. ObjectOK(na(j), MissingCell) /\ Refs(MissingCell) = {}
  <2>1. \A x : <<x>> = [k \in {1} |-> x] OBVIOUS
  <2>2. MissingCell = RObject("vector", <<NA>>, <<>>) BY DEF MissingCell
  <2>3. IsObject(MissingCell) /\ Refs(MissingCell) = {}
    BY <2>1, <2>2 DEF RObject, IsObject, Refs, IsRecursive
  <2> QED BY <1>1, <2>3, NewIsOwn DEF ObjectOK
<1>18. Protected' = Protected BY <1>1 DEF Protected
<1>19. PICK g : g = [top EXCEPT !.pc = "columns", !.j = j + 1] OBVIOUS
<1>20. g.node = node /\ g.pc = "columns" /\ g.j = j + 1
  BY <1>2, <1>19 DEF Frames, node
<1>21. SetTop(g) BY <1>2, <1>5, <1>19 DEF FillMissing, Frames
<1>22. PICK o : o = heap'[out] OBVIOUS
<1>23. o = heap[out]
  <2>1. out # vec(j) /\ out # na(j) BY <1>1, NewIsOwn
  <2> QED BY <1>4, <1>11, <1>22, <2>1
<1>24. \A c \in DOMAIN cols : HasColumn(g, c) => o.elems[c] = vec(c)
  <2>1. \A c \in DOMAIN cols : HasColumn(g, c) => HasColumn(top, c)
    BY <1>4, <1>6, <1>20 DEF HasColumn
  <2> QED BY <1>4, <1>23, <2>1
<1>25. Rooted(g)'
  <2>1. g.pc \in InFrame BY <1>20 DEF InFrame
  <2>2. /\ out \in DOMAIN heap' /\ out \in Protected'
        /\ out_names \in DOMAIN heap' /\ out_names \in Protected'
    BY <1>4, <1>11, <1>18
  <2>3. o.class = "data.frame" /\ DOMAIN o.elems = DOMAIN cols BY <1>4, <1>23
  <2> QED BY <1>1, <1>20, <1>22, <1>24, <2>1, <2>2, <2>3, HasFrame
<1>26. PICK S, C, h : S = Reachable /\ C = {vec(j), na(j)} /\ h = heap' OBVIOUS
<1>27. Changes(S, C) /\ IsFiniteSet(C)
  <2>1. IsFiniteSet({vec(j)} \cup {na(j)}) BY FS_Singleton, FS_Union
  <2>2. {vec(j)} \cup {na(j)} = C BY <1>26
  <2> QED BY <1>12, <1>26, <2>1, <2>2
<1>28. \A a \in C : Refs(h[a]) \subseteq S \cup C /\ ObjectOK(a, h[a])
  BY <1>11, <1>15, <1>16, <1>17, <1>26
<1>29. \A a \in Protected : a \in Protected' BY <1>18
<1> QED BY <1>1, <1>2, <1>20, <1>21, <1>25, <1>26, <1>27, <1>28, <1>29, StepKeeps

(* The key the fill loop is at is that of a column. *)
LEMMA ColumnOf ==
    ASSUME CallsInv, AtField
    PROVE  column_of \in DOMAIN cols /\ cols[column_of] = key
<1>1. Running /\ top.pc = "rows" /\ top.i <= Len(here) /\ top.j <= Len(doc.items[row_node])
  BY DEF AtField, InFill
<1>2. /\ doc \in Docs /\ node \in nodes(doc) /\ FrameOK(top)
      /\ top.i \in 1 .. Len(here) + 1 /\ Len(here) \in Nat /\ top.j \in Nat \ {0}
      /\ DOMAIN here = 1 .. Len(here)
  BY <1>1, TopFacts DEF CallsInv, Running
<1>3. IsTable(doc, node) BY <1>1, <1>2 DEF FrameOK, InFrame, node
<1>4. PICK d, n, i, j : d = doc /\ n = node /\ i = top.i /\ j = top.j OBVIOUS
<1>5. IsDocument(d) /\ n \in nodes(d) BY <1>2, <1>4, DocFacts
<1>6. i \in DOMAIN rows(d, n) /\ rows(d, n)[i] = row_node
  BY <1>1, <1>2, <1>4 DEF rows, row_node, here
<1>7. d.kind[row_node] = "OBJECT" BY <1>3, <1>4, <1>6 DEF IsTable, rows, Range
<1>8. row_node \in nodes(d) BY <1>1, <1>4, FieldFacts
<1>9. PICK r \in nodes(d) : r = row_node BY <1>8
<1>10. d.keys[r] \in Seq(Key) /\ Len(d.keys[r]) = Len(d.items[r])
  BY <1>5, <1>7, <1>9 DEF IsDocument
<1>11. j \in DOMAIN d.keys[r]
  BY <1>1, <1>2, <1>4, <1>9, <1>10
<1>12. \E c \in DOMAIN columns(d, n) : columns(d, n)[c] = d.keys[r][j]
  BY <1>5, <1>6, <1>9, <1>11, EveryKeyHasAColumn
<1>13. \E c \in DOMAIN cols : cols[c] = key
  BY <1>4, <1>9, <1>12 DEF cols, key
<1> QED BY <1>13 DEF column_of

(* A cell is stored in its column, from which everything else is as before. *)
LEMMA CellStored ==
    ASSUME CallsInv, ProtectionInv, HeapInv, InUse, Running, top.pc = "rows",
           UNCHANGED <<args, status, protects, precious>>, ret' = None,
           NEW c \in DOMAIN cols, NEW x, NEW k,
           \/ SetElt(vec(c), k, x)
           \/ AllocateAndSet(vec(c), Entered(heap[vec(c)], k, x)),
           \/ kinds[c] # "list"
           \/ x \in DOMAIN heap /\ SetElt(vec(c), k, x),
           NEW g, SetTop(g), g.node = node, g.pc = "rows"
    PROVE  HeapInv' /\ InUse'
<1>1. HasOut(top) /\ HasNames(top) /\ top.pc \in InFrame /\ g.pc \in InFrame
  BY DEF HasOut, HasNames, InFrame
<1>2. /\ out \in Reachable /\ out \in DOMAIN heap /\ out \in Protected
      /\ out_names \in Reachable /\ out_names \in DOMAIN heap /\ out_names \in Protected
      /\ heap[out].class = "data.frame" /\ DOMAIN heap[out].elems = DOMAIN cols
      /\ kinds = [b \in DOMAIN cols |-> kind_of(node, b)]
  BY <1>1, TopHas
<1>3. \A b \in DOMAIN cols :
        heap[out].elems[b] = vec(b) /\ vec(b) \in Reachable /\ vec(b) \in DOMAIN heap
  <2>1. \A b \in DOMAIN cols : HasColumn(top, b) BY DEF HasColumn
  <2> QED BY <1>1, <2>1, TopHas
<1>4. PICK a : a = vec(c) OBVIOUS
<1>5. a[1] = node /\ a[2] = "vec" /\ a[3] = c /\ a # out /\ a \in Reachable /\ a \in DOMAIN heap
  BY <1>3, <1>4, NewIsOwn
<1>6. PICK o, p : o = heap[a] /\ p = Entered(o, k, x) OBVIOUS
<1>7. ObjectOK(a, o) BY <1>5, <1>6 DEF HeapInv
<1>8. /\ IsObject(p) /\ p.class = o.class /\ Refs(p) \subseteq Refs(o) \cup {x}
  <2>1. IsObject(o) BY <1>7 DEF ObjectOK
  <2>2. IsObject(p) /\ p.class = o.class /\ Refs(p) \subseteq Refs(o) \cup ({x} \ {None})
    BY <1>6, <2>1, SetElement
  <2> QED BY <2>2
<1>9. ObjectOK(a, p) BY <1>7, <1>8 DEF ObjectOK
<1>10. PICK S : /\ S = Reachable \/ S = DOMAIN heap
                /\ Changes(S, {a}) /\ heap'[a] = p
                /\ Reachable \subseteq S
                /\ SetElt(vec(c), k, x) => S = DOMAIN heap
  <2>1. CASE SetElt(vec(c), k, x)
    <3>1. SetElt(a, k, x) BY <1>4, <2>1
    <3>2. Changes(DOMAIN heap, {a}) /\ heap'[a] = p BY <1>5, <1>6, <3>1, Sets
    <3> QED BY <2>1, <3>2, CollectedFacts
  <2>2. CASE AllocateAndSet(vec(c), Entered(heap[vec(c)], k, x)) /\ ~SetElt(vec(c), k, x)
    <3>1. AllocateAndSet(a, p) BY <1>4, <1>6, <2>2
    <3>2. Changes(Reachable, {a}) /\ heap'[a] = p BY <1>5, <3>1, AllocatesAndSets
    <3> QED BY <2>2, <3>2
  <2> QED BY <2>1, <2>2
<1>11. Refs(p) \subseteq S \cup {a}
  <2>1. CASE kinds[c] # "list"
    <3>1. o.class = "vector"
      BY <1>2, <1>5, <1>7, <2>1 DEF ObjectOK, cols, cols_of
    <3> QED BY <1>8, <3>1 DEF Refs, IsRecursive
  <2>2. CASE x \in DOMAIN heap /\ SetElt(vec(c), k, x)
    <3>1. Refs(o) \subseteq DOMAIN heap BY <1>5, <1>6 DEF HeapInv, NoDangling
    <3> QED BY <1>8, <1>10, <2>2, <3>1
  <2> QED BY <2>1, <2>2
<1>12. PICK f : f = heap'[out] OBVIOUS
<1>13. f = heap[out] BY <1>2, <1>5, <1>10, <1>12 DEF Changes
<1>14. Protected' = Protected BY DEF Protected
<1>15. Rooted(g)'
  <2>1. /\ out \in DOMAIN heap' /\ out \in Protected'
        /\ out_names \in DOMAIN heap' /\ out_names \in Protected'
    BY <1>2, <1>10, <1>14 DEF Changes
  <2>2. f.class = "data.frame" /\ DOMAIN f.elems = DOMAIN cols
        /\ \A b \in DOMAIN cols : f.elems[b] = vec(b)
    BY <1>2, <1>3, <1>13
  <2> QED BY <1>1, <1>12, <2>1, <2>2, HasFrame
<1>16. PICK C, h : C = {a} /\ h = heap' OBVIOUS
<1>17. Changes(S, C) /\ IsFiniteSet(C) BY <1>10, <1>16, FS_Singleton
<1>18. \A b \in C : Refs(h[b]) \subseteq S \cup C /\ ObjectOK(b, h[b])
  BY <1>9, <1>10, <1>11, <1>16
<1>19. \A b \in Protected : b \in Protected' BY <1>14
<1>20. S = Reachable \/ S = DOMAIN heap BY <1>10
<1> QED BY <1>15, <1>16, <1>17, <1>18, <1>19, <1>20, StepKeeps

LEMMA FillCellKeeps ==
    ASSUME CallsInv, ProtectionInv, HeapInv, InUse, FillCell \/ SetListCell
    PROVE  HeapInv' /\ InUse'
<1>1. /\ AtField /\ Running /\ top.pc = "rows" /\ UNCHANGED <<args, status, protects, precious>>
      /\ SetTop([top EXCEPT !.j = @ + 1])
  BY DEF FillCell, SetListCell, AtField, InFill, NextField
<1>2. top \in Frames BY <1>1, TopFacts DEF CallsInv, Running
<1>3. PICK g : g = [top EXCEPT !.j = @ + 1] OBVIOUS
<1>4. g.node = node /\ g.pc = "rows" /\ SetTop(g) BY <1>1, <1>2, <1>3 DEF Frames, node
<1>5. PICK c \in DOMAIN cols : c = column_of BY <1>1, ColumnOf
<1>6. CASE SetListCell
  <2>1. ret # None /\ ret' = None /\ SetElt(vec(c), top.i, ret) BY <1>5, <1>6 DEF SetListCell
  <2>2. ret \in DOMAIN heap BY <2>1 DEF InUse
  <2>3. PICK k, x : k = top.i /\ x = ret OBVIOUS
  <2>4. SetElt(vec(c), k, x) /\ x \in DOMAIN heap BY <2>1, <2>2, <2>3
  <2> QED BY <1>1, <1>4, <2>1, <2>4, CellStored
<1>7. CASE FillCell
  <2>1. ret' = None
    <3>1. ~Waits(top) BY <1>1, <1>7, FieldFacts DEF FillCell
    <3> QED BY <1>1, <1>7, <3>1, NothingReturned DEF FillCell
  <2>2. CASE UNCHANGED heap
    <3>1. /\ HasOut(g) => HasOut(top)
          /\ HasNames(g) => HasNames(top)
          /\ g.pc \in InFrame => top.pc \in InFrame
          /\ \A b \in DOMAIN cols : HasColumn(g, b) => HasColumn(top, b)
      BY <1>1, <1>4 DEF HasOut, HasNames, HasColumn
    <3>2. \A a \in Protected : a \in Protected' BY <1>1 DEF Protected
    <3> QED BY <1>1, <1>4, <2>1, <2>2, <3>1, <3>2, QuietStep
  <2>3. CASE ~UNCHANGED heap
    <3>1. PICK k, x : k = top.i /\ x = cell(kinds[c], value(doc, field)) OBVIOUS
    <3>2. /\ kinds[c] # "list"
          /\ \/ SetElt(vec(c), k, x)
             \/ AllocateAndSet(vec(c), Entered(heap[vec(c)], k, x))
      BY <1>5, <1>7, <2>3, <3>1 DEF FillCell, Entered
    <3> QED BY <1>1, <1>4, <2>1, <3>2, CellStored
  <2> QED BY <2>2, <2>3
<1> QED BY <1>6, <1>7

LEMMA CursorKeeps ==
    ASSUME CallsInv, ProtectionInv, HeapInv, InUse, ColumnsBuilt \/ FillRowEnd
    PROVE  HeapInv' /\ InUse'
<1>1. /\ Running /\ UNCHANGED <<args, ret, heap, protects, precious, status>>
      /\ top.pc = "columns" \/ top.pc = "rows"
  BY DEF ColumnsBuilt, FillRowEnd, InFill
<1>2. top \in Frames /\ top.j \in Nat \ {0} BY <1>1, TopFacts DEF CallsInv, Running
<1>3. ret' = None
  <2>1. ~Waits(top)
    <3>1. CASE ColumnsBuilt BY <3>1 DEF ColumnsBuilt, Waits
    <3>2. CASE FillRowEnd
      <4>1. top.pc = "rows" /\ InFill /\ top.j > Len(doc.items[row_node])
        BY <3>2 DEF FillRowEnd, InFill
      <4>2. Len(doc.items[row_node]) \in Nat BY <1>1, <4>1, FieldFacts
      <4>3. ~AtField BY <1>2, <4>1, <4>2 DEF AtField
      <4> QED BY <1>1, <4>1, <4>3, FieldFacts
    <3> QED BY <3>1, <3>2
  <2> QED BY <1>1, <2>1, NothingReturned
<1>4. PICK g : g = IF ColumnsBuilt THEN [top EXCEPT !.pc = "rows", !.i = 1, !.j = 1]
                   ELSE [top EXCEPT !.i = @ + 1, !.j = 1]
  OBVIOUS
<1>5. g.node = node /\ g.pc = "rows" /\ SetTop(g)
  <2>1. CASE ColumnsBuilt
    BY <1>2, <1>4, <2>1 DEF ColumnsBuilt, Frames, node
  <2>2. CASE ~ColumnsBuilt
    <3>1. top.pc = "rows" /\ SetTop(g) BY <1>4, <2>2 DEF FillRowEnd, InFill
    <3>2. g = [top EXCEPT !.i = @ + 1, !.j = 1] BY <1>4, <2>2
    <3> QED BY <1>2, <3>1, <3>2 DEF Frames, node
  <2> QED BY <2>1, <2>2
<1>6. top.pc \in InFrame /\ g.pc \in InFrame BY <1>1, <1>5 DEF InFrame
<1>7. \A c \in DOMAIN cols : HasColumn(top, c)
  <2>1. CASE top.pc = "rows" BY <2>1 DEF HasColumn
  <2>2. CASE top.pc = "columns"
    <3>1. top.j > Len(kinds) BY <2>2 DEF ColumnsBuilt, FillRowEnd, InFill
    <3>2. DOMAIN cols = 1 .. Len(kinds) /\ Len(kinds) \in Nat BY <1>1, <1>6, TopHas
    <3>3. \A c \in DOMAIN cols : c < top.j BY <1>2, <3>1, <3>2
    <3> QED BY <2>2, <3>3 DEF HasColumn
  <2> QED BY <1>1, <2>1, <2>2
<1>8. HasOut(top) /\ HasNames(top) BY <1>1 DEF HasOut, HasNames, InFrame
<1>9. \A a \in Protected : a \in Protected' BY <1>1 DEF Protected
<1> QED BY <1>1, <1>3, <1>5, <1>6, <1>7, <1>8, <1>9, QuietStep

(* The steps before anything is made. *)
LEMMA LevelKeeps ==
    ASSUME CallsInv, HeapInv, InUse, Running, UNCHANGED <<args, ret, heap, protects, precious, status>>,
           ~Waits(top), NEW p, Goto(p),
           p \notin {"fill", "names", "items", "key"} \cup InFrame
    PROVE  HeapInv' /\ InUse'
<1>1. top \in Frames BY TopFacts DEF CallsInv, Running
<1>2. PICK g : g = [top EXCEPT !.pc = p] OBVIOUS
<1>3. g.node = node /\ g.pc = p /\ SetTop(g) BY <1>1, <1>2 DEF Frames, node, Goto
<1>4. ~HasOut(g) /\ ~HasNames(g) /\ g.pc \notin InFrame
  BY <1>3 DEF HasOut, HasNames, InFrame
<1>5. \A c : ~HasColumn(g, c) BY <1>3 DEF HasColumn, InFrame
<1>6. ret' = None BY NothingReturned
<1>7. \A a \in Protected : a \in Protected' BY DEF Protected
<1> QED BY <1>3, <1>4, <1>5, <1>6, <1>7, QuietStep

LEMMA TryLevelKeeps ==
    ASSUME CallsInv, ProtectionInv, HeapInv, InUse, TryLevel
    PROVE  HeapInv' /\ InUse'
<1>1. /\ Running /\ UNCHANGED <<args, ret, heap, protects, precious, status>>
      /\ top.pc \in {"data_frame", "matrix", "vector"}
  BY DEF TryLevel
<1>2. PICK p : p = (CASE top.pc = "data_frame" ->
                            IF IsTable(doc, node) THEN "frame" ELSE "matrix"
                      [] top.pc = "matrix" ->
                            IF diagnose THEN "build_matrix" ELSE "vector"
                      [] top.pc = "vector" ->
                            IF vectorizable(opts, kinds_in(doc, here))
                            THEN "build_vector" ELSE "list")
  OBVIOUS
<1>3. Goto(p) BY <1>2 DEF TryLevel
<1>4. p \in {"frame", "matrix", "build_matrix", "vector", "build_vector", "list"}
  BY <1>1, <1>2
<1>5. p \notin {"fill", "names", "items", "key"} \cup InFrame BY <1>4 DEF InFrame
<1>6. ~Waits(top) BY <1>1 DEF Waits
<1> QED BY <1>1, <1>3, <1>5, <1>6, LevelKeeps

LEMMA QuietReturn ==
    ASSUME CallsInv, HeapInv, InUse, ProtectionInv, Running, UNCHANGED <<args, heap>>,
           NEW r, Return(r), r \in DOMAIN heap
    PROVE  HeapInv' /\ InUse'
<1>1. PICK S, C, h : S = DOMAIN heap /\ C = {} /\ h = heap' OBVIOUS
<1>2. Changes(S, C) /\ IsFiniteSet(C) BY <1>1, Unchanged, FS_EmptySet
<1>3. \A a \in C : Refs(h[a]) \subseteq S \cup C /\ ObjectOK(a, h[a]) BY <1>1
<1>4. r \in DOMAIN heap' OBVIOUS
<1> QED BY <1>1, <1>2, <1>3, <1>4, ReturnStep

LEMMA SimplifyElementKeeps ==
    ASSUME CallsInv, ProtectionInv, HeapInv, InUse, SimplifyElement
    PROVE  HeapInv' /\ InUse'
<1>1. /\ Running /\ UNCHANGED <<args, heap>> /\ top.pc = "element" /\ stack # <<>>
  BY DEF SimplifyElement, CallsInv, Running
<1>2. ~Waits(top) BY <1>1 DEF Waits
<1>3. PICK p : p = IF doc.kind[node] = "OBJECT" THEN "object" ELSE opts.simplify_to
  OBVIOUS
<1>4. /\ p \notin {"fill", "names", "items", "key"} \cup InFrame
      /\ "scalar" \notin {"fill", "names", "items", "key"} \cup InFrame
  <2>1. opts.simplify_to \in SimplifyTo
    BY <1>1, TopFacts, SimplifyOptionsAssumption DEF Option, CallsInv
  <2> QED BY <1>3, <2>1 DEF SimplifyTo, InFrame
<1>5. PICK a : a = CallersObject(doc.kind[node]) OBVIOUS
<1>6. CASE (Goto("scalar") \/ Goto(p)) /\ UNCHANGED <<ret, protects, precious, status>>
  BY <1>1, <1>2, <1>4, <1>6, LevelKeeps
<1>7. CASE Return(a) /\ doc.kind[node] \in {"ARRAY", "OBJECT", "NULL_VALUE"}
  <2>1. a \in DOMAIN heap BY <1>5, <1>7 DEF Callers, HeapInv
  <2> QED BY <1>1, <1>7, <2>1, QuietReturn
<1> QED BY <1>3, <1>5, <1>6, <1>7 DEF SimplifyElement

(* A call sets its object's attributes, and returns it. *)
LEMMA ReturnsOwn ==
    ASSUME CallsInv, HeapInv, InUse, ProtectionInv, Running, UNCHANGED args, Return(out),
           HasOut(top), NEW o, AllocateAndSet(out, o), IsObject(o), Refs(o) \subseteq Reachable
    PROVE  HeapInv' /\ InUse'
<1>1. PICK r \in Reachable : r = out BY TopHas
<1>2. r[1] = node /\ ObjectOK(r, o) BY <1>1, NewIsOwn DEF ObjectOK
<1>3. Return(r) /\ AllocateAndSet(r, o) BY <1>1
<1>4. Changes(Reachable, {r}) /\ DOMAIN heap' = Reachable /\ heap'[r] = o
  BY <1>2, <1>3, AllocatesAndSets
<1>5. PICK S, C, h : S = Reachable /\ C = {r} /\ h = heap' OBVIOUS
<1>6. Changes(S, C) /\ IsFiniteSet(C) BY <1>4, <1>5, FS_Singleton
<1>7. \A a \in C : Refs(h[a]) \subseteq S \cup C /\ ObjectOK(a, h[a])
  BY <1>2, <1>4, <1>5
<1>8. r \in DOMAIN heap' BY <1>4
<1> QED BY <1>3, <1>5, <1>6, <1>7, <1>8, ReturnStep

LEMMA ReturnsKeep ==
    ASSUME CallsInv, HeapInv, InUse, ProtectionInv, FillAtomic \/ ReturnList \/ ReturnFrame
    PROVE  HeapInv' /\ InUse'
<1>1. Running /\ UNCHANGED args /\ Return(out) /\ top.pc \in {"fill", "items", "rows"}
  BY DEF FillAtomic, ReturnList, ReturnFrame
<1>2. HasOut(top) BY <1>1 DEF HasOut, InFrame
<1>3. out \in Reachable /\ out \in DOMAIN heap BY <1>1, <1>2, TopHas
<1>4. IsObject(heap[out]) /\ Refs(heap[out]) \subseteq Reachable
  BY <1>3, CollectedFacts DEF HeapInv, ObjectOK
<1>5. CASE AllocateAndSet(out, heap[out])
  <2>1. PICK o : o = heap[out] OBVIOUS
  <2> QED BY <1>1, <1>2, <1>4, <1>5, <2>1, ReturnsOwn
<1>6. CASE AllocateAndSet(out, Named(heap[out], out_names)) /\ HasNames(top)
  <2>1. out_names \in Reachable BY <1>1, <1>6, TopHas
  <2>2. PICK o, p, x : o = heap[out] /\ x = out_names /\ p = Named(o, x) OBVIOUS
  <2>3. IsObject(o) BY <1>4, <2>2
  <2>4. IsObject(p) /\ Refs(p) \subseteq Refs(o) \cup {x} BY <2>2, <2>3, SetAttributes
  <2>5. Refs(p) \subseteq Reachable BY <1>4, <2>1, <2>2, <2>4
  <2>6. AllocateAndSet(out, p) BY <1>6, <2>2
  <2> QED BY <1>1, <1>2, <2>4, <2>5, <2>6, ReturnsOwn
<1>7. CASE UNCHANGED heap
  <2>1. PICK r : r = out OBVIOUS
  <2> QED BY <1>1, <1>3, <1>7, <2>1, QuietReturn
<1>8. CASE FillAtomic BY <1>5, <1>8 DEF FillAtomic
<1>9. CASE ReturnFrame
  <2>1. HasNames(top) BY <1>9 DEF ReturnFrame, HasNames
  <2> QED BY <1>6, <1>9, <2>1 DEF ReturnFrame, Named
<1>10. CASE ReturnList
  <2>1. doc.kind[node] = "OBJECT" => HasNames(top) BY <1>10 DEF ReturnList, HasNames, node
  <2> QED BY <1>6, <1>7, <1>10, <2>1 DEF ReturnList, Named
<1> QED BY <1>8, <1>9, <1>10

LEMMA CallsKeep ==
    ASSUME CallsInv, HeapInv, InUse, ProtectionInv, CallItem \/ CallListCell
    PROVE  HeapInv' /\ InUse'
<1>1. PICK n : n = IF CallItem THEN here[top.i] ELSE field OBVIOUS
<1>2. /\ Running /\ Call(n) /\ ret' = None
      /\ UNCHANGED <<args, heap, protects, precious, status>>
  BY <1>1 DEF CallItem, CallListCell, AtField, InFill
<1> QED BY <1>2, CallStep

(* The steps of an error leave the heap as it is. *)
LEMMA HeapStays ==
    ASSUME HeapInv, UNCHANGED <<args, heap>>
    PROVE  HeapInv'
<1>1. NoDangling' BY DEF NoDangling, HeapInv
<1>2. \A a, o : ObjectOK(a, o)' <=> ObjectOK(a, o)
  BY DEF ObjectOK, cols_of, kind_of, args
<1>3. \A a \in DOMAIN heap : ObjectOK(a, heap[a])' BY <1>2 DEF HeapInv
<1> QED BY <1>1, <1>3 DEF HeapInv

LEMMA HeapKept ==
    CallsInv /\ ProtectionInv /\ HeapInv /\ InUse /\ [Next]_vars => HeapInv' /\ InUse'
<1> SUFFICES ASSUME CallsInv, ProtectionInv, HeapInv, InUse, [Next]_vars
             PROVE  HeapInv' /\ InUse'
  OBVIOUS
<1>1. CASE AllocationFails \/ EmbeddedNul \/ Unwind
  <2>1. UNCHANGED <<args, heap>> /\ status' # "running"
    BY <1>1 DEF AllocationFails, EmbeddedNul, Unwind
  <2>2. ret' = None
    BY <1>1 DEF AllocationFails, EmbeddedNul, Unwind, CallsInv, Running
  <2> QED BY <2>1, <2>2, HeapStays DEF InUse, Running
<1>2. CASE UNCHANGED vars
  <2>1. UNCHANGED <<doc, option, args, heap, protects, precious, stack, ret, status>>
    BY <1>2 DEF vars, args
  <2>2. \A f : Rooted(f)' <=> Rooted(f)
    BY <2>1 DEF Rooted, HasNames, cols_of, Protected
  <2>3. Running => \A k \in DOMAIN stack : Rooted(stack[k])'
    BY <2>1, <2>2 DEF InUse
  <2> QED BY <2>1, <2>3, HeapStays DEF InUse, Running
<1> QED
  BY <1>1, <1>2, SimplifyElementKeeps, TryLevelKeeps, AllocateAtomicKeeps, ReturnsKeep,
     AllocateListKeeps, AllocateNamesKeeps, CallsKeep, SetItemKeeps, SetKeyKeeps,
     AllocateFrameKeeps, AllocateFrameNamesKeeps, BuildColumnKeeps, FillMissingKeeps,
     CursorKeeps, FillCellKeeps DEF Next, Finished

LEMMA InitialHeap == Init => HeapInv /\ InUse
<1> SUFFICES ASSUME Init PROVE HeapInv /\ InUse OBVIOUS
<1>1. heap = [a \in Callers |-> RObject(a[2], <<>>, <<>>)] BY DEF Init
<1>2. IsFiniteSet(Callers)
  <2>1. PICK a, b, c : /\ a = CallersObject("ARRAY") /\ b = CallersObject("OBJECT")
                       /\ c = CallersObject("NULL_VALUE")
    OBVIOUS
  <2>2. Callers = ({a} \cup {b}) \cup {c} BY <2>1 DEF Callers
  <2>3. IsFiniteSet({a} \cup {b}) BY FS_Singleton, FS_Union
  <2> QED BY <2>2, <2>3, FS_Singleton, FS_Union
<1>3. \A a \in Callers : a[2] \in {"empty_array", "empty_object", "single_null"}
  BY DEF Callers, CallersObject
<1>4. \A x : LET o == RObject(x, <<>>, <<>>) IN
        IsObject(o) /\ (x \notin {"list", "data.frame"} => Refs(o) = {})
  BY DEF RObject, IsObject, Refs, IsRecursive
<1>5. \A a \in DOMAIN heap : ObjectOK(a, heap[a]) /\ Refs(heap[a]) = {}
  BY <1>1, <1>3, <1>4 DEF ObjectOK
<1>6. HeapInv BY <1>1, <1>2, <1>5 DEF HeapInv, NoDangling
<1>7. PICK g : g = Frame(1, option) OBVIOUS
<1>8. stack = <<g>> /\ ret = None BY <1>7 DEF Init
<1>9. DOMAIN stack = {1} /\ stack[1] = g BY <1>8
<1>10. Rooted(g) BY <1>7 DEF Frame, Rooted, HasOut, HasNames, InFrame
<1>11. InUse BY <1>8, <1>9, <1>10 DEF InUse
<1> QED BY <1>6, <1>11

LEMMA IInvHolds == Spec => []IInv
<1>1. Init => IInv BY InitiallyOneCall, InitialHeap DEF IInv
<1>2. IInv /\ [Next]_vars => IInv'
  BY CallsKept, ProtectionKept, HeapKept DEF IInv
<1> QED BY <1>1, <1>2, PTL DEF Spec

(* Whenever R's collector may have run, whatever the documents, options    *)
(* and depth: what a running call's locals point to, the columns it holds  *)
(* as bare pointers, and what has just been returned, is all still there,  *)
(* with everything in it.                                                  *)
THEOREM NothingIsCollectedEarly == Spec => []NothingInUseIsCollected
<1>1. IInv => NothingInUseIsCollected
  <2> DEFINE used == (UNION {Locals(stack[k]) : k \in DOMAIN stack}) \cup ({ret} \ {None})
  <2> SUFFICES ASSUME CallsInv, HeapInv, InUse, Running \/ status = "returned"
               PROVE  /\ used \subseteq DOMAIN heap
                      /\ \A a \in used : Refs(heap[a]) \subseteq DOMAIN heap
    BY DEF IInv, NothingInUseIsCollected
  <2>1. {ret} \ {None} \subseteq DOMAIN heap BY DEF InUse
  <2>2. ASSUME NEW k \in DOMAIN stack PROVE Locals(stack[k]) \subseteq DOMAIN heap
    <3>1. Running /\ stack # <<>>
      <4>1. stack # <<>>
        <5>1. PICK s \in Seq(Frames) : s = stack BY DEF CallsInv
        <5>2. s = <<>> => DOMAIN s = {} OBVIOUS
        <5> QED BY <5>1, <5>2
      <4> QED BY <4>1 DEF CallsInv, Running
    <3>2. PICK f : f = stack[k] OBVIOUS
    <3>3. Rooted(f) BY <3>1, <3>2 DEF InUse
    <3>4. FrameOK(f) BY <3>1, <3>2, TopFacts
    <3>5. f.node \in Nat BY <3>1, <3>2, TopFacts
    <3> DEFINE n == f.node
    <3>6. HasOut(f) => <<n, "out", 0>> \in DOMAIN heap BY <3>3 DEF Rooted
    <3>7. HasNames(f) => <<n, "names", 0>> \in DOMAIN heap BY <3>3 DEF Rooted
    <3>8. ASSUME f.pc \in InFrame, NEW c \in DOMAIN f.kinds, HasColumn(f, c)
          PROVE  <<n, "vec", c>> \in DOMAIN heap
      <4>1. f.kinds = [b \in DOMAIN cols_of(n) |-> kind_of(n, b)] /\ f.kinds \in Seq(Col_Kind)
        BY <3>4, <3>8 DEF FrameOK, Frames
      <4>2. c \in DOMAIN cols_of(n) /\ c \in Nat BY <4>1
      <4>3. PICK o : o = <<n, "out", 0>> OBVIOUS
      <4>4. HasOut(f) BY <3>8 DEF HasOut
      <4>5. /\ o \in DOMAIN heap /\ heap[o].class = "data.frame"
            /\ DOMAIN heap[o].elems = DOMAIN cols_of(n)
            /\ heap[o].elems[c] = <<n, "vec", c>>
        BY <3>3, <3>8, <4>2, <4>3, <4>4 DEF Rooted
      <4>6. <<n, "vec", c>> \in Address BY <3>5, <4>2 DEF Address
      <4>7. <<n, "vec", c>> # None BY <4>6, NoneAssumption
      <4>8. <<n, "vec", c>> \in Refs(heap[o])
        BY <4>2, <4>5, <4>7 DEF Refs, IsRecursive, Range
      <4> QED BY <4>5, <4>8 DEF HeapInv, NoDangling
    <3>9. /\ f.kinds \in Seq(Col_Kind) /\ f.j \in Nat \ {0}
          /\ DOMAIN f.kinds = 1 .. Len(f.kinds) /\ Len(f.kinds) \in Nat
      BY <3>4 DEF FrameOK, Frames
    <3>10. /\ f.pc = "columns" => f.j <= Len(f.kinds) + 1
           /\ f.pc = "missing" => f.j <= Len(f.kinds)
      BY <3>4 DEF FrameOK
    <3> DEFINE held == CASE f.pc = "columns" -> 1 .. f.j - 1
                         [] f.pc = "missing" -> 1 .. f.j
                         [] f.pc = "rows"    -> DOMAIN f.kinds
                         [] OTHER            -> {}
    <3>11. ASSUME NEW c \in held
           PROVE  f.pc \in InFrame /\ c \in DOMAIN f.kinds /\ HasColumn(f, c)
      <4>1. CASE f.pc = "columns"
        BY <3>9, <3>10, <3>11, <4>1 DEF InFrame, HasColumn
      <4>2. CASE f.pc = "missing"
        BY <3>9, <3>10, <3>11, <4>2 DEF InFrame, HasColumn
      <4>3. CASE f.pc = "rows" BY <3>11, <4>3 DEF InFrame, HasColumn
      <4>4. CASE f.pc \notin {"columns", "missing", "rows"} BY <3>11, <4>4
      <4> QED BY <4>1, <4>2, <4>3, <4>4
    <3>12. \A c \in held : <<n, "vec", c>> \in DOMAIN heap BY <3>8, <3>11
    <3>13. f.pc \in {"fill", "names", "items", "key", "frame_names", "columns", "missing", "rows"}
             => HasOut(f)
      BY DEF HasOut, InFrame
    <3>14. (\/ f.pc \in {"key", "columns", "missing", "rows"}
            \/ f.pc = "items" /\ doc.kind[n] = "OBJECT") => HasNames(f)
      BY DEF HasNames
    <3> HIDE DEF held
    <3>15. {<<n, "vec", j>> : j \in held} \subseteq DOMAIN heap BY <3>12
    <3>16. Locals(f) \subseteq DOMAIN heap
      BY <3>6, <3>7, <3>13, <3>14, <3>15 DEF Locals, held
    <3> QED BY <3>2, <3>16
  <2>3. ASSUME NEW a \in used PROVE a \in DOMAIN heap
    <3>1. CASE a \in {ret} \ {None} BY <2>1, <3>1
    <3>2. CASE a \notin {ret} \ {None}
      <4>1. PICK k \in DOMAIN stack : a \in Locals(stack[k]) BY <2>3, <3>2
      <4> QED BY <2>2, <4>1
    <3> QED BY <3>1, <3>2
  <2> HIDE DEF used
  <2> QED BY <2>3 DEF HeapInv, NoDangling
<1> QED BY <1>1, IInvHolds, PTL

(* A step changes only what the running call made for its own node. *)
Unshared == \A a \in DOMAIN heap \cap DOMAIN heap' : heap'[a] # heap[a] => a[1] = node

LEMMA OwnChanges ==
    ASSUME NEW x, x[1] = node, NEW o, NEW k, NEW e,
           Allocate(x, o) \/ AllocateAndSet(x, o) \/ SetElt(x, k, e)
    PROVE  Unshared
<1>1. DOMAIN Collected = Reachable /\ \A a \in Reachable : Collected[a] = heap[a]
  BY DEF Collected
<1>2. CASE Allocate(x, o) BY <1>1, <1>2 DEF Allocate, With, Unshared
<1>3. CASE AllocateAndSet(x, o) BY <1>1, <1>3 DEF AllocateAndSet, Unshared
<1>4. CASE SetElt(x, k, e) BY <1>4 DEF SetElt, Unshared
<1> QED BY <1>2, <1>3, <1>4

LEMMA ChangesAreOwn == ASSUME CallsInv, Running, Next PROVE Unshared
<1>1. /\ out[1] = node /\ out_names[1] = node
      /\ \A c : vec(c)[1] = node /\ na(c)[1] = node
  BY NewIsOwn
<1>2. DOMAIN Collected = Reachable /\ \A a \in Reachable : Collected[a] = heap[a]
  BY DEF Collected
<1>3. UNCHANGED heap => Unshared BY DEF Unshared
<1>4. AllocateAtomic => Unshared
  <2> SUFFICES ASSUME AllocateAtomic PROVE Unshared OBVIOUS
  <2>1. PICK x, o : x = out /\ o = Atomic OBVIOUS
  <2>2. Allocate(x, o) BY <2>1 DEF AllocateAtomic
  <2> QED BY <1>1, <2>1, <2>2, OwnChanges
<1>5. FillAtomic => Unshared
  <2> SUFFICES ASSUME FillAtomic PROVE Unshared OBVIOUS
  <2>1. PICK x, o : x = out /\ o = heap[out] OBVIOUS
  <2>2. AllocateAndSet(x, o) BY <2>1 DEF FillAtomic
  <2> QED BY <1>1, <2>1, <2>2, OwnChanges
<1>6. AllocateList => Unshared
  <2> SUFFICES ASSUME AllocateList PROVE Unshared OBVIOUS
  <2>1. PICK x, o : x = out /\ o = NewList(Len(here)) OBVIOUS
  <2>2. Allocate(x, o) BY <2>1 DEF AllocateList
  <2> QED BY <1>1, <2>1, <2>2, OwnChanges
<1>7. AllocateNames => Unshared
  <2> SUFFICES ASSUME AllocateNames PROVE Unshared OBVIOUS
  <2>1. PICK x, o : x = out_names /\ o = NewNames(Len(here)) OBVIOUS
  <2>2. Allocate(x, o) BY <2>1 DEF AllocateNames
  <2> QED BY <1>1, <2>1, <2>2, OwnChanges
<1>8. SetItem => Unshared
  <2> SUFFICES ASSUME SetItem PROVE Unshared OBVIOUS
  <2>1. PICK x, k, e : x = out /\ k = top.i /\ e = ret OBVIOUS
  <2>2. SetElt(x, k, e) BY <2>1 DEF SetItem
  <2> QED BY <1>1, <2>1, <2>2, OwnChanges
<1>9. SetKey => Unshared
  <2> SUFFICES ASSUME SetKey PROVE Unshared OBVIOUS
  <2>1. PICK x, o : /\ x = out_names
                    /\ o = [heap[out_names] EXCEPT !.elems[top.i] = doc.keys[node][top.i]]
    OBVIOUS
  <2>2. AllocateAndSet(x, o) BY <2>1 DEF SetKey
  <2> QED BY <1>1, <2>1, <2>2, OwnChanges
<1>10. ReturnList \/ ReturnFrame => Unshared
  <2> SUFFICES ASSUME ReturnList \/ ReturnFrame PROVE Unshared OBVIOUS
  <2>1. PICK x, o : x = out /\ o = [heap[out] EXCEPT !.attr = out_names] OBVIOUS
  <2>2. AllocateAndSet(x, o) \/ UNCHANGED heap BY <2>1 DEF ReturnList, ReturnFrame
  <2> QED BY <1>1, <1>3, <2>1, <2>2, OwnChanges
<1>11. AllocateFrame => Unshared
  <2> SUFFICES ASSUME AllocateFrame PROVE Unshared OBVIOUS
  <2>1. PICK x, o : /\ x = out
                    /\ o = RObject("data.frame", [j \in DOMAIN cols |-> None], <<>>)
    OBVIOUS
  <2>2. Allocate(x, o) BY <2>1 DEF AllocateFrame
  <2> QED BY <1>1, <2>1, <2>2, OwnChanges
<1>12. AllocateFrameNames => Unshared
  <2> SUFFICES ASSUME AllocateFrameNames PROVE Unshared OBVIOUS
  <2>1. PICK x, o : x = out_names /\ o = RObject("vector", cols, <<>>) OBVIOUS
  <2>2. Allocate(x, o) BY <2>1 DEF AllocateFrameNames
  <2> QED BY <1>1, <2>1, <2>2, OwnChanges
<1>13. BuildColumn => Unshared
  <2> SUFFICES ASSUME BuildColumn PROVE Unshared OBVIOUS
  <2>1. PICK x, y, o, h : /\ x = vec(top.j) /\ y = out /\ o = Column(top.j)
                          /\ h = [Collected EXCEPT ![out].elems[top.j] = vec(top.j)]
    OBVIOUS
  <2>2. heap' = With(x, o, h) BY <2>1 DEF BuildColumn
  <2>3. DOMAIN h = Reachable /\ \A a \in Reachable : a # y => h[a] = heap[a]
    BY <1>2, <2>1
  <2>4. x[1] = node /\ y[1] = node BY <1>1, <2>1
  <2> QED BY <2>2, <2>3, <2>4 DEF With, Unshared
<1>14. FillMissing => Unshared
  <2> SUFFICES ASSUME FillMissing PROVE Unshared OBVIOUS
  <2>1. PICK x, y, o, h :
           /\ x = na(top.j) /\ y = vec(top.j) /\ o = MissingCell
           /\ h = [Collected EXCEPT ![vec(top.j)].elems = [i \in DOMAIN here |-> na(top.j)]]
    OBVIOUS
  <2>2. heap' = With(x, o, h) BY <2>1 DEF FillMissing
  <2>3. DOMAIN h = Reachable /\ \A a \in Reachable : a # y => h[a] = heap[a]
    BY <1>2, <2>1
  <2>4. x[1] = node /\ y[1] = node BY <1>1, <2>1
  <2> QED BY <2>2, <2>3, <2>4 DEF With, Unshared
<1>15. FillCell => Unshared
  <2> SUFFICES ASSUME FillCell PROVE Unshared OBVIOUS
  <2>1. PICK x, o, k, e :
           /\ x = vec(column_of) /\ k = top.i
           /\ e = cell(kinds[column_of], value(doc, field))
           /\ o = [heap[vec(column_of)] EXCEPT !.elems[top.i] = e]
    OBVIOUS
  <2>2. AllocateAndSet(x, o) \/ SetElt(x, k, e) \/ UNCHANGED heap BY <2>1 DEF FillCell
  <2> QED BY <1>1, <1>3, <2>1, <2>2, OwnChanges
<1>16. SetListCell => Unshared
  <2> SUFFICES ASSUME SetListCell PROVE Unshared OBVIOUS
  <2>1. PICK x, k, e : x = vec(column_of) /\ k = top.i /\ e = ret OBVIOUS
  <2>2. SetElt(x, k, e) BY <2>1 DEF SetListCell
  <2> QED BY <1>1, <2>1, <2>2, OwnChanges
<1>17. \/ SimplifyElement \/ TryLevel \/ CallItem \/ ColumnsBuilt \/ CallListCell
       \/ FillRowEnd \/ AllocationFails \/ EmbeddedNul \/ Unwind \/ Finished
       => UNCHANGED heap
  BY DEF SimplifyElement, TryLevel, CallItem, ColumnsBuilt, CallListCell, FillRowEnd,
     AllocationFails, EmbeddedNul, Unwind, Finished, vars
<1> QED
  BY <1>3, <1>4, <1>5, <1>6, <1>7, <1>8, <1>9, <1>10, <1>11, <1>12, <1>13, <1>14, <1>15,
     <1>16, <1>17 DEF Next

(* No step, of whatever call, changes an object that was made for another  *)
(* node: what a nested call has returned stays as it was handed over, for  *)
(* every document and however deep it is nested.                           *)
THEOREM NothingChangesAfterwards == Spec => HandedOverComplete
<1>1. ASSUME IInv, [Next]_vars
      PROVE  [\A a \in DOMAIN heap \cap DOMAIN heap' :
                 heap'[a] # heap[a] => stack # <<>> /\ a[1] = node]_vars
  <2>1. CASE UNCHANGED heap BY <2>1
  <2>2. CASE ~UNCHANGED heap
    <3>1. ~UNCHANGED vars BY <2>2 DEF vars
    <3>2. Running /\ Next
      BY <1>1, <2>2, <3>1 DEF Next, SimplifyElement, TryLevel, AllocateAtomic, FillAtomic,
         AllocateList, AllocateNames, CallItem, SetItem, SetKey, ReturnList, AllocateFrame,
         AllocateFrameNames, BuildColumn, FillMissing, ColumnsBuilt, FillCell, CallListCell,
         SetListCell, FillRowEnd, ReturnFrame, AllocationFails, EmbeddedNul, Unwind, Finished,
         AtField, InFill
    <3>3. stack # <<>> BY <1>1, <3>2 DEF IInv, CallsInv, Running
    <3>4. Unshared BY <1>1, <3>2, ChangesAreOwn DEF IInv
    <3> QED BY <3>3, <3>4 DEF Unshared
  <2> QED BY <2>1, <2>2
<1> QED BY <1>1, IInvHolds, PTL DEF Spec, HandedOverComplete

-----------------------------------------------------------------------------
(***************************************************************************)
(* What a document is promised to become is well defined.                  *)
(***************************************************************************)

(* Of the segments that end in a set of numbers, one has no other inside it. *)
LEMMA Smallest ==
    ASSUME NEW S \in SUBSET Nat, S # {}
    PROVE  \E n \in S : \A m \in S : n <= m
<1> DEFINE T == {0 .. n : n \in S}
<1>1. T # {}
  <2>1. PICK n \in S : TRUE OBVIOUS
  <2>2. 0 .. n \in T OBVIOUS
  <2> QED BY <2>2
<1>2. T \subseteq FiniteSubsetsOf(Nat)
  <2>1. \A n \in Nat : IsFiniteSet(0 .. n) /\ 0 .. n \subseteq Nat BY FS_Interval
  <2> QED BY <2>1 DEF FiniteSubsetsOf
<1>3. IsWellFoundedOn(StrictSubsetOrdering(Nat), FiniteSubsetsOf(Nat))
  BY FS_StrictSubsetOrderingWellFounded
<1> HIDE DEF T
<1>4. PICK X \in T : \A Y \in T : ~ (<<Y, X>> \in StrictSubsetOrdering(Nat))
  BY <1>1, <1>2, <1>3, WFMin
<1>5. PICK n \in S : X = 0 .. n BY DEF T
<1>6. ASSUME NEW m \in S, m < n PROVE FALSE
  <2>1. 0 .. m \in T BY DEF T
  <2>2. 0 .. m \subseteq 0 .. n /\ n \in 0 .. n /\ n \notin 0 .. m
    BY <1>6
  <2>3. <<0 .. m, X>> \in StrictSubsetOrdering(Nat)
    BY <1>5, <2>2 DEF StrictSubsetOrdering
  <2> QED BY <1>4, <2>1, <2>3
<1> QED BY <1>6

LEMMA Greatest ==
    ASSUME NEW N \in Nat, NEW S \in SUBSET (0 .. N), S # {}
    PROVE  \E n \in S : \A m \in S : m <= n
<1>1. PICK T : T = {m \in 0 .. N : N - m \in S} OBVIOUS
<1>2. T # {}
  <2>1. PICK n \in S : TRUE OBVIOUS
  <2>2. N - n \in T BY <1>1
  <2> QED BY <2>2
<1>3. T \in SUBSET Nat BY <1>1
<1>4. PICK k \in T : \A m \in T : k <= m BY <1>2, <1>3, Smallest
<1>5. \A m \in S : N - m \in T BY <1>1
<1>6. N - k \in S BY <1>1, <1>4
<1>7. \A m \in S : m <= N - k BY <1>1, <1>4, <1>5
<1> QED BY <1>6, <1>7

(* Where a row first has a key. *)
LEMMA FirstField ==
    ASSUME NEW d, IsDocument(d), NEW m \in nodes(d), NEW k \in Range(d.keys[m])
    PROVE  /\ FirstAt(d, m, k) \in DOMAIN d.keys[m]
           /\ d.keys[m][FirstAt(d, m, k)] = k
           /\ \A q \in DOMAIN d.keys[m] :
                 d.keys[m][q] = k /\ (\A r \in 1 .. q - 1 : d.keys[m][r] # k)
                   => q = FirstAt(d, m, k)
<1>1. PICK l \in Nat : DOMAIN d.keys[m] = 1 .. l
  <2>1. d.keys[m] \in Seq(Key) BY DEF IsDocument
  <2> QED BY <2>1
<1>2. PICK s : s = d.keys[m] OBVIOUS
<1>3. PICK K : K = {p \in 1 .. l : s[p] = k} OBVIOUS
<1>4. K # {} /\ K \in SUBSET Nat BY <1>1, <1>2, <1>3 DEF Range
<1>6. PICK p \in K : \A q \in K : p <= q BY <1>4, Smallest
<1>7. /\ p \in DOMAIN s /\ s[p] = k
      /\ \A q \in 1 .. p - 1 : s[q] # k
  BY <1>1, <1>2, <1>3, <1>6
<1>8. \A q \in DOMAIN s : s[q] = k /\ (\A r \in 1 .. q - 1 : s[r] # k) => q = p
  BY <1>1, <1>2, <1>3, <1>6
<1>9. FirstAt(d, m, k) = CHOOSE q \in DOMAIN s : s[q] = k /\ \A r \in 1 .. q - 1 : s[r] # k
  BY <1>2 DEF FirstAt
<1>10. FirstAt(d, m, k) = p BY <1>7, <1>8, <1>9
<1> QED BY <1>2, <1>7, <1>8, <1>10

(* No two columns have the same name. *)
LEMMA ColumnsDiffer ==
    ASSUME NEW d, IsDocument(d), NEW n \in nodes(d)
    PROVE  \A b, c \in DOMAIN columns(d, n) : columns(d, n)[b] = columns(d, n)[c] => b = c
<1>1. PICK K : K = KeyPlaces(d, n) OBVIOUS
<1>2. IsFiniteSet(K) /\ K \subseteq Nat \X Nat BY <1>1, PlacesOfKeys
<1>3. PICK k : k = [p \in K |-> key_at(d, n, p)] OBVIOUS
<1>4. PICK F : F = {p \in K : \A q \in K : Before(q, p) => k[q] # k[p]} OBVIOUS
<1>5. IsFiniteSet(F) /\ F \subseteq Nat \X Nat BY <1>2, <1>4, FS_Subset
<1>6. PICK N \in Nat : N = Cardinality(F) BY <1>5, FS_CardinalityType
<1>7. PICK rank : rank = [q \in F |-> Cardinality({r \in F : Before(r, q)})] OBVIOUS
<1>8. /\ \A p \in F : rank[p] \in 0 .. N - 1
      /\ \A p, q \in F : rank[p] = rank[q] => p = q
  BY <1>5, <1>6, <1>7, RanksDiffer
<1>9. \A r \in 0 .. N - 1 : \E p \in F : rank[p] = r
  <2>1. PICK T : T = 0 .. N - 1 OBVIOUS
  <2>2. IsFiniteSet(T) /\ Cardinality(T) = N
    <3>1. IsFiniteSet(T) BY <2>1, FS_Interval
    <3>2. Cardinality(0 .. N - 1) = N
      BY <1>6, FS_Interval
    <3> QED BY <2>1, <3>1, <3>2
  <2>3. rank \in Injection(F, T)
    <3>1. rank \in [F -> T] BY <1>7, <1>8, <2>1
    <3> QED BY <1>8, <3>1 DEF Injection, IsInjective
  <2>4. rank \in Surjection(F, T) BY <1>5, <1>6, <2>2, <2>3, FS_Injection
  <2> QED BY <2>1, <2>4 DEF Surjection
<1>10. columns(d, n) = [b \in 1 .. N |->
                          key_at(d, n, CHOOSE q \in F : Cardinality({r \in F : Before(r, q)}) = b - 1)]
  <2>1. F = {q \in KeyPlaces(d, n) : \A r \in KeyPlaces(d, n) :
                Before(r, q) => key_at(d, n, r) # key_at(d, n, q)}
    BY <1>1, <1>3, <1>4
  <2> QED BY <1>6, <2>1 DEF columns
<1>11. ASSUME NEW b \in 1 .. N
       PROVE  \E p \in F : rank[p] = b - 1 /\ columns(d, n)[b] = k[p]
  <2>1. PICK p \in F : rank[p] = b - 1 BY <1>9
  <2>2. (CHOOSE q \in F : Cardinality({r \in F : Before(r, q)}) = b - 1) = p
    BY <1>7, <1>8, <2>1
  <2>3. columns(d, n)[b] = key_at(d, n, p) BY <1>10, <2>2
  <2>4. p \in K BY <1>4
  <2> QED BY <1>3, <2>1, <2>3, <2>4
<1>12. \A p, q \in F : k[p] = k[q] => p = q BY <1>2, <1>4, <1>5, PlacesAreOrdered
<1>13. DOMAIN columns(d, n) = 1 .. N BY <1>10
<1>14. ASSUME NEW b \in 1 .. N, NEW c \in 1 .. N, columns(d, n)[b] = columns(d, n)[c]
       PROVE  b = c
  <2>1. PICK p \in F : rank[p] = b - 1 /\ columns(d, n)[b] = k[p] BY <1>11
  <2>2. PICK q \in F : rank[q] = c - 1 /\ columns(d, n)[c] = k[q] BY <1>11
  <2>3. p = q BY <1>12, <1>14, <2>1, <2>2
  <2> QED BY <2>1, <2>2, <2>3
<1> QED BY <1>13, <1>14

(* The level that an array gets, test by test. *)
LEMMA LevelFacts ==
    ASSUME NEW d, NEW n, NEW o \in Option
    PROVE  LET level == Level(d, o, n) IN
           /\ level \in SimplifyTo
           /\ level = "data_frame" <=> o.simplify_to = "data_frame" /\ IsTable(d, n)
           /\ level = "matrix" <=> /\ o.simplify_to \in {"data_frame", "matrix"}
                                   /\ level # "data_frame" /\ IsMatrix(d, o, n)
           /\ level = "vector" <=> /\ o.simplify_to # "list"
                                   /\ level \notin {"data_frame", "matrix"}
                                   /\ vectorizable(o, kinds_in(d, d.items[n]))
<1>1. /\ Levels[1] = "data_frame" /\ Levels[2] = "matrix"
      /\ Levels[3] = "vector" /\ Levels[4] = "list"
  BY DEF Levels
<1> HIDE DEF Levels
<1>2. PICK from : from = CHOOSE l \in 1 .. 4 : Levels[l] = o.simplify_to OBVIOUS
<1>3. from \in 1 .. 4 /\ Levels[from] = o.simplify_to
  <2>1. o.simplify_to \in SimplifyTo BY DEF Option
  <2>2. \E l \in 1 .. 4 : Levels[l] = o.simplify_to BY <1>1, <2>1 DEF SimplifyTo
  <2> QED BY <1>2, <2>2
<1>4. PICK Met : Met = {l \in 1 .. 4 : Meets(d, o, n, Levels[l])} OBVIOUS
<1>5. /\ 1 \in Met <=> IsTable(d, n)
      /\ 2 \in Met <=> IsMatrix(d, o, n)
      /\ 3 \in Met <=> vectorizable(o, kinds_in(d, d.items[n]))
      /\ 4 \in Met
  <2>1. \A l \in 1 .. 4 : l \in Met <=> Meets(d, o, n, Levels[l]) BY <1>4
  <2>2. /\ Meets(d, o, n, "data_frame") <=> IsTable(d, n)
        /\ Meets(d, o, n, "matrix") <=> IsMatrix(d, o, n)
        /\ Meets(d, o, n, "vector") <=> vectorizable(o, kinds_in(d, d.items[n]))
        /\ Meets(d, o, n, "list")
    BY DEF Meets
  <2> QED BY <1>1, <2>1, <2>2
<1> DEFINE Is(l) == l \in Met /\ \A k \in from .. l - 1 : k \notin Met
<1>6. \E l \in from .. 4 : Is(l)
  <2>1. CASE from = 1 BY <1>5, <2>1
  <2>2. CASE from = 2 BY <1>5, <2>2
  <2>3. CASE from = 3 BY <1>5, <2>3
  <2>4. CASE from = 4 BY <1>5, <2>4
  <2> QED BY <1>3, <2>1, <2>2, <2>3, <2>4
<1>7. PICK l : l = CHOOSE m \in from .. 4 : Is(m) OBVIOUS
<1>8. l \in from .. 4 /\ Is(l) BY <1>6, <1>7
<1>9. Level(d, o, n) = Levels[l]
  <2>1. \A m \in from .. 4 : Is(m) <=> /\ Meets(d, o, n, Levels[m])
                                       /\ \A k \in from .. m - 1 : ~Meets(d, o, n, Levels[k])
    <3>1. ASSUME NEW m \in from .. 4
          PROVE  m \in 1 .. 4 /\ \A k \in from .. m - 1 : k \in 1 .. 4
      BY <1>3
    <3> QED BY <1>4, <3>1
  <2>2. l = CHOOSE m \in from .. 4 : /\ Meets(d, o, n, Levels[m])
                                     /\ \A k \in from .. m - 1 : ~Meets(d, o, n, Levels[k])
    BY <1>7, <2>1
  <2> QED BY <1>2, <2>2 DEF Level
<1>10. l \in 1 .. 4 /\ l >= from BY <1>3, <1>8
<1>11. \A k \in 1 .. 4 : k >= from /\ k < l => k \notin Met BY <1>3, <1>8, <1>10
<1>12. CASE from = 1
  <2>1. o.simplify_to = "data_frame" BY <1>1, <1>3, <1>12
  <2> QED BY <1>1, <1>5, <1>8, <1>9, <1>10, <1>11, <1>12, <2>1 DEF SimplifyTo
<1>13. CASE from = 2
  <2>1. o.simplify_to = "matrix" BY <1>1, <1>3, <1>13
  <2> QED BY <1>1, <1>5, <1>8, <1>9, <1>10, <1>11, <1>13, <2>1 DEF SimplifyTo
<1>14. CASE from = 3
  <2>1. o.simplify_to = "vector" BY <1>1, <1>3, <1>14
  <2> QED BY <1>1, <1>5, <1>8, <1>9, <1>10, <1>11, <1>14, <2>1 DEF SimplifyTo
<1>15. CASE from = 4
  <2>1. o.simplify_to = "list" BY <1>1, <1>3, <1>15
  <2> QED BY <1>1, <1>5, <1>8, <1>9, <1>10, <1>11, <1>15, <2>1 DEF SimplifyTo
<1> QED BY <1>3, <1>12, <1>13, <1>14, <1>15

(* A table has fields under the keys of its rows. *)
LEMMA TableFields ==
    ASSUME NEW d, IsDocument(d), NEW n \in nodes(d), IsTable(d, n),
           NEW i \in DOMAIN d.items[n]
    PROVE  LET m == d.items[n][i] IN
           /\ m \in nodes(d) /\ m > n
           /\ DOMAIN d.keys[m] = DOMAIN d.items[m]
           /\ DOMAIN d.items[m] = 1 .. Len(d.items[m]) /\ Len(d.items[m]) \in Nat
           /\ \A p \in DOMAIN d.items[m] : d.items[m][p] \in nodes(d) /\ d.items[m][p] > m
<1>1. PICK m : m = d.items[n][i] OBVIOUS
<1>2. m \in nodes(d) /\ m > n
  <2>1. d.items[n] \in Seq(nodes(d)) /\ \A k \in Range(d.items[n]) : k > n BY DEF IsDocument
  <2>2. m \in Range(d.items[n]) BY <1>1 DEF Range
  <2> QED BY <1>1, <2>1, <2>2
<1>3. d.kind[m] = "OBJECT" BY <1>1 DEF IsTable, Range
<1>4. /\ d.items[m] \in Seq(nodes(d)) /\ \A k \in Range(d.items[m]) : k > m
      /\ d.keys[m] \in Seq(Key) /\ Len(d.keys[m]) = Len(d.items[m])
  BY <1>2, <1>3 DEF IsDocument
<1>5. \A p \in DOMAIN d.items[m] : d.items[m][p] \in Range(d.items[m]) BY DEF Range
<1>6. DOMAIN d.items[m] = 1 .. Len(d.items[m]) /\ Len(d.items[m]) \in Nat
      /\ DOMAIN d.keys[m] = 1 .. Len(d.keys[m]) BY <1>4
<1> QED BY <1>1, <1>2, <1>4, <1>5, <1>6

(* The object of a node depends on those of the nodes below it alone. *)
LEMMA ObjectsBelow ==
    ASSUME NEW d, IsDocument(d), NEW o \in Option, NEW n \in nodes(d), NEW S, NEW T,
           \A m \in nodes(d) : m > n => S[m] = T[m]
    PROVE  Object(d, o, S, n) = Object(d, o, T, n)
<1>1. \A i \in DOMAIN d.items[n] : S[d.items[n][i]] = T[d.items[n][i]]
  <2>1. d.items[n] \in Seq(nodes(d)) /\ \A m \in Range(d.items[n]) : m > n BY DEF IsDocument
  <2> QED BY <2>1 DEF Range
<1>2. CASE d.kind[n] \notin {"ARRAY", "OBJECT"} \/ d.items[n] = <<>> \/ d.kind[n] = "OBJECT"
  BY <1>1, <1>2 DEF Object
<1>3. CASE d.kind[n] = "ARRAY" /\ d.items[n] # <<>>
  <2>1. CASE Level(d, o, n) # "data_frame"
    BY <1>1, <1>3, <2>1, LevelFacts DEF Object, SimplifyTo
  <2>2. CASE Level(d, o, n) = "data_frame"
    <3>1. IsTable(d, n) BY <2>2, LevelFacts
    <3>2. ASSUME NEW c \in DOMAIN columns(d, n), NEW i \in DOMAIN rows(d, n),
                 columns(d, n)[c] \in Range(d.keys[rows(d, n)[i]])
          PROVE  LET m == rows(d, n)[i]
                     v == d.items[m][FirstAt(d, m, columns(d, n)[c])]
                 IN  S[v] = T[v]
      <4>1. PICK m, k : m = d.items[n][i] /\ k = columns(d, n)[c] OBVIOUS
      <4>2. /\ m \in nodes(d) /\ m > n /\ DOMAIN d.keys[m] = DOMAIN d.items[m]
            /\ \A p \in DOMAIN d.items[m] : d.items[m][p] \in nodes(d) /\ d.items[m][p] > m
        <5>1. i \in DOMAIN d.items[n] BY DEF rows
        <5>2. /\ d.items[n][i] \in nodes(d) /\ d.items[n][i] > n
              /\ DOMAIN d.keys[d.items[n][i]] = DOMAIN d.items[d.items[n][i]]
              /\ \A p \in DOMAIN d.items[d.items[n][i]] :
                    /\ d.items[d.items[n][i]][p] \in nodes(d)
                    /\ d.items[d.items[n][i]][p] > d.items[n][i]
          BY <3>1, <5>1, TableFields
        <5> QED BY <4>1, <5>2
      <4>3. k \in Range(d.keys[m]) BY <3>2, <4>1 DEF rows
      <4>4. FirstAt(d, m, k) \in DOMAIN d.keys[m] BY <4>2, <4>3, FirstField
      <4>5. PICK v : v = d.items[m][FirstAt(d, m, k)] OBVIOUS
      <4>6. v \in nodes(d) /\ v > m BY <4>2, <4>4, <4>5
      <4>7. v > n BY <4>2, <4>6 DEF nodes, IsDocument
      <4> QED BY <4>1, <4>5, <4>6, <4>7 DEF rows
    <3> QED BY <1>3, <2>2, <3>2 DEF Object
  <2> QED BY <2>1, <2>2
<1> QED BY <1>2, <1>3 DEF IsDocument

(* Objects for the nodes from the last to the first. *)
LEMMA SimplifiedIs ==
    ASSUME NEW d, IsDocument(d), NEW o \in Option
    PROVE  Simplified(d, o) = [n \in nodes(d) |-> Object(d, o, Simplified(d, o), n)]
<1>1. PICK N \in Nat \ {0} : nodes(d) = 1 .. N BY DEF IsDocument, nodes
<1>0. ASSUME NEW n \in 1 .. N, NEW f, NEW g, \A m \in 1 .. N : m > n => f[m] = g[m]
      PROVE  Object(d, o, f, n) = Object(d, o, g, n)
  <2>1. n \in nodes(d) /\ \A m \in nodes(d) : m > n => f[m] = g[m] BY <1>0, <1>1
  <2> QED BY <2>1, ObjectsBelow
<1> DEFINE Solves(f, k) == /\ f = [n \in 1 .. N |-> f[n]]
                           /\ \A n \in 1 .. N : n >= k => f[n] = Object(d, o, f, n)
           K == {k \in 1 .. N + 1 : \E f : Solves(f, k)}
<1>2. N + 1 \in K
  <2>1. Solves([n \in 1 .. N |-> n], N + 1) OBVIOUS
  <2>2. \E f : Solves(f, N + 1) BY <2>1
  <2> HIDE DEF Solves
  <2> QED BY <2>2
<1>3. ASSUME NEW k \in K, k # 1 PROVE k - 1 \in K
  <2>1. PICK f : Solves(f, k) OBVIOUS
  <2>2. PICK x : x = Object(d, o, f, k - 1) OBVIOUS
  <2>3. PICK g : g = [n \in 1 .. N |-> IF n = k - 1 THEN x ELSE f[n]] OBVIOUS
  <2>4. ASSUME NEW n \in 1 .. N, n >= k - 1 PROVE g[n] = Object(d, o, g, n)
    <3>1. \A m \in 1 .. N : m > n => f[m] = g[m] BY <2>3, <2>4
    <3>2. Object(d, o, f, n) = Object(d, o, g, n) BY <1>0, <3>1
    <3>3. CASE n = k - 1 BY <2>2, <2>3, <3>2, <3>3
    <3>4. CASE n >= k BY <2>1, <2>3, <3>2, <3>4
    <3> QED BY <2>4, <3>3, <3>4
  <2>5. g = [n \in 1 .. N |-> g[n]] BY <2>3
  <2>6. Solves(g, k - 1) BY <2>4, <2>5
  <2>7. k - 1 \in 1 .. N + 1 BY <1>3
  <2> QED BY <2>6, <2>7
<1> HIDE DEF Solves
<1>4. 1 \in K
  <2>1. K \in SUBSET Nat /\ K # {} BY <1>2
  <2>2. PICK k \in K : \A m \in K : k <= m BY <2>1, Smallest
  <2>3. k = 1 BY <1>3, <2>2
  <2> QED BY <2>3
<1>5. PICK f : Solves(f, 1) BY <1>4
<1>6. f = [n \in nodes(d) |-> Object(d, o, f, n)] BY <1>1, <1>5 DEF Solves
<1> QED BY <1>6 DEF Simplified

-----------------------------------------------------------------------------
(***************************************************************************)
(* What the builders store in a vector or a matrix, and what the fill loop *)
(* of a data frame stores for the same values.                             *)
(***************************************************************************)

LEMMA FlagsOf ==
    ASSUME NEW io \in Int64Opt, NEW K \in SUBSET ElementKind
    PROVE  /\ DoctorOf(io, K) \in Doctor
           /\ DoctorOf(io, K).types = {element_type(k) : k \in K}
           /\ DoctorOf(io, K).flags = {lower_flag(io, k) : k \in K}
<1>1. \A k \in ElementKind : element_type(k) \in ElementType /\ lower_flag(io, k) \in rcpp_T
  BY DEF element_type, lower_flag, ElementKind, ElementType, rcpp_T
<1> QED BY <1>1 DEF DoctorOf, Doctor

(* Every policy ranks the types, but for nulls. *)
LEMMA TypeOutranks ==
    ASSUME NEW policy \in TypePolicy, NEW d \in Doctor, is_vectorizable(policy, d)
    PROVE  LET r == common_R_type(policy, d) IN
           /\ r \in {"chr", "u64", "dbl", "i64", "i32", "lgl", "null"}
           /\ r # "null" => r \in d.flags
           /\ r = "null" => d.flags \subseteq {"null"}
           /\ {"object", "array"} \cap d.flags = {}
<1>1. d.flags \subseteq {"chr", "u64", "dbl", "i64", "i32", "lgl", "null"}
  BY DEF is_vectorizable, Doctor, rcpp_T
<1>2. CASE policy = "anything_goes" BY <1>1, <1>2 DEF common_R_type
<1>3. CASE policy = "ints_as_dbls"
  BY <1>1, <1>3 DEF common_R_type, is_vectorizable, Only
<1>4. CASE policy = "strict"
  BY <1>1, <1>4 DEF common_R_type, is_vectorizable, Only
<1> QED BY <1>2, <1>3, <1>4 DEF TypePolicy

(* The vector type for an R type, and the element type its typed loop      *)
(* casts to.                                                               *)
StoredIn(io, r) ==
    CASE r \in {"chr", "u64"} -> "STRSXP"
      [] r = "dbl"            -> "REALSXP"
      [] r = "i64"            -> int64_storage(io)
      [] r = "i32"            -> "INTSXP"
      [] r = "lgl"            -> "LGLSXP"

CastTo(r) ==
    CASE r = "chr"            -> "STRING"
      [] r = "dbl"            -> "DOUBLE"
      [] r \in {"i64", "i32"} -> "INT64"
      [] r = "lgl"            -> "BOOL"
      [] r = "u64"            -> "UINT64"

(* Dispatching on the type of each value does what a column does. *)
LEMMA MixedIsCell ==
    ASSUME NEW io \in Int64Opt, NEW v,
           NEW r \in {"chr", "u64", "dbl", "i64", "i32", "lgl"}
    PROVE  get_scalar_dispatch(StoredIn(io, r), v) = cell(col_kind(io, r), v)
BY DEF StoredIn, cell, col_kind, int64_storage, Int64Opt

(* So does casting, where all values but nulls have one type. *)
LEMMA TypedIsCell ==
    ASSUME NEW io \in Int64Opt, NEW policy \in TypePolicy, NEW K \in SUBSET ElementKind,
           NEW d, d = DoctorOf(io, K), is_vectorizable(policy, d), is_homogeneous(d),
           NEW v, v.kind \in K
    PROVE  LET r == common_R_type(policy, d) IN
           /\ r # "null"
           /\ \A t \in d.types : t # "NULL_VALUE" => t = CastTo(r)
           /\ get_scalar(CastTo(r), StoredIn(io, r), has_null(d), v) = cell(col_kind(io, r), v)
<1>1. PICK r : r = common_R_type(policy, d) OBVIOUS
<1>2. /\ d \in Doctor /\ d.types = {element_type(k) : k \in K}
      /\ d.flags = {lower_flag(io, k) : k \in K}
  BY FlagsOf
<1>3. /\ r \in {"chr", "u64", "dbl", "i64", "i32", "lgl", "null"}
      /\ r # "null" => r \in d.flags
      /\ r = "null" => d.flags \subseteq {"null"}
  BY <1>1, <1>2, TypeOutranks
<1>4. PICK t \in ElementType \ {"NULL_VALUE"} : d.types \ {"NULL_VALUE"} = {t}
  BY DEF is_homogeneous
<1>5. PICK k \in K : element_type(k) = t BY <1>2, <1>4
<1>6. k # "NULL_VALUE" /\ lower_flag(io, k) # "null" /\ lower_flag(io, k) \in d.flags
  BY <1>2, <1>4, <1>5 DEF element_type, lower_flag, ElementKind
<1>7. r # "null" BY <1>3, <1>6
<1>8. PICK h \in K : lower_flag(io, h) = r BY <1>2, <1>3, <1>7
<1>9. element_type(h) = CastTo(r) /\ h # "NULL_VALUE"
  BY <1>3, <1>7, <1>8 DEF element_type, lower_flag, CastTo, ElementKind
<1>10. element_type(h) = t BY <1>2, <1>4, <1>9 DEF element_type, ElementKind
<1>11. CASE v.kind = "NULL_VALUE"
  <2>1. lower_flag(io, v.kind) = "null" BY <1>11 DEF lower_flag
  <2>2. has_null(d) BY <1>2, <2>1 DEF has_null
  <2>3. cell(col_kind(io, r), v) = NA
    BY <1>3, <1>7, <1>11 DEF cell, col_kind, get_scalar_dispatch, dispatches, Scalars,
       Integers64, Int64Opt
  <2> QED BY <1>1, <1>4, <1>7, <1>9, <1>10, <1>11, <2>2, <2>3 DEF get_scalar
<1>12. CASE v.kind # "NULL_VALUE"
  <2>1. element_type(v.kind) \in d.types BY <1>2
  <2>2. element_type(v.kind) # "NULL_VALUE" BY <1>12 DEF element_type
  <2>3. element_type(v.kind) = CastTo(r) BY <1>4, <1>9, <1>10, <2>1, <2>2
  <2>4. get_scalar(CastTo(r), StoredIn(io, r), has_null(d), v) = stored(StoredIn(io, r), v)
    BY <1>12, <2>3 DEF get_scalar
  <2>5. v.kind \in dispatches(StoredIn(io, r))
    BY <1>3, <1>7, <2>3 DEF dispatches, StoredIn, CastTo, element_type, Scalars, Integers64,
       int64_storage, Int64Opt, ElementKind
  <2>6. get_scalar_dispatch(StoredIn(io, r), v) = cell(col_kind(io, r), v)
    BY <1>3, <1>7, MixedIsCell
  <2>7. stored(StoredIn(io, r), v) = cell(col_kind(io, r), v)
    BY <2>5, <2>6 DEF get_scalar_dispatch
  <2> QED BY <1>1, <1>4, <1>7, <1>9, <1>10, <2>4, <2>7
<1> QED BY <1>11, <1>12

(* The elements that the modules of vectors and of matrices store. *)
LEMMA AsVectorIs ==
    ASSUME NEW d, NEW v
    PROVE  LET r == common_R_type(opts.type_policy, d)
               io == opts.int64_opt
           IN  /\ AsVector(d)!TypedElement(v) =
                    IF r = "null" THEN NA
                    ELSE get_scalar(CastTo(r), StoredIn(io, r), has_null(d), v)
               /\ AsVector(d)!MixedElement(v) =
                    IF r = "null" THEN NA ELSE get_scalar_dispatch(StoredIn(io, r), v)
<1>1. /\ AsVector(d)!NA = NA
      /\ \A p : AsVector(d)!common_R_type(p, d) = common_R_type(p, d)
      /\ AsVector(d)!has_null(d) = has_null(d)
      /\ \A io : AsVector(d)!int64_storage(io) = int64_storage(io)
  BY DEF AsVector!NA, NA, AsVector!NoValue, NoValue, AsVector!common_R_type, common_R_type,
     AsVector!Only, Only, AsVector!has_null, has_null, AsVector!int64_storage, int64_storage
<1>2. /\ \A t : AsVector(d)!stored(t, v) = stored(t, v)
      /\ \A t : AsVector(d)!dispatches(t) = dispatches(t)
      /\ AsVector(d)!element_type(v.kind) = element_type(v.kind)
  BY <1>1 DEF AsVector!stored, stored, AsVector!dispatches, dispatches, AsVector!Scalars, Scalars,
     AsVector!Integers64, Integers64, AsVector!element_type, element_type
<1>3. /\ \A t : AsVector(d)!get_scalar_dispatch(t, v) = get_scalar_dispatch(t, v)
      /\ \A in, t, nulls : AsVector(d)!get_scalar(in, t, nulls, v) = get_scalar(in, t, nulls, v)
  BY <1>1, <1>2 DEF AsVector!get_scalar_dispatch, get_scalar_dispatch, AsVector!get_scalar,
     get_scalar, AsVector!Thrown, Thrown, AsVector!NoValue, NoValue
<1>4. /\ \A r : AsVector(d)!vector_type(r) = StoredIn(opts.int64_opt, r)
      /\ \A r : AsVector(d)!typed_in(r) = CastTo(r)
  BY <1>1 DEF AsVector!vector_type, StoredIn, AsVector!typed_in, CastTo
<1>5. AsVector(d)!R_Type = common_R_type(opts.type_policy, d)
  BY <1>1 DEF AsVector!R_Type
<1> QED BY <1>1, <1>3, <1>4, <1>5 DEF AsVector!TypedElement, AsVector!MixedElement

LEMMA AsMatrixIs ==
    ASSUME NEW d, NEW v, NEW loop
    PROVE  LET r == common_R_type(opts.type_policy, d)
               io == opts.int64_opt
               t == CHOOSE u \in d.types : u # "NULL_VALUE"
               typed == CASE t \in {"STRING", "UINT64"} -> "STRSXP"
                          [] t = "DOUBLE"               -> "REALSXP"
                          [] t = "INT64"                ->
                               IF r = "i32" THEN "INTSXP" ELSE int64_storage(io)
                          [] t = "BOOL"                 -> "LGLSXP"
           IN  AsMatrix(d, loop)!Element(v) =
                 IF loop = "typed" THEN get_scalar(t, typed, has_null(d), v)
                 ELSE IF r = "null" THEN NA ELSE get_scalar_dispatch(StoredIn(io, r), v)
<1>1. /\ AsMatrix(d, loop)!NA = NA
      /\ \A p : AsMatrix(d, loop)!common_R_type(p, d) = common_R_type(p, d)
      /\ AsMatrix(d, loop)!has_null(d) = has_null(d)
      /\ \A io : AsMatrix(d, loop)!int64_storage(io) = int64_storage(io)
  BY DEF AsMatrix!NA, NA, AsMatrix!NoValue, NoValue, AsMatrix!common_R_type, common_R_type,
     AsMatrix!Only, Only, AsMatrix!has_null, has_null, AsMatrix!int64_storage, int64_storage
<1>2. /\ \A t : AsMatrix(d, loop)!stored(t, v) = stored(t, v)
      /\ \A t : AsMatrix(d, loop)!dispatches(t) = dispatches(t)
      /\ AsMatrix(d, loop)!element_type(v.kind) = element_type(v.kind)
  BY <1>1 DEF AsMatrix!stored, stored, AsMatrix!dispatches, dispatches, AsMatrix!Scalars, Scalars,
     AsMatrix!Integers64, Integers64, AsMatrix!element_type, element_type
<1>3. /\ \A t : AsMatrix(d, loop)!get_scalar_dispatch(t, v) = get_scalar_dispatch(t, v)
      /\ \A in, t, nulls : AsMatrix(d, loop)!get_scalar(in, t, nulls, v) = get_scalar(in, t, nulls, v)
  BY <1>1, <1>2 DEF AsMatrix!get_scalar_dispatch, get_scalar_dispatch, AsMatrix!get_scalar,
     get_scalar, AsMatrix!Thrown, Thrown, AsMatrix!NoValue, NoValue
<1>4. AsMatrix(d, loop)!R_Type = common_R_type(opts.type_policy, d)
  BY <1>1 DEF AsMatrix!R_Type
<1>5. AsMatrix(d, loop)!common_element_type = CHOOSE u \in d.types : u # "NULL_VALUE"
  BY DEF AsMatrix!common_element_type
<1>6. /\ AsMatrix(d, loop)!mixed_vector =
           CASE AsMatrix(d, loop)!R_Type \in {"chr", "u64"} -> "STRSXP"
             [] AsMatrix(d, loop)!R_Type = "dbl"            -> "REALSXP"
             [] AsMatrix(d, loop)!R_Type = "i64"            -> int64_storage(opts.int64_opt)
             [] AsMatrix(d, loop)!R_Type = "i32"            -> "INTSXP"
             [] AsMatrix(d, loop)!R_Type = "lgl"            -> "LGLSXP"
  BY <1>1 DEF AsMatrix!mixed_vector
<1>7. AsMatrix(d, loop)!mixed_vector = StoredIn(opts.int64_opt, common_R_type(opts.type_policy, d))
  BY <1>4, <1>6 DEF StoredIn
<1> QED BY <1>1, <1>3, <1>4, <1>5, <1>7 DEF AsMatrix!Element, AsMatrix!typed_vector

(* What is stored in a vector or a matrix is what a column would hold. *)
LEMMA StoredAsCells ==
    ASSUME NEW s, NEW d, d = doc, NEW o, o = opts, o \in Option, IsDocument(d),
           \A k \in DOMAIN s : s[k] \in nodes(d), vectorizable(o, kinds_in(d, s))
    PROVE  VectorOf(s) = Together(d, o, s) /\ MatrixOf(s) = Together(d, o, s)
<1>1. PICK K : K = kinds_in(d, s) OBVIOUS
<1>2. K \in SUBSET ElementKind
  <2>1. \A n \in nodes(d) : d.kind[n] \in ElementKind BY DEF IsDocument, nodes
  <2> QED BY <1>1, <2>1 DEF kinds_in, Range
<1>3. PICK t, io : t = DoctorOf(io, K) /\ io = o.int64_opt OBVIOUS
<1>4. PICK policy, r : policy = o.type_policy /\ r = common_R_type(policy, t) OBVIOUS
<1>5. io \in Int64Opt /\ policy \in TypePolicy BY <1>3, <1>4 DEF Option
<1>6. is_vectorizable(policy, t) BY <1>1, <1>3, <1>4 DEF vectorizable
<1>7. doctor(s) = t BY <1>1, <1>3 DEF doctor
<1>8. common_kind(o, kinds_in(d, s)) = col_kind(io, r)
  BY <1>1, <1>3, <1>4 DEF common_kind
<1>9. t \in Doctor BY <1>2, <1>3, <1>5, FlagsOf
<1>10. r \in {"chr", "u64", "dbl", "i64", "i32", "lgl", "null"}
  BY <1>4, <1>5, <1>6, <1>9, TypeOutranks
<1>11. ASSUME NEW k \in DOMAIN s
       PROVE  LET v == value(d, s[k]) IN
              /\ ~is_homogeneous(t) => /\ AsVector(t)!MixedElement(v) = cell(col_kind(io, r), v)
                                       /\ AsMatrix(t, "mixed")!Element(v) = cell(col_kind(io, r), v)
              /\ is_homogeneous(t) => /\ AsVector(t)!TypedElement(v) = cell(col_kind(io, r), v)
                                      /\ AsMatrix(t, "typed")!Element(v) = cell(col_kind(io, r), v)
  <2>1. PICK v : v = value(d, s[k]) OBVIOUS
  <2>2. v.kind \in K BY <1>1, <2>1 DEF value, kinds_in, Range
  <2>3. CASE ~is_homogeneous(t)
    <3>1. r # "null" => get_scalar_dispatch(StoredIn(io, r), v) = cell(col_kind(io, r), v)
      BY <1>5, <1>10, MixedIsCell
    <3>2. r = "null" => cell(col_kind(io, r), v) = NA BY DEF col_kind, cell
    <3> QED BY <1>3, <1>4, <2>1, <2>3, <3>1, <3>2, AsVectorIs, AsMatrixIs
  <2>4. CASE is_homogeneous(t)
    <3>1. /\ r # "null"
          /\ \A u \in t.types : u # "NULL_VALUE" => u = CastTo(r)
          /\ get_scalar(CastTo(r), StoredIn(io, r), has_null(t), v) = cell(col_kind(io, r), v)
      BY <1>2, <1>3, <1>4, <1>5, <1>6, <2>2, <2>4, TypedIsCell
    <3>2. PICK u : u = CHOOSE w \in t.types : w # "NULL_VALUE" OBVIOUS
    <3>3. u = CastTo(r)
      <4>1. \E w \in t.types : w # "NULL_VALUE" BY <2>4 DEF is_homogeneous
      <4> QED BY <3>1, <3>2, <4>1
    <3>4. StoredIn(io, r) = CASE u \in {"STRING", "UINT64"} -> "STRSXP"
                              [] u = "DOUBLE"               -> "REALSXP"
                              [] u = "INT64"                ->
                                   IF r = "i32" THEN "INTSXP" ELSE int64_storage(io)
                              [] u = "BOOL"                 -> "LGLSXP"
      BY <1>10, <3>1, <3>3 DEF CastTo, StoredIn
    <3>5. AsVector(t)!TypedElement(v) = cell(col_kind(io, r), v)
      BY <1>3, <1>4, <3>1, AsVectorIs
    <3>6. AsMatrix(t, "typed")!Element(v) = cell(col_kind(io, r), v)
      BY <1>3, <1>4, <3>1, <3>2, <3>3, <3>4, AsMatrixIs
    <3> QED BY <2>1, <2>4, <3>5, <3>6
  <2> QED BY <2>3, <2>4
<1>12. VectorOf(s) = Together(d, o, s) BY <1>7, <1>8, <1>11 DEF VectorOf, Together
<1>13. MatrixOf(s) = Together(d, o, s)
  BY <1>7, <1>8, <1>11 DEF MatrixOf, Together, loop_for
<1> QED BY <1>12, <1>13

-----------------------------------------------------------------------------
(***************************************************************************)
(* matrix::diagnose() stops at the first row that rules a matrix out.      *)
(***************************************************************************)

LEMMA FewerAreVectorizable ==
    ASSUME NEW policy \in TypePolicy, NEW d \in Doctor, NEW e \in Doctor,
           e.flags \subseteq d.flags, is_vectorizable(policy, d),
           policy = "anything_goes" \/ ~(e.flags \subseteq {"null"})
    PROVE  is_vectorizable(policy, e)
<1>1. d.flags \subseteq {"chr", "u64", "dbl", "i64", "i32", "lgl", "null"}
  BY DEF Doctor, rcpp_T, is_vectorizable
<1>2. CASE policy = "anything_goes" BY <1>2 DEF is_vectorizable
<1>3. CASE policy # "anything_goes"
  <2>1. PICK f \in e.flags : f # "null" BY <1>3
  <2>2. f \in {"chr", "u64", "dbl", "i64", "i32", "lgl"} /\ f \in d.flags BY <1>1, <2>1
  <2>3. CASE policy = "strict"
    BY <1>1, <2>1, <2>2, <2>3 DEF is_vectorizable, Only
  <2>4. CASE policy = "ints_as_dbls"
    BY <1>1, <2>1, <2>2, <2>4 DEF is_vectorizable, Only
  <2> QED BY <1>3, <2>3, <2>4 DEF TypePolicy
<1> QED BY <1>2, <1>3

(* Fewer kinds are vectorizable too, unless they are nulls alone.          *)
LEMMA FewerKinds ==
    ASSUME NEW o \in Option, NEW L \in SUBSET ElementKind, NEW K \in SUBSET L
    PROVE  /\ vectorizable(o, L) /\ ~(K \subseteq {"NULL_VALUE"}) => vectorizable(o, K)
           /\ K \subseteq {"NULL_VALUE"} => (vectorizable(o, K) <=> o.type_policy = "anything_goes")
           /\ vectorizable(o, L) /\ o.type_policy = "anything_goes" => vectorizable(o, K)
<1>1. PICK policy, io : policy = o.type_policy /\ io = o.int64_opt OBVIOUS
<1>2. policy \in TypePolicy /\ io \in Int64Opt BY <1>1 DEF Option
<1>3. PICK d, e : d = DoctorOf(io, L) /\ e = DoctorOf(io, K) OBVIOUS
<1>4. /\ d \in Doctor /\ d.flags = {lower_flag(io, k) : k \in L} BY <1>2, <1>3, FlagsOf
<1>5. /\ e \in Doctor /\ e.flags = {lower_flag(io, k) : k \in K} BY <1>2, <1>3, FlagsOf
<1>6. e.flags \subseteq d.flags BY <1>4, <1>5
<1>7. e.flags \subseteq {"null"} <=> K \subseteq {"NULL_VALUE"}
  <2>1. \A k \in ElementKind : lower_flag(io, k) = "null" <=> k = "NULL_VALUE"
    BY DEF lower_flag, ElementKind
  <2> QED BY <1>5, <2>1
<1>8. vectorizable(o, L) <=> is_vectorizable(policy, d) BY <1>1, <1>3 DEF vectorizable
<1>9. vectorizable(o, K) <=> is_vectorizable(policy, e) BY <1>1, <1>3 DEF vectorizable
<1>10. K \subseteq {"NULL_VALUE"} => (is_vectorizable(policy, e) <=> policy = "anything_goes")
  BY <1>7 DEF is_vectorizable
<1>11. is_vectorizable(policy, d) /\ (policy = "anything_goes" \/ ~(e.flags \subseteq {"null"}))
         => is_vectorizable(policy, e)
  BY <1>2, <1>4, <1>5, <1>6, FewerAreVectorizable
<1> QED BY <1>1, <1>7, <1>8, <1>9, <1>10, <1>11

LEMMA DiagnoseIs ==
    ASSUME IsDocument(doc), opts \in Option, node \in nodes(doc), here # <<>>
    PROVE  diagnose <=> IsMatrix(doc, opts, node)
<1>1. PICK d, n, o, s : d = doc /\ n = node /\ o = opts /\ s = d.items[n] OBVIOUS
<1>2. IsDocument(d) /\ n \in nodes(d) /\ o \in Option /\ s \in Seq(nodes(d)) /\ s # <<>> /\ s = here
  BY <1>1 DEF IsDocument, here
<1>3. PICK N \in Nat \ {0} : DOMAIN s = 1 .. N BY <1>2
<1>4. Range(s) = {s[r] : r \in 1 .. N} BY <1>3 DEF Range
<1>5. PICK K : K = [r \in 1 .. N |-> kinds_in(d, d.items[s[r]])] OBVIOUS
<1>6. \A r \in 1 .. N : K[r] \in SUBSET ElementKind
  <2>1. \A m \in nodes(d) : d.kind[m] \in ElementKind BY <1>2 DEF IsDocument, nodes
  <2>2. ASSUME NEW r \in 1 .. N PROVE d.items[s[r]] \in Seq(nodes(d))
    BY <1>2, <1>3 DEF IsDocument
  <2> QED BY <1>5, <2>1, <2>2 DEF kinds_in, Range
<1>7. PICK U : U = [r \in 1 .. N |-> UNION {K[q] : q \in 1 .. r}] OBVIOUS
<1>8. \A r \in 1 .. N : U[r] \in SUBSET ElementKind /\ K[1] \subseteq U[r] /\ U[r] \subseteq U[N]
  BY <1>6, <1>7
<1>9. U[1] = K[1]
  <2>1. 1 \in 1 .. N BY <1>3
  <2>2. U[1] = UNION {K[q] : q \in 1 .. 1} BY <1>7, <2>1
  <2>3. \A q \in 1 .. 1 : q = 1 OBVIOUS
  <2> QED BY <2>2, <2>3
<1>10. diagnose <=> \A r \in 1 .. N : /\ d.kind[s[r]] = "ARRAY"
                                      /\ Len(d.items[s[r]]) = Len(d.items[s[1]])
                                      /\ vectorizable(o, U[r])
  <2>1. ASSUME NEW r \in 1 .. N
        PROVE  UNION {kinds_in(doc, doc.items[here[q]]) : q \in 1 .. r} = U[r]
    <3>1. \A q \in 1 .. r : kinds_in(d, d.items[s[q]]) = K[q] BY <1>3, <1>5
    <3>2. U[r] = UNION {K[q] : q \in 1 .. r} BY <1>7
    <3>3. UNION {kinds_in(d, d.items[s[q]]) : q \in 1 .. r} = U[r] BY <3>1, <3>2
    <3> QED BY <1>1, <1>2, <3>3
  <2>2. DOMAIN here = 1 .. N /\ here = s /\ doc = d /\ opts = o BY <1>1, <1>2, <1>3
  <2>3. diagnose <=> \A r \in DOMAIN here :
          /\ doc.kind[here[r]] = "ARRAY"
          /\ Len(doc.items[here[r]]) = Len(doc.items[here[1]])
          /\ vectorizable(opts, UNION {kinds_in(doc, doc.items[here[q]]) : q \in 1 .. r})
    BY DEF diagnose
  <2>4. diagnose <=> \A r \in 1 .. N :
          /\ doc.kind[here[r]] = "ARRAY"
          /\ Len(doc.items[here[r]]) = Len(doc.items[here[1]])
          /\ vectorizable(opts, U[r])
    BY <2>1, <2>2, <2>3
  <2> QED BY <2>2, <2>4
<1>11. IsMatrix(doc, opts, node) <=>
         /\ \A r \in 1 .. N : /\ d.kind[s[r]] = "ARRAY"
                              /\ Len(d.items[s[r]]) = Len(d.items[s[1]])
         /\ vectorizable(o, U[N])
         /\ K[1] \subseteq {"NULL_VALUE"} /\ U[N] # K[1] => o.type_policy = "anything_goes"
  <2>1. UNION {kinds_in(d, d.items[m]) : m \in Range(s)} = U[N]
    <3>1. {kinds_in(d, d.items[m]) : m \in Range(s)} = {K[q] : q \in 1 .. N} BY <1>4, <1>5
    <3>2. N \in 1 .. N BY <1>3
    <3>3. U[N] = UNION {K[q] : q \in 1 .. N} BY <1>7, <3>2
    <3> QED BY <3>1, <3>3
  <2>2. kinds_in(d, d.items[s[1]]) = K[1] BY <1>3, <1>5
  <2>3. IsMatrix(d, o, n) <=>
          /\ \A m \in Range(s) : d.kind[m] = "ARRAY"
          /\ \A m \in Range(s) : Len(d.items[m]) = Len(d.items[s[1]])
          /\ vectorizable(o, U[N])
          /\ K[1] \subseteq {"NULL_VALUE"} /\ U[N] # K[1] => o.type_policy = "anything_goes"
    BY <1>1, <2>1, <2>2 DEF IsMatrix
  <2>4. /\ (\A m \in Range(s) : d.kind[m] = "ARRAY") <=> \A r \in 1 .. N : d.kind[s[r]] = "ARRAY"
        /\ (\A m \in Range(s) : Len(d.items[m]) = Len(d.items[s[1]]))
             <=> \A r \in 1 .. N : Len(d.items[s[r]]) = Len(d.items[s[1]])
    BY <1>4
  <2>5. IsMatrix(doc, opts, node) <=> IsMatrix(d, o, n) BY <1>1
  <2> QED BY <2>3, <2>4, <2>5
<1>12. ASSUME diagnose PROVE IsMatrix(doc, opts, node)
  <2>1. vectorizable(o, U[N]) /\ vectorizable(o, K[1])
    BY <1>3, <1>9, <1>10, <1>12
  <2>2. K[1] \subseteq {"NULL_VALUE"} => o.type_policy = "anything_goes"
    <3>1. K[1] \in SUBSET K[1] /\ K[1] \in SUBSET ElementKind BY <1>3, <1>6
    <3> QED BY <1>2, <2>1, <3>1, FewerKinds
  <2> QED BY <1>10, <1>11, <1>12, <2>1, <2>2
<1>13. ASSUME IsMatrix(doc, opts, node) PROVE diagnose
  <2>1. ASSUME NEW r \in 1 .. N PROVE vectorizable(o, U[r])
    <3>1. U[N] \in SUBSET ElementKind /\ U[r] \in SUBSET U[N] /\ vectorizable(o, U[N])
      BY <1>3, <1>8, <1>11, <1>13
    <3>2. CASE K[1] \subseteq {"NULL_VALUE"} /\ U[N] = K[1]
      <4>1. U[r] = U[N] BY <1>8, <3>2
      <4> QED BY <3>1, <4>1
    <3>3. CASE o.type_policy = "anything_goes" BY <1>2, <3>1, <3>3, FewerKinds
    <3>4. CASE ~(K[1] \subseteq {"NULL_VALUE"})
      <4>1. ~(U[r] \subseteq {"NULL_VALUE"}) BY <1>8, <3>4
      <4> QED BY <1>2, <3>1, <4>1, FewerKinds
    <3> QED BY <1>11, <1>13, <3>2, <3>3, <3>4
  <2> QED BY <1>10, <1>11, <1>13, <2>1
<1> QED BY <1>12, <1>13

(* A matrix has all elements of its rows, each row's in its own row.       *)
LEMMA MatrixPlaces ==
    ASSUME NEW n \in Nat \ {0}, NEW m \in Nat
    PROVE  /\ \A k \in 1 .. n * m : /\ ((k - 1) % n) + 1 \in 1 .. n
                                    /\ ((k - 1) \div n) + 1 \in 1 .. m
           /\ \A i \in 1 .. n, j \in 1 .. m :
                \E k \in 1 .. n * m : ((k - 1) % n) + 1 = i /\ ((k - 1) \div n) + 1 = j
<1>1. ASSUME NEW a \in Nat, NEW b \in Nat, NEW x \in 0 .. n - 1, NEW y \in 0 .. n - 1,
             a * n + x = b * n + y
      PROVE  a = b /\ x = y
  BY <1>1
<1>2. ASSUME NEW a \in Nat, NEW x \in 0 .. n - 1
      PROVE  a * n + x \in Nat /\ (a < m <=> a * n + x < n * m)
  OBVIOUS
<1>3. ASSUME NEW l \in Nat
      PROVE  l = (l \div n) * n + (l % n) /\ l % n \in 0 .. n - 1 /\ l \div n \in Nat
  OBVIOUS
<1>4. ASSUME NEW k \in 1 .. n * m
      PROVE  ((k - 1) % n) + 1 \in 1 .. n /\ ((k - 1) \div n) + 1 \in 1 .. m
  <2>1. PICK l \in Nat : l = k - 1 /\ l < n * m OBVIOUS
  <2>2. l \div n < m BY <1>2, <1>3, <2>1
  <2> QED BY <1>3, <2>1, <2>2
<1>5. ASSUME NEW i \in 1 .. n, NEW j \in 1 .. m
      PROVE  \E k \in 1 .. n * m : ((k - 1) % n) + 1 = i /\ ((k - 1) \div n) + 1 = j
  <2>1. PICK l : l = (j - 1) * n + (i - 1) OBVIOUS
  <2>2. l \in Nat /\ l < n * m BY <1>2, <2>1
  <2>3. l \div n = j - 1 /\ l % n = i - 1
    <3>1. PICK a, x : a = l \div n /\ x = l % n OBVIOUS
    <3>2. PICK b, y : b = j - 1 /\ y = i - 1 OBVIOUS
    <3>3. a \in Nat /\ x \in 0 .. n - 1 /\ a * n + x = l BY <1>3, <2>2, <3>1
    <3>4. b \in Nat /\ y \in 0 .. n - 1 /\ b * n + y = l BY <2>1, <3>2
    <3>5. a = b /\ x = y BY <1>1, <3>3, <3>4
    <3> QED BY <3>1, <3>2, <3>5
  <2>4. n * m \in Nat OBVIOUS
  <2>5. l + 1 \in 1 .. n * m /\ (l + 1) - 1 = l BY <2>2, <2>4
  <2> QED BY <2>3, <2>5
<1> QED BY <1>4, <1>5

LEMMA MatrixElements ==
    ASSUME NEW d, IsDocument(d), NEW o, NEW n \in nodes(d), d.items[n] # <<>>, IsMatrix(d, o, n)
    PROVE  /\ \A k \in DOMAIN ByColumn(d, n) : ByColumn(d, n)[k] \in nodes(d)
           /\ vectorizable(o, kinds_in(d, ByColumn(d, n)))
<1>1. PICK s : s = d.items[n] OBVIOUS
<1>2. s \in Seq(nodes(d)) /\ s # <<>> BY <1>1 DEF IsDocument
<1>3. PICK R \in Nat \ {0} : R = Len(s) /\ DOMAIN s = 1 .. R BY <1>2
<1>4. \A r \in 1 .. R : s[r] \in nodes(d) /\ d.items[s[r]] \in Seq(nodes(d))
  BY <1>2, <1>3 DEF IsDocument
<1>5. PICK C \in Nat : C = Len(d.items[s[1]]) BY <1>3, <1>4
<1>6. \A r \in 1 .. R : DOMAIN d.items[s[r]] = 1 .. C
  <2>1. \A r \in 1 .. R : s[r] \in Range(s) BY <1>3 DEF Range
  <2>2. \A r \in 1 .. R : Len(d.items[s[r]]) = C BY <1>1, <1>5, <2>1 DEF IsMatrix
  <2> QED BY <1>4, <2>2
<1>7. PICK B : B = ByColumn(d, n) OBVIOUS
<1>8. B = [k \in 1 .. R * C |-> d.items[s[((k - 1) % R) + 1]][((k - 1) \div R) + 1]]
  BY <1>1, <1>3, <1>5, <1>7 DEF ByColumn, rows
<1>9. ASSUME NEW k \in 1 .. R * C
      PROVE  \E r \in 1 .. R : \E c \in 1 .. C : B[k] = d.items[s[r]][c]
  <2>1. ((k - 1) % R) + 1 \in 1 .. R /\ ((k - 1) \div R) + 1 \in 1 .. C BY MatrixPlaces
  <2> QED BY <1>8, <2>1
<1>10. ASSUME NEW r \in 1 .. R, NEW c \in 1 .. C
       PROVE  \E k \in 1 .. R * C : B[k] = d.items[s[r]][c]
  <2>1. \A i \in 1 .. R, j \in 1 .. C :
           \E k \in 1 .. R * C : ((k - 1) % R) + 1 = i /\ ((k - 1) \div R) + 1 = j
    BY MatrixPlaces
  <2>2. PICK k \in 1 .. R * C : ((k - 1) % R) + 1 = r /\ ((k - 1) \div R) + 1 = c
    BY <2>1
  <2> QED BY <1>8, <2>2
<1>11. DOMAIN B = 1 .. R * C BY <1>8
<1>12. \A k \in DOMAIN B : B[k] \in nodes(d)
  <2>1. \A r \in 1 .. R : \A c \in 1 .. C : d.items[s[r]][c] \in nodes(d)
    BY <1>4, <1>6
  <2> QED BY <1>9, <1>11, <2>1
<1>13. kinds_in(d, B) = UNION {kinds_in(d, d.items[m]) : m \in Range(s)}
  <2>1. \A x : x \in kinds_in(d, B) <=> \E k \in 1 .. R * C : x = d.kind[B[k]]
    BY <1>11 DEF kinds_in, Range
  <2>2. ASSUME NEW x
        PROVE  x \in UNION {kinds_in(d, d.items[m]) : m \in Range(s)}
                 <=> \E r \in 1 .. R : \E c \in 1 .. C : x = d.kind[d.items[s[r]][c]]
    <3>1. x \in UNION {kinds_in(d, d.items[m]) : m \in Range(s)}
            <=> \E r \in 1 .. R : x \in kinds_in(d, d.items[s[r]])
      BY <1>3 DEF Range
    <3>2. \A r \in 1 .. R : x \in kinds_in(d, d.items[s[r]])
                              <=> \E c \in 1 .. C : x = d.kind[d.items[s[r]][c]]
      BY <1>6 DEF kinds_in, Range
    <3> QED BY <3>1, <3>2
  <2>3. ASSUME NEW x
        PROVE  (\E k \in 1 .. R * C : x = d.kind[B[k]])
                 <=> \E r \in 1 .. R : \E c \in 1 .. C : x = d.kind[d.items[s[r]][c]]
    <3>1. ASSUME NEW k \in 1 .. R * C, x = d.kind[B[k]]
          PROVE  \E r \in 1 .. R : \E c \in 1 .. C : x = d.kind[d.items[s[r]][c]]
      <4>1. PICK r \in 1 .. R : \E c \in 1 .. C : B[k] = d.items[s[r]][c] BY <1>9
      <4> QED BY <3>1, <4>1
    <3>2. ASSUME NEW r \in 1 .. R, NEW c \in 1 .. C, x = d.kind[d.items[s[r]][c]]
          PROVE  \E k \in 1 .. R * C : x = d.kind[B[k]]
      <4>1. PICK k \in 1 .. R * C : B[k] = d.items[s[r]][c] BY <1>10
      <4> QED BY <3>2, <4>1
    <3> QED BY <3>1, <3>2
  <2> QED BY <2>1, <2>2, <2>3
<1>14. vectorizable(o, UNION {kinds_in(d, d.items[m]) : m \in Range(s)})
  BY <1>1 DEF IsMatrix
<1> QED BY <1>7, <1>12, <1>13, <1>14

-----------------------------------------------------------------------------
(***************************************************************************)
(* The invariant: what every object is, while calls are at work on some of *)
(* them.  Done is what an object is in the end, Content what it is at each *)
(* place in the call for its node.                                         *)
(***************************************************************************)

(* The object of node n has an address of its own. *)
HasOwn(d, n) ==
    /\ d.kind[n] # "NULL_VALUE"
    /\ d.kind[n] \in {"ARRAY", "OBJECT"} => d.items[n] # <<>>

AddressOf(d, n) == IF HasOwn(d, n) THEN <<n, "out", 0>> ELSE CallersObject(d.kind[n])

is_list(d, o, n, c) == column_kind(d, o, n, columns(d, n)[c]) = "list"

(* A cell of a column before it is written, and once it is. *)
Missing(d, o, n, c) == IF is_list(d, o, n, c) THEN <<n, "na", c>> ELSE NA

HasCell(d, n, c, i) == columns(d, n)[c] \in Range(d.keys[d.items[n][i]])

ColumnCell(d, o, n, c, i) ==
    LET m == d.items[n][i]
        v == d.items[m][FirstAt(d, m, columns(d, n)[c])]
    IN  IF ~HasCell(d, n, c, i) THEN Missing(d, o, n, c)
        ELSE IF is_list(d, o, n, c) THEN AddressOf(d, v)
        ELSE cell(column_kind(d, o, n, columns(d, n)[c]), value(d, v))

ColumnClass(d, o, n, c) == IF is_list(d, o, n, c) THEN "list" ELSE "vector"

(* The object that a node becomes, on the heap. *)
Items(d, n)  == [i \in DOMAIN d.items[n] |-> AddressOf(d, d.items[n][i])]
OwnNames(n)  == <<n, "names", 0>>

DoneOut(d, o, n) ==
    IF d.kind[n] \notin {"ARRAY", "OBJECT"}
    THEN RObject("vector", Together(d, o, <<n>>), <<>>)
    ELSE IF d.kind[n] = "OBJECT" THEN RObject("list", Items(d, n), OwnNames(n))
    ELSE CASE Level(d, o, n) = "data_frame" ->
                RObject("data.frame", [c \in DOMAIN columns(d, n) |-> <<n, "vec", c>>],
                        OwnNames(n))
           [] Level(d, o, n) = "matrix" ->
                RObject("matrix", Together(d, o, ByColumn(d, n)),
                        <<Len(rows(d, n)), Len(d.items[rows(d, n)[1]])>>)
           [] Level(d, o, n) = "vector" ->
                RObject("vector", Together(d, o, d.items[n]), <<>>)
           [] Level(d, o, n) = "list" -> RObject("list", Items(d, n), <<>>)

DoneNames(d, n) ==
    RObject("vector", IF d.kind[n] = "OBJECT" THEN d.keys[n] ELSE columns(d, n), <<>>)

DoneColumn(d, o, n, c) ==
    RObject(ColumnClass(d, o, n, c),
            [i \in DOMAIN d.items[n] |-> ColumnCell(d, o, n, c, i)], <<>>)

Done(d, o, a) ==
    CASE a[2] = "out"   -> DoneOut(d, o, a[1])
      [] a[2] = "names" -> DoneNames(d, a[1])
      [] a[2] = "vec"   -> DoneColumn(d, o, a[1], a[3])
      [] a[2] = "na"    -> MissingCell
      [] OTHER          -> RObject(a[2], <<>>, <<>>)

(* The objects that a call works on, and what they are at each place in it. *)
Holds(d, f, a) ==
    CASE a[2] = "out"   -> HasOut(f)
      [] a[2] = "names" -> \/ f.pc \in {"key", "columns", "missing", "rows"}
                           \/ f.pc = "items" /\ d.kind[f.node] = "OBJECT"
      [] a[2] = "vec"   -> HasColumn(f, a[3])
      [] OTHER          -> FALSE

PartOut(d, o, f) ==
    CASE f.pc = "fill" -> DoneOut(d, o, f.node)
      [] f.pc \in InFrame ->
           RObject("data.frame",
             [c \in DOMAIN columns(d, f.node) |->
                IF HasColumn(f, c) THEN <<f.node, "vec", c>> ELSE None], <<>>)
      [] OTHER ->
           RObject("list",
             [k \in DOMAIN d.items[f.node] |->
                IF k < f.i \/ (k = f.i /\ f.pc = "key")
                THEN AddressOf(d, d.items[f.node][k]) ELSE None], <<>>)

PartNames(d, f) ==
    IF f.pc \in InFrame THEN DoneNames(d, f.node)
    ELSE RObject("vector",
           [k \in DOMAIN d.items[f.node] |-> IF k < f.i THEN d.keys[f.node][k] ELSE None], <<>>)

(* The fill loop has been at a cell of column c of row i. *)
Filled(d, f, c, i) ==
    LET m == d.items[f.node][i] IN
    \E p \in DOMAIN d.keys[m] : /\ d.keys[m][p] = columns(d, f.node)[c]
                                /\ i < f.i \/ (i = f.i /\ p < f.j)

PartColumn(d, o, f, c) ==
    RObject(ColumnClass(d, o, f.node, c),
      [i \in DOMAIN d.items[f.node] |->
         IF f.pc = "rows" /\ Filled(d, f, c, i) THEN ColumnCell(d, o, f.node, c, i)
         ELSE IF f.pc = "missing" /\ c = f.j THEN None ELSE Missing(d, o, f.node, c)],
      <<>>)

Content(d, o, f, a) ==
    IF ~Holds(d, f, a) THEN Done(d, o, a)
    ELSE CASE a[2] = "out"   -> PartOut(d, o, f)
           [] a[2] = "names" -> PartNames(d, f)
           [] a[2] = "vec"   -> PartColumn(d, o, f, a[3])

(* What an address may be that of. *)
Sensible(d, a) ==
    \/ a \in Callers
    \/ /\ a \in nodes(d) \X {"out", "names", "vec", "na"} \X Nat
       /\ a[2] \in {"out", "names"} => a[3] = 0
       /\ a[2] = "out" => HasOwn(d, a[1])
       /\ a[2] = "vec" => IsTable(d, a[1])

(* What is known of the node at each place in a call. *)
LevelOK(d, o, f) ==
    LET n == f.node
        level == Level(d, o, n)
    IN  /\ f.pc \notin {"items", "key", "rows"} => f.i = 1
        /\ f.pc = "scalar" => d.kind[n] \notin {"ARRAY", "OBJECT", "NULL_VALUE"}
        /\ f.pc \notin {"element", "scalar", "fill"} =>
             d.kind[n] \in {"ARRAY", "OBJECT"} /\ d.items[n] # <<>>
        /\ f.pc \in {"object", "names", "key"} => d.kind[n] = "OBJECT"
        /\ f.pc = "data_frame" => o.simplify_to = "data_frame"
        /\ f.pc = "matrix" => o.simplify_to \in {"data_frame", "matrix"} /\ level # "data_frame"
        /\ f.pc = "vector" => o.simplify_to # "list" /\ level \notin {"data_frame", "matrix"}
        /\ f.pc = "list" => level = "list"
        /\ f.pc = "build_matrix" => level = "matrix"
        /\ f.pc = "build_vector" => level = "vector"
        /\ f.pc \in InFrame \cup {"frame"} => level = "data_frame"
        /\ f.pc = "missing" => is_list(d, o, n, f.j)
        /\ f.pc \in InFrame \cup {"frame", "data_frame", "matrix", "vector", "list",
                                  "build_matrix", "build_vector"} => d.kind[n] = "ARRAY"
        /\ f.pc = "items" /\ d.kind[n] = "ARRAY" => level = "list"
        /\ f.pc = "fill" => /\ HasOwn(d, n) /\ d.kind[n] # "OBJECT"
                            /\ d.kind[n] = "ARRAY" => level \in {"matrix", "vector"}

(* The node that a call waits for. *)
Awaited(d, f) == IF f.pc = "items" THEN d.items[f.node][f.i]
                 ELSE d.items[d.items[f.node][f.i]][f.j]

Contents ==
    \A a \in DOMAIN heap :
       /\ Sensible(doc, a)
       /\ ~IsOnStack(a[1]) => heap[a] = Done(doc, option, a)
       /\ \A k \in DOMAIN stack :
            stack[k].node = a[1] => heap[a] = Content(doc, option, stack[k], a)

Nesting ==
    /\ stack # <<>> => stack[1].node = 1
    /\ \A k \in DOMAIN stack : LevelOK(doc, option, stack[k])
    /\ \A k \in 1 .. Len(stack) - 1 : stack[k + 1].node = Awaited(doc, stack[k])
    /\ ret # None => ret = AddressOf(doc, IF stack = <<>> THEN 1 ELSE Awaited(doc, top))

ResultInv ==
    /\ status \in {"running", "returned"} => Contents /\ Nesting
    /\ status = "returned" => ret # None

(* A scalar is stored as it would be alone in a column. *)
LEMMA ScalarIs ==
    ASSUME IsDocument(doc), opts \in Option, node \in nodes(doc),
           doc.kind[node] \notin {"ARRAY", "OBJECT", "NULL_VALUE"}
    PROVE  <<ScalarOf(value(doc, node))>> = Together(doc, opts, <<node>>)
<1>1. PICK d, n, o, k : d = doc /\ n = node /\ o = opts /\ k = d.kind[n] OBVIOUS
<1>2. k \in ElementKind \ {"ARRAY", "OBJECT", "NULL_VALUE"}
  BY <1>1 DEF IsDocument, nodes
<1>3. PICK policy, io : policy = o.type_policy /\ io = o.int64_opt OBVIOUS
<1>4. policy \in TypePolicy /\ io \in Int64Opt BY <1>1, <1>3 DEF Option
<1>5. PICK v : v = value(d, n) OBVIOUS
<1>6. v.kind = k BY <1>1, <1>5 DEF value
<1>7. kinds_in(d, <<n>>) = {k} BY <1>1 DEF kinds_in, Range
<1>8. PICK f : f = lower_flag(io, k) OBVIOUS
<1>9. DoctorOf(io, {k}).flags = {f} BY <1>8 DEF DoctorOf
<1>10. f \in {"chr", "u64", "dbl", "i64", "i32", "lgl"}
  BY <1>2, <1>8 DEF lower_flag, ElementKind
<1>11. common_R_type(policy, DoctorOf(io, {k})) = f
  BY <1>4, <1>9, <1>10 DEF common_R_type, Only, TypePolicy
<1>12. common_kind(o, {k}) = col_kind(io, f) BY <1>3, <1>11 DEF common_kind
<1>13. ScalarOf(v) = cell(col_kind(io, f), v)
  <2>1. opts.int64_opt = io BY <1>1, <1>3
  <2>2. CASE k \in {"STRING", "UINT64", "DOUBLE", "BOOL"}
    BY <1>6, <1>8, <2>2 DEF ScalarOf, lower_flag, col_kind, cell, get_scalar_dispatch,
       dispatches, Scalars, Integers64
  <2>3. CASE k \in Integers64 /\ (k # "INT32" \/ io = "Always")
    <3>1. f = "i64" BY <1>8, <2>3 DEF lower_flag, Integers64
    <3>2. ScalarOf(v) = stored(int64_storage(io), v)
      BY <1>6, <2>1, <2>3 DEF ScalarOf, Integers64
    <3>3. CASE io = "Double"
      BY <1>6, <2>3, <3>1, <3>2, <3>3 DEF int64_storage, col_kind, cell,
         get_scalar_dispatch, dispatches, Scalars
    <3>4. CASE io = "String"
      BY <1>6, <2>3, <3>1, <3>2, <3>4 DEF int64_storage, col_kind, cell,
         get_scalar_dispatch, dispatches, Scalars
    <3>5. CASE io \in {"Integer64", "Always"}
      BY <1>6, <2>3, <3>1, <3>2, <3>5 DEF int64_storage, col_kind, cell,
         get_scalar_dispatch, dispatches, Scalars
    <3> QED BY <1>4, <3>3, <3>4, <3>5 DEF Int64Opt
  <2>4. CASE k = "INT32" /\ io # "Always"
    BY <1>6, <1>8, <2>1, <2>4 DEF ScalarOf, lower_flag, col_kind, cell, get_scalar_dispatch,
       dispatches, Scalars, Integers64
  <2> QED BY <1>2, <2>2, <2>3, <2>4 DEF ElementKind, Integers64
<1>14. Together(d, o, <<n>>) = <<cell(col_kind(io, f), v)>>
  BY <1>5, <1>7, <1>12 DEF Together
<1> QED BY <1>1, <1>5, <1>13, <1>14

(* What is built in one piece is what the node becomes. *)
LEMMA AtomicIs ==
    ASSUME IsDocument(doc), opts \in Option, node \in nodes(doc), opts = option,
           top.pc \in {"scalar", "build_vector", "build_matrix"}, LevelOK(doc, option, top)
    PROVE  Atomic = DoneOut(doc, option, node)
<1>1. PICK d, n, o, f : d = doc /\ n = node /\ o = opts /\ f = top OBVIOUS
<1>2. o \in Option /\ n \in nodes(d) /\ IsDocument(d) /\ f.node = n BY <1>1 DEF node
<1>3. LevelOK(d, o, f) BY <1>1
<1>4. CASE f.pc = "scalar"
  <2>1. d.kind[n] \notin {"ARRAY", "OBJECT", "NULL_VALUE"}
    BY <1>2, <1>3, <1>4 DEF LevelOK
  <2>2. <<ScalarOf(value(doc, node))>> = Together(d, o, <<n>>) BY <1>1, <1>2, <2>1, ScalarIs
  <2>3. DoneOut(d, o, n) = RObject("vector", Together(d, o, <<n>>), <<>>)
    BY <2>1 DEF DoneOut
  <2>4. Atomic = RObject("vector", <<ScalarOf(value(doc, node))>>, <<>>)
    BY <1>1, <1>4 DEF Atomic
  <2> QED BY <1>1, <2>2, <2>3, <2>4
<1>5. CASE f.pc = "build_vector"
  <2>1. d.kind[n] = "ARRAY" /\ Level(d, o, n) = "vector" /\ d.items[n] # <<>>
    BY <1>2, <1>3, <1>5 DEF LevelOK
  <2>2. vectorizable(o, kinds_in(d, d.items[n])) BY <1>2, <2>1, LevelFacts
  <2>3. PICK s : s = d.items[n] OBVIOUS
  <2>4. \A k \in DOMAIN s : s[k] \in nodes(d)
    <3>1. s \in Seq(nodes(d)) BY <1>2, <2>3 DEF IsDocument
    <3> QED BY <3>1
  <2>5. VectorOf(s) = Together(d, o, s) BY <1>1, <1>2, <2>2, <2>3, <2>4, StoredAsCells
  <2>6. DoneOut(d, o, n) = RObject("vector", Together(d, o, s), <<>>)
    BY <2>1, <2>3 DEF DoneOut
  <2>7. Atomic = RObject("vector", VectorOf(here), <<>>) BY <1>1, <1>5 DEF Atomic
  <2>8. here = s BY <1>1, <2>3 DEF here
  <2> QED BY <1>1, <2>5, <2>6, <2>7, <2>8
<1>6. CASE f.pc = "build_matrix"
  <2>1. d.kind[n] = "ARRAY" /\ Level(d, o, n) = "matrix" /\ d.items[n] # <<>>
    BY <1>2, <1>3, <1>6 DEF LevelOK
  <2>2. IsMatrix(d, o, n) BY <1>2, <2>1, LevelFacts
  <2>3. PICK s : s = ByColumn(d, n) OBVIOUS
  <2>4. /\ \A k \in DOMAIN s : s[k] \in nodes(d)
        /\ vectorizable(o, kinds_in(d, s))
    BY <1>2, <2>1, <2>2, <2>3, MatrixElements
  <2>5. MatrixOf(s) = Together(d, o, s) BY <1>1, <1>2, <2>4, StoredAsCells
  <2>6. DoneOut(d, o, n) = RObject("matrix", Together(d, o, s),
                             <<Len(d.items[n]), Len(d.items[d.items[n][1]])>>)
    BY <2>1, <2>3 DEF DoneOut, rows
  <2>7. Atomic = RObject("matrix", MatrixOf(ByColumn(doc, node)),
                   <<Len(here), Len(doc.items[here[1]])>>)
    BY <1>1, <1>6 DEF Atomic
  <2>8. here = d.items[n] BY <1>1 DEF here
  <2> QED BY <1>1, <2>3, <2>5, <2>6, <2>7, <2>8
<1> QED BY <1>1, <1>4, <1>5, <1>6

-----------------------------------------------------------------------------
(***************************************************************************)
(* Steps: the running call goes on, calls another one, or returns.         *)
(***************************************************************************)

(* What is said of nodes and frames changes with the document only. *)
LEMMA SameArgs ==
    ASSUME UNCHANGED args
    PROVE  /\ \A a : Sensible(doc, a)' <=> Sensible(doc, a)
           /\ \A a : Done(doc, option, a)' = Done(doc, option, a)
           /\ \A f, a : Content(doc, option, f, a)' = Content(doc, option, f, a)
           /\ \A f : LevelOK(doc, option, f)' <=> LevelOK(doc, option, f)
           /\ \A f : Awaited(doc, f)' = Awaited(doc, f)
           /\ \A n : AddressOf(doc, n)' = AddressOf(doc, n)
<1>1. doc' = doc /\ option' = option BY DEF args
<1> QED BY <1>1

(* The objects of the running call are as its frame says. *)
LEMMA TopContents ==
    ASSUME CallsInv, Running, Contents, Nesting
    PROVE  /\ \A a \in DOMAIN heap : /\ Sensible(doc, a)
                                     /\ a[1] = node => heap[a] = Content(doc, option, top, a)
           /\ LevelOK(doc, option, top)
           /\ ret # None => ret = AddressOf(doc, Awaited(doc, top))
<1>1. stack # <<>> BY DEF CallsInv, Running
<1>2. Len(stack) \in DOMAIN stack /\ top = stack[Len(stack)] BY <1>1, TopFacts
<1> QED BY <1>1, <1>2 DEF Contents, Nesting, node

(* The running call goes on, and its objects are as the new frame says. *)
LEMMA TopGoesOn ==
    ASSUME CallsInv, Running, Contents, Nesting, UNCHANGED <<args, status>>,
           NEW S, NEW C, Changes(S, C), NEW g, SetTop(g), g.node = node,
           LevelOK(doc, option, g), ret' # None => ret' = AddressOf(doc, Awaited(doc, g)),
           NEW h, h = heap',
           \A a \in C : Sensible(doc, a) /\ h[a] = Content(doc, option, g, a),
           \A a \in DOMAIN heap \ C : a[1] = node /\ Sensible(doc, a) =>
               Content(doc, option, g, a) = Content(doc, option, top, a)
    PROVE  Contents' /\ Nesting'
<1>1. stack # <<>> /\ UNCHANGED <<doc, option>> BY DEF CallsInv, Running, args
<1>2. /\ Len(stack) \in Nat \ {0} /\ DOMAIN stack = 1 .. Len(stack)
      /\ top = stack[Len(stack)]
      /\ \A k \in DOMAIN stack : stack[k].node \in Nat /\ (k < Len(stack) => stack[k].node < node)
  BY <1>1, TopFacts
<1>3. PICK s \in Seq(Frames) : s = stack BY DEF CallsInv
<1>4. PICK N \in Nat \ {0} : N = Len(s) /\ DOMAIN s = 1 .. N BY <1>2, <1>3
<1>5. PICK t : t = stack' OBVIOUS
<1>6. /\ DOMAIN t = 1 .. N /\ Len(t) = N /\ t[N] = g /\ t # <<>>
      /\ \A k \in 1 .. N - 1 : t[k] = s[k]
      /\ s[N].node = node
      /\ \A k \in 1 .. N : t[k].node = s[k].node
  <2>1. t = [s EXCEPT ![N] = g] BY <1>3, <1>4, <1>5 DEF SetTop
  <2>2. s[N].node = node BY <1>2, <1>3, <1>4 DEF node
  <2> QED BY <1>4, <2>1, <2>2
<1>7. \A k \in 1 .. N - 1 : s[k].node # node BY <1>2, <1>3, <1>4
<1>8. \A a \in DOMAIN h : \/ a \in C /\ a[1] = node
                          \/ a \notin C /\ a \in DOMAIN heap /\ h[a] = heap[a]
  BY DEF Changes
<1>9. ASSUME NEW a \in DOMAIN h
      PROVE  /\ Sensible(doc, a)
             /\ ~(\E k \in 1 .. N : t[k].node = a[1]) => h[a] = Done(doc, option, a)
             /\ \A k \in 1 .. N : t[k].node = a[1] => h[a] = Content(doc, option, t[k], a)
  <2>1. CASE a \in C /\ a[1] = node
    <3>1. t[N].node = a[1] /\ N \in 1 .. N BY <1>4, <1>6, <2>1
    <3>2. \A k \in 1 .. N : t[k].node = a[1] => k = N BY <1>4, <1>6, <1>7, <2>1
    <3> QED BY <1>6, <2>1, <3>1, <3>2
  <2>2. CASE a \notin C /\ a \in DOMAIN heap /\ h[a] = heap[a]
    <3>1. Sensible(doc, a) BY <2>2 DEF Contents
    <3>2. ~(\E k \in 1 .. N : s[k].node = a[1]) => heap[a] = Done(doc, option, a)
      BY <1>3, <1>4, <2>2 DEF Contents, IsOnStack
    <3>3. \A k \in 1 .. N : s[k].node = a[1] => heap[a] = Content(doc, option, s[k], a)
      BY <1>3, <1>4, <2>2 DEF Contents
    <3>4. a[1] = node => h[a] = Content(doc, option, g, a)
      <4>1. s[N] = top BY <1>2, <1>3, <1>4
      <4> QED BY <1>4, <1>6, <2>2, <3>1, <3>3, <4>1
    <3>5. \A k \in 1 .. N : t[k].node = a[1] => h[a] = Content(doc, option, t[k], a)
      <4> TAKE k \in 1 .. N
      <4>1. CASE k = N BY <1>6, <3>4, <4>1
      <4>2. CASE k \in 1 .. N - 1 BY <1>6, <2>2, <3>3, <4>2
      <4> QED BY <1>4, <4>1, <4>2
    <3> QED BY <1>6, <2>2, <3>1, <3>2, <3>5
  <2> QED BY <1>8, <2>1, <2>2
<1>10. Contents'
  <2>1. \A a \in DOMAIN heap' :
          /\ Sensible(doc, a)
          /\ ~(\E k \in DOMAIN stack' : stack'[k].node = a[1]) => heap'[a] = Done(doc, option, a)
          /\ \A k \in DOMAIN stack' :
                stack'[k].node = a[1] => heap'[a] = Content(doc, option, stack'[k], a)
    BY <1>5, <1>6, <1>9
  <2> QED BY <1>1, <2>1 DEF Contents, IsOnStack
<1>11. Nesting'
  <2>1. t[1].node = 1 BY <1>1, <1>3, <1>4, <1>6 DEF Nesting
  <2>2. \A k \in 1 .. N : LevelOK(doc, option, t[k])
    <3> TAKE k \in 1 .. N
    <3>1. CASE k = N BY <1>6, <3>1
    <3>2. CASE k \in 1 .. N - 1
      <4>1. LevelOK(doc, option, s[k]) BY <1>3, <1>4, <3>2 DEF Nesting
      <4> QED BY <1>6, <3>2, <4>1
    <3> QED BY <1>4, <3>1, <3>2
  <2>3. \A k \in 1 .. N - 1 : t[k + 1].node = Awaited(doc, t[k])
    <3>1. \A k \in 1 .. N - 1 : s[k + 1].node = Awaited(doc, s[k])
      BY <1>3, <1>4 DEF Nesting
    <3> QED BY <1>4, <1>6, <3>1
  <2>4. ret' # None => ret' = AddressOf(doc, Awaited(doc, t[N])) BY <1>6
  <2> QED BY <1>1, <1>5, <1>6, <2>1, <2>2, <2>3, <2>4 DEF Nesting, top
<1> QED BY <1>10, <1>11

(* A call begins, for a node that no running call is for. *)
LEMMA CallBegins ==
    ASSUME CallsInv, Running, Contents, Nesting, UNCHANGED <<args, status, heap>>,
           NEW n, Call(n), n = Awaited(doc, top), n \in nodes(doc), n > node, ret' = None
    PROVE  Contents' /\ Nesting'
<1>1. stack # <<>> /\ UNCHANGED <<doc, option>> /\ n \in Nat
  BY DocFacts DEF CallsInv, Running, args
<1>2. /\ Len(stack) \in Nat \ {0} /\ DOMAIN stack = 1 .. Len(stack)
      /\ top = stack[Len(stack)] /\ node \in Nat
      /\ \A k \in DOMAIN stack : stack[k].node \in Nat /\ (k < Len(stack) => stack[k].node < node)
  BY <1>1, TopFacts
<1>3. PICK s \in Seq(Frames) : s = stack BY DEF CallsInv
<1>4. PICK N \in Nat \ {0} : N = Len(s) /\ DOMAIN s = 1 .. N BY <1>2, <1>3
<1>5. PICK t, g : t = stack' /\ g = Frame(n, opts) OBVIOUS
<1>6. /\ DOMAIN t = 1 .. N + 1 /\ Len(t) = N + 1 /\ t[N + 1] = g /\ t # <<>>
      /\ \A k \in 1 .. N : t[k] = s[k]
      /\ s[N] = top
      /\ g.node = n /\ g.pc = "element" /\ g.i = 1
  <2>1. t = Append(s, g) BY <1>3, <1>4, <1>5 DEF Call
  <2>2. g.node = n /\ g.pc = "element" /\ g.i = 1 BY <1>5 DEF Frame
  <2>3. s[N] = top BY <1>2, <1>3, <1>4
  <2>4. DOMAIN t = 1 .. N + 1 /\ Len(t) = N + 1 /\ t[N + 1] = g
        /\ \A k \in 1 .. N : t[k] = s[k]
    BY <1>4, <2>1
  <2> QED BY <1>4, <2>2, <2>3, <2>4
<1>7. \A k \in 1 .. N : s[k].node # n
  <2>1. s[N].node = node BY <1>6 DEF node
  <2>2. \A k \in 1 .. N : s[k].node \in Nat /\ s[k].node <= node
    BY <1>2, <1>3, <1>4, <2>1
  <2> QED BY <1>1, <1>2, <2>2
<1>8. \A a : Content(doc, option, g, a) = Done(doc, option, a)
  <2>1. \A a : ~Holds(doc, g, a) BY <1>6 DEF Holds, HasOut, HasColumn, InFrame
  <2> QED BY <2>1 DEF Content
<1>9. ASSUME NEW a \in DOMAIN heap
      PROVE  /\ Sensible(doc, a)
             /\ ~(\E k \in 1 .. N + 1 : t[k].node = a[1]) => heap[a] = Done(doc, option, a)
             /\ \A k \in 1 .. N + 1 : t[k].node = a[1] => heap[a] = Content(doc, option, t[k], a)
  <2>1. Sensible(doc, a) BY DEF Contents
  <2>2. ~(\E k \in 1 .. N : s[k].node = a[1]) => heap[a] = Done(doc, option, a)
    BY <1>3, <1>4 DEF Contents, IsOnStack
  <2>3. \A k \in 1 .. N : s[k].node = a[1] => heap[a] = Content(doc, option, s[k], a)
    BY <1>3, <1>4 DEF Contents
  <2>4. ~(\E k \in 1 .. N + 1 : t[k].node = a[1]) => ~(\E k \in 1 .. N : s[k].node = a[1])
    BY <1>4, <1>6
  <2>5. \A k \in 1 .. N + 1 : t[k].node = a[1] => heap[a] = Content(doc, option, t[k], a)
    <3> TAKE k \in 1 .. N + 1
    <3>1. CASE k = N + 1
      <4>1. a[1] = n => heap[a] = Done(doc, option, a) BY <1>7, <2>2
      <4> QED BY <1>6, <1>8, <3>1, <4>1
    <3>2. CASE k \in 1 .. N BY <1>6, <2>3, <3>2
    <3> QED BY <1>4, <3>1, <3>2
  <2> QED BY <2>1, <2>2, <2>4, <2>5
<1>10. Contents'
  <2>1. \A a \in DOMAIN heap' :
          /\ Sensible(doc, a)
          /\ ~(\E k \in DOMAIN stack' : stack'[k].node = a[1]) => heap'[a] = Done(doc, option, a)
          /\ \A k \in DOMAIN stack' :
                stack'[k].node = a[1] => heap'[a] = Content(doc, option, stack'[k], a)
    BY <1>5, <1>6, <1>9
  <2> QED BY <1>1, <2>1 DEF Contents, IsOnStack
<1>11. Nesting'
  <2>1. t[1].node = 1 BY <1>1, <1>3, <1>4, <1>6 DEF Nesting
  <2>2. \A k \in 1 .. N + 1 : LevelOK(doc, option, t[k])
    <3> TAKE k \in 1 .. N + 1
    <3>1. CASE k = N + 1
      <4>1. LevelOK(doc, option, g) BY <1>6 DEF LevelOK, InFrame
      <4> QED BY <1>6, <3>1, <4>1
    <3>2. CASE k \in 1 .. N
      <4>1. LevelOK(doc, option, s[k]) BY <1>3, <1>4, <3>2 DEF Nesting
      <4> QED BY <1>6, <3>2, <4>1
    <3> QED BY <1>4, <3>1, <3>2
  <2>3. \A k \in 1 .. N : t[k + 1].node = Awaited(doc, t[k])
    <3>1. \A k \in 1 .. N - 1 : s[k + 1].node = Awaited(doc, s[k])
      BY <1>3, <1>4 DEF Nesting
    <3> TAKE k \in 1 .. N
    <3>2. CASE k = N BY <1>6, <3>2
    <3>3. CASE k \in 1 .. N - 1
      <4>1. k + 1 \in 1 .. N /\ k \in 1 .. N BY <1>4, <3>3
      <4> QED BY <1>6, <3>1, <3>3, <4>1
    <3> QED BY <1>4, <3>2, <3>3
  <2>4. \A k \in 1 .. (N + 1) - 1 : t[k + 1].node = Awaited(doc, t[k]) BY <1>4, <2>3
  <2> QED BY <1>1, <1>5, <1>6, <2>1, <2>2, <2>4 DEF Nesting
<1> QED BY <1>10, <1>11

(* A call returns the object of its node, which is complete. *)
LEMMA CallReturns ==
    ASSUME CallsInv, Running, Contents, Nesting, UNCHANGED args,
           NEW S, NEW C, Changes(S, C), NEW x, Return(x), x = AddressOf(doc, node),
           NEW h, h = heap',
           \A a \in C : Sensible(doc, a) /\ h[a] = Done(doc, option, a),
           \A a \in DOMAIN heap \ C : a[1] = node /\ Sensible(doc, a) =>
               Done(doc, option, a) = Content(doc, option, top, a)
    PROVE  Contents' /\ Nesting'
<1>1. stack # <<>> /\ UNCHANGED <<doc, option>> BY DEF CallsInv, Running, args
<1>2. /\ Len(stack) \in Nat \ {0} /\ DOMAIN stack = 1 .. Len(stack)
      /\ top = stack[Len(stack)]
      /\ \A k \in DOMAIN stack : stack[k].node \in Nat /\ (k < Len(stack) => stack[k].node < node)
  BY <1>1, TopFacts
<1>3. PICK s \in Seq(Frames) : s = stack BY DEF CallsInv
<1>4. PICK N \in Nat \ {0} : N = Len(s) /\ DOMAIN s = 1 .. N BY <1>2, <1>3
<1>5. PICK t : t = stack' OBVIOUS
<1>6. /\ DOMAIN t = 1 .. N - 1 /\ Len(t) = N - 1
      /\ \A k \in 1 .. N - 1 : t[k] = s[k]
      /\ s[N] = top /\ s[N].node = node
      /\ t = <<>> <=> N = 1
  <2>1. t = SubSeq(s, 1, N - 1) BY <1>3, <1>4, <1>5 DEF Return
  <2>2. s[N] = top BY <1>2, <1>3, <1>4
  <2>3. DOMAIN t = 1 .. N - 1 /\ Len(t) = N - 1 /\ \A k \in 1 .. N - 1 : t[k] = s[k]
        /\ t \in Seq(Frames)
    BY <1>4, <2>1
  <2>4. t = <<>> <=> Len(t) = 0 BY <2>3
  <2> QED BY <1>4, <2>2, <2>3, <2>4 DEF node
<1>7. \A k \in 1 .. N - 1 : s[k].node # node BY <1>2, <1>3, <1>4
<1>8. \A a \in DOMAIN h : \/ a \in C /\ a[1] = node
                          \/ a \notin C /\ a \in DOMAIN heap /\ h[a] = heap[a]
  BY DEF Changes
<1>9. ASSUME NEW a \in DOMAIN h
      PROVE  /\ Sensible(doc, a)
             /\ ~(\E k \in 1 .. N - 1 : t[k].node = a[1]) => h[a] = Done(doc, option, a)
             /\ \A k \in 1 .. N - 1 : t[k].node = a[1] => h[a] = Content(doc, option, t[k], a)
  <2>1. CASE a \in C /\ a[1] = node
    BY <1>6, <1>7, <2>1
  <2>2. CASE a \notin C /\ a \in DOMAIN heap /\ h[a] = heap[a]
    <3>1. Sensible(doc, a) BY <2>2 DEF Contents
    <3>2. ~(\E k \in 1 .. N : s[k].node = a[1]) => heap[a] = Done(doc, option, a)
      BY <1>3, <1>4, <2>2 DEF Contents, IsOnStack
    <3>3. \A k \in 1 .. N : s[k].node = a[1] => heap[a] = Content(doc, option, s[k], a)
      BY <1>3, <1>4, <2>2 DEF Contents
    <3>4. a[1] = node => h[a] = Done(doc, option, a)
      BY <1>4, <1>6, <2>2, <3>1, <3>3
    <3>5. ~(\E k \in 1 .. N - 1 : t[k].node = a[1]) => h[a] = Done(doc, option, a)
      <4>1. ASSUME ~(\E k \in 1 .. N - 1 : t[k].node = a[1]), a[1] # node
            PROVE  ~(\E k \in 1 .. N : s[k].node = a[1])
        BY <1>4, <1>6, <4>1
      <4> QED BY <2>2, <3>2, <3>4, <4>1
    <3>6. \A k \in 1 .. N - 1 : t[k].node = a[1] => h[a] = Content(doc, option, t[k], a)
      BY <1>4, <1>6, <2>2, <3>3
    <3> QED BY <3>1, <3>5, <3>6
  <2> QED BY <1>8, <2>1, <2>2
<1>10. Contents'
  <2>1. \A a \in DOMAIN heap' :
          /\ Sensible(doc, a)
          /\ ~(\E k \in DOMAIN stack' : stack'[k].node = a[1]) => heap'[a] = Done(doc, option, a)
          /\ \A k \in DOMAIN stack' :
                stack'[k].node = a[1] => heap'[a] = Content(doc, option, stack'[k], a)
    BY <1>5, <1>6, <1>9
  <2> QED BY <1>1, <2>1 DEF Contents, IsOnStack
<1>11. Nesting'
  <2>1. t # <<>> => t[1].node = 1 BY <1>1, <1>3, <1>4, <1>6 DEF Nesting
  <2>2. \A k \in 1 .. N - 1 : LevelOK(doc, option, t[k])
    <3>1. \A k \in 1 .. N : LevelOK(doc, option, s[k]) BY <1>3, <1>4 DEF Nesting
    <3> QED BY <1>4, <1>6, <3>1
  <2>3. \A k \in 1 .. N - 1 : s[k + 1].node = Awaited(doc, s[k])
    BY <1>3, <1>4 DEF Nesting
  <2>4. \A k \in 1 .. (N - 1) - 1 : t[k + 1].node = Awaited(doc, t[k])
    BY <1>4, <1>6, <2>3
  <2>5. ret' = AddressOf(doc, IF t = <<>> THEN 1 ELSE Awaited(doc, t[N - 1]))
    <3>1. ret' = AddressOf(doc, node) BY DEF Return
    <3>2. CASE N = 1
      <4>1. node = 1 BY <1>1, <1>3, <1>6, <3>2 DEF Nesting
      <4> QED BY <1>6, <3>1, <3>2, <4>1
    <3>3. CASE N # 1
      <4>1. node = Awaited(doc, t[N - 1])
        <5>1. N - 1 \in 1 .. N - 1 /\ (N - 1) + 1 = N BY <1>4, <3>3
        <5> QED BY <1>6, <2>3, <5>1
      <4> QED BY <1>6, <3>1, <3>3, <4>1
    <3> QED BY <3>2, <3>3
  <2> QED BY <1>1, <1>5, <1>6, <2>1, <2>2, <2>4, <2>5 DEF Nesting, top
<1> QED BY <1>10, <1>11

-----------------------------------------------------------------------------
(* The objects of the call that frame f is of. *)
OutOf(f)   == IF HasOut(f) THEN PartOut(doc, option, f) ELSE DoneOut(doc, option, node)
NamesOf(f) == IF HasNames(f) THEN PartNames(doc, f) ELSE DoneNames(doc, node)
VecOf(f, c) == IF HasColumn(f, c) THEN PartColumn(doc, option, f, c)
               ELSE DoneColumn(doc, option, node, c)

LEMMA ContentIs ==
    ASSUME NEW f, f.node = node
    PROVE  /\ Content(doc, option, f, out) = OutOf(f)
           /\ Content(doc, option, f, out_names) = NamesOf(f)
           /\ \A c : Content(doc, option, f, vec(c)) = VecOf(f, c)
           /\ \A c : Content(doc, option, f, na(c)) = MissingCell
<1>1. /\ out[1] = node /\ out[2] = "out"
      /\ out_names[1] = node /\ out_names[2] = "names"
      /\ \A c : vec(c)[1] = node /\ vec(c)[2] = "vec" /\ vec(c)[3] = c
      /\ \A c : na(c)[1] = node /\ na(c)[2] = "na"
  BY DEF out, out_names, vec, na
<1>2. Content(doc, option, f, out) = OutOf(f)
  <2>1. PICK a : a = out OBVIOUS
  <2>2. Holds(doc, f, a) <=> HasOut(f) BY <1>1, <2>1 DEF Holds
  <2>3. Done(doc, option, a) = DoneOut(doc, option, node) BY <1>1, <2>1 DEF Done
  <2>4. a[2] = "out" BY <1>1, <2>1
  <2> QED BY <2>1, <2>2, <2>3, <2>4 DEF Content, OutOf
<1>3. Content(doc, option, f, out_names) = NamesOf(f)
  <2>1. PICK a : a = out_names OBVIOUS
  <2>2. Holds(doc, f, a) <=> HasNames(f) BY <1>1, <2>1 DEF Holds, HasNames
  <2>3. Done(doc, option, a) = DoneNames(doc, node) BY <1>1, <2>1 DEF Done
  <2>4. a[2] = "names" BY <1>1, <2>1
  <2> QED BY <2>1, <2>2, <2>3, <2>4 DEF Content, NamesOf
<1>4. ASSUME NEW c PROVE Content(doc, option, f, vec(c)) = VecOf(f, c)
  <2>1. PICK a : a = vec(c) OBVIOUS
  <2>2. Holds(doc, f, a) <=> HasColumn(f, c) BY <1>1, <2>1 DEF Holds
  <2>3. Done(doc, option, a) = DoneColumn(doc, option, node, c) BY <1>1, <2>1 DEF Done
  <2>4. a[2] = "vec" /\ a[3] = c BY <1>1, <2>1
  <2> QED BY <2>1, <2>2, <2>3, <2>4 DEF Content, VecOf
<1>5. ASSUME NEW c PROVE Content(doc, option, f, na(c)) = MissingCell
  <2>1. PICK a : a = na(c) OBVIOUS
  <2>2. a[2] = "na" BY <1>1, <2>1
  <2>3. ~Holds(doc, f, a) BY <2>2 DEF Holds
  <2>4. Done(doc, option, a) = MissingCell BY <2>2 DEF Done
  <2> QED BY <2>1, <2>3, <2>4 DEF Content
<1> QED BY <1>2, <1>3, <1>4, <1>5

(* The objects of the running call are these. *)
LEMMA OwnAddress ==
    ASSUME CallsInv, Running, NEW a, Sensible(doc, a), a[1] = node
    PROVE  a = out \/ a = out_names \/ \E c \in Nat : a = vec(c) \/ a = na(c)
<1>1. node \in Nat \ {0} BY TopFacts DEF CallsInv, Running
<1>2. a \notin Callers BY <1>1 DEF Callers, CallersObject
<1>3. a \in nodes(doc) \X {"out", "names", "vec", "na"} \X Nat
      /\ (a[2] \in {"out", "names"} => a[3] = 0)
  BY <1>2 DEF Sensible
<1> QED BY <1>3 DEF out, out_names, vec, na

LEMMA SensibleAre ==
    ASSUME CallsInv, Running
    PROVE  /\ HasOwn(doc, node) => Sensible(doc, out)
           /\ Sensible(doc, out_names)
           /\ \A c \in Nat : Sensible(doc, na(c))
           /\ IsTable(doc, node) => \A c \in Nat : Sensible(doc, vec(c))
<1>1. node \in nodes(doc) BY TopFacts DEF CallsInv, Running
<1> QED BY <1>1 DEF Sensible, out, out_names, vec, na

(* What is to be shown of a step of the running call. *)
LEMMA Moves ==
    ASSUME CallsInv, Running, Contents, Nesting, UNCHANGED <<args, status>>,
           NEW S, NEW C, Changes(S, C), NEW g, SetTop(g), g.node = node,
           LevelOK(doc, option, g), ret' # None => ret' = AddressOf(doc, Awaited(doc, g)),
           NEW h, h = heap',
           \A a \in C : Sensible(doc, a),
           IF out \in C THEN h[out] = OutOf(g) ELSE OutOf(g) = OutOf(top),
           IF out_names \in C THEN h[out_names] = NamesOf(g) ELSE NamesOf(g) = NamesOf(top),
           \A c \in Nat : IF vec(c) \in C THEN h[vec(c)] = VecOf(g, c)
                          ELSE vec(c) \in DOMAIN heap => VecOf(g, c) = VecOf(top, c),
           \A c \in Nat : na(c) \in C => h[na(c)] = MissingCell
    PROVE  Contents' /\ Nesting'
<1>1. top.node = node BY DEF node
<1>2. ASSUME NEW a \in C PROVE h[a] = Content(doc, option, g, a)
  <2>1. a[1] = node BY DEF Changes
  <2>2. a = out \/ a = out_names \/ \E c \in Nat : a = vec(c) \/ a = na(c)
    BY <2>1, OwnAddress
  <2>3. CASE a = out BY <2>3, ContentIs
  <2>4. CASE a = out_names BY <2>4, ContentIs
  <2>5. CASE \E c \in Nat : a = vec(c)
    <3>1. PICK c \in Nat : a = vec(c) BY <2>5
    <3>2. h[vec(c)] = VecOf(g, c) BY <3>1
    <3> QED BY <3>1, <3>2, ContentIs
  <2>6. CASE \E c \in Nat : a = na(c)
    <3>1. PICK c \in Nat : a = na(c) BY <2>6
    <3>2. h[na(c)] = MissingCell BY <3>1
    <3> QED BY <3>1, <3>2, ContentIs
  <2> QED BY <2>2, <2>3, <2>4, <2>5, <2>6
<1>3. ASSUME NEW a \in DOMAIN heap \ C, a[1] = node, Sensible(doc, a)
      PROVE  Content(doc, option, g, a) = Content(doc, option, top, a)
  <2>0. PICK f : f = top OBVIOUS
  <2>1. f.node = node BY <1>1, <2>0
  <2>2. a = out \/ a = out_names \/ \E c \in Nat : a = vec(c) \/ a = na(c)
    BY <1>3, OwnAddress
  <2>3. CASE a = out BY <2>0, <2>1, <2>3, ContentIs
  <2>4. CASE a = out_names BY <2>0, <2>1, <2>4, ContentIs
  <2>5. CASE \E c \in Nat : a = vec(c)
    <3>1. PICK c \in Nat : a = vec(c) BY <2>5
    <3>2. VecOf(g, c) = VecOf(f, c) BY <2>0, <3>1
    <3> QED BY <2>0, <2>1, <3>1, <3>2, ContentIs
  <2>6. CASE \E c \in Nat : a = na(c)
    BY <2>0, <2>1, <2>6, ContentIs
  <2> QED BY <2>2, <2>3, <2>4, <2>5, <2>6
<1>4. \A a \in C : Sensible(doc, a) /\ h[a] = Content(doc, option, g, a) BY <1>2
<1>5. \A a \in DOMAIN heap \ C : a[1] = node /\ Sensible(doc, a) =>
        Content(doc, option, g, a) = Content(doc, option, top, a)
  BY <1>3
<1> QED BY <1>4, <1>5, TopGoesOn

(* And of its last one. *)
LEMMA Ends ==
    ASSUME CallsInv, Running, Contents, Nesting, UNCHANGED args,
           NEW S, NEW C, Changes(S, C), Return(out), HasOwn(doc, node), C \subseteq {out},
           IF out \in C THEN heap'[out] = DoneOut(doc, option, node)
           ELSE OutOf(top) = DoneOut(doc, option, node),
           NamesOf(top) = DoneNames(doc, node),
           \A c \in Nat : vec(c) \in DOMAIN heap =>
                            VecOf(top, c) = DoneColumn(doc, option, node, c)
    PROVE  Contents' /\ Nesting'
<1>0. PICK f, x, h : f = top /\ x = out /\ h = heap' OBVIOUS
<1>1. f.node = node BY <1>0 DEF node
<1>2. x = AddressOf(doc, node) BY <1>0 DEF AddressOf, out
<1>3. /\ Done(doc, option, out) = DoneOut(doc, option, node)
      /\ Done(doc, option, out_names) = DoneNames(doc, node)
      /\ \A c : Done(doc, option, vec(c)) = DoneColumn(doc, option, node, c)
      /\ \A c : Done(doc, option, na(c)) = MissingCell
  BY DEF Done, out, out_names, vec, na
<1>4. \A a \in C : Sensible(doc, a) /\ h[a] = Done(doc, option, a)
  BY <1>0, <1>3, SensibleAre
<1>5. ASSUME NEW a \in DOMAIN heap \ C, a[1] = node, Sensible(doc, a)
      PROVE  Done(doc, option, a) = Content(doc, option, f, a)
  <2>1. a = out \/ a = out_names \/ \E c \in Nat : a = vec(c) \/ a = na(c)
    BY <1>5, OwnAddress
  <2>2. CASE a = out BY <1>0, <1>1, <1>3, <2>2, ContentIs
  <2>3. CASE a = out_names BY <1>0, <1>1, <1>3, <2>3, ContentIs
  <2>4. CASE \E c \in Nat : a = vec(c)
    <3>1. PICK c \in Nat : a = vec(c) BY <2>4
    <3>2. VecOf(f, c) = DoneColumn(doc, option, node, c) BY <1>0, <3>1
    <3> QED BY <1>1, <1>3, <3>1, <3>2, ContentIs
  <2>5. CASE \E c \in Nat : a = na(c) BY <1>1, <1>3, <2>5, ContentIs
  <2> QED BY <2>1, <2>2, <2>3, <2>4, <2>5
<1>6. \A a \in DOMAIN heap \ C : a[1] = node /\ Sensible(doc, a) =>
        Done(doc, option, a) = Content(doc, option, top, a)
  BY <1>0, <1>5
<1>7. Return(x) BY <1>0
<1> QED BY <1>0, <1>2, <1>4, <1>6, <1>7, CallReturns

LEMMA NodeFacts ==
    ASSUME CallsInv, Running, Nesting
    PROVE  /\ IsDocument(doc) /\ option \in Option /\ opts = option
           /\ node \in nodes(doc) /\ node \in Nat \ {0} /\ top.node = node /\ top \in Frames
           /\ doc.kind[node] \in ElementKind /\ LevelOK(doc, option, top)
           /\ here # <<>> => doc.kind[node] \in {"ARRAY", "OBJECT"}
<1>1. stack # <<>> /\ doc \in Docs /\ option \in Options BY DEF CallsInv, Running
<1>2. option \in Option BY <1>1, SimplifyOptionsAssumption
<1>3. IsDocument(doc) BY <1>1, DocFacts
<1>4. /\ node \in nodes(doc) /\ node \in Nat \ {0} /\ top \in Frames /\ opts = option
      /\ Len(stack) \in DOMAIN stack /\ top = stack[Len(stack)]
  BY <1>1, TopFacts
<1>5. doc.kind[node] \in ElementKind BY <1>3, <1>4 DEF IsDocument, nodes
<1>6. LevelOK(doc, option, top) BY <1>4 DEF Nesting
<1>7. here # <<>> => doc.kind[node] \in {"ARRAY", "OBJECT"}
  BY <1>3, <1>4 DEF IsDocument, here
<1> QED BY <1>2, <1>3, <1>4, <1>5, <1>6, <1>7 DEF node

Early == {"element", "scalar", "data_frame", "matrix", "vector", "list", "object",
          "build_vector", "build_matrix", "frame"}

(* A call has no objects before it makes them. *)
LEMMA EarlyOwnsNothing ==
    ASSUME NEW f, f.pc \in Early
    PROVE  /\ OutOf(f) = DoneOut(doc, option, node)
           /\ NamesOf(f) = DoneNames(doc, node)
           /\ \A c : VecOf(f, c) = DoneColumn(doc, option, node, c)
<1>1. ~HasOut(f) /\ ~HasNames(f) /\ \A c : ~HasColumn(f, c)
  BY DEF Early, HasOut, HasNames, HasColumn, InFrame
<1> QED BY <1>1 DEF OutOf, NamesOf, VecOf

LEMMA QuietMoves ==
    ASSUME CallsInv, HeapInv, Running, Contents, Nesting, UNCHANGED <<args, status, heap>>,
           NEW g, SetTop(g), g.node = node, LevelOK(doc, option, g), ret' = None,
           OutOf(g) = OutOf(top), NamesOf(g) = NamesOf(top),
           \A c \in Nat : vec(c) \in DOMAIN heap => VecOf(g, c) = VecOf(top, c)
    PROVE  Contents' /\ Nesting'
<1>1. PICK S, C, h : S = DOMAIN heap /\ C = {} /\ h = heap' OBVIOUS
<1>2. Changes(S, C) BY <1>1, Unchanged
<1>3. /\ \A a \in C : Sensible(doc, a)
      /\ out \notin C /\ out_names \notin C
      /\ \A c \in Nat : vec(c) \notin C /\ na(c) \notin C
  BY <1>1
<1> QED BY <1>1, <1>2, <1>3, Moves

LEMMA EarlyMoves ==
    ASSUME CallsInv, HeapInv, Running, Contents, Nesting, UNCHANGED <<args, status, heap>>,
           top.pc \in Early, NEW p \in Early, Goto(p), ret' = None,
           LevelOK(doc, option, [top EXCEPT !.pc = p])
    PROVE  Contents' /\ Nesting'
<1>1. PICK g : g = [top EXCEPT !.pc = p] OBVIOUS
<1>2. top \in Frames BY NodeFacts
<1>3. g.node = node /\ g.pc = p BY <1>1, <1>2 DEF Frames, node
<1>4. SetTop(g) /\ LevelOK(doc, option, g) BY <1>1 DEF Goto
<1>5. PICK f : f = top OBVIOUS
<1>6. /\ OutOf(g) = OutOf(f) /\ NamesOf(g) = NamesOf(f)
      /\ \A c \in Nat : vec(c) \in DOMAIN heap => VecOf(g, c) = VecOf(f, c)
  BY <1>3, <1>5, EarlyOwnsNothing
<1> QED BY <1>3, <1>4, <1>5, <1>6, QuietMoves

(* From here on one lemma per action, each with what it does to the        *)
(* objects of the running call.                                            *)
LEMMA SimplifyElementResult ==
    ASSUME IInv, Contents, Nesting, SimplifyElement
    PROVE  Contents' /\ Nesting'
<1>1. CallsInv /\ HeapInv /\ Running /\ UNCHANGED <<args, heap>> /\ top.pc = "element"
  BY DEF IInv, SimplifyElement
<1>2. ret = None
  <2>1. ~Waits(top) BY <1>1 DEF Waits
  <2> QED BY <1>1, <2>1, NothingReturned
<1>3. PICK d, n, o, f : d = doc /\ n = node /\ o = option /\ f = top OBVIOUS
<1>4. /\ IsDocument(d) /\ o \in Option /\ opts = o /\ n \in nodes(d) /\ f \in Frames
      /\ f.node = n /\ d.kind[n] \in ElementKind /\ here = d.items[n]
      /\ here # <<>> => d.kind[n] \in {"ARRAY", "OBJECT"}
      /\ LevelOK(d, o, f)
  BY <1>1, <1>3, NodeFacts DEF here
<1>i. f.i = 1 BY <1>1, <1>3, <1>4 DEF LevelOK
<1>5. CASE d.kind[n] \notin {"ARRAY", "OBJECT", "NULL_VALUE"}
  <2>1. Goto("scalar") /\ UNCHANGED <<ret, status>> BY <1>3, <1>5 DEF SimplifyElement
  <2>2. PICK p : p = "scalar" OBVIOUS
  <2>3. PICK g : g = [f EXCEPT !.pc = p] OBVIOUS
  <2>4. g.pc = "scalar" /\ g.node = n /\ g.i = 1 BY <1>4, <1>i, <2>2, <2>3 DEF Frames
  <2>5. LevelOK(d, o, g) BY <1>5, <2>4 DEF LevelOK, InFrame
  <2>6. p \in Early /\ f.pc \in Early BY <1>1, <1>3, <2>2 DEF Early
  <2>7. Goto(p) BY <2>1, <2>2
  <2> QED BY <1>1, <1>2, <1>3, <2>1, <2>3, <2>5, <2>6, <2>7, EarlyMoves
<1>6. CASE d.kind[n] \in {"ARRAY", "OBJECT", "NULL_VALUE"} /\ d.items[n] = <<>>
  <2>1. Return(CallersObject(doc.kind[node])) BY <1>3, <1>4, <1>6 DEF SimplifyElement
  <2>2. PICK x : x = CallersObject(doc.kind[node]) OBVIOUS
  <2>3. x = AddressOf(doc, node) BY <1>3, <1>6, <2>2 DEF AddressOf, HasOwn
  <2>4. PICK S, C, h : S = DOMAIN heap /\ C = {} /\ h = heap' OBVIOUS
  <2>5. Changes(S, C) BY <1>1, <2>4, Unchanged
  <2>6. \A a \in C : Sensible(doc, a) /\ h[a] = Done(doc, option, a) BY <2>4
  <2>7. ASSUME NEW a, a[1] = node, Sensible(doc, a)
        PROVE  Done(doc, option, a) = Content(doc, option, f, a)
    <3>1. ~Holds(doc, f, a) BY <1>1, <1>3 DEF Holds, HasOut, HasColumn, InFrame
    <3> QED BY <3>1 DEF Content
  <2>8. \A a \in DOMAIN heap \ C : a[1] = node /\ Sensible(doc, a) =>
          Done(doc, option, a) = Content(doc, option, top, a)
    BY <1>3, <2>7
  <2>9. Return(x) BY <2>1, <2>2
  <2> QED BY <1>1, <2>3, <2>4, <2>5, <2>6, <2>8, <2>9, CallReturns
<1>7. CASE d.kind[n] \in {"ARRAY", "OBJECT", "NULL_VALUE"} /\ d.items[n] # <<>>
  <2>0. PICK p : p = IF d.kind[n] = "OBJECT" THEN "object" ELSE o.simplify_to OBVIOUS
  <2>1. Goto(p) /\ UNCHANGED <<ret, status>>
    BY <1>3, <1>4, <1>7, <2>0 DEF SimplifyElement
  <2>2. d.kind[n] \in {"ARRAY", "OBJECT"} BY <1>4, <1>7
  <2>3. o.simplify_to \in SimplifyTo BY <1>4 DEF Option
  <2>4. p \in Early BY <2>0, <2>3 DEF SimplifyTo, Early
  <2>5. PICK g : g = [f EXCEPT !.pc = p] OBVIOUS
  <2>6. g.pc = p /\ g.node = n /\ g.i = 1 BY <1>4, <1>i, <2>5 DEF Frames
  <2>7. PICK level : level = Level(d, o, n) OBVIOUS
  <2>8. /\ level \in SimplifyTo
        /\ level = "data_frame" => o.simplify_to = "data_frame"
        /\ level = "matrix" => o.simplify_to \in {"data_frame", "matrix"}
        /\ level = "vector" => o.simplify_to # "list"
    BY <1>4, <2>7, LevelFacts
  <2>9. LevelOK(d, o, g)
    <3>1. CASE p = "object" /\ d.kind[n] = "OBJECT"
      BY <1>7, <2>2, <2>6, <3>1 DEF LevelOK, InFrame
    <3>2. CASE p = o.simplify_to /\ d.kind[n] = "ARRAY"
      <4>1. p = "data_frame" => o.simplify_to = "data_frame" BY <3>2
      <4>2. p = "matrix" => o.simplify_to = "matrix" /\ level # "data_frame" BY <2>8, <3>2
      <4>3. p = "vector" => o.simplify_to # "list" /\ level \notin {"data_frame", "matrix"}
        BY <2>8, <3>2
      <4>4. p = "list" => level = "list" BY <2>8, <3>2 DEF SimplifyTo
      <4>5. p \in SimplifyTo BY <2>3, <3>2
      <4> QED BY <1>7, <2>6, <2>7, <3>2, <4>1, <4>2, <4>3, <4>4, <4>5
              DEF LevelOK, InFrame, SimplifyTo
    <3> QED BY <2>0, <2>2, <3>1, <3>2
  <2>10. f.pc \in Early BY <1>1, <1>3 DEF Early
  <2> QED BY <1>1, <1>2, <1>3, <2>1, <2>4, <2>5, <2>9, <2>10, EarlyMoves
<1> QED BY <1>5, <1>6, <1>7

LEMMA TryLevelResult ==
    ASSUME IInv, Contents, Nesting, TryLevel
    PROVE  Contents' /\ Nesting'
<1>1. /\ CallsInv /\ HeapInv /\ Running /\ UNCHANGED <<args, ret, status, heap>>
      /\ top.pc \in {"data_frame", "matrix", "vector"}
  BY DEF IInv, TryLevel
<1>2. ret = None
  <2>1. ~Waits(top) BY <1>1 DEF Waits
  <2> QED BY <1>1, <2>1, NothingReturned
<1>3. PICK d, n, o, f : d = doc /\ n = node /\ o = option /\ f = top OBVIOUS
<1>4. /\ IsDocument(d) /\ o \in Option /\ opts = o /\ n \in nodes(d) /\ f \in Frames
      /\ f.node = n /\ here = d.items[n] /\ LevelOK(d, o, f)
  BY <1>1, <1>3, NodeFacts DEF here
<1>5. d.items[n] # <<>> /\ d.kind[n] = "ARRAY" /\ f.i = 1
  BY <1>1, <1>3, <1>4 DEF LevelOK
<1>6. PICK level : level = Level(d, o, n) OBVIOUS
<1>7. /\ level \in SimplifyTo
      /\ level = "data_frame" <=> o.simplify_to = "data_frame" /\ IsTable(d, n)
      /\ level = "matrix" <=> /\ o.simplify_to \in {"data_frame", "matrix"}
                              /\ level # "data_frame" /\ IsMatrix(d, o, n)
      /\ level = "vector" <=> /\ o.simplify_to # "list"
                              /\ level \notin {"data_frame", "matrix"}
                              /\ vectorizable(o, kinds_in(d, d.items[n]))
  BY <1>4, <1>6, LevelFacts
<1>8. diagnose <=> IsMatrix(d, o, n)
  BY <1>3, <1>4, <1>5, DiagnoseIs
<1>9. PICK p : p = CASE f.pc = "data_frame" ->
                          IF IsTable(doc, node) THEN "frame" ELSE "matrix"
                     [] f.pc = "matrix" -> IF diagnose THEN "build_matrix" ELSE "vector"
                     [] f.pc = "vector" ->
                          IF vectorizable(opts, kinds_in(doc, here)) THEN "build_vector" ELSE "list"
  OBVIOUS
<1>10. Goto(p) BY <1>3, <1>9 DEF TryLevel
<1>11. PICK g : g = [f EXCEPT !.pc = p] OBVIOUS
<1>12. g.pc = p /\ g.node = n /\ g.i = 1 BY <1>4, <1>5, <1>11 DEF Frames
<1>13. CASE f.pc = "data_frame"
  <2>1. o.simplify_to = "data_frame" BY <1>4, <1>13 DEF LevelOK
  <2>2. \/ p = "frame" /\ level = "data_frame"
        \/ p = "matrix" /\ level # "data_frame"
    BY <1>3, <1>7, <1>9, <1>13, <2>1
  <2>3. LevelOK(d, o, g) BY <1>4, <1>5, <1>6, <1>12, <2>1, <2>2 DEF LevelOK, InFrame
  <2> QED BY <1>1, <1>2, <1>3, <1>10, <1>11, <1>13, <2>2, <2>3, EarlyMoves DEF Early
<1>14. CASE f.pc = "matrix"
  <2>1. o.simplify_to \in {"data_frame", "matrix"} /\ level # "data_frame"
    BY <1>4, <1>6, <1>14 DEF LevelOK
  <2>2. \/ p = "build_matrix" /\ level = "matrix"
        \/ p = "vector" /\ level # "matrix"
    BY <1>7, <1>8, <1>9, <1>14, <2>1
  <2>3. LevelOK(d, o, g) BY <1>4, <1>5, <1>6, <1>12, <2>1, <2>2 DEF LevelOK, InFrame
  <2> QED BY <1>1, <1>2, <1>3, <1>10, <1>11, <1>14, <2>2, <2>3, EarlyMoves DEF Early
<1>15. CASE f.pc = "vector"
  <2>1. o.simplify_to # "list" /\ level \notin {"data_frame", "matrix"}
    BY <1>4, <1>6, <1>15 DEF LevelOK
  <2>2. \/ p = "build_vector" /\ level = "vector"
        \/ p = "list" /\ level # "vector"
    BY <1>3, <1>4, <1>7, <1>9, <1>15, <2>1
  <2>3. p = "list" => level = "list" BY <1>7, <2>1, <2>2 DEF SimplifyTo
  <2>4. LevelOK(d, o, g) BY <1>4, <1>5, <1>6, <1>12, <2>1, <2>2, <2>3 DEF LevelOK, InFrame
  <2> QED BY <1>1, <1>2, <1>3, <1>10, <1>11, <1>15, <2>2, <2>4, EarlyMoves DEF Early
<1> QED BY <1>1, <1>3, <1>13, <1>14, <1>15

LEMMA AllocateAtomicResult ==
    ASSUME IInv, Contents, Nesting, AllocateAtomic
    PROVE  Contents' /\ Nesting'
<1>1. /\ CallsInv /\ HeapInv /\ Running /\ UNCHANGED <<args, ret, status>>
      /\ top.pc \in {"scalar", "build_vector", "build_matrix"}
      /\ Allocate(out, Atomic) /\ Goto("fill")
  BY DEF IInv, AllocateAtomic
<1>2. ret = None
  <2>1. ~Waits(top) BY <1>1 DEF Waits
  <2> QED BY <1>1, <2>1, NothingReturned
<1>3. PICK d, n, o, f : d = doc /\ n = node /\ o = option /\ f = top OBVIOUS
<1>4. /\ IsDocument(d) /\ o \in Option /\ opts = o /\ n \in nodes(d) /\ f \in Frames
      /\ f.node = n /\ LevelOK(d, o, f)
  BY <1>1, <1>3, NodeFacts
<1>5. PICK g : g = [f EXCEPT !.pc = "fill"] OBVIOUS
<1>6. g.pc = "fill" /\ g.node = n /\ g.i = 1 /\ SetTop(g)
  <2>1. f.i = 1 BY <1>1, <1>3, <1>4 DEF LevelOK
  <2> QED BY <1>1, <1>3, <1>4, <1>5, <2>1 DEF Frames, Goto
<1>7. /\ HasOwn(d, n) /\ d.kind[n] # "OBJECT"
      /\ d.kind[n] = "ARRAY" => Level(d, o, n) \in {"matrix", "vector"}
  BY <1>1, <1>3, <1>4 DEF LevelOK, HasOwn
<1>8. LevelOK(d, o, g) BY <1>6, <1>7 DEF LevelOK, InFrame
<1>9. Atomic = DoneOut(d, o, n)
  BY <1>1, <1>3, <1>4, AtomicIs
<1>10. PICK x, obj : x = out /\ obj = Atomic OBVIOUS
<1>11. Changes(Reachable, {x}) /\ heap'[x] = obj
  BY <1>1, <1>10, Allocates1, NewIsOwn
<1>12. PICK S, C, h : S = Reachable /\ C = {x} /\ h = heap' OBVIOUS
<1>13. Changes(S, C) /\ h[out] = DoneOut(d, o, n) BY <1>9, <1>10, <1>11, <1>12
<1>14. \A a \in C : Sensible(doc, a) BY <1>1, <1>3, <1>7, <1>10, <1>12, SensibleAre
<1>15. /\ OutOf(g) = DoneOut(d, o, n)
       /\ NamesOf(g) = NamesOf(f)
       /\ \A c \in Nat : VecOf(g, c) = VecOf(f, c)
  <2>1. /\ HasOut(g) /\ ~HasNames(g) /\ ~HasNames(f)
        /\ \A c : ~HasColumn(g, c) /\ ~HasColumn(f, c)
    BY <1>1, <1>3, <1>6 DEF HasOut, HasNames, HasColumn, InFrame
  <2>2. PartOut(d, o, g) = DoneOut(d, o, n) BY <1>6 DEF PartOut, InFrame
  <2> QED BY <1>3, <2>1, <2>2 DEF OutOf, NamesOf, VecOf
<1>16. out \in C /\ out_names \notin C /\ \A c \in Nat : vec(c) \notin C /\ na(c) \notin C
  BY <1>1, <1>10, <1>12, NewIsOwn
<1> QED BY <1>1, <1>2, <1>3, <1>6, <1>8, <1>12, <1>13, <1>14, <1>15, <1>16, Moves

LEMMA FillAtomicResult ==
    ASSUME IInv, Contents, Nesting, FillAtomic
    PROVE  Contents' /\ Nesting'
<1>1. /\ CallsInv /\ HeapInv /\ InUse /\ Running /\ UNCHANGED args
      /\ top.pc = "fill" /\ AllocateAndSet(out, heap[out]) /\ Return(out)
  BY DEF IInv, FillAtomic
<1>2. PICK d, n, o, f : d = doc /\ n = node /\ o = option /\ f = top OBVIOUS
<1>3. /\ IsDocument(d) /\ n \in nodes(d) /\ f.node = n /\ LevelOK(d, o, f)
  BY <1>1, <1>2, NodeFacts
<1>4. HasOwn(d, n) BY <1>1, <1>2, <1>3 DEF LevelOK
<1>5. /\ HasOut(f) /\ ~HasNames(f) /\ \A c : ~HasColumn(f, c)
  BY <1>1, <1>2 DEF HasOut, HasNames, HasColumn, InFrame
<1>6. out \in Reachable /\ out \in DOMAIN heap BY <1>1, <1>2, <1>5, TopHas
<1>7. /\ OutOf(f) = DoneOut(d, o, n) /\ NamesOf(f) = DoneNames(d, n)
      /\ \A c \in Nat : VecOf(f, c) = DoneColumn(d, o, n, c)
  <2>1. PartOut(d, o, f) = DoneOut(d, o, n) BY <1>1, <1>2, <1>3 DEF PartOut, InFrame
  <2> QED BY <1>2, <1>5, <2>1 DEF OutOf, NamesOf, VecOf
<1>8. heap[out] = DoneOut(d, o, n)
  <2>1. heap[out] = Content(doc, option, f, out)
    BY <1>1, <1>2, <1>6, NewIsOwn, TopContents
  <2> QED BY <1>2, <1>3, <1>7, <2>1, ContentIs
<1>9. PICK x, obj : x = out /\ obj = heap[out] OBVIOUS
<1>10. Changes(Reachable, {x}) /\ heap'[x] = obj
  BY <1>1, <1>6, <1>9, AllocatesAndSets, NewIsOwn
<1>11. PICK S, C : S = Reachable /\ C = {x} OBVIOUS
<1>12. Changes(S, C) /\ C \subseteq {out} /\ out \in C /\ heap'[out] = DoneOut(d, o, n)
  BY <1>8, <1>9, <1>10, <1>11
<1> QED BY <1>1, <1>2, <1>4, <1>7, <1>12, Ends

LEMMA AllocateListResult ==
    ASSUME IInv, Contents, Nesting, AllocateList
    PROVE  Contents' /\ Nesting'
<1>1. /\ CallsInv /\ HeapInv /\ Running /\ UNCHANGED <<args, ret, status>>
      /\ top.pc \in {"list", "object"} /\ Allocate(out, NewList(Len(here)))
  BY DEF IInv, AllocateList
<1>2. ret = None
  <2>1. ~Waits(top) BY <1>1 DEF Waits
  <2> QED BY <1>1, <2>1, NothingReturned
<1>3. PICK d, n, o, f : d = doc /\ n = node /\ o = option /\ f = top OBVIOUS
<1>4. /\ IsDocument(d) /\ o \in Option /\ opts = o /\ n \in nodes(d) /\ f \in Frames
      /\ f.node = n /\ LevelOK(d, o, f) /\ here = d.items[n]
  BY <1>1, <1>3, NodeFacts DEF here
<1>5. PICK p : p = IF f.pc = "list" THEN "items" ELSE "names" OBVIOUS
<1>6. PICK g : g = [f EXCEPT !.pc = p] OBVIOUS
<1>7. g.pc = p /\ g.node = n /\ g.i = 1 /\ SetTop(g)
  <2>1. f.i = 1 BY <1>1, <1>3, <1>4 DEF LevelOK
  <2>2. Goto(p) BY <1>3, <1>5 DEF AllocateList
  <2> QED BY <1>3, <1>4, <1>6, <2>1, <2>2 DEF Frames, Goto
<1>8. /\ d.kind[n] \in {"ARRAY", "OBJECT"} /\ d.items[n] # <<>>
      /\ \/ f.pc = "list" /\ p = "items" /\ Level(d, o, n) = "list" /\ d.kind[n] = "ARRAY"
         \/ f.pc = "object" /\ p = "names" /\ d.kind[n] = "OBJECT"
  BY <1>1, <1>3, <1>4, <1>5 DEF LevelOK, InFrame
<1>9. HasOwn(d, n) BY <1>8 DEF HasOwn
<1>10. LevelOK(d, o, g) BY <1>7, <1>8 DEF LevelOK, InFrame
<1>11. PICK obj : obj = NewList(Len(here)) OBVIOUS
<1>12. PICK x : x = out OBVIOUS
<1>13. Changes(Reachable, {x}) /\ heap'[x] = obj
  BY <1>1, <1>11, <1>12, Allocates1, NewIsOwn
<1>14. PICK S, C, h : S = Reachable /\ C = {x} /\ h = heap' OBVIOUS
<1>15. Changes(S, C) /\ h[out] = obj BY <1>12, <1>13, <1>14
<1>16. \A a \in C : Sensible(doc, a) BY <1>1, <1>3, <1>9, <1>12, <1>14, SensibleAre
<1>17. /\ OutOf(g) = obj
       /\ NamesOf(g) = NamesOf(f)
       /\ \A c \in Nat : VecOf(g, c) = VecOf(f, c)
  <2>1. /\ HasOut(g) /\ ~HasNames(g) /\ ~HasNames(f)
        /\ \A c : ~HasColumn(g, c) /\ ~HasColumn(f, c)
    BY <1>3, <1>4, <1>7, <1>8 DEF HasOut, HasNames, HasColumn, InFrame
  <2>2. PICK N \in Nat : N = Len(here) /\ DOMAIN d.items[n] = 1 .. N
    <3>1. d.items[n] \in Seq(nodes(d)) BY <1>4 DEF IsDocument
    <3> QED BY <1>4, <3>1
  <2>3. \A k \in 1 .. N : ~(k < 1) /\ ~(k = 1 /\ p = "key") BY <1>8
  <2>4. PartOut(d, o, g) = RObject("list", [k \in 1 .. N |-> None], <<>>)
    BY <1>7, <1>8, <2>2, <2>3 DEF PartOut, InFrame
  <2>5. obj = RObject("list", [k \in 1 .. N |-> None], <<>>)
    BY <1>11, <2>2 DEF NewList
  <2> QED BY <1>3, <2>1, <2>4, <2>5 DEF OutOf, NamesOf, VecOf
<1>18. out \in C /\ out_names \notin C /\ \A c \in Nat : vec(c) \notin C /\ na(c) \notin C
  BY <1>1, <1>12, <1>14, NewIsOwn
<1> QED BY <1>1, <1>2, <1>3, <1>7, <1>10, <1>14, <1>15, <1>16, <1>17, <1>18, Moves

LEMMA AllocateNamesResult ==
    ASSUME IInv, Contents, Nesting, AllocateNames
    PROVE  Contents' /\ Nesting'
<1>1. /\ CallsInv /\ HeapInv /\ Running /\ UNCHANGED <<args, ret, status>>
      /\ top.pc = "names" /\ Allocate(out_names, NewNames(Len(here))) /\ Goto("items")
  BY DEF IInv, AllocateNames
<1>2. ret = None
  <2>1. ~Waits(top) BY <1>1 DEF Waits
  <2> QED BY <1>1, <2>1, NothingReturned
<1>3. PICK d, n, o, f : d = doc /\ n = node /\ o = option /\ f = top OBVIOUS
<1>4. /\ IsDocument(d) /\ n \in nodes(d) /\ f \in Frames
      /\ f.node = n /\ LevelOK(d, o, f) /\ here = d.items[n]
  BY <1>1, <1>3, NodeFacts DEF here
<1>5. PICK g : g = [f EXCEPT !.pc = "items"] OBVIOUS
<1>6. /\ f.i = 1 /\ d.kind[n] = "OBJECT" /\ d.items[n] # <<>>
  BY <1>1, <1>3, <1>4 DEF LevelOK
<1>7. g.pc = "items" /\ g.node = n /\ g.i = 1 /\ SetTop(g)
  BY <1>1, <1>3, <1>4, <1>5, <1>6 DEF Frames, Goto
<1>8. LevelOK(d, o, g) BY <1>6, <1>7 DEF LevelOK, InFrame
<1>9. PICK x, obj : x = out_names /\ obj = NewNames(Len(here)) OBVIOUS
<1>10. Changes(Reachable, {x}) /\ heap'[x] = obj
  BY <1>1, <1>9, Allocates1, NewIsOwn
<1>11. PICK S, C, h : S = Reachable /\ C = {x} /\ h = heap' OBVIOUS
<1>12. Changes(S, C) /\ h[out_names] = obj BY <1>9, <1>10, <1>11
<1>13. \A a \in C : Sensible(doc, a) BY <1>1, <1>9, <1>11, SensibleAre
<1>14. /\ OutOf(g) = OutOf(f)
       /\ NamesOf(g) = obj
       /\ \A c \in Nat : VecOf(g, c) = VecOf(f, c)
  <2>1. /\ HasOut(g) /\ HasOut(f) /\ HasNames(g)
        /\ \A c : ~HasColumn(g, c) /\ ~HasColumn(f, c)
    BY <1>1, <1>3, <1>4, <1>6, <1>7 DEF HasOut, HasNames, HasColumn, InFrame
  <2>2. PICK N \in Nat : N = Len(here) /\ DOMAIN d.items[n] = 1 .. N
    <3>1. d.items[n] \in Seq(nodes(d)) BY <1>4 DEF IsDocument
    <3> QED BY <1>4, <3>1
  <2>3. PartOut(d, o, g) = PartOut(d, o, f)
    BY <1>1, <1>3, <1>4, <1>6, <1>7 DEF PartOut, InFrame
  <2>4. \A k \in 1 .. N : ~(k < 1) OBVIOUS
  <2>5. PartNames(d, g) = RObject("vector", [k \in 1 .. N |-> None], <<>>)
    BY <1>7, <2>2, <2>4 DEF PartNames, InFrame
  <2>6. obj = RObject("vector", [k \in 1 .. N |-> None], <<>>)
    BY <1>9, <2>2 DEF NewNames
  <2> QED BY <1>3, <2>1, <2>3, <2>5, <2>6 DEF OutOf, NamesOf, VecOf
<1>15. out \notin C /\ out_names \in C /\ \A c \in Nat : vec(c) \notin C /\ na(c) \notin C
  BY <1>1, <1>9, <1>11 DEF out, out_names, vec, na
<1> QED BY <1>1, <1>2, <1>3, <1>7, <1>8, <1>11, <1>12, <1>13, <1>14, <1>15, Moves

LEMMA CallItemResult ==
    ASSUME IInv, Contents, Nesting, CallItem
    PROVE  Contents' /\ Nesting'
<1>1. /\ CallsInv /\ Running /\ UNCHANGED <<args, status, heap>> /\ ret' = None
      /\ top.pc = "items" /\ top.i <= Len(here) /\ Call(here[top.i])
  BY DEF IInv, CallItem
<1>2. stack # <<>> BY <1>1 DEF CallsInv, Running
<1>3. top.i \in 1 .. Len(here) BY <1>1, <1>2, TopFacts
<1>4. PICK m : m = here[top.i] OBVIOUS
<1>5. m \in nodes(doc) /\ m > node BY <1>1, <1>2, <1>3, <1>4, TopFacts
<1>6. m = Awaited(doc, top) BY <1>1, <1>4 DEF Awaited, here, node
<1>7. Call(m) BY <1>1, <1>4
<1> QED BY <1>1, <1>5, <1>6, <1>7, CallBegins

(* A list while its items are entered. *)
LEMMA PartList ==
    ASSUME NEW d, NEW n, NEW o, NEW f, f.node = n, f.pc \in {"names", "items", "key"},
           NEW N \in Nat, DOMAIN d.items[n] = 1 .. N,
           NEW e, e = [k \in 1 .. N |-> IF k < f.i \/ (k = f.i /\ f.pc = "key")
                                        THEN AddressOf(d, d.items[n][k]) ELSE None]
    PROVE  PartOut(d, o, f) = RObject("list", e, <<>>)
BY DEF PartOut, InFrame

LEMMA SetItemResult ==
    ASSUME IInv, Contents, Nesting, SetItem
    PROVE  Contents' /\ Nesting'
<1>1. /\ CallsInv /\ HeapInv /\ InUse /\ Running /\ UNCHANGED <<args, status>> /\ ret' = None
      /\ ret # None /\ SetElt(out, top.i, ret) /\ top.pc = "items"
  BY DEF IInv, SetItem
<1>2. PICK d, n, o, f : d = doc /\ n = node /\ o = option /\ f = top OBVIOUS
<1>3. /\ IsDocument(d) /\ n \in nodes(d) /\ f \in Frames
      /\ f.node = n /\ LevelOK(d, o, f) /\ here = d.items[n]
  BY <1>1, <1>2, NodeFacts DEF here
<1>4. stack # <<>> /\ Waits(top) BY <1>1 DEF CallsInv, Running
<1>5. PICK N \in Nat : N = Len(here) /\ DOMAIN d.items[n] = 1 .. N
  BY <1>1, <1>3, <1>4, TopFacts
<1>6. PICK i \in 1 .. N : i = f.i
  <2>1. f.i \in 1 .. N + 1 BY <1>1, <1>2, <1>4, <1>5, TopFacts
  <2>2. f.i <= N BY <1>2, <1>3, <1>4, <1>5 DEF Waits
  <2> QED BY <2>1, <2>2
<1>7. PICK x : x = ret OBVIOUS
<1>8. x = AddressOf(d, d.items[n][i])
  BY <1>1, <1>2, <1>3, <1>6, <1>7, TopContents DEF Awaited
<1>9. HasOut(f) BY <1>1, <1>2 DEF HasOut
<1>10. out \in DOMAIN heap BY <1>1, <1>2, <1>9, TopHas
<1>11. PICK e : e = [k \in 1 .. N |-> IF k < i \/ (k = i /\ f.pc = "key")
                                      THEN AddressOf(d, d.items[n][k]) ELSE None]
  OBVIOUS
<1>12. PICK p : p = heap[out] OBVIOUS
<1>13. p = RObject("list", e, <<>>)
  <2>1. p = Content(doc, option, f, out)
    BY <1>1, <1>2, <1>10, <1>12, NewIsOwn, TopContents
  <2>2. p = PartOut(d, o, f) BY <1>2, <1>3, <1>9, <2>1, ContentIs DEF OutOf
  <2>3. f.pc \in {"names", "items", "key"} BY <1>1, <1>2
  <2> QED BY <1>3, <1>5, <1>6, <1>11, <2>2, <2>3, PartList
<1>14. PICK y, k : y = out /\ k = top.i OBVIOUS
<1>15. Changes(DOMAIN heap, {y}) /\ heap'[y] = Entered(heap[y], k, x)
  <2>1. SetElt(y, k, x) BY <1>1, <1>7, <1>14
  <2>2. y \in DOMAIN heap /\ y[1] = node BY <1>1, <1>10, <1>14, NewIsOwn
  <2> QED BY <1>1, <2>1, <2>2, Sets
<1>16. PICK q : q = Entered(p, i, x) OBVIOUS
<1>17. PICK S, C, h : S = DOMAIN heap /\ C = {y} /\ h = heap' OBVIOUS
<1>18. Changes(S, C) /\ h[out] = q
  BY <1>2, <1>6, <1>12, <1>14, <1>15, <1>16, <1>17
<1>19. PICK e2 : e2 = [e EXCEPT ![i] = x] OBVIOUS
<1>20. q = RObject("list", e2, <<>>)
  BY <1>13, <1>16, <1>19 DEF Entered, RObject
<1>21. e2 = [k2 \in 1 .. N |-> IF k2 < i \/ k2 = i
                               THEN AddressOf(d, d.items[n][k2]) ELSE None]
  BY <1>1, <1>2, <1>8, <1>11, <1>19
<1>22. PICK g : g = IF d.kind[n] = "OBJECT" THEN [f EXCEPT !.pc = "key"]
                    ELSE [f EXCEPT !.i = i + 1]
  OBVIOUS
<1>23. SetTop(g)
  <2>1. IF d.kind[n] = "OBJECT" THEN SetTop([f EXCEPT !.pc = "key"])
        ELSE SetTop([f EXCEPT !.i = f.i + 1])
    BY <1>2 DEF SetItem, Goto
  <2> QED BY <1>6, <1>22, <2>1
<1>24. /\ g.node = n /\ d.kind[n] \in {"ARRAY", "OBJECT"} /\ d.items[n] # <<>>
       /\ d.kind[n] = "ARRAY" => Level(d, o, n) = "list"
       /\ \/ g.pc = "key" /\ g.i = i /\ d.kind[n] = "OBJECT"
          \/ g.pc = "items" /\ g.i = i + 1 /\ d.kind[n] = "ARRAY"
  <2>1. /\ d.kind[n] \in {"ARRAY", "OBJECT"} /\ d.items[n] # <<>>
        /\ d.kind[n] = "ARRAY" => Level(d, o, n) = "list"
    BY <1>1, <1>2, <1>3 DEF LevelOK
  <2> QED BY <1>1, <1>2, <1>3, <1>6, <1>22, <2>1 DEF Frames
<1>25. LevelOK(d, o, g) BY <1>24 DEF LevelOK, InFrame
<1>26. OutOf(g) = q
  <2>1. e2 = [k2 \in 1 .. N |-> IF k2 < g.i \/ (k2 = g.i /\ g.pc = "key")
                                THEN AddressOf(d, d.items[n][k2]) ELSE None]
    BY <1>21, <1>24
  <2>2. g.pc \in {"names", "items", "key"} BY <1>24
  <2>3. PartOut(d, o, g) = RObject("list", e2, <<>>)
    BY <1>5, <1>24, <2>1, <2>2, PartList
  <2>4. HasOut(g) BY <2>2 DEF HasOut
  <2> QED BY <1>2, <1>20, <2>3, <2>4 DEF OutOf
<1>27. NamesOf(g) = NamesOf(f)
  <2>1. CASE d.kind[n] = "OBJECT"
    <3>1. HasNames(g) /\ HasNames(f)
      BY <1>1, <1>2, <1>3, <1>24, <2>1 DEF HasNames
    <3>2. g.i = i /\ g.pc = "key" BY <1>24, <2>1
    <3>3. PartNames(d, g) = PartNames(d, f)
      BY <1>1, <1>2, <1>3, <1>6, <1>24, <3>2 DEF PartNames, InFrame
    <3> QED BY <1>2, <3>1, <3>3 DEF NamesOf
  <2>2. CASE d.kind[n] # "OBJECT"
    <3>1. ~HasNames(g) /\ ~HasNames(f)
      BY <1>1, <1>2, <1>3, <1>24, <2>2 DEF HasNames
    <3> QED BY <3>1 DEF NamesOf
  <2> QED BY <2>1, <2>2
<1>28. \A c \in Nat : VecOf(g, c) = VecOf(f, c)
  <2>1. \A c : ~HasColumn(g, c) /\ ~HasColumn(f, c)
    BY <1>1, <1>2, <1>24 DEF HasColumn
  <2> QED BY <2>1 DEF VecOf
<1>29. \A a \in C : Sensible(doc, a)
  <2>1. HasOwn(doc, node) BY <1>2, <1>24 DEF HasOwn
  <2> QED BY <1>1, <1>14, <1>17, <2>1, SensibleAre
<1>30. out \in C /\ out_names \notin C /\ \A c \in Nat : vec(c) \notin C /\ na(c) \notin C
  BY <1>1, <1>14, <1>17, NewIsOwn
<1> QED BY <1>1, <1>2, <1>17, <1>18, <1>23, <1>24, <1>25, <1>26, <1>27, <1>28, <1>29, <1>30, Moves

(* The names of a list while they are entered. *)
LEMMA PartListNames ==
    ASSUME NEW d, NEW n, NEW f, f.node = n, f.pc \in {"items", "key"},
           NEW N \in Nat, DOMAIN d.items[n] = 1 .. N,
           NEW e, e = [k \in 1 .. N |-> IF k < f.i THEN d.keys[n][k] ELSE None]
    PROVE  PartNames(d, f) = RObject("vector", e, <<>>)
BY DEF PartNames, InFrame

LEMMA SetKeyResult ==
    ASSUME IInv, Contents, Nesting, SetKey
    PROVE  Contents' /\ Nesting'
<1>1. /\ CallsInv /\ HeapInv /\ InUse /\ Running /\ UNCHANGED <<args, ret, status>>
      /\ top.pc = "key"
      /\ AllocateAndSet(out_names,
           [heap[out_names] EXCEPT !.elems[top.i] = doc.keys[node][top.i]])
      /\ SetTop([top EXCEPT !.pc = "items", !.i = @ + 1])
  BY DEF IInv, SetKey
<1>2. ret = None
  <2>1. ~Waits(top) BY <1>1 DEF Waits
  <2> QED BY <1>1, <2>1, NothingReturned
<1>3. PICK d, n, o, f : d = doc /\ n = node /\ o = option /\ f = top OBVIOUS
<1>4. /\ IsDocument(d) /\ n \in nodes(d) /\ f \in Frames
      /\ f.node = n /\ LevelOK(d, o, f) /\ here = d.items[n]
  BY <1>1, <1>3, NodeFacts DEF here
<1>5. stack # <<>> BY <1>1 DEF CallsInv, Running
<1>6. PICK N \in Nat : N = Len(here) /\ DOMAIN d.items[n] = 1 .. N
  BY <1>1, <1>4, <1>5, TopFacts
<1>7. PICK i \in 1 .. N : i = f.i
  <2>1. f.i \in 1 .. N + 1 BY <1>1, <1>3, <1>5, <1>6, TopFacts
  <2>2. FrameOK(top) BY <1>1, <1>5, TopFacts
  <2>3. f.i <= N BY <1>1, <1>3, <1>4, <1>6, <2>2 DEF FrameOK
  <2> QED BY <2>1, <2>3
<1>8. HasNames(f) /\ HasOut(f) BY <1>1, <1>3 DEF HasNames, HasOut
<1>9. out_names \in DOMAIN heap /\ out_names \in Reachable BY <1>1, <1>3, <1>8, TopHas
<1>10. PICK e : e = [k \in 1 .. N |-> IF k < i THEN d.keys[n][k] ELSE None] OBVIOUS
<1>11. PICK p : p = heap[out_names] OBVIOUS
<1>12. p = RObject("vector", e, <<>>)
  <2>1. p = Content(doc, option, f, out_names)
    BY <1>1, <1>3, <1>9, <1>11, NewIsOwn, TopContents
  <2>2. p = PartNames(d, f) BY <1>3, <1>4, <1>8, <2>1, ContentIs DEF NamesOf
  <2>3. f.pc \in {"items", "key"} BY <1>1, <1>3
  <2> QED BY <1>4, <1>6, <1>7, <1>10, <2>2, <2>3, PartListNames
<1>13. PICK x, e2 : x = d.keys[n][i] /\ e2 = [e EXCEPT ![i] = x] OBVIOUS
<1>14. PICK q : q = [p EXCEPT !.elems[i] = x] OBVIOUS
<1>15. q = RObject("vector", e2, <<>>) BY <1>12, <1>13, <1>14 DEF RObject
<1>16. e2 = [k \in 1 .. N |-> IF k < i + 1 THEN d.keys[n][k] ELSE None]
  BY <1>10, <1>13
<1>17. PICK y : y = out_names OBVIOUS
<1>18. AllocateAndSet(y, q)
  <2>1. [heap[out_names] EXCEPT !.elems[top.i] = doc.keys[node][top.i]] = q
    BY <1>3, <1>7, <1>11, <1>13, <1>14
  <2> QED BY <1>1, <1>17, <2>1
<1>19. Changes(Reachable, {y}) /\ heap'[y] = q
  <2>1. y \in Reachable /\ y[1] = node BY <1>1, <1>9, <1>17, NewIsOwn
  <2> QED BY <1>1, <1>18, <2>1, AllocatesAndSets
<1>20. PICK S, C, h : S = Reachable /\ C = {y} /\ h = heap' OBVIOUS
<1>21. Changes(S, C) /\ h[out_names] = q BY <1>17, <1>19, <1>20
<1>22. PICK g : g = [f EXCEPT !.pc = "items", !.i = f.i + 1] OBVIOUS
<1>23. g.node = n /\ g.pc = "items" /\ g.i = i + 1 /\ SetTop(g)
  BY <1>1, <1>3, <1>4, <1>7, <1>22 DEF Frames
<1>24. d.kind[n] = "OBJECT" /\ d.items[n] # <<>> BY <1>1, <1>3, <1>4 DEF LevelOK
<1>25. LevelOK(d, o, g) BY <1>23, <1>24 DEF LevelOK, InFrame
<1>26. OutOf(g) = OutOf(f)
  <2>1. PICK b : b = [k \in 1 .. N |-> IF k < i + 1 THEN AddressOf(d, d.items[n][k]) ELSE None]
    OBVIOUS
  <2>2. b = [k \in 1 .. N |-> IF k < g.i \/ (k = g.i /\ g.pc = "key")
                               THEN AddressOf(d, d.items[n][k]) ELSE None]
    BY <1>23, <2>1
  <2>3. b = [k \in 1 .. N |-> IF k < f.i \/ (k = f.i /\ f.pc = "key")
                               THEN AddressOf(d, d.items[n][k]) ELSE None]
    BY <1>1, <1>3, <1>7, <2>1
  <2>4. g.pc \in {"names", "items", "key"} /\ f.pc \in {"names", "items", "key"}
    BY <1>1, <1>3, <1>23
  <2>5. PartOut(d, o, g) = RObject("list", b, <<>>) BY <1>6, <1>23, <2>2, <2>4, PartList
  <2>6. PartOut(d, o, f) = RObject("list", b, <<>>) BY <1>4, <1>6, <2>3, <2>4, PartList
  <2>7. HasOut(g) BY <1>23 DEF HasOut
  <2> QED BY <1>3, <1>8, <2>5, <2>6, <2>7 DEF OutOf
<1>27. NamesOf(g) = q
  <2>1. g.pc \in {"items", "key"} BY <1>23
  <2>2. e2 = [k \in 1 .. N |-> IF k < g.i THEN d.keys[n][k] ELSE None] BY <1>16, <1>23
  <2>3. PartNames(d, g) = RObject("vector", e2, <<>>)
    BY <1>6, <1>23, <2>1, <2>2, PartListNames
  <2>4. HasNames(g) BY <1>3, <1>23, <1>24 DEF HasNames
  <2> QED BY <1>3, <1>15, <2>3, <2>4 DEF NamesOf
<1>28. \A c \in Nat : VecOf(g, c) = VecOf(f, c)
  <2>1. \A c : ~HasColumn(g, c) /\ ~HasColumn(f, c)
    BY <1>1, <1>3, <1>23 DEF HasColumn
  <2> QED BY <2>1 DEF VecOf
<1>29. \A a \in C : Sensible(doc, a) BY <1>1, <1>17, <1>20, SensibleAre
<1>30. out \notin C /\ out_names \in C /\ \A c \in Nat : vec(c) \notin C /\ na(c) \notin C
  BY <1>17, <1>20 DEF out, out_names, vec, na
<1> QED BY <1>1, <1>2, <1>3, <1>20, <1>21, <1>23, <1>25, <1>26, <1>27, <1>28, <1>29, <1>30, Moves

LEMMA ReturnListResult ==
    ASSUME IInv, Contents, Nesting, ReturnList
    PROVE  Contents' /\ Nesting'
<1>1. /\ CallsInv /\ HeapInv /\ InUse /\ Running /\ UNCHANGED args
      /\ top.pc = "items" /\ top.i > Len(here) /\ Return(out)
  BY DEF IInv, ReturnList
<1>2. PICK d, n, o, f : d = doc /\ n = node /\ o = option /\ f = top OBVIOUS
<1>3. /\ IsDocument(d) /\ n \in nodes(d) /\ f \in Frames
      /\ f.node = n /\ LevelOK(d, o, f) /\ here = d.items[n]
  BY <1>1, <1>2, NodeFacts DEF here
<1>4. stack # <<>> BY <1>1 DEF CallsInv, Running
<1>5. PICK N \in Nat : N = Len(here) /\ DOMAIN d.items[n] = 1 .. N
  BY <1>1, <1>3, <1>4, TopFacts
<1>6. f.i = N + 1
  <2>1. f.i \in 1 .. N + 1 BY <1>1, <1>2, <1>4, <1>5, TopFacts
  <2> QED BY <1>1, <1>2, <1>5, <2>1
<1>7. /\ d.kind[n] \in {"ARRAY", "OBJECT"} /\ d.items[n] # <<>>
      /\ d.kind[n] = "ARRAY" => Level(d, o, n) = "list"
  BY <1>1, <1>2, <1>3 DEF LevelOK
<1>8. HasOwn(doc, node) BY <1>2, <1>7 DEF HasOwn
<1>9. HasOut(f) BY <1>1, <1>2 DEF HasOut
<1>10. out \in DOMAIN heap /\ out \in Reachable BY <1>1, <1>2, <1>9, TopHas
<1>11. PICK p : p = heap[out] OBVIOUS
<1>12. OutOf(f) = RObject("list", Items(d, n), <<>>)
  <2>1. Items(d, n) = [k \in 1 .. N |-> IF k < f.i \/ (k = f.i /\ f.pc = "key")
                                        THEN AddressOf(d, d.items[n][k]) ELSE None]
    BY <1>5, <1>6 DEF Items
  <2>2. f.pc \in {"names", "items", "key"} BY <1>1, <1>2
  <2>3. PartOut(d, o, f) = RObject("list", Items(d, n), <<>>)
    BY <1>3, <1>5, <2>1, <2>2, PartList
  <2> QED BY <1>2, <1>9, <2>3 DEF OutOf
<1>13. p = RObject("list", Items(d, n), <<>>)
  <2>1. p = Content(doc, option, f, out)
    BY <1>1, <1>2, <1>10, <1>11, NewIsOwn, TopContents
  <2> QED BY <1>2, <1>3, <1>12, <2>1, ContentIs
<1>14. \A c \in Nat : VecOf(f, c) = DoneColumn(d, o, n, c)
  <2>1. \A c : ~HasColumn(f, c) BY <1>1, <1>2 DEF HasColumn
  <2> QED BY <1>2, <2>1 DEF VecOf
<1>15. NamesOf(f) = DoneNames(d, n)
  <2>1. CASE d.kind[n] # "OBJECT"
    <3>1. ~HasNames(f) BY <1>1, <1>2, <1>3, <2>1 DEF HasNames
    <3> QED BY <1>2, <3>1 DEF NamesOf
  <2>2. CASE d.kind[n] = "OBJECT"
    <3>1. HasNames(f) BY <1>1, <1>2, <1>3, <2>2 DEF HasNames
    <3>2. d.keys[n] \in Seq(Key) /\ Len(d.keys[n]) = N
      BY <1>3, <1>5, <2>2 DEF IsDocument
    <3>3. d.keys[n] = [k \in 1 .. N |-> IF k < f.i THEN d.keys[n][k] ELSE None]
      BY <1>6, <3>2
    <3>4. f.pc \in {"items", "key"} BY <1>1, <1>2
    <3>5. PICK e : e = d.keys[n] OBVIOUS
    <3>6. e = [k \in 1 .. N |-> IF k < f.i THEN d.keys[n][k] ELSE None] BY <3>3, <3>5
    <3>7. PartNames(d, f) = RObject("vector", e, <<>>)
      BY <1>3, <1>5, <3>4, <3>6, PartListNames
    <3> QED BY <1>2, <2>2, <3>1, <3>5, <3>7 DEF NamesOf, DoneNames
  <2> QED BY <2>1, <2>2
<1>16. CASE d.kind[n] = "OBJECT"
  <2>1. AllocateAndSet(out, [heap[out] EXCEPT !.attr = out_names])
    BY <1>2, <1>16 DEF ReturnList
  <2>2. PICK y, q : y = out /\ q = [p EXCEPT !.attr = out_names] OBVIOUS
  <2>3. Changes(Reachable, {y}) /\ heap'[y] = q
    <3>1. y \in Reachable /\ y[1] = node BY <1>1, <1>10, <2>2, NewIsOwn
    <3>2. AllocateAndSet(y, q) BY <1>11, <2>1, <2>2
    <3> QED BY <1>1, <3>1, <3>2, AllocatesAndSets
  <2>4. q = RObject("list", Items(d, n), OwnNames(n))
    BY <1>2, <1>13, <2>2 DEF RObject, OwnNames, out_names
  <2>5. q = DoneOut(d, o, n) BY <1>16, <2>4 DEF DoneOut
  <2>6. PICK S, C : S = Reachable /\ C = {y} OBVIOUS
  <2>7. Changes(S, C) /\ C \subseteq {out} /\ out \in C /\ heap'[out] = DoneOut(d, o, n)
    BY <2>2, <2>3, <2>5, <2>6
  <2> QED BY <1>1, <1>2, <1>8, <1>14, <1>15, <2>7, Ends
<1>17. CASE d.kind[n] = "ARRAY"
  <2>1. UNCHANGED heap BY <1>2, <1>17 DEF ReturnList
  <2>2. PICK S, C : S = DOMAIN heap /\ C = {} OBVIOUS
  <2>3. Changes(S, C) /\ C \subseteq {out} /\ out \notin C BY <1>1, <2>1, <2>2, Unchanged
  <2>4. OutOf(f) = DoneOut(d, o, n) BY <1>7, <1>12, <1>17 DEF DoneOut
  <2> QED BY <1>1, <1>2, <1>8, <1>14, <1>15, <2>3, <2>4, Ends
<1> QED BY <1>7, <1>16, <1>17

-----------------------------------------------------------------------------
(***************************************************************************)
(* Data frames                                                             *)
(***************************************************************************)

(* What is known in a call that builds a data frame. *)
LEMMA FrameContents ==
    ASSUME CallsInv, HeapInv, InUse, Running, Contents, Nesting, top.pc \in InFrame,
           NEW d, NEW n, NEW o, NEW f, d = doc, n = node, o = option, f = top
    PROVE  /\ IsDocument(d) /\ o \in Option /\ opts = o /\ n \in nodes(d) /\ n \in Nat
           /\ f \in Frames /\ FrameOK(f) /\ f.node = n /\ here = d.items[n] /\ cols = columns(d, n)
           /\ d.kind[n] = "ARRAY" /\ d.items[n] # <<>> /\ Level(d, o, n) = "data_frame"
           /\ IsTable(d, n) /\ HasOwn(d, n)
           /\ Len(kinds) \in Nat /\ DOMAIN cols = 1 .. Len(kinds)
           /\ \A c \in DOMAIN cols : /\ kinds[c] = column_kind(d, o, n, cols[c])
                                     /\ kinds[c] = "list" <=> is_list(d, o, n, c)
           /\ \A c \in Nat : vec(c) \in DOMAIN heap => c \in DOMAIN cols
           /\ out \in Reachable /\ out \in DOMAIN heap /\ heap[out] = PartOut(d, o, f)
           /\ OutOf(f) = PartOut(d, o, f)
           /\ NamesOf(f) = DoneNames(d, n)
           /\ \A c \in DOMAIN cols : HasColumn(f, c) =>
                /\ vec(c) \in Reachable /\ vec(c) \in DOMAIN heap
                /\ heap[vec(c)] = PartColumn(d, o, f, c)
<1>1. /\ IsDocument(d) /\ o \in Option /\ opts = o /\ n \in nodes(d) /\ n \in Nat
      /\ f \in Frames /\ f.node = n /\ here = d.items[n] /\ cols = columns(d, n)
      /\ LevelOK(d, o, f)
  BY NodeFacts DEF here, cols
<1>2. FrameOK(f) BY TopFacts DEF CallsInv, Running
<1>3. d.kind[n] = "ARRAY" /\ d.items[n] # <<>> /\ Level(d, o, n) = "data_frame"
  BY <1>1 DEF LevelOK, InFrame
<1>4. IsTable(d, n) BY <1>1, <1>2 DEF FrameOK
<1>5. HasOwn(d, n) BY <1>3 DEF HasOwn
<1>6. HasOut(f) BY DEF HasOut
<1>7. /\ out \in Reachable /\ out \in DOMAIN heap
      /\ kinds = [c \in DOMAIN cols |-> kind_of(node, c)]
      /\ Len(kinds) \in Nat /\ DOMAIN cols = 1 .. Len(kinds)
      /\ \A c \in DOMAIN cols : HasColumn(f, c) =>
           vec(c) \in Reachable /\ vec(c) \in DOMAIN heap
  BY <1>6, TopHas
<1>8. ASSUME NEW c \in DOMAIN cols
      PROVE  /\ kinds[c] = column_kind(d, o, n, cols[c])
             /\ kinds[c] = "list" <=> is_list(d, o, n, c)
  <2>1. kinds[c] = kind_of(node, c) BY <1>7
  <2>2. kind_of(node, c) = column_kind(d, o, n, cols[c]) BY DEF kind_of, cols_of, cols
  <2> QED BY <1>1, <2>1, <2>2 DEF is_list
<1>9. ASSUME NEW c \in Nat, vec(c) \in DOMAIN heap PROVE c \in DOMAIN cols
  <2>1. PICK a : a = vec(c) OBVIOUS
  <2>2. ObjectOK(a, heap[a]) BY <1>9, <2>1 DEF HeapInv
  <2>3. a[1] = node /\ a[2] = "vec" /\ a[3] = c BY <2>1, NewIsOwn
  <2> QED BY <2>2, <2>3 DEF ObjectOK, cols, cols_of
<1>10. heap[out] = PartOut(d, o, f)
  <2>1. heap[out] = Content(doc, option, f, out) BY <1>7, NewIsOwn, TopContents
  <2> QED BY <1>1, <1>6, <2>1, ContentIs DEF OutOf
<1>11. NamesOf(f) = DoneNames(d, n)
  <2>1. PartNames(d, f) = DoneNames(d, n) BY <1>1 DEF PartNames
  <2> QED BY <2>1 DEF NamesOf
<1>12. ASSUME NEW c \in DOMAIN cols, HasColumn(f, c)
       PROVE  heap[vec(c)] = PartColumn(d, o, f, c)
  <2>1. PICK a : a = vec(c) OBVIOUS
  <2>2. a \in DOMAIN heap /\ a[1] = node BY <1>7, <1>12, <2>1, NewIsOwn
  <2>3. heap[a] = Content(doc, option, f, a) BY <2>2, TopContents
  <2>4. Content(doc, option, f, a) = VecOf(f, c) BY <1>1, <2>1, ContentIs
  <2> QED BY <1>12, <2>1, <2>3, <2>4 DEF VecOf
<1> QED BY <1>1, <1>2, <1>3, <1>4, <1>5, <1>6, <1>7, <1>8, <1>9, <1>10, <1>11, <1>12 DEF OutOf

(* A data frame while its columns are built. *)
LEMMA PartFrame ==
    ASSUME NEW d, NEW n, NEW o, NEW f, f.node = n, f.pc \in InFrame,
           NEW D, DOMAIN columns(d, n) = D,
           NEW e, e = [c \in D |-> IF HasColumn(f, c) THEN <<n, "vec", c>> ELSE None]
    PROVE  PartOut(d, o, f) = RObject("data.frame", e, <<>>)
BY DEF PartOut, InFrame

(* A column before the rows are read. *)
LEMMA FreshColumn ==
    ASSUME NEW d, NEW n, NEW o, NEW f, f.node = n, f.pc \in {"columns", "missing"}, NEW c,
           NEW e, e = [i \in DOMAIN d.items[n] |->
                         IF f.pc = "missing" /\ c = f.j THEN None ELSE Missing(d, o, n, c)]
    PROVE  PartColumn(d, o, f, c) = RObject(ColumnClass(d, o, n, c), e, <<>>)
BY DEF PartColumn

LEMMA AllocateFrameResult ==
    ASSUME IInv, Contents, Nesting, AllocateFrame
    PROVE  Contents' /\ Nesting'
<1>1. /\ CallsInv /\ HeapInv /\ InUse /\ Running /\ UNCHANGED <<args, ret, status>>
      /\ top.pc = "frame"
      /\ Allocate(out, RObject("data.frame", [j \in DOMAIN cols |-> None], <<>>))
  BY DEF IInv, AllocateFrame
<1>2. ret = None
  <2>1. ~Waits(top) BY <1>1 DEF Waits
  <2> QED BY <1>1, <2>1, NothingReturned
<1>3. PICK d, n, o, f : d = doc /\ n = node /\ o = option /\ f = top OBVIOUS
<1>4. /\ IsDocument(d) /\ n \in nodes(d) /\ f \in Frames
      /\ f.node = n /\ LevelOK(d, o, f) /\ cols = columns(d, n)
  BY <1>1, <1>3, NodeFacts DEF cols
<1>5. PICK ks : ks = [j \in DOMAIN cols |-> column_kind(doc, opts, node, cols[j])] OBVIOUS
<1>6. PICK g : g = [f EXCEPT !.pc = "frame_names", !.kinds = ks] OBVIOUS
<1>7. /\ f.i = 1 /\ d.kind[n] = "ARRAY" /\ d.items[n] # <<>> /\ Level(d, o, n) = "data_frame"
  BY <1>1, <1>3, <1>4 DEF LevelOK
<1>8. g.pc = "frame_names" /\ g.node = n /\ g.i = 1 /\ SetTop(g)
  BY <1>3, <1>4, <1>5, <1>6, <1>7 DEF AllocateFrame, Frames
<1>9. LevelOK(d, o, g) BY <1>7, <1>8 DEF LevelOK, InFrame
<1>10. PICK x, obj : x = out /\ obj = RObject("data.frame", [j \in DOMAIN cols |-> None], <<>>)
  OBVIOUS
<1>11. Changes(Reachable, {x}) /\ heap'[x] = obj
  BY <1>1, <1>10, Allocates1, NewIsOwn
<1>12. PICK S, C, h : S = Reachable /\ C = {x} /\ h = heap' OBVIOUS
<1>13. Changes(S, C) /\ h[out] = obj BY <1>10, <1>11, <1>12
<1>14. HasOwn(doc, node) BY <1>3, <1>7 DEF HasOwn
<1>15. \A a \in C : Sensible(doc, a) BY <1>1, <1>10, <1>12, <1>14, SensibleAre
<1>16. /\ OutOf(g) = obj
       /\ NamesOf(g) = NamesOf(f)
       /\ \A c \in Nat : VecOf(g, c) = VecOf(f, c)
  <2>1. /\ HasOut(g) /\ ~HasNames(g) /\ ~HasNames(f)
        /\ \A c : ~HasColumn(g, c) /\ ~HasColumn(f, c)
    BY <1>1, <1>3, <1>8 DEF HasOut, HasNames, HasColumn, InFrame
  <2>2. PICK D, e : D = DOMAIN cols /\ e = [j \in D |-> None] OBVIOUS
  <2>3. e = [c \in D |-> IF HasColumn(g, c) THEN <<n, "vec", c>> ELSE None] BY <2>1, <2>2
  <2>4. g.pc \in InFrame /\ DOMAIN columns(d, n) = D BY <1>4, <1>8, <2>2 DEF InFrame
  <2>5. PartOut(d, o, g) = RObject("data.frame", e, <<>>) BY <1>8, <2>3, <2>4, PartFrame
  <2> QED BY <1>3, <1>10, <2>1, <2>2, <2>5 DEF OutOf, NamesOf, VecOf
<1>17. out \in C /\ out_names \notin C /\ \A c \in Nat : vec(c) \notin C /\ na(c) \notin C
  BY <1>1, <1>10, <1>12, NewIsOwn
<1> QED BY <1>1, <1>2, <1>3, <1>8, <1>9, <1>12, <1>13, <1>15, <1>16, <1>17, Moves

LEMMA AllocateFrameNamesResult ==
    ASSUME IInv, Contents, Nesting, AllocateFrameNames
    PROVE  Contents' /\ Nesting'
<1>1. /\ CallsInv /\ HeapInv /\ InUse /\ Running /\ UNCHANGED <<args, ret, status>>
      /\ top.pc = "frame_names" /\ Allocate(out_names, RObject("vector", cols, <<>>))
      /\ Goto("columns") /\ top.pc \in InFrame
  BY DEF IInv, AllocateFrameNames, InFrame
<1>2. ret = None
  <2>1. ~Waits(top) BY <1>1 DEF Waits
  <2> QED BY <1>1, <2>1, NothingReturned
<1>3. PICK d, n, o, f : d = doc /\ n = node /\ o = option /\ f = top OBVIOUS
<1>4. /\ f \in Frames /\ FrameOK(f) /\ f.node = n /\ cols = columns(d, n)
      /\ d.kind[n] = "ARRAY" /\ d.items[n] # <<>> /\ Level(d, o, n) = "data_frame"
      /\ HasOwn(d, n) /\ Len(kinds) \in Nat /\ DOMAIN cols = 1 .. Len(kinds)
      /\ OutOf(f) = PartOut(d, o, f)
      /\ \A c \in Nat : vec(c) \in DOMAIN heap => c \in DOMAIN cols
  BY <1>1, <1>3, FrameContents
<1>5. PICK g : g = [f EXCEPT !.pc = "columns"] OBVIOUS
<1>6. LevelOK(d, o, f) BY <1>1, <1>3, NodeFacts
<1>7. f.i = 1 /\ f.j = 1 BY <1>1, <1>3, <1>4, <1>6 DEF LevelOK, FrameOK
<1>8. g.node = n /\ g.pc = "columns" /\ g.i = 1 /\ g.j = 1 /\ SetTop(g)
  BY <1>1, <1>3, <1>4, <1>5, <1>7 DEF Frames, Goto
<1>9. LevelOK(d, o, g) BY <1>4, <1>8 DEF LevelOK, InFrame
<1>10. PICK x, obj : x = out_names /\ obj = RObject("vector", cols, <<>>) OBVIOUS
<1>11. Changes(Reachable, {x}) /\ heap'[x] = obj
  BY <1>1, <1>10, Allocates1, NewIsOwn
<1>12. PICK S, C, h : S = Reachable /\ C = {x} /\ h = heap' OBVIOUS
<1>13. Changes(S, C) /\ h[out_names] = obj BY <1>10, <1>11, <1>12
<1>14. \A a \in C : Sensible(doc, a) BY <1>1, <1>10, <1>12, SensibleAre
<1>15. /\ \A c \in DOMAIN cols : ~HasColumn(g, c)
       /\ \A c : ~HasColumn(f, c)
  BY <1>1, <1>3, <1>4, <1>8 DEF HasColumn
<1>16. OutOf(g) = OutOf(f)
  <2>1. PICK D, e : D = DOMAIN cols /\ e = [c \in D |-> None] OBVIOUS
  <2>2. /\ e = [c \in D |-> IF HasColumn(g, c) THEN <<n, "vec", c>> ELSE None]
        /\ e = [c \in D |-> IF HasColumn(f, c) THEN <<n, "vec", c>> ELSE None]
    BY <1>15, <2>1
  <2>3. g.pc \in InFrame /\ f.pc \in InFrame /\ DOMAIN columns(d, n) = D
    BY <1>1, <1>3, <1>4, <1>8, <2>1 DEF InFrame
  <2>4. /\ PartOut(d, o, g) = RObject("data.frame", e, <<>>)
        /\ PartOut(d, o, f) = RObject("data.frame", e, <<>>)
    BY <1>4, <1>8, <2>2, <2>3, PartFrame
  <2>5. HasOut(g) BY <2>3 DEF HasOut
  <2> QED BY <1>3, <1>4, <2>4, <2>5 DEF OutOf
<1>17. NamesOf(g) = obj
  <2>1. HasNames(g) /\ g.pc \in InFrame BY <1>8 DEF HasNames, InFrame
  <2>2. PartNames(d, g) = DoneNames(d, n) BY <1>8, <2>1 DEF PartNames
  <2>3. DoneNames(d, n) = obj BY <1>4, <1>10 DEF DoneNames
  <2> QED BY <1>3, <2>1, <2>2, <2>3 DEF NamesOf
<1>18. \A c \in Nat : vec(c) \in DOMAIN heap => VecOf(g, c) = VecOf(f, c)
  BY <1>4, <1>15 DEF VecOf
<1>19. out \notin C /\ out_names \in C /\ \A c \in Nat : vec(c) \notin C /\ na(c) \notin C
  BY <1>10, <1>12 DEF out, out_names, vec, na
<1> QED BY <1>1, <1>2, <1>3, <1>8, <1>9, <1>12, <1>13, <1>14, <1>16, <1>17, <1>18, <1>19, Moves

LEMMA BuildColumnResult ==
    ASSUME IInv, Contents, Nesting, BuildColumn
    PROVE  Contents' /\ Nesting'
<1>1. /\ CallsInv /\ HeapInv /\ InUse /\ Running /\ UNCHANGED <<args, ret, status>>
      /\ top.pc = "columns" /\ top.j <= Len(kinds) /\ top.pc \in InFrame
  BY DEF IInv, BuildColumn, InFrame
<1>2. ret = None
  <2>1. ~Waits(top) BY <1>1 DEF Waits
  <2> QED BY <1>1, <2>1, NothingReturned
<1>3. PICK d, n, o, f : d = doc /\ n = node /\ o = option /\ f = top OBVIOUS
<1>4. /\ f \in Frames /\ f.node = n /\ here = d.items[n] /\ cols = columns(d, n)
      /\ d.kind[n] = "ARRAY" /\ d.items[n] # <<>> /\ Level(d, o, n) = "data_frame"
      /\ HasOwn(d, n) /\ Len(kinds) \in Nat /\ DOMAIN cols = 1 .. Len(kinds)
      /\ \A c \in DOMAIN cols : kinds[c] = "list" <=> is_list(d, o, n, c)
      /\ out \in Reachable /\ out \in DOMAIN heap
      /\ heap[out] = PartOut(d, o, f) /\ NamesOf(f) = DoneNames(d, n)
      /\ \A c \in Nat : vec(c) \in DOMAIN heap => c \in DOMAIN cols
  BY <1>1, <1>3, FrameContents
<1>i. f.i = 1
  <2>1. LevelOK(d, o, f) BY <1>1, <1>3, NodeFacts
  <2> QED BY <1>1, <1>3, <2>1 DEF LevelOK
<1>5. PICK j \in DOMAIN cols : j = f.j /\ j \in Nat \ {0}
  <2>1. f.j \in Nat \ {0} BY <1>4 DEF Frames
  <2> QED BY <1>1, <1>3, <1>4, <2>1
<1>6. PICK col, v : col = Column(j) /\ v = vec(j) OBVIOUS
<1>7. PICK p, q : p = heap[out] /\ q = Entered(p, j, v) OBVIOUS
<1>8. heap' = With(v, col, [Collected EXCEPT ![out].elems[j] = v])
  BY <1>3, <1>5, <1>6 DEF BuildColumn
<1>9. v # out /\ v # out_names /\ v[1] = node BY <1>6 DEF vec, out, out_names
<1>10. /\ DOMAIN heap' = Reachable \cup {v, out}
       /\ heap'[v] = col /\ heap'[out] = q
       /\ \A a \in Reachable \ {v, out} : heap'[a] = heap[a]
       /\ heap' = [a \in Reachable \cup {v, out} |-> heap'[a]]
  <2>1. PICK w : w = [Collected EXCEPT ![out].elems[j] = v] OBVIOUS
  <2>2. /\ DOMAIN w = Reachable /\ w[out] = q
        /\ \A a \in Reachable \ {out} : w[a] = heap[a]
    BY <1>1, <1>4, <1>7, <2>1, CollectedFacts DEF Entered
  <2>3. heap' = [a \in {v} \cup Reachable |-> IF a = v THEN col ELSE w[a]]
    BY <1>8, <2>1, <2>2 DEF With
  <2>4. {v} \cup Reachable = Reachable \cup {v, out} BY <1>4
  <2> QED BY <1>4, <1>9, <2>2, <2>3, <2>4
<1>11. Changes(Reachable, {v, out})
  BY <1>1, <1>9, <1>10, NewIsOwn, CollectedFacts DEF Changes
<1>12. PICK g : g = IF kinds[j] = "list" THEN [f EXCEPT !.pc = "missing"]
                    ELSE [f EXCEPT !.j = f.j + 1]
  OBVIOUS
<1>13. /\ g.node = n /\ g.i = 1
       /\ \/ g.pc = "missing" /\ g.j = j /\ is_list(d, o, n, j)
          \/ g.pc = "columns" /\ g.j = j + 1 /\ ~is_list(d, o, n, j)
  BY <1>1, <1>3, <1>4, <1>5, <1>12, <1>i DEF Frames
<1>14. SetTop(g)
  <2>1. IF kinds[f.j] = "list" THEN SetTop([f EXCEPT !.pc = "missing"])
        ELSE SetTop([f EXCEPT !.j = f.j + 1])
    BY <1>3 DEF BuildColumn, Goto
  <2> QED BY <1>5, <1>12, <2>1
<1>15. LevelOK(d, o, g) BY <1>4, <1>13 DEF LevelOK, InFrame
<1>16. g.pc \in {"columns", "missing"} /\ g.pc \in InFrame /\ HasOut(g) /\ HasNames(g)
  BY <1>13 DEF InFrame, HasOut, HasNames
<1>17. /\ \A c \in Nat : HasColumn(f, c) <=> c < j
       /\ \A c \in Nat : HasColumn(g, c) <=> c < j \/ c = j
  BY <1>1, <1>3, <1>5, <1>13 DEF HasColumn
<1>18. PICK D : D = DOMAIN cols /\ D \subseteq Nat BY <1>4
<1>19. OutOf(g) = q
  <2>1. PICK e : e = [c \in D |-> IF HasColumn(f, c) THEN <<n, "vec", c>> ELSE None] OBVIOUS
  <2>2. p = RObject("data.frame", e, <<>>)
    BY <1>1, <1>3, <1>4, <1>7, <1>18, <2>1, PartFrame
  <2>3. PICK e2 : e2 = [e EXCEPT ![j] = v] OBVIOUS
  <2>4. q = RObject("data.frame", e2, <<>>) BY <1>7, <2>2, <2>3 DEF Entered, RObject
  <2>5. v = <<n, "vec", j>> BY <1>3, <1>6 DEF vec
  <2>6. e2 = [c \in D |-> IF HasColumn(g, c) THEN <<n, "vec", c>> ELSE None]
    BY <1>5, <1>17, <1>18, <2>1, <2>3, <2>5
  <2>7. PartOut(d, o, g) = RObject("data.frame", e2, <<>>)
    BY <1>4, <1>13, <1>16, <1>18, <2>6, PartFrame
  <2> QED BY <1>3, <1>16, <2>4, <2>7 DEF OutOf
<1>20. NamesOf(g) = NamesOf(f)
  <2>1. PartNames(d, g) = DoneNames(d, n) BY <1>13, <1>16 DEF PartNames
  <2> QED BY <1>3, <1>4, <1>16, <2>1 DEF NamesOf
<1>21. VecOf(g, j) = col
  <2>1. HasColumn(g, j) BY <1>5, <1>17
  <2>2. CASE is_list(d, o, n, j)
    <3>1. g.pc = "missing" /\ g.j = j BY <1>13, <2>2
    <3>2. PICK e : e = [i \in DOMAIN d.items[n] |-> None] OBVIOUS
    <3>3. e = [i \in DOMAIN d.items[n] |->
                 IF g.pc = "missing" /\ j = g.j THEN None ELSE Missing(d, o, n, j)]
      BY <3>1, <3>2
    <3>4. PartColumn(d, o, g, j) = RObject(ColumnClass(d, o, n, j), e, <<>>)
      BY <1>13, <1>16, <3>3, FreshColumn
    <3>5. Len(here) \in Nat /\ DOMAIN here = 1 .. Len(here)
      BY <1>1, TopFacts DEF CallsInv, Running
    <3>6. col = RObject("list", e, <<>>)
      BY <1>4, <1>6, <2>2, <3>2, <3>5 DEF Column, NewList
    <3> QED BY <1>3, <2>1, <2>2, <3>4, <3>6 DEF VecOf, ColumnClass
  <2>3. CASE ~is_list(d, o, n, j)
    <3>1. g.pc = "columns" BY <1>13, <2>3
    <3>2. PICK e : e = [i \in DOMAIN d.items[n] |-> NA] OBVIOUS
    <3>3. e = [i \in DOMAIN d.items[n] |->
                 IF g.pc = "missing" /\ j = g.j THEN None ELSE Missing(d, o, n, j)]
      BY <2>3, <3>1, <3>2 DEF Missing
    <3>4. PartColumn(d, o, g, j) = RObject(ColumnClass(d, o, n, j), e, <<>>)
      BY <1>13, <1>16, <3>3, FreshColumn
    <3>5. col = RObject("vector", e, <<>>)
      BY <1>4, <1>6, <2>3, <3>2 DEF Column
    <3> QED BY <1>3, <2>1, <2>3, <3>4, <3>5 DEF VecOf, ColumnClass
  <2> QED BY <2>2, <2>3
<1>22. ASSUME NEW c \in Nat, c # j, vec(c) \in DOMAIN heap PROVE VecOf(g, c) = VecOf(f, c)
  <2>1. HasColumn(g, c) <=> HasColumn(f, c) BY <1>17, <1>22
  <2>2. PICK e : e = [i \in DOMAIN d.items[n] |-> Missing(d, o, n, c)] OBVIOUS
  <2>3. /\ e = [i \in DOMAIN d.items[n] |->
                  IF g.pc = "missing" /\ c = g.j THEN None ELSE Missing(d, o, n, c)]
        /\ e = [i \in DOMAIN d.items[n] |->
                  IF f.pc = "missing" /\ c = f.j THEN None ELSE Missing(d, o, n, c)]
    BY <1>1, <1>3, <1>13, <1>22, <2>2
  <2>4. /\ PartColumn(d, o, g, c) = RObject(ColumnClass(d, o, n, c), e, <<>>)
        /\ PartColumn(d, o, f, c) = RObject(ColumnClass(d, o, n, c), e, <<>>)
    BY <1>1, <1>3, <1>4, <1>13, <1>16, <2>3, FreshColumn
  <2> QED BY <1>3, <2>1, <2>4 DEF VecOf
<1>23. PICK S, C, h : S = Reachable /\ C = {v, out} /\ h = heap' OBVIOUS
<1>24. Changes(S, C) /\ h[out] = OutOf(g) /\ h[v] = VecOf(g, j)
  BY <1>10, <1>11, <1>19, <1>21, <1>23
<1>25. /\ out \in C /\ out_names \notin C
       /\ \A c \in Nat : vec(c) \in C <=> c = j
       /\ \A c \in Nat : na(c) \notin C
  BY <1>6, <1>9, <1>23 DEF out, out_names, vec, na
<1>26. \A c \in Nat : IF vec(c) \in C THEN h[vec(c)] = VecOf(g, c)
                      ELSE vec(c) \in DOMAIN heap => VecOf(g, c) = VecOf(f, c)
  BY <1>5, <1>6, <1>22, <1>24, <1>25
<1>27. \A a \in C : Sensible(doc, a)
  <2>1. IsTable(doc, node) BY <1>1, FrameContents
  <2> QED BY <1>1, <1>3, <1>4, <1>5, <1>6, <1>23, <2>1, SensibleAre
<1> QED BY <1>1, <1>2, <1>3, <1>13, <1>14, <1>15, <1>20, <1>23, <1>24, <1>25, <1>26, <1>27, Moves

LEMMA FillMissingResult ==
    ASSUME IInv, Contents, Nesting, FillMissing
    PROVE  Contents' /\ Nesting'
<1>1. /\ CallsInv /\ HeapInv /\ InUse /\ Running /\ UNCHANGED <<args, ret, status>>
      /\ top.pc = "missing" /\ top.pc \in InFrame
  BY DEF IInv, FillMissing, InFrame
<1>2. ret = None
  <2>1. ~Waits(top) BY <1>1 DEF Waits
  <2> QED BY <1>1, <2>1, NothingReturned
<1>3. PICK d, n, o, f : d = doc /\ n = node /\ o = option /\ f = top OBVIOUS
<1>4. /\ f \in Frames /\ FrameOK(f) /\ f.node = n /\ here = d.items[n] /\ cols = columns(d, n)
      /\ d.kind[n] = "ARRAY" /\ d.items[n] # <<>> /\ Level(d, o, n) = "data_frame"
      /\ HasOwn(d, n) /\ Len(kinds) \in Nat /\ DOMAIN cols = 1 .. Len(kinds)
      /\ OutOf(f) = PartOut(d, o, f) /\ NamesOf(f) = DoneNames(d, n)
      /\ \A c \in DOMAIN cols : HasColumn(f, c) =>
           /\ vec(c) \in Reachable /\ vec(c) \in DOMAIN heap
           /\ heap[vec(c)] = PartColumn(d, o, f, c)
  BY <1>1, <1>3, FrameContents
<1>i. f.i = 1
  <2>1. LevelOK(d, o, f) BY <1>1, <1>3, NodeFacts
  <2> QED BY <1>1, <1>3, <2>1 DEF LevelOK
<1>5. PICK j \in DOMAIN cols : j = f.j /\ j \in Nat \ {0}
  <2>1. f.j \in Nat \ {0} BY <1>4 DEF Frames
  <2>2. f.j <= Len(kinds) BY <1>1, <1>3, <1>4 DEF FrameOK, kinds
  <2> QED BY <1>4, <2>1, <2>2
<1>6. PICK v, m : v = vec(j) /\ m = na(j) OBVIOUS
<1>7. /\ \A c \in Nat : HasColumn(f, c) <=> c <= j
  BY <1>1, <1>3, <1>5 DEF HasColumn
<1>8. v \in Reachable /\ v \in DOMAIN heap /\ heap[v] = PartColumn(d, o, f, j)
  BY <1>4, <1>5, <1>6, <1>7
<1>9. PICK p, e : p = heap[v] /\ e = [i \in DOMAIN here |-> m] OBVIOUS
<1>10. PICK q : q = [p EXCEPT !.elems = e] OBVIOUS
<1>11. heap' = With(m, MissingCell, [Collected EXCEPT ![v].elems = e])
  BY <1>3, <1>5, <1>6, <1>9 DEF FillMissing
<1>12. v # m /\ v[1] = node /\ m[1] = node BY <1>6 DEF vec, na
<1>13. /\ DOMAIN heap' = Reachable \cup {v, m}
       /\ heap'[m] = MissingCell /\ heap'[v] = q
       /\ \A a \in Reachable \ {v, m} : heap'[a] = heap[a]
       /\ heap' = [a \in Reachable \cup {v, m} |-> heap'[a]]
  <2>1. PICK w : w = [Collected EXCEPT ![v].elems = e] OBVIOUS
  <2>2. /\ DOMAIN w = Reachable /\ w[v] = q
        /\ \A a \in Reachable \ {v} : w[a] = heap[a]
    BY <1>1, <1>8, <1>9, <1>10, <2>1, CollectedFacts
  <2>3. PICK x : x = MissingCell OBVIOUS
  <2>4. heap' = [a \in {m} \cup Reachable |-> IF a = m THEN x ELSE w[a]]
    BY <1>11, <2>1, <2>2, <2>3 DEF With
  <2>5. {m} \cup Reachable = Reachable \cup {v, m} BY <1>8
  <2> QED BY <1>8, <1>12, <2>2, <2>3, <2>4, <2>5
<1>14. Changes(Reachable, {v, m})
  BY <1>1, <1>12, <1>13, CollectedFacts DEF Changes
<1>15. PICK g : g = [f EXCEPT !.pc = "columns", !.j = f.j + 1] OBVIOUS
<1>16. g.node = n /\ g.i = 1 /\ g.pc = "columns" /\ g.j = j + 1
  BY <1>4, <1>5, <1>15, <1>i DEF Frames
<1>17. SetTop(g) BY <1>3, <1>4, <1>15 DEF FillMissing, Frames
<1>18. LevelOK(d, o, g) BY <1>4, <1>16 DEF LevelOK, InFrame
<1>19. g.pc \in {"columns", "missing"} /\ g.pc \in InFrame /\ HasOut(g) /\ HasNames(g)
  BY <1>16 DEF InFrame, HasOut, HasNames
<1>20. f.pc \in {"columns", "missing"} /\ f.pc \in InFrame BY <1>1, <1>3
<1>21. \A c \in Nat : HasColumn(g, c) <=> HasColumn(f, c)
  BY <1>5, <1>7, <1>16 DEF HasColumn
<1>22. PICK D : D = DOMAIN cols /\ D \subseteq Nat BY <1>4
<1>23. OutOf(g) = OutOf(f)
  <2>1. PICK b : b = [c \in D |-> IF HasColumn(f, c) THEN <<n, "vec", c>> ELSE None] OBVIOUS
  <2>2. b = [c \in D |-> IF HasColumn(g, c) THEN <<n, "vec", c>> ELSE None]
    BY <1>21, <1>22, <2>1
  <2>3. DOMAIN columns(d, n) = D BY <1>4, <1>22
  <2>4. PartOut(d, o, f) = RObject("data.frame", b, <<>>)
    BY <1>4, <1>20, <2>1, <2>3, PartFrame
  <2>5. PartOut(d, o, g) = RObject("data.frame", b, <<>>)
    BY <1>16, <1>19, <2>2, <2>3, PartFrame
  <2> QED BY <1>3, <1>4, <1>19, <2>4, <2>5 DEF OutOf
<1>24. NamesOf(g) = NamesOf(f)
  <2>1. PartNames(d, g) = DoneNames(d, n) BY <1>16, <1>19 DEF PartNames
  <2> QED BY <1>3, <1>4, <1>19, <2>1 DEF NamesOf
<1>25. is_list(d, o, n, j)
  <2>1. LevelOK(d, o, f) BY <1>1, <1>3, NodeFacts
  <2> QED BY <1>1, <1>3, <1>4, <1>5, <2>1 DEF LevelOK
<1>26. VecOf(g, j) = q
  <2>1. HasColumn(g, j) BY <1>5, <1>7, <1>21
  <2>2. m = Missing(d, o, n, j) BY <1>3, <1>6, <1>25 DEF Missing, na
  <2>3. PICK b : b = [i \in DOMAIN d.items[n] |-> None] OBVIOUS
  <2>4. b = [i \in DOMAIN d.items[n] |->
               IF f.pc = "missing" /\ j = f.j THEN None ELSE Missing(d, o, n, j)]
    BY <1>1, <1>3, <1>5, <2>3
  <2>5. p = RObject(ColumnClass(d, o, n, j), b, <<>>)
    BY <1>4, <1>8, <1>9, <1>20, <2>4, FreshColumn
  <2>6. q = RObject(ColumnClass(d, o, n, j), e, <<>>) BY <1>10, <2>5 DEF RObject
  <2>7. e = [i \in DOMAIN d.items[n] |->
               IF g.pc = "missing" /\ j = g.j THEN None ELSE Missing(d, o, n, j)]
    BY <1>4, <1>9, <1>16, <2>2
  <2>8. PartColumn(d, o, g, j) = RObject(ColumnClass(d, o, n, j), e, <<>>)
    BY <1>16, <1>19, <2>7, FreshColumn
  <2> QED BY <1>3, <2>1, <2>6, <2>8 DEF VecOf
<1>27. ASSUME NEW c \in Nat, c # j PROVE VecOf(g, c) = VecOf(f, c)
  <2>1. HasColumn(g, c) <=> HasColumn(f, c) BY <1>21
  <2>2. PICK b : b = [i \in DOMAIN d.items[n] |-> Missing(d, o, n, c)] OBVIOUS
  <2>3. /\ b = [i \in DOMAIN d.items[n] |->
                  IF g.pc = "missing" /\ c = g.j THEN None ELSE Missing(d, o, n, c)]
        /\ b = [i \in DOMAIN d.items[n] |->
                  IF f.pc = "missing" /\ c = f.j THEN None ELSE Missing(d, o, n, c)]
    BY <1>5, <1>16, <1>27, <2>2
  <2>4. /\ PartColumn(d, o, g, c) = RObject(ColumnClass(d, o, n, c), b, <<>>)
        /\ PartColumn(d, o, f, c) = RObject(ColumnClass(d, o, n, c), b, <<>>)
    BY <1>4, <1>16, <1>19, <1>20, <2>3, FreshColumn
  <2> QED BY <1>3, <2>1, <2>4 DEF VecOf
<1>28. PICK S, C, h : S = Reachable /\ C = {v, m} /\ h = heap' OBVIOUS
<1>29. Changes(S, C) /\ h[m] = MissingCell /\ h[v] = VecOf(g, j)
  BY <1>13, <1>14, <1>26, <1>28
<1>30. /\ out \notin C /\ out_names \notin C
       /\ \A c \in Nat : vec(c) \in C <=> c = j
       /\ \A c \in Nat : na(c) \in C <=> c = j
  BY <1>6, <1>28 DEF out, out_names, vec, na
<1>31. \A c \in Nat : IF vec(c) \in C THEN h[vec(c)] = VecOf(g, c)
                      ELSE vec(c) \in DOMAIN heap => VecOf(g, c) = VecOf(f, c)
  BY <1>5, <1>6, <1>27, <1>29, <1>30
<1>32. \A c \in Nat : na(c) \in C => h[na(c)] = MissingCell
  BY <1>5, <1>6, <1>29, <1>30
<1>33. \A a \in C : Sensible(doc, a)
  <2>1. IsTable(doc, node) BY <1>1, FrameContents
  <2> QED BY <1>1, <1>5, <1>6, <1>28, <2>1, SensibleAre
<1> QED BY <1>1, <1>2, <1>3, <1>16, <1>17, <1>18, <1>23, <1>24, <1>28, <1>29, <1>30, <1>31,
           <1>32, <1>33, Moves

LEMMA ColumnsBuiltResult ==
    ASSUME IInv, Contents, Nesting, ColumnsBuilt
    PROVE  Contents' /\ Nesting'
<1>1. /\ CallsInv /\ HeapInv /\ InUse /\ Running /\ UNCHANGED <<args, ret, status, heap>>
      /\ top.pc = "columns" /\ top.j > Len(kinds) /\ top.pc \in InFrame
  BY DEF IInv, ColumnsBuilt, InFrame
<1>2. ret' = None
  <2>1. ~Waits(top) BY <1>1 DEF Waits
  <2> QED BY <1>1, <2>1, NothingReturned
<1>3. PICK d, n, o, f : d = doc /\ n = node /\ o = option /\ f = top OBVIOUS
<1>4. /\ f \in Frames /\ f.node = n /\ cols = columns(d, n)
      /\ d.kind[n] = "ARRAY" /\ d.items[n] # <<>> /\ Level(d, o, n) = "data_frame"
      /\ Len(kinds) \in Nat /\ DOMAIN cols = 1 .. Len(kinds)
      /\ OutOf(f) = PartOut(d, o, f) /\ NamesOf(f) = DoneNames(d, n)
      /\ \A c \in Nat : vec(c) \in DOMAIN heap => c \in DOMAIN cols
      /\ IsTable(d, n) /\ IsDocument(d) /\ n \in nodes(d)
  BY <1>1, <1>3, FrameContents
<1>5. PICK g : g = [f EXCEPT !.pc = "rows", !.i = 1, !.j = 1] OBVIOUS
<1>6. g.node = n /\ g.pc = "rows" /\ g.i = 1 /\ g.j = 1 BY <1>4, <1>5 DEF Frames
<1>7. SetTop(g) BY <1>3, <1>5 DEF ColumnsBuilt
<1>8. LevelOK(d, o, g) BY <1>4, <1>6 DEF LevelOK, InFrame
<1>9. g.pc \in InFrame /\ f.pc \in InFrame /\ HasOut(g) /\ HasNames(g)
  BY <1>1, <1>3, <1>6 DEF InFrame, HasOut, HasNames
<1>10. PICK D : D = DOMAIN cols /\ D \subseteq Nat BY <1>4
<1>11. /\ \A c : HasColumn(g, c)
       /\ \A c \in D : HasColumn(f, c)
  <2>1. f.j \in Nat BY <1>4 DEF Frames
  <2>2. \A c \in D : c < f.j BY <1>1, <1>3, <1>4, <1>10, <2>1
  <2> QED BY <1>1, <1>3, <1>6, <2>2 DEF HasColumn
<1>12. OutOf(g) = OutOf(f)
  <2>1. PICK b : b = [c \in D |-> <<n, "vec", c>>] OBVIOUS
  <2>2. /\ b = [c \in D |-> IF HasColumn(f, c) THEN <<n, "vec", c>> ELSE None]
        /\ b = [c \in D |-> IF HasColumn(g, c) THEN <<n, "vec", c>> ELSE None]
    BY <1>11, <2>1
  <2>3. DOMAIN columns(d, n) = D BY <1>4, <1>10
  <2>4. PartOut(d, o, f) = RObject("data.frame", b, <<>>)
    BY <1>4, <1>9, <2>2, <2>3, PartFrame
  <2>5. PartOut(d, o, g) = RObject("data.frame", b, <<>>)
    BY <1>6, <1>9, <2>2, <2>3, PartFrame
  <2> QED BY <1>3, <1>4, <1>9, <2>4, <2>5 DEF OutOf
<1>13. NamesOf(g) = NamesOf(f)
  <2>1. PartNames(d, g) = DoneNames(d, n) BY <1>6, <1>9 DEF PartNames
  <2> QED BY <1>3, <1>4, <1>9, <2>1 DEF NamesOf
<1>14. ASSUME NEW c \in Nat, vec(c) \in DOMAIN heap PROVE VecOf(g, c) = VecOf(f, c)
  <2>1. HasColumn(g, c) /\ HasColumn(f, c) BY <1>4, <1>10, <1>11, <1>14
  <2>2. PICK b : b = [i \in DOMAIN d.items[n] |-> Missing(d, o, n, c)] OBVIOUS
  <2>3. PartColumn(d, o, f, c) = RObject(ColumnClass(d, o, n, c), b, <<>>)
    <3>1. b = [i \in DOMAIN d.items[n] |->
                  IF f.pc = "missing" /\ c = f.j THEN None ELSE Missing(d, o, n, c)]
      BY <1>1, <1>3, <2>2
    <3> QED BY <1>1, <1>3, <1>4, <3>1, FreshColumn
  <2>4. \A i \in DOMAIN d.items[n] : ~Filled(d, g, c, i)
    <3>1. ASSUME NEW i \in DOMAIN d.items[n] PROVE ~Filled(d, g, c, i)
      <4>1. PICK m : m = d.items[n][i] OBVIOUS
      <4>2. DOMAIN d.keys[m] \subseteq Nat \ {0} BY <1>4, <4>1, TableFields
      <4>3. i \in Nat \ {0} BY <1>4 DEF IsDocument
      <4>4. ~(i < 1) /\ \A p \in DOMAIN d.keys[m] : ~(p < 1) BY <4>2, <4>3
      <4> QED BY <1>6, <4>1, <4>4 DEF Filled
    <3> QED BY <3>1
  <2>5. PartColumn(d, o, g, c) = RObject(ColumnClass(d, o, n, c), b, <<>>)
    BY <1>6, <2>2, <2>4 DEF PartColumn
  <2> QED BY <1>3, <2>1, <2>3, <2>5 DEF VecOf
<1> QED BY <1>1, <1>2, <1>3, <1>6, <1>7, <1>8, <1>12, <1>13, <1>14, QuietMoves

(* A column while the rows are read. *)
LEMMA RowColumn ==
    ASSUME NEW d, NEW n, NEW o, NEW f, f.node = n, f.pc = "rows", NEW c,
           NEW e, e = [i \in DOMAIN d.items[n] |->
                         IF Filled(d, f, c, i) THEN ColumnCell(d, o, n, c, i)
                         ELSE Missing(d, o, n, c)]
    PROVE  PartColumn(d, o, f, c) = RObject(ColumnClass(d, o, n, c), e, <<>>)
BY DEF PartColumn

(* The field that the fill loop is at, and the cell that is for it. *)
LEMMA CellFacts ==
    ASSUME CallsInv, HeapInv, InUse, Contents, Nesting, AtField,
           NEW d, NEW n, NEW o, NEW f, d = doc, n = node, o = option, f = top,
           NEW i, NEW j, NEW m, NEW c, i = f.i, j = f.j, m = row_node, c = column_of
    PROVE  /\ i \in DOMAIN d.items[n] /\ i \in Nat /\ m = d.items[n][i] /\ m \in nodes(d)
           /\ DOMAIN d.keys[m] \subseteq Nat \ {0} /\ j \in DOMAIN d.keys[m]
           /\ c \in DOMAIN cols /\ columns(d, n)[c] = d.keys[m][j]
           /\ IsRepeated => \E p \in DOMAIN d.keys[m] : p < j /\ d.keys[m][p] = d.keys[m][j]
           /\ ~IsRepeated => ColumnCell(d, o, n, c, i) =
                               IF kinds[c] = "list" THEN AddressOf(d, field)
                               ELSE cell(kinds[c], value(d, field))
           /\ kinds[c] = "null" =>
                ColumnCell(d, o, n, c, i) = NA /\ Missing(d, o, n, c) = NA
<1>1. /\ Running /\ top.pc = "rows" /\ top.pc \in InFrame
      /\ f.i <= Len(here) /\ f.j <= Len(d.items[m])
  BY DEF AtField, InFill, InFrame
<1>2. /\ IsDocument(d) /\ n \in nodes(d) /\ f \in Frames /\ f.node = n
      /\ here = d.items[n] /\ cols = columns(d, n) /\ IsTable(d, n)
      /\ \A b \in DOMAIN cols : /\ kinds[b] = column_kind(d, o, n, cols[b])
                                /\ kinds[b] = "list" <=> is_list(d, o, n, b)
  BY <1>1, FrameContents
<1>3. i \in DOMAIN d.items[n] /\ i \in Nat
  <2>1. Len(here) \in Nat /\ DOMAIN here = 1 .. Len(here) /\ top.i \in 1 .. Len(here) + 1
    BY <1>1, TopFacts DEF CallsInv, Running
  <2> QED BY <1>1, <1>2, <2>1
<1>4. m = d.items[n][i] BY <1>2 DEF row_node
<1>5. /\ m \in nodes(d) /\ DOMAIN d.keys[m] = DOMAIN d.items[m]
      /\ DOMAIN d.items[m] = 1 .. Len(d.items[m]) /\ Len(d.items[m]) \in Nat
  <2>1. LET r == d.items[n][i] IN
          /\ r \in nodes(d) /\ DOMAIN d.keys[r] = DOMAIN d.items[r]
          /\ DOMAIN d.items[r] = 1 .. Len(d.items[r]) /\ Len(d.items[r]) \in Nat
    BY <1>2, <1>3, TableFields
  <2> QED BY <1>4, <2>1
<1>6. j \in DOMAIN d.keys[m]
  <2>1. j \in Nat \ {0} BY <1>2 DEF Frames
  <2> QED BY <1>1, <1>5, <2>1
<1>7. PICK k : k = d.keys[m][j] OBVIOUS
<1>8. key = k BY <1>7 DEF key
<1>9. c \in DOMAIN cols /\ columns(d, n)[c] = k BY <1>2, <1>8, ColumnOf
<1>10. IsRepeated <=> \E p \in 1 .. j - 1 : d.keys[m][p] = k BY <1>8 DEF IsRepeated
<1>11. IsRepeated => \E p \in DOMAIN d.keys[m] : p < j /\ d.keys[m][p] = k
  BY <1>5, <1>6, <1>10
<1>12. k \in Range(d.keys[m]) BY <1>6, <1>7 DEF Range
<1>13. HasCell(d, n, c, i) BY <1>4, <1>9, <1>12 DEF HasCell
<1>14. is_list(d, o, n, c) <=> kinds[c] = "list" BY <1>2, <1>9
<1>15. column_kind(d, o, n, columns(d, n)[c]) = kinds[c] BY <1>2, <1>9
<1>16. ColumnCell(d, o, n, c, i) =
         IF kinds[c] = "list" THEN AddressOf(d, d.items[m][FirstAt(d, m, k)])
         ELSE cell(kinds[c], value(d, d.items[m][FirstAt(d, m, k)]))
  BY <1>4, <1>9, <1>13, <1>14, <1>15 DEF ColumnCell
<1>17. ASSUME ~IsRepeated
       PROVE  d.items[m][FirstAt(d, m, k)] = field
  <2>1. \A q \in DOMAIN d.keys[m] :
           d.keys[m][q] = k /\ (\A r \in 1 .. q - 1 : d.keys[m][r] # k)
             => q = FirstAt(d, m, k)
    BY <1>2, <1>5, <1>12, FirstField
  <2>2. \A r \in 1 .. j - 1 : d.keys[m][r] # k BY <1>10, <1>17
  <2>3. j = FirstAt(d, m, k) BY <1>6, <1>7, <2>1, <2>2
  <2> QED BY <2>3 DEF field
<1>18. ASSUME kinds[c] = "null"
       PROVE  ColumnCell(d, o, n, c, i) = NA /\ Missing(d, o, n, c) = NA
  <2>1. \A v : cell("null", v) = NA BY DEF cell
  <2>2. ~is_list(d, o, n, c) BY <1>14, <1>18
  <2> QED BY <1>16, <1>18, <2>1, <2>2 DEF Missing
<1>19. IsRepeated => \E p \in DOMAIN d.keys[m] : p < j /\ d.keys[m][p] = d.keys[m][j]
  BY <1>7, <1>11
<1>20. ~IsRepeated => ColumnCell(d, o, n, c, i) =
                        IF kinds[c] = "list" THEN AddressOf(d, field)
                        ELSE cell(kinds[c], value(d, field))
  BY <1>16, <1>17
<1>21. DOMAIN d.keys[m] \subseteq Nat \ {0} BY <1>5
<1>22. columns(d, n)[c] = d.keys[m][j] BY <1>7, <1>9
<1> QED BY <1>3, <1>4, <1>5, <1>6, <1>9, <1>18, <1>19, <1>20, <1>21, <1>22

(* What the fill loop has been at, once it is past the field. *)
LEMMA NextFilled ==
    ASSUME NEW d, IsDocument(d), NEW n \in nodes(d), NEW f, NEW g, f.node = n, g.node = n,
           NEW i \in DOMAIN d.items[n], NEW j, NEW m, m = d.items[n][i],
           DOMAIN d.keys[m] \subseteq Nat \ {0}, j \in DOMAIN d.keys[m],
           IsTable(d, n),
           f.i = i, f.j = j, g.i = i, g.j = j + 1,
           NEW c \in DOMAIN columns(d, n), columns(d, n)[c] = d.keys[m][j],
           NEW b \in DOMAIN columns(d, n), NEW r \in DOMAIN d.items[n]
    PROVE  Filled(d, g, b, r) <=> Filled(d, f, b, r) \/ (b = c /\ r = i)
<1>1. PICK k : k = columns(d, n)[b] OBVIOUS
<1>2. k = d.keys[m][j] <=> b = c BY <1>1, ColumnsDiffer
<1>3. PICK s : s = d.items[n][r] OBVIOUS
<1>4. DOMAIN d.keys[s] \subseteq Nat \ {0}
  <2>1. LET q == d.items[n][r] IN
          /\ DOMAIN d.keys[q] = DOMAIN d.items[q]
          /\ DOMAIN d.items[q] = 1 .. Len(d.items[q])
    BY TableFields
  <2> QED BY <1>3, <2>1
<1>5. /\ Filled(d, f, b, r) <=> \E p \in DOMAIN d.keys[s] :
                                   d.keys[s][p] = k /\ (r < i \/ (r = i /\ p < j))
      /\ Filled(d, g, b, r) <=> \E p \in DOMAIN d.keys[s] :
                                   d.keys[s][p] = k /\ (r < i \/ (r = i /\ p < j + 1))
  BY <1>1, <1>3 DEF Filled
<1>6. i \in Nat /\ r \in Nat
  <2>1. d.items[n] \in Seq(nodes(d)) BY DEF IsDocument
  <2> QED BY <2>1
<1>7. CASE r # i BY <1>5, <1>7
<1>8. CASE r = i
  <2>1. s = m /\ ~(r < i) BY <1>3, <1>6, <1>8
  <2>2. \A p \in DOMAIN d.keys[m] : p < j + 1 <=> p < j \/ p = j OBVIOUS
  <2>3. Filled(d, f, b, r) <=> \E p \in DOMAIN d.keys[m] : d.keys[m][p] = k /\ p < j
    BY <1>5, <1>8, <2>1
  <2>4. Filled(d, g, b, r) <=> \E p \in DOMAIN d.keys[m] : d.keys[m][p] = k /\ p < j + 1
    BY <1>5, <1>8, <2>1
  <2> QED BY <1>2, <1>8, <2>2, <2>3, <2>4
<1> QED BY <1>7, <1>8

(* The frame's objects when the fill loop goes on. *)
LEMMA RowsGoOn ==
    ASSUME CallsInv, HeapInv, InUse, Running, Contents, Nesting, top.pc = "rows",
           NEW d, NEW n, NEW o, NEW f, d = doc, n = node, o = option, f = top,
           NEW g, g.node = n, g.pc = "rows"
    PROVE  /\ LevelOK(d, o, g) /\ OutOf(g) = OutOf(f) /\ NamesOf(g) = NamesOf(f)
           /\ \A c : /\ VecOf(g, c) = PartColumn(d, o, g, c)
                     /\ VecOf(f, c) = PartColumn(d, o, f, c)
           /\ \A c \in DOMAIN cols : /\ vec(c) \in Reachable /\ vec(c) \in DOMAIN heap
                                     /\ heap[vec(c)] = VecOf(f, c)
<1>1. top.pc \in InFrame BY DEF InFrame
<1>2. /\ f.node = n /\ cols = columns(d, n)
      /\ d.kind[n] = "ARRAY" /\ d.items[n] # <<>> /\ Level(d, o, n) = "data_frame"
      /\ OutOf(f) = PartOut(d, o, f) /\ NamesOf(f) = DoneNames(d, n)
      /\ \A c \in DOMAIN cols : HasColumn(f, c) =>
           /\ vec(c) \in Reachable /\ vec(c) \in DOMAIN heap
           /\ heap[vec(c)] = PartColumn(d, o, f, c)
  BY <1>1, FrameContents
<1>3. LevelOK(d, o, g) BY <1>2 DEF LevelOK, InFrame
<1>4. /\ g.pc \in InFrame /\ f.pc \in InFrame /\ HasOut(g) /\ HasNames(g)
      /\ \A c : HasColumn(g, c) /\ HasColumn(f, c)
  BY DEF InFrame, HasOut, HasNames, HasColumn
<1>5. OutOf(g) = OutOf(f)
  <2>1. PICK D, b : D = DOMAIN columns(d, n) /\ b = [c \in D |-> <<n, "vec", c>>] OBVIOUS
  <2>2. b = [c \in D |-> IF HasColumn(f, c) THEN <<n, "vec", c>> ELSE None] BY <1>4, <2>1
  <2>3. b = [c \in D |-> IF HasColumn(g, c) THEN <<n, "vec", c>> ELSE None] BY <1>4, <2>1
  <2>4. PartOut(d, o, f) = RObject("data.frame", b, <<>>)
    BY <1>2, <1>4, <2>1, <2>2, PartFrame
  <2>5. PartOut(d, o, g) = RObject("data.frame", b, <<>>)
    BY <1>4, <2>1, <2>3, PartFrame
  <2> QED BY <1>2, <1>4, <2>4, <2>5 DEF OutOf
<1>6. NamesOf(g) = NamesOf(f)
  <2>1. PartNames(d, g) = DoneNames(d, n) BY <1>4 DEF PartNames
  <2> QED BY <1>2, <1>4, <2>1 DEF NamesOf
<1>7. \A c : VecOf(g, c) = PartColumn(d, o, g, c) /\ VecOf(f, c) = PartColumn(d, o, f, c)
  BY <1>4 DEF VecOf
<1>8. \A c \in DOMAIN cols : /\ vec(c) \in Reachable /\ vec(c) \in DOMAIN heap
                             /\ heap[vec(c)] = VecOf(f, c)
  BY <1>2, <1>4, <1>7
<1> QED BY <1>3, <1>5, <1>6, <1>7, <1>8

(* The cell for the field that the fill loop is at is what the step changes. *)
LEMMA FieldDone ==
    ASSUME CallsInv, HeapInv, InUse, Contents, Nesting, AtField,
           NEW d, NEW n, NEW o, NEW f, d = doc, n = node, o = option, f = top,
           NEW i, NEW c, i = f.i, c = column_of,
           NEW g, g.node = n, g.pc = "rows", g.i = i, g.j = f.j + 1
    PROVE  /\ \A b \in DOMAIN cols : b # c => VecOf(g, b) = VecOf(f, b)
           /\ VecOf(g, c) = Entered(VecOf(f, c), i, ColumnCell(d, o, n, c, i))
           /\ IsRepeated \/ kinds[c] = "null" => VecOf(g, c) = VecOf(f, c)
<1>1. /\ Running /\ f.pc = "rows" /\ f.pc \in InFrame BY DEF AtField, InFill, InFrame
<1>2. PICK j, m : j = f.j /\ m = row_node OBVIOUS
<1>3. /\ i \in DOMAIN d.items[n] /\ i \in Nat /\ m = d.items[n][i] /\ m \in nodes(d)
      /\ DOMAIN d.keys[m] \subseteq Nat \ {0} /\ j \in DOMAIN d.keys[m]
      /\ c \in DOMAIN cols /\ columns(d, n)[c] = d.keys[m][j]
      /\ IsRepeated => \E p \in DOMAIN d.keys[m] : p < j /\ d.keys[m][p] = d.keys[m][j]
      /\ kinds[c] = "null" => ColumnCell(d, o, n, c, i) = NA /\ Missing(d, o, n, c) = NA
  BY <1>2, CellFacts
<1>4. /\ IsDocument(d) /\ n \in nodes(d) /\ IsTable(d, n) /\ cols = columns(d, n)
      /\ f.node = n
  BY <1>1, FrameContents
<1>5. \A b \in DOMAIN cols, r \in DOMAIN d.items[n] :
        Filled(d, g, b, r) <=> Filled(d, f, b, r) \/ (b = c /\ r = i)
  BY <1>2, <1>3, <1>4, NextFilled
<1>6. IsRepeated => Filled(d, f, c, i)
  BY <1>2, <1>3, <1>4 DEF Filled
<1>7. \A b : /\ VecOf(g, b) = PartColumn(d, o, g, b)
             /\ VecOf(f, b) = PartColumn(d, o, f, b)
  BY <1>1, RowsGoOn
<1>8. ASSUME NEW b \in DOMAIN cols, b # c PROVE VecOf(g, b) = VecOf(f, b)
  <2>1. PICK e : e = [r \in DOMAIN d.items[n] |->
                        IF Filled(d, f, b, r) THEN ColumnCell(d, o, n, b, r)
                        ELSE Missing(d, o, n, b)]
    OBVIOUS
  <2>2. e = [r \in DOMAIN d.items[n] |->
               IF Filled(d, g, b, r) THEN ColumnCell(d, o, n, b, r) ELSE Missing(d, o, n, b)]
    <3>1. \A r \in DOMAIN d.items[n] : Filled(d, g, b, r) <=> Filled(d, f, b, r)
      BY <1>5, <1>8
    <3> QED BY <2>1, <3>1
  <2>3. PartColumn(d, o, f, b) = RObject(ColumnClass(d, o, n, b), e, <<>>)
    BY <1>1, <1>4, <2>1, RowColumn
  <2>4. PartColumn(d, o, g, b) = RObject(ColumnClass(d, o, n, b), e, <<>>)
    BY <2>2, RowColumn
  <2> QED BY <1>7, <2>3, <2>4
<1>9. PICK x : x = ColumnCell(d, o, n, c, i) OBVIOUS
<1>10. PICK e : e = [r \in DOMAIN d.items[n] |->
                       IF Filled(d, f, c, r) THEN ColumnCell(d, o, n, c, r)
                       ELSE Missing(d, o, n, c)]
  OBVIOUS
<1>11. VecOf(f, c) = RObject(ColumnClass(d, o, n, c), e, <<>>)
  BY <1>1, <1>4, <1>7, <1>10, RowColumn
<1>12. PICK e2 : e2 = [e EXCEPT ![i] = x] OBVIOUS
<1>13. e2 = [r \in DOMAIN d.items[n] |->
               IF Filled(d, g, c, r) THEN ColumnCell(d, o, n, c, r)
               ELSE Missing(d, o, n, c)]
  <2>1. \A r \in DOMAIN d.items[n] : Filled(d, g, c, r) <=> Filled(d, f, c, r) \/ r = i
    BY <1>3, <1>5
  <2> QED BY <1>3, <1>9, <1>10, <1>12, <2>1
<1>14. VecOf(g, c) = RObject(ColumnClass(d, o, n, c), e2, <<>>)
  BY <1>7, <1>13, RowColumn
<1>15. VecOf(g, c) = Entered(VecOf(f, c), i, x)
  BY <1>11, <1>12, <1>14 DEF Entered, RObject
<1>16. ASSUME IsRepeated \/ kinds[c] = "null" PROVE VecOf(g, c) = VecOf(f, c)
  <2>1. e[i] = x BY <1>3, <1>6, <1>9, <1>10, <1>16
  <2>2. e2 = e BY <1>10, <1>12, <2>1
  <2> QED BY <1>11, <1>14, <2>2
<1> QED BY <1>8, <1>9, <1>15, <1>16

LEMMA CellResult ==
    ASSUME CallsInv, HeapInv, InUse, Contents, Nesting, AtField, UNCHANGED <<args, status>>,
           ret' = None, NextField,
           NEW i, NEW c, i = top.i, c = column_of,
           NEW x, x = ColumnCell(doc, option, node, c, i),
           \/ UNCHANGED heap /\ (IsRepeated \/ kinds[c] = "null")
           \/ SetElt(vec(c), i, x)
           \/ AllocateAndSet(vec(c), Entered(heap[vec(c)], i, x))
    PROVE  Contents' /\ Nesting'
<1>1. Running /\ top.pc = "rows" /\ top.pc \in InFrame BY DEF AtField, InFill, InFrame
<1>2. PICK d, n, o, f : d = doc /\ n = node /\ o = option /\ f = top OBVIOUS
<1>3. /\ f \in Frames /\ f.node = n
      /\ \A b \in Nat : vec(b) \in DOMAIN heap => b \in DOMAIN cols
  BY <1>1, <1>2, FrameContents
<1>4. PICK g : g = [f EXCEPT !.j = f.j + 1] OBVIOUS
<1>5. g.node = n /\ g.pc = "rows" /\ g.i = i /\ g.j = f.j + 1
  BY <1>1, <1>2, <1>3, <1>4 DEF Frames
<1>6. SetTop(g) BY <1>2, <1>4 DEF NextField
<1>7. /\ LevelOK(d, o, g) /\ OutOf(g) = OutOf(f) /\ NamesOf(g) = NamesOf(f)
      /\ \A b \in DOMAIN cols : /\ vec(b) \in Reachable /\ vec(b) \in DOMAIN heap
                                /\ heap[vec(b)] = VecOf(f, b)
  BY <1>1, <1>2, <1>5, RowsGoOn
<1>8. /\ \A b \in DOMAIN cols : b # c => VecOf(g, b) = VecOf(f, b)
      /\ VecOf(g, c) = Entered(VecOf(f, c), i, x)
      /\ IsRepeated \/ kinds[c] = "null" => VecOf(g, c) = VecOf(f, c)
  BY <1>2, <1>5, FieldDone
<1>9. c \in DOMAIN cols /\ DOMAIN cols \subseteq Nat
  <2>1. c \in DOMAIN cols BY ColumnOf
  <2>2. DOMAIN cols \subseteq Nat BY <1>1, TopHas
  <2> QED BY <2>1, <2>2
<1>10. CASE UNCHANGED heap /\ (IsRepeated \/ kinds[c] = "null")
  <2>1. \A b \in Nat : vec(b) \in DOMAIN heap => VecOf(g, b) = VecOf(f, b)
    BY <1>3, <1>8, <1>10
  <2> QED BY <1>1, <1>2, <1>5, <1>6, <1>7, <1>10, <2>1, QuietMoves
<1>11. CASE \/ SetElt(vec(c), i, x)
            \/ AllocateAndSet(vec(c), Entered(heap[vec(c)], i, x))
  <2>1. PICK v : v = vec(c) OBVIOUS
  <2>2. /\ v \in Reachable /\ v \in DOMAIN heap /\ heap[v] = VecOf(f, c) /\ v[1] = node
    BY <1>1, <1>7, <1>9, <2>1, NewIsOwn
  <2>3. PICK S : Changes(S, {v}) /\ heap'[v] = Entered(heap[v], i, x)
    <3>1. CASE SetElt(vec(c), i, x)
      <4>1. SetElt(v, i, x) BY <2>1, <3>1
      <4> QED BY <2>2, <4>1, Sets
    <3>2. CASE AllocateAndSet(vec(c), Entered(heap[vec(c)], i, x))
      <4>1. PICK q : q = Entered(heap[v], i, x) OBVIOUS
      <4>2. AllocateAndSet(v, q) BY <2>1, <3>2, <4>1
      <4>3. Changes(Reachable, {v}) /\ heap'[v] = q BY <2>2, <4>2, AllocatesAndSets
      <4> QED BY <4>1, <4>3
    <3> QED BY <1>11, <3>1, <3>2
  <2>4. PICK C, h : C = {v} /\ h = heap' OBVIOUS
  <2>5. Changes(S, C) /\ h[v] = VecOf(g, c) BY <1>8, <2>2, <2>3, <2>4
  <2>6. /\ out \notin C /\ out_names \notin C
        /\ \A b \in Nat : vec(b) \in C <=> b = c
        /\ \A b \in Nat : na(b) \notin C
    BY <2>1, <2>4 DEF out, out_names, vec, na
  <2>7. \A b \in Nat : IF vec(b) \in C THEN h[vec(b)] = VecOf(g, b)
                       ELSE vec(b) \in DOMAIN heap => VecOf(g, b) = VecOf(f, b)
    BY <1>3, <1>8, <2>1, <2>5, <2>6
  <2>8. \A a \in C : Sensible(doc, a)
    <3>1. IsTable(doc, node) BY <1>1, FrameContents
    <3> QED BY <1>1, <1>9, <2>1, <2>4, <3>1, SensibleAre
  <2> QED BY <1>1, <1>2, <1>5, <1>6, <1>7, <2>4, <2>5, <2>6, <2>7, <2>8, Moves
<1> QED BY <1>10, <1>11

LEMMA FillCellResult ==
    ASSUME IInv, Contents, Nesting, FillCell
    PROVE  Contents' /\ Nesting'
<1>1. /\ CallsInv /\ HeapInv /\ InUse /\ Running /\ AtField /\ NextField
      /\ UNCHANGED <<args, ret, status>> /\ top.pc = "rows"
      /\ IsRepeated \/ kinds[column_of] # "list"
  BY DEF IInv, FillCell, AtField, InFill
<1>2. ret' = None
  <2>1. ~Waits(top) BY <1>1, FieldFacts
  <2> QED BY <1>1, <2>1, NothingReturned
<1>3. PICK d, n, o, f, i, j, m, c : /\ d = doc /\ n = node /\ o = option /\ f = top
                                    /\ i = f.i /\ j = f.j /\ m = row_node /\ c = column_of
  OBVIOUS
<1>4. ~IsRepeated => ColumnCell(d, o, n, c, i) =
                       IF kinds[c] = "list" THEN AddressOf(d, field)
                       ELSE cell(kinds[c], value(d, field))
  BY <1>1, <1>3, CellFacts
<1>5. PICK x : x = ColumnCell(doc, option, node, c, i) OBVIOUS
<1>6. \/ UNCHANGED heap /\ (IsRepeated \/ kinds[c] = "null")
      \/ SetElt(vec(c), i, x)
      \/ AllocateAndSet(vec(c), Entered(heap[vec(c)], i, x))
  <2>1. CASE IsRepeated \/ kinds[c] = "null"
    BY <1>3, <2>1 DEF FillCell
  <2>2. CASE ~IsRepeated /\ kinds[c] # "null"
    <3>1. x = cell(kinds[c], value(d, field)) BY <1>1, <1>3, <1>4, <1>5, <2>2
    <3>2. IF kinds[c] = "chr"
          THEN AllocateAndSet(vec(c), [heap[vec(c)] EXCEPT !.elems[i] = x])
          ELSE SetElt(vec(c), i, x)
      BY <1>3, <2>2, <3>1 DEF FillCell
    <3> QED BY <3>2 DEF Entered
  <2> QED BY <2>1, <2>2
<1>7. i = top.i /\ c = column_of BY <1>3
<1> QED BY <1>1, <1>2, <1>5, <1>6, <1>7, CellResult

LEMMA SetListCellResult ==
    ASSUME IInv, Contents, Nesting, SetListCell
    PROVE  Contents' /\ Nesting'
<1>1. /\ CallsInv /\ HeapInv /\ InUse /\ Running /\ AtField /\ NextField /\ top.pc = "rows"
      /\ UNCHANGED <<args, status>> /\ ~IsRepeated /\ kinds[column_of] = "list"
      /\ ret # None /\ ret' = None /\ SetElt(vec(column_of), top.i, ret)
  BY DEF IInv, SetListCell, AtField, InFill
<1>2. PICK d, n, o, f, i, j, m, c : /\ d = doc /\ n = node /\ o = option /\ f = top
                                    /\ i = f.i /\ j = f.j /\ m = row_node /\ c = column_of
  OBVIOUS
<1>3. ~IsRepeated => ColumnCell(d, o, n, c, i) =
                       IF kinds[c] = "list" THEN AddressOf(d, field)
                       ELSE cell(kinds[c], value(d, field))
  BY <1>1, <1>2, CellFacts
<1>4. ret = AddressOf(d, field)
  <2>1. Awaited(d, f) = field
    BY <1>1, <1>2 DEF Awaited, field, row_node, here, node
  <2> QED BY <1>1, <1>2, <2>1, TopContents
<1>5. PICK x : x = ColumnCell(doc, option, node, c, i) OBVIOUS
<1>6. x = ret BY <1>1, <1>2, <1>3, <1>4, <1>5
<1>7. SetElt(vec(c), i, x) /\ i = top.i /\ c = column_of BY <1>1, <1>2, <1>6
<1> QED BY <1>1, <1>5, <1>7, CellResult

LEMMA CallListCellResult ==
    ASSUME IInv, Contents, Nesting, CallListCell
    PROVE  Contents' /\ Nesting'
<1>1. /\ CallsInv /\ Running /\ UNCHANGED <<args, status, heap>> /\ ret' = None
      /\ top.pc = "rows" /\ AtField /\ Call(field)
  BY DEF IInv, CallListCell, AtField, InFill
<1>2. PICK m : m = field OBVIOUS
<1>3. m \in nodes(doc) /\ m > node BY <1>1, <1>2, FieldFacts
<1>4. m = Awaited(doc, top) BY <1>1, <1>2 DEF Awaited, field, row_node, here, node
<1>5. Call(m) BY <1>1, <1>2
<1> QED BY <1>1, <1>3, <1>4, <1>5, CallBegins

LEMMA FillRowEndResult ==
    ASSUME IInv, Contents, Nesting, FillRowEnd
    PROVE  Contents' /\ Nesting'
<1>1. /\ CallsInv /\ HeapInv /\ InUse /\ Running /\ UNCHANGED <<args, ret, status, heap>>
      /\ InFill /\ top.pc = "rows" /\ top.pc \in InFrame /\ top.i <= Len(here)
      /\ top.j > Len(doc.items[row_node])
  BY DEF IInv, FillRowEnd, InFill, InFrame
<1>2. PICK d, n, o, f : d = doc /\ n = node /\ o = option /\ f = top OBVIOUS
<1>3. /\ IsDocument(d) /\ n \in nodes(d) /\ f \in Frames /\ f.node = n /\ IsTable(d, n)
      /\ here = d.items[n] /\ cols = columns(d, n)
      /\ \A c \in Nat : vec(c) \in DOMAIN heap => c \in DOMAIN cols
  BY <1>1, <1>2, FrameContents
<1>4. PICK i \in DOMAIN d.items[n] : i = f.i /\ i \in Nat
  <2>1. Len(here) \in Nat /\ DOMAIN here = 1 .. Len(here) /\ top.i \in 1 .. Len(here) + 1
    BY <1>1, TopFacts DEF CallsInv, Running
  <2> QED BY <1>1, <1>2, <1>3, <2>1
<1>5. PICK m : m = d.items[n][i] OBVIOUS
<1>6. row_node = m BY <1>2, <1>3, <1>4, <1>5 DEF row_node
<1>7. DOMAIN d.keys[m] = 1 .. Len(d.items[m]) /\ Len(d.items[m]) \in Nat
  <2>1. LET r == d.items[n][i] IN
          /\ DOMAIN d.keys[r] = DOMAIN d.items[r]
          /\ DOMAIN d.items[r] = 1 .. Len(d.items[r]) /\ Len(d.items[r]) \in Nat
    BY <1>3, TableFields
  <2> QED BY <1>5, <2>1
<1>8. f.j \in Nat /\ f.j > Len(d.items[m])
  <2>1. f.j \in Nat BY <1>3 DEF Frames
  <2> QED BY <1>1, <1>2, <1>6, <2>1
<1>9. ret' = None
  <2>1. ~AtField BY <1>2, <1>6, <1>7, <1>8 DEF AtField
  <2>2. ~Waits(top) BY <1>1, <2>1, FieldFacts
  <2> QED BY <1>1, <2>2, NothingReturned
<1>10. PICK g : g = [f EXCEPT !.i = f.i + 1, !.j = 1] OBVIOUS
<1>11. g.node = n /\ g.pc = "rows" /\ g.i = i + 1 /\ g.j = 1
  BY <1>1, <1>2, <1>3, <1>4, <1>10 DEF Frames
<1>12. SetTop(g) BY <1>2, <1>10 DEF FillRowEnd
<1>13. /\ LevelOK(d, o, g) /\ OutOf(g) = OutOf(f) /\ NamesOf(g) = NamesOf(f)
       /\ \A c : /\ VecOf(g, c) = PartColumn(d, o, g, c)
                 /\ VecOf(f, c) = PartColumn(d, o, f, c)
  BY <1>1, <1>2, <1>11, RowsGoOn
<1>14. ASSUME NEW c, NEW r \in DOMAIN d.items[n] PROVE Filled(d, g, c, r) <=> Filled(d, f, c, r)
  <2>1. PICK s, k : s = d.items[n][r] /\ k = columns(d, n)[c] OBVIOUS
  <2>2. DOMAIN d.keys[s] \subseteq Nat \ {0}
    <3>1. LET q == d.items[n][r] IN
            /\ DOMAIN d.keys[q] = DOMAIN d.items[q]
            /\ DOMAIN d.items[q] = 1 .. Len(d.items[q])
      BY <1>3, TableFields
    <3> QED BY <2>1, <3>1
  <2>3. /\ Filled(d, f, c, r) <=> \E p \in DOMAIN d.keys[s] :
                                     d.keys[s][p] = k /\ (r < i \/ (r = i /\ p < f.j))
        /\ Filled(d, g, c, r) <=> \E p \in DOMAIN d.keys[s] :
                                     d.keys[s][p] = k /\ (r < i + 1 \/ (r = i + 1 /\ p < 1))
    BY <1>3, <1>4, <1>11, <2>1 DEF Filled
  <2>4. r \in Nat
    <3>1. d.items[n] \in Seq(nodes(d)) BY <1>3 DEF IsDocument
    <3> QED BY <3>1
  <2>5. ASSUME NEW p \in DOMAIN d.keys[s]
        PROVE  r < i \/ (r = i /\ p < f.j) <=> r < i + 1 \/ (r = i + 1 /\ p < 1)
    <3>1. p \in Nat \ {0} BY <2>2
    <3>2. r = i => p < f.j BY <1>5, <1>7, <1>8, <2>1
    <3> QED BY <1>4, <2>4, <3>1, <3>2
  <2> QED BY <2>3, <2>5
<1>15. ASSUME NEW c PROVE VecOf(g, c) = VecOf(f, c)
  <2>1. PICK e : e = [r \in DOMAIN d.items[n] |->
                        IF Filled(d, f, c, r) THEN ColumnCell(d, o, n, c, r)
                        ELSE Missing(d, o, n, c)]
    OBVIOUS
  <2>2. e = [r \in DOMAIN d.items[n] |->
               IF Filled(d, g, c, r) THEN ColumnCell(d, o, n, c, r) ELSE Missing(d, o, n, c)]
    BY <1>14, <2>1
  <2>3. PartColumn(d, o, f, c) = RObject(ColumnClass(d, o, n, c), e, <<>>)
    BY <1>1, <1>2, <1>3, <2>1, RowColumn
  <2>4. PartColumn(d, o, g, c) = RObject(ColumnClass(d, o, n, c), e, <<>>)
    BY <1>11, <2>2, RowColumn
  <2> QED BY <1>13, <2>3, <2>4
<1>16. \A c \in Nat : vec(c) \in DOMAIN heap => VecOf(g, c) = VecOf(f, c) BY <1>15
<1> QED BY <1>1, <1>2, <1>9, <1>11, <1>12, <1>13, <1>16, QuietMoves

LEMMA ReturnFrameResult ==
    ASSUME IInv, Contents, Nesting, ReturnFrame
    PROVE  Contents' /\ Nesting'
<1>1. /\ CallsInv /\ HeapInv /\ InUse /\ Running /\ UNCHANGED args
      /\ top.pc = "rows" /\ top.i > Len(here) /\ top.pc \in InFrame
      /\ AllocateAndSet(out, [heap[out] EXCEPT !.attr = out_names]) /\ Return(out)
  BY DEF IInv, ReturnFrame, InFrame
<1>2. PICK d, n, o, f : d = doc /\ n = node /\ o = option /\ f = top OBVIOUS
<1>3. /\ IsDocument(d) /\ n \in nodes(d) /\ f.node = n /\ IsTable(d, n)
      /\ d.kind[n] = "ARRAY" /\ Level(d, o, n) = "data_frame" /\ HasOwn(d, n)
      /\ here = d.items[n] /\ cols = columns(d, n)
      /\ out \in Reachable /\ heap[out] = PartOut(d, o, f) /\ NamesOf(f) = DoneNames(d, n)
  BY <1>1, <1>2, FrameContents
<1>4. \A c : HasColumn(f, c) BY <1>1, <1>2 DEF HasColumn
<1>5. PICK p, q, y : p = heap[out] /\ q = [p EXCEPT !.attr = out_names] /\ y = out OBVIOUS
<1>6. Changes(Reachable, {y}) /\ heap'[y] = q
  <2>1. y \in Reachable /\ y[1] = node BY <1>1, <1>3, <1>5, NewIsOwn
  <2>2. AllocateAndSet(y, q) BY <1>1, <1>5
  <2> QED BY <1>1, <2>1, <2>2, AllocatesAndSets
<1>7. q = DoneOut(d, o, n)
  <2>1. PICK D, b : D = DOMAIN columns(d, n) /\ b = [c \in D |-> <<n, "vec", c>>] OBVIOUS
  <2>2. b = [c \in D |-> IF HasColumn(f, c) THEN <<n, "vec", c>> ELSE None] BY <1>4, <2>1
  <2>3. p = RObject("data.frame", b, <<>>)
    <3>1. f.pc \in InFrame /\ f.node = n BY <1>1, <1>2, <1>3
    <3>2. PartOut(d, o, f) = RObject("data.frame", b, <<>>) BY <2>1, <2>2, <3>1, PartFrame
    <3> QED BY <1>3, <1>5, <3>2
  <2>4. out_names = OwnNames(n) BY <1>2 DEF out_names, OwnNames
  <2>5. q = RObject("data.frame", b, OwnNames(n)) BY <1>5, <2>3, <2>4 DEF RObject
  <2> QED BY <1>3, <2>1, <2>5 DEF DoneOut
<1>8. ASSUME NEW c PROVE VecOf(f, c) = DoneColumn(d, o, n, c)
  <2>1. ASSUME NEW r \in DOMAIN d.items[n]
        PROVE  IF Filled(d, f, c, r) THEN TRUE ELSE ColumnCell(d, o, n, c, r) = Missing(d, o, n, c)
    <3>1. r < f.i
      <4>1. Len(here) \in Nat /\ DOMAIN here = 1 .. Len(here) /\ top.i \in 1 .. Len(here) + 1
        BY <1>1, TopFacts DEF CallsInv, Running
      <4> QED BY <1>1, <1>2, <1>3, <4>1
    <3>2. Filled(d, f, c, r) <=> HasCell(d, n, c, r)
      BY <1>3, <3>1 DEF Filled, HasCell, Range
    <3> QED BY <3>2 DEF ColumnCell
  <2>2. PICK e : e = [r \in DOMAIN d.items[n] |-> ColumnCell(d, o, n, c, r)] OBVIOUS
  <2>3. e = [r \in DOMAIN d.items[n] |->
               IF Filled(d, f, c, r) THEN ColumnCell(d, o, n, c, r) ELSE Missing(d, o, n, c)]
    BY <2>1, <2>2
  <2>4. PartColumn(d, o, f, c) = RObject(ColumnClass(d, o, n, c), e, <<>>)
    BY <1>1, <1>2, <1>3, <2>3, RowColumn
  <2> QED BY <1>2, <1>4, <2>2, <2>4 DEF VecOf, DoneColumn
<1>9. PICK S, C : S = Reachable /\ C = {y} OBVIOUS
<1>10. Changes(S, C) /\ C \subseteq {out} /\ out \in C /\ heap'[out] = DoneOut(d, o, n)
  BY <1>5, <1>6, <1>7, <1>9
<1> QED BY <1>1, <1>2, <1>3, <1>8, <1>10, Ends

-----------------------------------------------------------------------------
(***************************************************************************)
(* The invariant holds.                                                    *)
(***************************************************************************)

(* What a call hands over is never nothing. *)
LEMMA AddressIsSome ==
    ASSUME doc \in Docs, NEW n \in nodes(doc)
    PROVE  <<n, "out", 0>> # None /\ \A a \in Callers : a # None
<1>1. n \in Nat BY DocFacts
<1>2. <<n, "out", 0>> \in Address BY <1>1 DEF Address
<1>3. Callers \subseteq Address BY DEF Callers, CallersObject, Address
<1> QED BY <1>2, <1>3, NoneAssumption

LEMMA ReturnsSome ==
    ASSUME CallsInv, Running, Next, status' = "returned"
    PROVE  ret' # None
<1>1. node \in nodes(doc) /\ doc \in Docs BY TopFacts DEF CallsInv, Running
<1>2. out # None BY <1>1, AddressIsSome DEF out
<1>3. CASE FillAtomic \/ ReturnList \/ ReturnFrame
  BY <1>2, <1>3 DEF FillAtomic, ReturnList, ReturnFrame, Return
<1>4. CASE SimplifyElement
  <2>1. PICK a : a = CallersObject(doc.kind[node]) OBVIOUS
  <2>2. /\ doc.kind[node] \in {"ARRAY", "OBJECT", "NULL_VALUE"} /\ ret' = a
    BY <1>4, <2>1 DEF SimplifyElement, Running, Return
  <2>3. a \in Callers BY <2>1, <2>2 DEF Callers
  <2> QED BY <1>1, <2>2, <2>3, AddressIsSome
<1>5. CASE ~(SimplifyElement \/ FillAtomic \/ ReturnList \/ ReturnFrame)
  <2>1. status' # "returned"
    BY <1>5 DEF Next, Running, TryLevel, AllocateAtomic,
       AllocateList, AllocateNames, CallItem, SetItem, SetKey, AllocateFrame,
       AllocateFrameNames, BuildColumn, FillMissing, ColumnsBuilt, FillCell, CallListCell,
       SetListCell, FillRowEnd, AllocationFails, EmbeddedNul, Unwind, Finished, Ended
  <2> QED BY <2>1
<1> QED BY <1>3, <1>4, <1>5

(* A step that changes nothing of them keeps all objects as they should be. *)
LEMMA SameContents ==
    ASSUME Contents, Nesting, UNCHANGED <<args, stack, heap, ret>>
    PROVE  Contents' /\ Nesting'
<1>1. doc' = doc /\ option' = option BY DEF args
<1> QED BY <1>1 DEF Contents, IsOnStack, Nesting, top

LEMMA ResultKept == IInv /\ ResultInv /\ [Next]_vars => ResultInv'
<1> SUFFICES ASSUME IInv, ResultInv, [Next]_vars PROVE ResultInv' OBVIOUS
<1>1. CASE UNCHANGED vars
  <2>1. UNCHANGED <<args, stack, heap, ret>> /\ UNCHANGED <<ret, status>> BY <1>1 DEF vars
  <2>2. Contents /\ Nesting => Contents' /\ Nesting' BY <2>1, SameContents
  <2> QED BY <2>1, <2>2 DEF ResultInv
<1>2. CASE AllocationFails \/ EmbeddedNul \/ Unwind
  <2>1. status' \notin {"running", "returned"}
    BY <1>2 DEF AllocationFails, EmbeddedNul, Unwind
  <2> QED BY <2>1 DEF ResultInv
<1>3. CASE ~UNCHANGED vars /\ ~(AllocationFails \/ EmbeddedNul \/ Unwind)
  <2>1. Running /\ Next
    BY <1>3 DEF Next, SimplifyElement, TryLevel, AllocateAtomic, FillAtomic,
       AllocateList, AllocateNames, CallItem, SetItem, SetKey, ReturnList, AllocateFrame,
       AllocateFrameNames, BuildColumn, FillMissing, ColumnsBuilt, FillCell, CallListCell,
       SetListCell, FillRowEnd, ReturnFrame, Finished, AtField, InFill
  <2>2. Contents /\ Nesting BY <2>1 DEF ResultInv, Running
  <2>3. Contents' /\ Nesting'
    BY <1>3, <2>1, <2>2, SimplifyElementResult, TryLevelResult, AllocateAtomicResult,
       FillAtomicResult, AllocateListResult, AllocateNamesResult, CallItemResult,
       SetItemResult, SetKeyResult, ReturnListResult, AllocateFrameResult,
       AllocateFrameNamesResult, BuildColumnResult, FillMissingResult, ColumnsBuiltResult,
       FillCellResult, CallListCellResult, SetListCellResult, FillRowEndResult,
       ReturnFrameResult
       DEF Next, Finished
  <2>4. status' = "returned" => ret' # None BY <2>1, ReturnsSome DEF IInv
  <2> QED BY <2>3, <2>4 DEF ResultInv
<1> QED BY <1>1, <1>2, <1>3

LEMMA InitialResult == Init => ResultInv
<1> SUFFICES ASSUME Init PROVE ResultInv OBVIOUS
<1>1. PICK g : g = Frame(1, option) OBVIOUS
<1>2. /\ heap = [a \in Callers |-> RObject(a[2], <<>>, <<>>)]
      /\ stack = <<g>> /\ ret = None /\ status = "running"
  BY <1>1 DEF Init
<1>3. DOMAIN stack = {1} /\ stack[1] = g /\ Len(stack) = 1 /\ stack # <<>> BY <1>2
<1>4. g.node = 1 /\ g.pc = "element" /\ g.i = 1 BY <1>1 DEF Frame
<1>5. \A a \in Callers : a[1] = 0 /\ a[2] \in {"empty_array", "empty_object", "single_null"}
  BY DEF Callers, CallersObject
<1>6. \A a \in DOMAIN heap : a \in Callers /\ Sensible(doc, a) BY <1>2 DEF Sensible
<1>7. \A a \in DOMAIN heap : heap[a] = Done(doc, option, a) /\ a[1] # g.node
  BY <1>2, <1>4, <1>5 DEF Done
<1>8. Contents BY <1>3, <1>6, <1>7 DEF Contents
<1>9. LevelOK(doc, option, g) BY <1>4 DEF LevelOK, InFrame
<1>10. Nesting
  <2>1. 1 .. Len(stack) - 1 = {} BY <1>3
  <2> QED BY <1>2, <1>3, <1>4, <1>9, <2>1 DEF Nesting
<1> QED BY <1>2, <1>8, <1>10 DEF ResultInv

LEMMA ResultHolds == Spec => [](IInv /\ ResultInv)
<1>1. Init => IInv /\ ResultInv
  BY InitiallyOneCall, InitialHeap, InitialResult DEF IInv
<1>2. IInv /\ ResultInv /\ [Next]_vars => (IInv /\ ResultInv)'
  BY CallsKept, ProtectionKept, HeapKept, ResultKept DEF IInv
<1> QED BY <1>1, <1>2, PTL DEF Spec

-----------------------------------------------------------------------------
(***************************************************************************)
(* What R reads once the call has returned.                                *)
(***************************************************************************)

(* What R should see at an address. *)
CellMeans(d, o, n, c, i) ==
    LET m == d.items[n][i]
        v == d.items[m][FirstAt(d, m, columns(d, n)[c])]
    IN  IF ~HasCell(d, n, c, i) THEN IF is_list(d, o, n, c) THEN MissingCell ELSE NA
        ELSE IF is_list(d, o, n, c) THEN Simplified(d, o)[v]
        ELSE cell(column_kind(d, o, n, columns(d, n)[c]), value(d, v))

ColumnMeans(d, o, n, c) ==
    RObject(ColumnClass(d, o, n, c),
            [i \in DOMAIN d.items[n] |-> CellMeans(d, o, n, c, i)], <<>>)

Meaning(d, o, a) ==
    CASE a[2] = "out" -> Simplified(d, o)[a[1]]
      [] a[2] = "vec" -> ColumnMeans(d, o, a[1], a[3])
      [] OTHER        -> Done(d, o, a)

(* No call is running: every object is complete. *)
Settled ==
    /\ HeapInv /\ doc \in Docs /\ option \in Option
    /\ \A a \in DOMAIN heap : Sensible(doc, a) /\ heap[a] = Done(doc, option, a)

(* An object refers to those of nodes below its own, and to its parts.     *)
Lower(b, a) == \/ b \in Callers
               \/ b[2] = "na"
               \/ b[1] > a[1]
               \/ b[1] = a[1] /\ a[2] = "out" /\ b[2] = "vec"

LEMMA AddressMeans ==
    ASSUME NEW d, IsDocument(d), NEW o \in Option, NEW m \in nodes(d)
    PROVE  /\ Meaning(d, o, AddressOf(d, m)) = Simplified(d, o)[m]
           /\ AddressOf(d, m) \in Callers \/ AddressOf(d, m) = <<m, "out", 0>>
<1>1. PICK S : S = Simplified(d, o) OBVIOUS
<1>2. S[m] = Object(d, o, S, m) BY <1>1, SimplifiedIs
<1>3. CASE HasOwn(d, m)
  <2>1. PICK a : a = AddressOf(d, m) OBVIOUS
  <2>2. a = <<m, "out", 0>> BY <1>3, <2>1 DEF AddressOf
  <2>3. Meaning(d, o, a) = S[m] BY <1>1, <2>2 DEF Meaning
  <2> QED BY <1>1, <2>1, <2>2, <2>3
<1>4. CASE ~HasOwn(d, m)
  <2>1. PICK a, k : a = AddressOf(d, m) /\ k = d.kind[m] OBVIOUS
  <2>2. k \in {"ARRAY", "OBJECT", "NULL_VALUE"} /\ (k # "NULL_VALUE" => d.items[m] = <<>>)
    BY <1>4, <2>1 DEF HasOwn
  <2>3. a = CallersObject(k) BY <1>4, <2>1 DEF AddressOf
  <2>4. a \in Callers BY <2>2, <2>3 DEF Callers
  <2>5. /\ k = "ARRAY" => a[2] = "empty_array"
        /\ k = "OBJECT" => a[2] = "empty_object"
        /\ k = "NULL_VALUE" => a[2] = "single_null"
    BY <2>2, <2>3 DEF CallersObject
  <2>6. Meaning(d, o, a) = RObject(a[2], <<>>, <<>>) BY <2>2, <2>5 DEF Meaning, Done
  <2>7. S[m] = RObject(a[2], <<>>, <<>>) BY <1>2, <2>1, <2>2, <2>5 DEF Object
  <2> QED BY <1>1, <2>1, <2>4, <2>6, <2>7
<1> QED BY <1>3, <1>4

(* Where an object is that refers to others, and of what kind it is. *)
LEMMA RecursiveIs ==
    ASSUME Settled, NEW a \in DOMAIN heap, IsRecursive(heap[a]),
           NEW d, d = doc, NEW o, o = option, NEW n, n = a[1]
    PROVE  /\ IsDocument(d) /\ o \in Option /\ n \in nodes(d) /\ n \in Nat \ {0}
           /\ \/ /\ a = <<n, "out", 0>> /\ d.kind[n] \in {"ARRAY", "OBJECT"}
                 /\ d.items[n] # <<>>
                 /\ heap[a] = DoneOut(d, o, n)
                 /\ d.kind[n] = "ARRAY" => Level(d, o, n) \in {"data_frame", "list"}
              \/ /\ a[2] = "vec" /\ a[3] \in DOMAIN columns(d, n) /\ is_list(d, o, n, a[3])
                 /\ IsTable(d, n) /\ heap[a] = DoneColumn(d, o, n, a[3])
<1>1. IsDocument(d) /\ o \in Option /\ nodes(d) \subseteq Nat \ {0} BY DocFacts DEF Settled
<1>2. Sensible(d, a) /\ heap[a] = Done(d, o, a) /\ heap[a].class \in {"list", "data.frame"}
  BY DEF Settled, IsRecursive
<1>3. \A x, y, z : RObject(x, y, z).class = x BY DEF RObject
<1>4. a \notin Callers
  <2>1. a \in Callers => heap[a] = RObject(a[2], <<>>, <<>>)
                         /\ a[2] \in {"empty_array", "empty_object", "single_null"}
    BY <1>2 DEF Done, Callers, CallersObject
  <2> QED BY <1>2, <1>3, <2>1
<1>5. /\ a \in nodes(d) \X {"out", "names", "vec", "na"} \X Nat
      /\ a[2] = "out" => a = <<n, "out", 0>> /\ HasOwn(d, n)
      /\ a[2] = "vec" => IsTable(d, n)
  BY <1>2, <1>4 DEF Sensible
<1>6. n \in nodes(d) BY <1>5
<1>7. a[2] \notin {"names", "na"}
  <2>1. a[2] = "names" => heap[a].class = "vector" BY <1>2, <1>3 DEF Done, DoneNames
  <2>2. a[2] = "na" => heap[a].class = "vector" BY <1>2, <1>3 DEF Done, MissingCell
  <2> QED BY <1>2, <2>1, <2>2
<1>8. CASE a[2] = "out"
  <2>1. heap[a] = DoneOut(d, o, n) BY <1>2, <1>8 DEF Done
  <2>2. d.kind[n] \in {"ARRAY", "OBJECT"} BY <1>2, <1>3, <2>1 DEF DoneOut
  <2>3. d.items[n] # <<>> BY <1>5, <1>8, <2>2 DEF HasOwn
  <2>4. d.kind[n] = "ARRAY" => Level(d, o, n) \in {"data_frame", "list"}
    <3>1. Level(d, o, n) \in SimplifyTo BY <1>1, LevelFacts
    <3>2. d.kind[n] = "ARRAY" /\ Level(d, o, n) \in {"matrix", "vector"}
            => heap[a].class \in {"matrix", "vector"}
      BY <1>3, <2>1 DEF DoneOut
    <3> QED BY <1>2, <3>1, <3>2 DEF SimplifyTo
  <2> QED BY <1>1, <1>5, <1>6, <1>8, <2>1, <2>2, <2>3, <2>4
<1>9. CASE a[2] = "vec"
  <2>1. heap[a] = DoneColumn(d, o, n, a[3]) BY <1>2, <1>9 DEF Done
  <2>2. ObjectOK(a, heap[a]) BY DEF Settled, HeapInv
  <2>3. a[3] \in DOMAIN columns(d, n) BY <1>9, <2>2 DEF ObjectOK, cols_of
  <2>4. is_list(d, o, n, a[3]) BY <1>2, <1>3, <2>1 DEF DoneColumn, ColumnClass
  <2> QED BY <1>1, <1>5, <1>6, <1>9, <2>1, <2>3, <2>4
<1> QED BY <1>5, <1>7, <1>8, <1>9

(* The value under a column's key in a row. *)
LEMMA CellBelow ==
    ASSUME NEW d, IsDocument(d), NEW n \in nodes(d), n \in Nat, IsTable(d, n),
           NEW i \in DOMAIN d.items[n], NEW c, HasCell(d, n, c, i),
           NEW v, v = d.items[d.items[n][i]][FirstAt(d, d.items[n][i], columns(d, n)[c])]
    PROVE  v \in nodes(d) /\ v > n
<1>1. PICK m, k : m = d.items[n][i] /\ k = columns(d, n)[c] OBVIOUS
<1>2. /\ m \in nodes(d) /\ m > n /\ DOMAIN d.keys[m] = DOMAIN d.items[m]
      /\ \A p \in DOMAIN d.items[m] : d.items[m][p] \in nodes(d) /\ d.items[m][p] > m
  BY <1>1, TableFields
<1>3. k \in Range(d.keys[m]) BY <1>1 DEF HasCell
<1>4. FirstAt(d, m, k) \in DOMAIN d.keys[m] BY <1>2, <1>3, FirstField
<1>5. v \in nodes(d) /\ v > m BY <1>1, <1>2, <1>4
<1>6. v \in Nat /\ m \in Nat
  <2>1. d.kind \in Seq(ElementKind) BY DEF IsDocument
  <2>2. nodes(d) \subseteq Nat BY <2>1 DEF nodes
  <2> QED BY <1>2, <1>5, <2>2
<1> QED BY <1>2, <1>5, <1>6

(* What a complete object refers to is there, and lower. *)
LEMMA ElementsOf ==
    ASSUME Settled, NEW a \in DOMAIN heap, IsRecursive(heap[a]),
           NEW k \in DOMAIN heap[a].elems
    PROVE  heap[a].elems[k] \in DOMAIN heap /\ Lower(heap[a].elems[k], a)
<1>1. PICK d, o, n, p, x : d = doc /\ o = option /\ n = a[1] /\ p = heap[a] /\ x = p.elems[k]
  OBVIOUS
<1>2. /\ IsDocument(d) /\ o \in Option /\ n \in nodes(d) /\ n \in Nat \ {0}
      /\ \/ /\ a = <<n, "out", 0>> /\ d.kind[n] \in {"ARRAY", "OBJECT"}
            /\ d.items[n] # <<>>
            /\ p = DoneOut(d, o, n)
            /\ d.kind[n] = "ARRAY" => Level(d, o, n) \in {"data_frame", "list"}
         \/ /\ a[2] = "vec" /\ a[3] \in DOMAIN columns(d, n) /\ is_list(d, o, n, a[3])
            /\ IsTable(d, n) /\ p = DoneColumn(d, o, n, a[3])
  BY <1>1, RecursiveIs
<1>3. \A y, z, u : RObject(y, z, u).elems = z BY DEF RObject
<1>4. DOMAIN columns(d, n) \subseteq Nat
  <2>1. PICK N \in Nat : DOMAIN columns(d, n) = 1 .. N BY <1>2, ColumnsType
  <2> QED BY <2>1
<1>5. \A y \in nodes(d) : AddressOf(d, y) # None
                          /\ (AddressOf(d, y) \in Callers \/ AddressOf(d, y) = <<y, "out", 0>>)
  <2> TAKE y \in nodes(d)
  <2>1. AddressOf(d, y) \in Callers \/ AddressOf(d, y) = <<y, "out", 0>>
    BY <1>2, AddressMeans
  <2>2. <<y, "out", 0>> # None /\ \A b \in Callers : b # None
    BY <1>1, AddressIsSome DEF Settled
  <2> QED BY <2>1, <2>2
<1>6. x # None /\ Lower(x, a)
  <2>1. CASE /\ a = <<n, "out", 0>> /\ d.kind[n] \in {"ARRAY", "OBJECT"}
             /\ p = DoneOut(d, o, n)
             /\ d.kind[n] = "ARRAY" => Level(d, o, n) = "list"
    <3>1. p.elems = Items(d, n) BY <1>3, <2>1 DEF DoneOut
    <3>2. k \in DOMAIN d.items[n] /\ x = AddressOf(d, d.items[n][k])
      BY <1>1, <3>1 DEF Items
    <3>3. PICK m : m = d.items[n][k] OBVIOUS
    <3>4. m \in nodes(d) /\ m > n
      <4>1. d.items[n] \in Seq(nodes(d)) /\ \A y \in Range(d.items[n]) : y > n
        BY <1>2 DEF IsDocument
      <4> QED BY <3>2, <3>3, <4>1 DEF Range
    <3>5. x # None /\ (x \in Callers \/ x = <<m, "out", 0>>) BY <1>5, <3>2, <3>3, <3>4
    <3> QED BY <2>1, <3>4, <3>5 DEF Lower
  <2>2. CASE a = <<n, "out", 0>> /\ d.kind[n] = "ARRAY" /\ p = DoneOut(d, o, n)
             /\ Level(d, o, n) = "data_frame"
    <3>1. p.elems = [c \in DOMAIN columns(d, n) |-> <<n, "vec", c>>]
      BY <1>3, <2>2 DEF DoneOut
    <3>2. k \in Nat /\ x = <<n, "vec", k>> BY <1>1, <1>4, <3>1
    <3>3. x \in Address BY <1>2, <3>2 DEF Address
    <3>4. x # None BY <3>3, NoneAssumption
    <3> QED BY <2>2, <3>2, <3>4 DEF Lower
  <2>3. CASE a[2] = "vec" /\ a[3] \in DOMAIN columns(d, n) /\ is_list(d, o, n, a[3])
             /\ IsTable(d, n) /\ p = DoneColumn(d, o, n, a[3])
    <3>1. PICK c : c = a[3] /\ c \in Nat BY <1>4, <2>3
    <3>2. k \in DOMAIN d.items[n] /\ x = ColumnCell(d, o, n, c, k)
      BY <1>1, <1>3, <2>3, <3>1 DEF DoneColumn
    <3>3. CASE ~HasCell(d, n, c, k)
      <4>1. x = <<n, "na", c>> BY <2>3, <3>1, <3>2, <3>3 DEF ColumnCell, Missing
      <4>2. x \in Address BY <1>2, <3>1, <4>1 DEF Address
      <4>3. x # None BY <4>2, NoneAssumption
      <4> QED BY <4>1, <4>3 DEF Lower
    <3>4. CASE HasCell(d, n, c, k)
      <4>1. PICK v : v = d.items[d.items[n][k]][FirstAt(d, d.items[n][k], columns(d, n)[c])]
        OBVIOUS
      <4>2. x = AddressOf(d, v) BY <2>3, <3>1, <3>2, <3>4, <4>1 DEF ColumnCell
      <4>3. v \in nodes(d) /\ v > n BY <1>2, <2>3, <3>2, <3>4, <4>1, CellBelow
      <4>4. x # None /\ (x \in Callers \/ x = <<v, "out", 0>>) BY <1>5, <4>2, <4>3
      <4> QED BY <1>1, <4>3, <4>4 DEF Lower
    <3> QED BY <3>3, <3>4
  <2> QED BY <1>2, <2>1, <2>2, <2>3
<1>7. x \in DOMAIN heap
  <2>1. x \in Refs(p) BY <1>1, <1>6 DEF Refs, Range
  <2>2. Refs(p) \subseteq DOMAIN heap BY <1>1 DEF Settled, HeapInv, NoDangling
  <2> QED BY <2>1, <2>2
<1> QED BY <1>1, <1>6, <1>7

(* If f is what R should see of the elements of an object, it is seen so.  *)
LEMMA SeenIs ==
    ASSUME Settled, NEW f, NEW a \in DOMAIN heap,
           IsRecursive(heap[a]) =>
             \A k \in DOMAIN heap[a].elems :
                f[heap[a].elems[k]] = Meaning(doc, option, heap[a].elems[k])
    PROVE  Seen(f, a) = Meaning(doc, option, a)
<1>1. PICK d, o, n, p, S : /\ d = doc /\ o = option /\ n = a[1] /\ p = heap[a]
                           /\ S = Simplified(d, o)
  OBVIOUS
<1>2. \A y, z, u : LET q == RObject(y, z, u) IN q.class = y /\ q.elems = z /\ q.attr = u
  BY DEF RObject
<1>3. IsDocument(d) /\ o \in Option /\ Sensible(d, a) /\ p = Done(d, o, a)
  BY <1>1, DocFacts DEF Settled
<1>4. CASE ~IsRecursive(p)
  <2>1. Seen(f, a) = p BY <1>1, <1>4 DEF Seen
  <2>2. CASE a[2] = "out"
    <3>1. p = DoneOut(d, o, n) BY <1>1, <1>3, <2>2 DEF Done
    <3>2. n \in nodes(d) /\ HasOwn(d, n)
      BY <1>1, <1>3, <2>2 DEF Sensible, Callers, CallersObject
    <3>3. S[n] = Object(d, o, S, n) BY <1>1, <1>3, <3>2, SimplifiedIs
    <3>4. Level(d, o, n) \in SimplifyTo BY <1>3, LevelFacts
    <3>5. d.kind[n] # "OBJECT"
      BY <1>2, <1>4, <3>1 DEF IsRecursive, DoneOut
    <3>6. d.kind[n] = "ARRAY" => Level(d, o, n) \notin {"data_frame", "list"}
      BY <1>2, <1>4, <3>1 DEF IsRecursive, DoneOut
    <3>7. p = Object(d, o, S, n)
      BY <3>1, <3>2, <3>4, <3>5, <3>6 DEF DoneOut, Object, HasOwn, SimplifyTo
    <3> QED BY <1>1, <2>1, <2>2, <3>3, <3>7 DEF Meaning
  <2>3. CASE a[2] = "vec"
    <3>1. PICK c : c = a[3] OBVIOUS
    <3>2. p = DoneColumn(d, o, n, c) BY <1>1, <1>3, <2>3, <3>1 DEF Done
    <3>3. ~is_list(d, o, n, c) BY <1>2, <1>4, <3>2 DEF IsRecursive, DoneColumn, ColumnClass
    <3>4. \A i : ColumnCell(d, o, n, c, i) = CellMeans(d, o, n, c, i)
      BY <3>3 DEF ColumnCell, CellMeans, Missing
    <3>5. p = ColumnMeans(d, o, n, c) BY <3>2, <3>4 DEF DoneColumn, ColumnMeans
    <3> QED BY <1>1, <2>1, <2>3, <3>1, <3>5 DEF Meaning
  <2>4. CASE a[2] \notin {"out", "vec"}
    BY <1>1, <1>3, <2>1, <2>4 DEF Meaning
  <2> QED BY <2>2, <2>3, <2>4
<1>5. CASE IsRecursive(p)
  <2>1. /\ n \in nodes(d) /\ n \in Nat \ {0}
        /\ \/ /\ a = <<n, "out", 0>> /\ d.kind[n] \in {"ARRAY", "OBJECT"}
              /\ d.items[n] # <<>>
              /\ p = DoneOut(d, o, n)
              /\ d.kind[n] = "ARRAY" => Level(d, o, n) \in {"data_frame", "list"}
           \/ /\ a[2] = "vec" /\ a[3] \in DOMAIN columns(d, n) /\ is_list(d, o, n, a[3])
              /\ IsTable(d, n) /\ p = DoneColumn(d, o, n, a[3])
    BY <1>1, <1>5, RecursiveIs
  <2>2. \A k \in DOMAIN p.elems : f[p.elems[k]] = Meaning(d, o, p.elems[k]) BY <1>1, <1>5
  <2>3. Seen(f, a) = RObject(p.class, [k \in DOMAIN p.elems |-> Meaning(d, o, p.elems[k])],
                             IF p.attr = <<>> THEN <<>> ELSE heap[p.attr].elems)
    BY <1>1, <1>5, <2>2 DEF Seen
  <2>4. S[n] = Object(d, o, S, n) BY <1>1, <1>3, <2>1, SimplifiedIs
  <2>5. ASSUME p.attr = OwnNames(n)
        PROVE  p.attr # <<>> /\ heap[p.attr].elems = DoneNames(d, n).elems
    <3>1. PICK b : b = p.attr OBVIOUS
    <3>2. b # <<>> /\ b[1] = n /\ b[2] = "names" BY <2>5, <3>1 DEF OwnNames
    <3>3. b \in Refs(p) BY <1>5, <3>1, <3>2 DEF Refs
    <3>4. b \in DOMAIN heap BY <1>1, <3>3 DEF Settled, HeapInv, NoDangling
    <3>5. heap[b] = Done(d, o, b) BY <1>1, <3>4 DEF Settled
    <3>6. Done(d, o, b) = DoneNames(d, n) BY <3>2 DEF Done
    <3> QED BY <3>1, <3>2, <3>5, <3>6
  <2>6. ASSUME NEW m \in nodes(d) PROVE Meaning(d, o, AddressOf(d, m)) = S[m]
    BY <1>1, <1>3, AddressMeans
  <2>7. \A k \in DOMAIN d.items[n] : d.items[n][k] \in nodes(d)
    <3>1. d.items[n] \in Seq(nodes(d)) BY <1>3, <2>1 DEF IsDocument
    <3> QED BY <3>1
  <2>8. \A k \in DOMAIN d.items[n] : Meaning(d, o, Items(d, n)[k]) = S[d.items[n][k]]
    <3>1. \A k \in DOMAIN d.items[n] : Items(d, n)[k] = AddressOf(d, d.items[n][k])
      BY DEF Items
    <3> QED BY <2>6, <2>7, <3>1
  <2>9. DOMAIN Items(d, n) = DOMAIN d.items[n] BY DEF Items
  <2>10. CASE a = <<n, "out", 0>> /\ d.kind[n] = "OBJECT" /\ d.items[n] # <<>>
              /\ p = DoneOut(d, o, n)
    <3>1. p = RObject("list", Items(d, n), OwnNames(n)) BY <2>10 DEF DoneOut
    <3>2. p.class = "list" /\ p.elems = Items(d, n) /\ p.attr = OwnNames(n) BY <1>2, <3>1
    <3>3. DoneNames(d, n).elems = d.keys[n] BY <1>2, <2>10 DEF DoneNames
    <3>4. Seen(f, a) = RObject("list", [k \in DOMAIN d.items[n] |-> S[d.items[n][k]]], d.keys[n])
      BY <2>3, <2>5, <2>8, <2>9, <3>2, <3>3
    <3>5. S[n] = RObject("list", [k \in DOMAIN d.items[n] |-> S[d.items[n][k]]], d.keys[n])
      BY <2>4, <2>10 DEF Object
    <3>6. Meaning(d, o, a) = S[n] BY <1>1, <2>10 DEF Meaning
    <3> QED BY <1>1, <3>4, <3>5, <3>6
  <2>11. CASE a = <<n, "out", 0>> /\ d.kind[n] = "ARRAY" /\ d.items[n] # <<>>
              /\ p = DoneOut(d, o, n) /\ Level(d, o, n) = "list"
    <3>1. p = RObject("list", Items(d, n), <<>>) BY <2>11 DEF DoneOut
    <3>2. p.class = "list" /\ p.elems = Items(d, n) /\ p.attr = <<>> BY <1>2, <3>1
    <3>3. Seen(f, a) = RObject("list", [k \in DOMAIN d.items[n] |-> S[d.items[n][k]]], <<>>)
      BY <2>3, <2>8, <2>9, <3>2
    <3>4. S[n] = RObject("list", [k \in DOMAIN d.items[n] |-> S[d.items[n][k]]], <<>>)
      BY <2>4, <2>11 DEF Object
    <3>5. Meaning(d, o, a) = S[n] BY <1>1, <2>11 DEF Meaning
    <3> QED BY <1>1, <3>3, <3>4, <3>5
  <2>12. CASE a = <<n, "out", 0>> /\ d.kind[n] = "ARRAY" /\ d.items[n] # <<>>
              /\ p = DoneOut(d, o, n) /\ Level(d, o, n) = "data_frame"
    <3>1. PICK D : D = DOMAIN columns(d, n) OBVIOUS
    <3>2. p = RObject("data.frame", [c \in D |-> <<n, "vec", c>>], OwnNames(n))
      BY <2>12, <3>1 DEF DoneOut
    <3>3. p.class = "data.frame" /\ p.elems = [c \in D |-> <<n, "vec", c>>]
          /\ p.attr = OwnNames(n)
      BY <1>2, <3>2
    <3>4. \A c \in D : Meaning(d, o, p.elems[c]) = ColumnMeans(d, o, n, c)
      <4>1. \A c : Meaning(d, o, <<n, "vec", c>>) = ColumnMeans(d, o, n, c) BY DEF Meaning
      <4> QED BY <3>3, <4>1
    <3>5. DoneNames(d, n).elems = columns(d, n) BY <1>2, <2>12 DEF DoneNames
    <3>6. Seen(f, a) = RObject("data.frame", [c \in D |-> ColumnMeans(d, o, n, c)], columns(d, n))
      BY <2>3, <2>5, <3>3, <3>4, <3>5
    <3>7. S[n] = RObject("data.frame", [c \in D |-> ColumnMeans(d, o, n, c)], columns(d, n))
      BY <1>1, <2>4, <2>12, <3>1
         DEF Object, ColumnMeans, CellMeans, ColumnClass, HasCell, is_list, rows
    <3>8. Meaning(d, o, a) = S[n] BY <1>1, <2>12 DEF Meaning
    <3> QED BY <1>1, <3>6, <3>7, <3>8
  <2>13. CASE a[2] = "vec" /\ a[3] \in DOMAIN columns(d, n) /\ is_list(d, o, n, a[3])
              /\ IsTable(d, n) /\ p = DoneColumn(d, o, n, a[3])
    <3>1. PICK c : c = a[3] OBVIOUS
    <3>2. PICK D : D = DOMAIN d.items[n] OBVIOUS
    <3>3. p = RObject("list", [i \in D |-> ColumnCell(d, o, n, c, i)], <<>>)
      BY <2>13, <3>1, <3>2 DEF DoneColumn, ColumnClass
    <3>4. p.class = "list" /\ p.elems = [i \in D |-> ColumnCell(d, o, n, c, i)]
          /\ p.attr = <<>>
      BY <1>2, <3>3
    <3>5. ASSUME NEW i \in D PROVE Meaning(d, o, p.elems[i]) = CellMeans(d, o, n, c, i)
      <4>1. p.elems[i] = ColumnCell(d, o, n, c, i) BY <3>4
      <4>2. CASE ~HasCell(d, n, c, i)
        <5>1. ColumnCell(d, o, n, c, i) = <<n, "na", c>>
          BY <2>13, <3>1, <4>2 DEF ColumnCell, Missing
        <5>2. Meaning(d, o, <<n, "na", c>>) = MissingCell BY DEF Meaning, Done
        <5>3. CellMeans(d, o, n, c, i) = MissingCell BY <2>13, <3>1, <4>2 DEF CellMeans
        <5> QED BY <4>1, <5>1, <5>2, <5>3
      <4>3. CASE HasCell(d, n, c, i)
        <5>1. PICK v : v = d.items[d.items[n][i]][FirstAt(d, d.items[n][i], columns(d, n)[c])]
          OBVIOUS
        <5>2. ColumnCell(d, o, n, c, i) = AddressOf(d, v)
          BY <2>13, <3>1, <4>3, <5>1 DEF ColumnCell
        <5>3. v \in nodes(d) BY <1>3, <2>1, <2>13, <3>2, <4>3, <5>1, CellBelow
        <5>4. Meaning(d, o, AddressOf(d, v)) = S[v] BY <2>6, <5>3
        <5>5. CellMeans(d, o, n, c, i) = S[v]
          BY <1>1, <2>13, <3>1, <4>3, <5>1 DEF CellMeans
        <5> QED BY <4>1, <5>2, <5>4, <5>5
      <4> QED BY <4>2, <4>3
    <3>6. Seen(f, a) = RObject("list", [i \in D |-> CellMeans(d, o, n, c, i)], <<>>)
      BY <2>3, <3>4, <3>5
    <3>7. ColumnMeans(d, o, n, c) = RObject("list", [i \in D |-> CellMeans(d, o, n, c, i)], <<>>)
      BY <2>13, <3>1, <3>2 DEF ColumnMeans, ColumnClass
    <3>8. Meaning(d, o, a) = ColumnMeans(d, o, n, c) BY <1>1, <2>13, <3>1 DEF Meaning
    <3> QED BY <1>1, <3>6, <3>7, <3>8
  <2> QED BY <2>1, <2>10, <2>11, <2>12, <2>13
<1> QED BY <1>1, <1>4, <1>5

(* R can read all that is on the heap, and sees what it should.            *)
LEMMA ReadIs ==
    ASSUME Settled
    PROVE  \A a \in DOMAIN heap : Read[a] = Meaning(doc, option, a)
<1>1. PICK A, means, elems : /\ A = DOMAIN heap
                             /\ means = [a \in A |-> Meaning(doc, option, a)]
                             /\ elems = [a \in A |-> heap[a].elems]
  OBVIOUS
<1>2. \A a \in A : IsRecursive(heap[a]) =>
         \A k \in DOMAIN elems[a] : elems[a][k] \in A /\ Lower(elems[a][k], a)
  BY <1>1, ElementsOf
<1>3. ASSUME NEW f, NEW a \in A,
             IsRecursive(heap[a]) => \A k \in DOMAIN elems[a] : f[elems[a][k]] = means[elems[a][k]]
      PROVE  Seen(f, a) = means[a]
  <2>1. IsRecursive(heap[a]) =>
           \A k \in DOMAIN heap[a].elems :
              f[heap[a].elems[k]] = Meaning(doc, option, heap[a].elems[k])
    BY <1>1, <1>2, <1>3
  <2>2. Seen(f, a) = Meaning(doc, option, a) BY <1>1, <2>1, SeenIs
  <2> QED BY <1>1, <2>2
<1>4. means = [a \in A |-> Seen(means, a)]
  <2>1. \A a \in A : Seen(means, a) = means[a] BY <1>3
  <2> QED BY <1>1, <2>1
<1>5. Read = CHOOSE f : f = [a \in A |-> Seen(f, a)] BY <1>1 DEF Read
<1>6. PICK f : f = Read /\ f = [a \in A |-> Seen(f, a)]
  <2>1. \E f : f = [a \in A |-> Seen(f, a)] BY <1>4
  <2> QED BY <1>5, <2>1
<1>7. PICK N \in Nat : nodes(doc) = 1 .. N
  <2>1. doc.kind \in Seq(ElementKind) BY DocFacts DEF Settled, IsDocument
  <2> QED BY <2>1 DEF nodes
<1>8. \A a \in A : /\ a \in Callers \/ a[1] \in 1 .. N
                   /\ a \in Callers => a[1] = 0 /\ a[2] \notin {"out", "vec", "names", "na"}
  <2>1. \A a \in A : Sensible(doc, a) BY <1>1 DEF Settled
  <2>2. \A a \in Callers : a[1] = 0 /\ a[2] \notin {"out", "vec", "names", "na"}
    BY DEF Callers, CallersObject
  <2> QED BY <1>7, <2>1, <2>2 DEF Sensible
<1>9. \A a \in A : IsRecursive(heap[a]) => a[2] \in {"out", "vec"} /\ a \notin Callers
  BY <1>1, <1>8, RecursiveIs
<1>10. PICK Bad : Bad = {a \in A : f[a] # means[a]} OBVIOUS
<1>11. ASSUME NEW a \in Bad
       PROVE  IsRecursive(heap[a]) /\ \E b \in Bad : Lower(b, a)
  <2>1. Seen(f, a) # means[a] BY <1>6, <1>10
  <2>2. IsRecursive(heap[a]) /\ \E k \in DOMAIN elems[a] : f[elems[a][k]] # means[elems[a][k]]
    BY <1>3, <1>10, <2>1
  <2> QED BY <1>2, <1>10, <2>2
<1>12. \A a \in Bad : a \in A /\ a[2] \in {"out", "vec"} /\ a \notin Callers /\ a[1] \in 1 .. N
  BY <1>8, <1>9, <1>10, <1>11
<1>13. Bad = {}
  <2> SUFFICES ASSUME Bad # {} PROVE FALSE OBVIOUS
  <2>1. PICK B : B = {n \in 0 .. N : \E a \in Bad : a[1] = n} OBVIOUS
  <2>2. B \in SUBSET (0 .. N) /\ B # {} BY <1>12, <2>1
  <2>3. PICK n \in B : \A m \in B : m <= n BY <2>2, Greatest
  <2>4. PICK a \in Bad : a[1] = n BY <2>1
  <2>5. PICK b \in Bad : Lower(b, a) BY <1>11
  <2>6. ASSUME NEW x \in Bad, NEW y \in Bad, x[1] = n, Lower(y, x)
        PROVE  y[1] = n /\ x[2] = "out" /\ y[2] = "vec"
    <3>1. y[1] \in 0 .. N BY <1>12
    <3>2. y[1] \in B BY <2>1, <3>1
    <3>3. y[1] <= n BY <2>3, <3>2
    <3>4. y \notin Callers /\ y[2] # "na" BY <1>12
    <3>5. ~(y[1] > x[1]) BY <2>2, <2>6, <3>1, <3>3
    <3> QED BY <2>6, <3>4, <3>5 DEF Lower
  <2>7. b[1] = n /\ b[2] = "vec" BY <2>4, <2>5, <2>6
  <2>8. PICK c \in Bad : Lower(c, b) BY <1>11
  <2>9. b[2] = "out" BY <2>6, <2>7, <2>8
  <2> QED BY <2>7, <2>9
<1> QED BY <1>1, <1>6, <1>10, <1>13

(* Whatever the document and the options, the call returns the R object    *)
(* that its document is promised to become: no level that was tried and    *)
(* given up, no typed loop, no order in which rows, columns and nested     *)
(* values were filled in, and no collection in between makes a difference. *)
THEOREM ReturnsWhatIsPromised == Spec => []ReturnsItsSimplification
<1>1. IInv /\ ResultInv => ReturnsItsSimplification
  <2> SUFFICES ASSUME IInv, ResultInv, status = "returned"
               PROVE  Read[ret] = Simplified(doc, option)[1]
    BY DEF ReturnsItsSimplification
  <2>1. CallsInv /\ HeapInv /\ InUse /\ Contents /\ Nesting /\ ret # None
    BY DEF IInv, ResultInv
  <2>2. stack = <<>> BY <2>1 DEF CallsInv
  <2>3. option \in Option BY <2>1, SimplifyOptionsAssumption DEF CallsInv
  <2>4. \A n : ~IsOnStack(n) BY <2>2 DEF IsOnStack
  <2>5. Settled BY <2>1, <2>3, <2>4 DEF Settled, Contents, CallsInv
  <2>6. ret = AddressOf(doc, 1) /\ ret \in DOMAIN heap BY <2>1, <2>2 DEF Nesting, InUse
  <2>7. IsDocument(doc) /\ 1 \in nodes(doc) BY <2>5, DocFacts DEF Settled
  <2>8. PICK d, o : d = doc /\ o = option OBVIOUS
  <2>9. Meaning(d, o, AddressOf(d, 1)) = Simplified(d, o)[1]
    BY <2>3, <2>7, <2>8, AddressMeans
  <2>10. Read[ret] = Meaning(doc, option, ret) BY <2>5, <2>6, ReadIs
  <2> QED BY <2>6, <2>8, <2>9, <2>10
<1> QED BY <1>1, ResultHolds, PTL
=============================================================================
