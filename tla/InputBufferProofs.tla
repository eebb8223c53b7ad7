------------------------- MODULE InputBufferProofs -------------------------
(***************************************************************************)
(* Proofs about InputBuffer, for documents of any lengths, any padding and *)
(* limit, and calls nested to any depth.                                   *)
(*                                                                         *)
(* That documents fit is about the topmost call.  It is inductive because  *)
(* the calls below are all decompressing, and copy their document anew     *)
(* when they go on, whatever has become of the buffer.  That no large      *)
(* buffer is kept is inductive once the types are known: the call that     *)
(* empties the stack is the last to end, and no buffer grows between calls.*)
(***************************************************************************)
EXTENDS InputBuffer, SequenceTheorems, TLAPS

IInv == TypeOK /\ CapacityIsAllocated /\ DocumentFits

-----------------------------------------------------------------------------
(* The stack of calls *)

(* Storing the frame of the topmost call leaves the calls below alone. *)
LEMMA SetTopType ==
    ASSUME TypeOK, calls # <<>>, NEW f \in Frame, SetTop(f)
    PROVE  /\ calls' \in Seq(Frame) /\ Len(calls') = Len(calls)
           /\ calls'[Len(calls')] = f
           /\ \A k \in 1 .. Len(calls') - 1 : calls'[k].pc = "decompress"
<1>1. Len(calls) \in Nat \ {0} BY DEF TypeOK
<1>2. /\ calls' \in Seq(Frame) /\ Len(calls') = Len(calls)
      /\ calls'[Len(calls')] = f
  BY <1>1 DEF TypeOK, SetTop
<1>3. ASSUME NEW k \in 1 .. Len(calls') - 1 PROVE calls'[k].pc = "decompress"
  <2>1. k \in 1 .. Len(calls) - 1 /\ k \in DOMAIN calls /\ k # Len(calls)
    BY <1>1, <1>2 DEF TypeOK
  <2>2. calls'[k] = calls[k] BY <2>1 DEF SetTop
  <2> QED BY <2>1, <2>2 DEF TypeOK
<1> QED BY <1>2, <1>3

(* When the topmost call ends, the one below is on top: it decompresses. *)
LEMMA PopType ==
    ASSUME TypeOK, calls # <<>>, Pop
    PROVE  /\ calls' \in Seq(Frame) /\ Len(calls') = Len(calls) - 1
           /\ \A k \in 1 .. Len(calls') : calls'[k].pc = "decompress"
<1>1. Len(calls) \in Nat \ {0} BY DEF TypeOK
<1> DEFINE n == Len(calls) - 1
<1>2. calls \in Seq(Frame) /\ n \in 0 .. Len(calls) /\ calls' = SubSeq(calls, 1, n)
  BY <1>1 DEF TypeOK, Pop
<1>3. calls' \in Seq(Frame) /\ Len(calls') = Len(calls) - 1
  <2>1. /\ SubSeq(calls, 1, n) \in Seq(Frame)
        /\ Len(SubSeq(calls, 1, n)) = IF 1 <= n THEN n - 1 + 1 ELSE 0
    BY <1>1, <1>2, SubSeqProperties
  <2>n. n \in Nat BY <1>1
  <2> HIDE DEF n
  <2>2. (IF 1 <= n THEN n - 1 + 1 ELSE 0) = n BY <2>n
  <2>3. calls' \in Seq(Frame) /\ Len(calls') = n BY <1>2, <2>1, <2>2, Zenon
  <2> QED BY <2>3 DEF n
<1>4. ASSUME NEW k \in 1 .. Len(calls') PROVE calls'[k].pc = "decompress"
  <2>1. calls'[k] = calls[k] BY <1>1, <1>2, <1>3 DEF TypeOK
  <2> QED BY <1>3, <2>1 DEF TypeOK
<1> QED BY <1>3, <1>4

LEMMA TopType == ASSUME TypeOK, calls # <<>> PROVE Top \in Frame
BY DEF TypeOK, Top

-----------------------------------------------------------------------------
(* The invariant *)

LEMMA InitIInv == Init => IInv
BY BoundsAssumption DEF Init, IInv, TypeOK, CapacityIsAllocated, DocumentFits, nullptr

(* A call ends: any way of leaving the buffer consistent will do, as the   *)
(* call below does not use an element.                                     *)
LEMMA PopIInv ==
    ASSUME IInv, calls # <<>>, Pop, ended' \in {"none", "orderly", "jumped"},
           data' \in Nat \cup {nullptr}, capacity' \in Nat, CapacityIsAllocated'
    PROVE  IInv'
<1>1. TypeOK BY DEF IInv
<1>2. /\ calls' \in Seq(Frame) /\ Len(calls') = Len(calls) - 1
      /\ \A k \in 1 .. Len(calls') : calls'[k].pc = "decompress"
  BY <1>1, PopType
<1>3. TypeOK' BY <1>1, <1>2, BoundsAssumption DEF TypeOK
<1>4. DocumentFits'
  <2>1. calls' # <<>> => Len(calls') \in 1 .. Len(calls') BY <1>2
  <2> QED BY <1>2, <2>1 DEF DocumentFits, Top
<1> QED BY <1>3, <1>4 DEF IInv

LEMMA LeaveScopeIInv == ASSUME IInv, calls # <<>>, LeaveScope PROVE IInv'
<1>1. /\ data' \in Nat \cup {nullptr} /\ capacity' \in Nat
      /\ CapacityIsAllocated'
  BY DEF IInv, TypeOK, LeaveScope, release, CapacityIsAllocated
<1> QED BY <1>1, PopIInv DEF LeaveScope

(* The topmost call goes on, not to use an element.                        *)
LEMMA GoOnIInv ==
    ASSUME IInv, calls # <<>>, NEW f \in Frame, f.pc # "use", SetTop(f), ended' = ended,
           data' \in Nat \cup {nullptr}, capacity' \in Nat, CapacityIsAllocated'
    PROVE  IInv'
<1>1. TypeOK BY DEF IInv
<1>2. /\ calls' \in Seq(Frame) /\ Len(calls') = Len(calls)
      /\ calls'[Len(calls')] = f
      /\ \A k \in 1 .. Len(calls') - 1 : calls'[k].pc = "decompress"
  BY <1>1, SetTopType
<1>3. TypeOK' BY <1>1, <1>2 DEF TypeOK
<1>4. DocumentFits' BY <1>2 DEF DocumentFits, Top
<1> QED BY <1>3, <1>4 DEF IInv

LEMMA ReleaseJsonMemoryIInv == ASSUME IInv, ReleaseJsonMemory PROVE IInv'
<1>1. TypeOK'
  BY DEF IInv, TypeOK, ReleaseJsonMemory, release
<1>2. CapacityIsAllocated'
  BY DEF ReleaseJsonMemory, release, CapacityIsAllocated
<1>3. DocumentFits'
  BY DEF ReleaseJsonMemory, InR, DocumentFits, Top
<1> QED BY <1>1, <1>2, <1>3 DEF IInv

LEMMA BeginIInv == ASSUME IInv, Begin PROVE IInv'
<1> DEFINE f == [pc |-> "next", doc |-> None]
<1>1. TypeOK /\ f \in Frame BY DEF IInv, Frame
<1>2. /\ calls' \in Seq(Frame) /\ Len(calls') = Len(calls) + 1
      /\ calls'[Len(calls')] = f
      /\ Len(calls) \in Nat
  BY <1>1 DEF Begin, TypeOK
<1>3. ASSUME NEW k \in 1 .. Len(calls') - 1 PROVE calls'[k].pc = "decompress"
  <2>1. k \in 1 .. Len(calls) /\ calls'[k] = calls[k]
    BY <1>1, <1>2 DEF Begin, TypeOK
  <2>2. k = Len(calls) => calls # <<>> /\ calls[k].pc = "decompress"
    BY <1>1, <2>1 DEF Begin, InR, Top, TypeOK
  <2> QED BY <1>1, <1>2, <2>1, <2>2 DEF TypeOK
<1>4. TypeOK' BY <1>1, <1>2, <1>3, BoundsAssumption DEF Begin, TypeOK
<1>5. CapacityIsAllocated' BY DEF Begin, IInv, CapacityIsAllocated
<1>6. DocumentFits' BY <1>2 DEF DocumentFits, Top
<1> QED BY <1>4, <1>5, <1>6 DEF IInv

LEMMA NextDocumentIInv == ASSUME IInv, NextDocument PROVE IInv'
<1>1. PICK d \in Doc, step \in {"parse", "decompress", "loaded"} :
         SetTop([pc |-> step, doc |-> d])
  BY DEF NextDocument
<1>2. [pc |-> step, doc |-> d] \in Frame BY DEF Frame
<1>3. /\ data' \in Nat \cup {nullptr} /\ capacity' \in Nat
      /\ CapacityIsAllocated' /\ calls # <<>> /\ ended' = ended
  BY DEF NextDocument, IInv, TypeOK, CapacityIsAllocated
<1> QED BY <1>1, <1>2, <1>3, GoOnIInv

LEMMA DecompressedIInv == ASSUME IInv, Decompressed PROVE IInv'
<1>1. /\ calls # <<>> /\ Top \in Frame /\ Top.pc = "decompress" /\ ended' = ended
      /\ data' \in Nat \cup {nullptr} /\ capacity' \in Nat
      /\ CapacityIsAllocated'
  BY TopType DEF Decompressed, IInv, TypeOK, CapacityIsAllocated
<1>2. [Top EXCEPT !.pc = "parse"] \in Frame /\ [Top EXCEPT !.pc = "parse"].pc = "parse"
  BY <1>1 DEF Frame
<1>3. SetTop([Top EXCEPT !.pc = "parse"]) BY DEF Decompressed
<1> QED BY <1>1, <1>2, <1>3, GoOnIInv

(* The comparison with the capacity says whether the array is long enough, *)
(* because the capacity is that of the array.                              *)
LEMMA CopyAndParseIInv == ASSUME IInv, CopyAndParse PROVE IInv'
<1> DEFINE d == Top.doc
<1>1. calls # <<>> /\ Top \in Frame /\ Top.pc = "parse" /\ TypeOK
  BY TopType DEF CopyAndParse, IInv
<1>2. d \in Doc /\ Size[d] \in Nat BY <1>1, SizesAssumption DEF Frame
<1>3. PICK step \in {"use", "next"} : SetTop([Top EXCEPT !.pc = step])
  BY DEF CopyAndParse
<1> DEFINE f == [Top EXCEPT !.pc = step]
<1>4. f \in Frame /\ f.doc = d /\ SetTop(f) BY <1>1, <1>2, <1>3 DEF Frame
<1>5. /\ calls' \in Seq(Frame) /\ Len(calls') = Len(calls)
      /\ calls'[Len(calls')] = f
      /\ \A k \in 1 .. Len(calls') - 1 : calls'[k].pc = "decompress"
  <2> HIDE DEF f
  <2> QED BY <1>1, <1>4, SetTopType
<1>6. /\ data' \in Nat /\ capacity' \in Nat
      /\ data' = capacity' + SIMDJSON_PADDING /\ Size[d] <= capacity'
  BY <1>1, <1>2, SizesAssumption
  DEF CopyAndParse, IInv, TypeOK, TooSmall, CapacityIsAllocated, nullptr
<1>7. TypeOK' BY <1>1, <1>5, <1>6 DEF TypeOK, CopyAndParse
<1>8. CapacityIsAllocated'
  <2>1. data' # nullptr BY <1>6 DEF nullptr
  <2> QED BY <1>6, <2>1 DEF CapacityIsAllocated
<1>9. DocumentFits'
  <2>1. Top'.doc = d BY <1>4, <1>5 DEF Top
  <2> QED BY <1>2, <1>6, <2>1, SizesAssumption DEF DocumentFits
<1> QED BY <1>7, <1>8, <1>9 DEF IInv

LEMMA RErrorIInv == ASSUME IInv, RError PROVE IInv'
<1>1. /\ data' \in Nat \cup {nullptr} /\ capacity' \in Nat
      /\ CapacityIsAllocated'
  BY DEF RError, IInv, TypeOK, CapacityIsAllocated
<1> QED BY <1>1, PopIInv DEF RError

LEMMA NextIInv == IInv /\ [Next]_vars => IInv'
<1> SUFFICES ASSUME IInv, [Next]_vars PROVE IInv' OBVIOUS
<1>1. CASE ReleaseJsonMemory BY <1>1, ReleaseJsonMemoryIInv
<1>2. CASE Begin BY <1>2, BeginIInv
<1>3. CASE NextDocument BY <1>3, NextDocumentIInv
<1>4. CASE Decompressed BY <1>4, DecompressedIInv
<1>5. CASE CopyAndParse BY <1>5, CopyAndParseIInv
<1>6. CASE BadAlloc BY <1>6, LeaveScopeIInv DEF BadAlloc
<1>7. CASE EndCall BY <1>7, LeaveScopeIInv DEF EndCall
<1>8. CASE RError BY <1>8, RErrorIInv
<1>9. CASE UNCHANGED vars
  BY <1>9 DEF vars, IInv, TypeOK, CapacityIsAllocated, DocumentFits, Top
<1> QED
  BY <1>1, <1>2, <1>3, <1>4, <1>5, <1>6, <1>7, <1>8, <1>9 DEF Next

LEMMA IInvHolds == Spec => []IInv
BY InitIInv, NextIInv, PTL DEF Spec

-----------------------------------------------------------------------------
(* Theorems *)

(* The variables keep their types: interrupted calls are decompressing.    *)
THEOREM TypeCorrect == Spec => []TypeOK
<1>1. IInv => TypeOK BY DEF IInv
<1> QED BY <1>1, IInvHolds, PTL

(* The capacity is always that of the array, however calls end: after a    *)
(* failed allocation, a release in a finalizer or an R error.              *)
THEOREM CapacityIsRight == Spec => []CapacityIsAllocated
<1>1. IInv => CapacityIsAllocated BY DEF IInv
<1> QED BY <1>1, IInvHolds, PTL

(* A document that is in use, and its padding, were within the array.      *)
THEOREM NeverOverrun == Spec => []DocumentFits
<1>1. IInv => DocumentFits BY DEF IInv
<1> QED BY <1>1, IInvHolds, PTL

(* A call that ends in any other way than by an R error leaves its Scope,  *)
(* which releases a large buffer: if it was the last, none is kept.        *)
THEOREM OnlyJumpsKeepALargeBuffer == Spec => []ReleasedUnlessJumped
<1>1. Init => ReleasedUnlessJumped
  BY SizesAssumption DEF Init, ReleasedUnlessJumped, LargeBufferReleased
<1>2. ASSUME IInv, ReleasedUnlessJumped, [Next]_vars PROVE ReleasedUnlessJumped'
  <2>1. capacity \in Nat /\ MAX_RETAINED_CAPACITY \in Nat /\ TypeOK
    BY <1>2, SizesAssumption DEF IInv, TypeOK
  <2>2. CASE LeaveScope
    BY <2>1, <2>2 DEF LeaveScope, release, ReleasedUnlessJumped, LargeBufferReleased
  <2>3. CASE ReleaseJsonMemory
    BY <2>1, <2>3
    DEF ReleaseJsonMemory, release, ReleasedUnlessJumped, LargeBufferReleased
  <2>4. CASE Begin
    BY <2>1, <2>4 DEF Begin, TypeOK, ReleasedUnlessJumped, LargeBufferReleased
  <2>5. ASSUME calls # <<>>, NEW f, SetTop(f) PROVE ReleasedUnlessJumped'
    BY <2>1, <2>5 DEF SetTop, TypeOK, ReleasedUnlessJumped, LargeBufferReleased
  <2>6. CASE NextDocument
    BY <2>5, <2>6 DEF NextDocument
  <2>7. CASE Decompressed
    BY <2>5, <2>7 DEF Decompressed
  <2>8. CASE CopyAndParse
    BY <2>5, <2>8 DEF CopyAndParse
  <2>9. CASE RError
    BY <2>9 DEF RError, ReleasedUnlessJumped
  <2>10. CASE UNCHANGED vars
    BY <1>2, <2>10 DEF vars, ReleasedUnlessJumped, LargeBufferReleased
  <2> QED
    BY <1>2, <2>2, <2>3, <2>4, <2>6, <2>7, <2>8, <2>9, <2>10 DEF Next, BadAlloc, EndCall
<1> QED BY <1>1, <1>2, IInvHolds, PTL DEF Spec

(* Were R errors no jumps, but exceptions, no large buffer would ever be   *)
(* kept between calls: the jump is the only reason.                        *)
THEOREM NothingLargeIsKept ==
    ASSUME RErrorsJump = FALSE PROVE Spec => []LargeBufferReleased
<1>1. Init => ended # "jumped"
  BY DEF Init
<1>2. ended # "jumped" /\ [Next]_vars => (ended # "jumped")'
  BY DEF Next, vars, ReleaseJsonMemory, Begin, NextDocument, Decompressed,
         CopyAndParse, BadAlloc, EndCall, LeaveScope, RError
<1>3. ended # "jumped" /\ ReleasedUnlessJumped => LargeBufferReleased
  BY DEF ReleasedUnlessJumped
<1> QED BY <1>1, <1>2, <1>3, OnlyJumpsKeepALargeBuffer, PTL DEF Spec
=============================================================================
