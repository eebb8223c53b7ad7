---------------------------- MODULE InputBuffer ----------------------------
(***************************************************************************)
(* Input_Buffer: the padded buffer documents are copied into to be parsed, *)
(* shared by all calls of fparse() and fload() and kept between them.      *)
(*                                                                         *)
(* R calls from one thread, but a call runs R code itself to decompress a  *)
(* file, and with it finalizers that may call fparse(), fload() or         *)
(* release_json_memory() again: calls are a stack.  A call ends by         *)
(* returning, by a C++ exception, which leaves its Scope, or by an R error *)
(* in an allocation of R's, a longjmp() that runs no destructors.          *)
(***************************************************************************)
EXTENDS Integers, Sequences

CONSTANTS Doc, Size,                \* the documents, and their lengths
          None,                     \* no document
          SIMDJSON_PADDING, MAX_RETAINED_CAPACITY,
          MaxDepth,                 \* a bound on nested calls
          RErrorsJump               \* R's allocations may fail

ASSUME SizesAssumption ==
    /\ Size \in [Doc -> Nat]
    /\ None \notin Doc
    /\ SIMDJSON_PADDING \in Nat \ {0} /\ MAX_RETAINED_CAPACITY \in Nat
ASSUME BoundsAssumption == MaxDepth \in Nat /\ RErrorsJump \in BOOLEAN

VARIABLES data,         \* the length of the array, or nullptr
          capacity,     \* its capacity, padding excluded
          calls,        \* what each running call does: a stack of frames
          ended         \* how the last call to end did: no part of the code,
                        \* it keeps a jump apart from the other ends of a call
vars == <<data, capacity, calls, ended>>

nullptr == -1

(* A frame: pc is "next" between documents, "decompress" while R does so,  *)
(* "parse" when doc is to be parsed from the buffer, "use" while what was  *)
(* parsed is, or "loaded" while what a plain file held is.                 *)
Frame ==
    [pc : {"next", "decompress", "parse", "use", "loaded"}, doc : Doc]
        \cup [pc : {"next"}, doc : {None}]

Top       == calls[Len(calls)]
SetTop(f) == calls' = [calls EXCEPT ![Len(calls)] = f]
Pop       == calls' = SubSeq(calls, 1, Len(calls) - 1)

Init == data = nullptr /\ capacity = 0 /\ calls = <<>> /\ ended = "none"

-----------------------------------------------------------------------------
(* Input_Buffer::release(): buffer = Padded_Buffer() *)
release == data' = nullptr /\ capacity' = 0

(* A call ends, and Scope::~Scope() runs. *)
LeaveScope ==
    /\ Pop /\ ended' = "orderly"
    /\ IF capacity > MAX_RETAINED_CAPACITY THEN release ELSE UNCHANGED <<data, capacity>>

(* A seeded fault: R code may run while an element is in use. *)
InRAlways == calls # <<>> => Top.pc \in {"decompress", "use"}

(* R code is running: outside of any call, or to decompress a file. *)
InR == calls # <<>> => Top.pc = "decompress"

(* release_json_memory() *)
ReleaseJsonMemory == InR /\ release /\ UNCHANGED <<calls, ended>>

Begin ==
    /\ InR /\ Len(calls) < MaxDepth
    /\ calls' = Append(calls, [pc |-> "next", doc |-> None])
    /\ UNCHANGED <<data, capacity, ended>>

(* The next document, as the call's arguments have it: a string, a         *)
(* compressed file, or a plain one, which the parser loads by itself.      *)
NextDocument ==
    /\ calls # <<>> /\ Top.pc \in {"next", "use", "loaded"}
    /\ \E d \in Doc, step \in {"parse", "decompress", "loaded"} :
          SetTop([pc |-> step, doc |-> d])
    /\ UNCHANGED <<data, capacity, ended>>

Decompressed ==
    /\ calls # <<>> /\ Top.pc = "decompress"
    /\ SetTop([Top EXCEPT !.pc = "parse"])
    /\ UNCHANGED <<data, capacity, ended>>

-----------------------------------------------------------------------------
(* Input_Buffer::parse() *)

(* A seeded fault: the length of the array is compared, padding included. *)
TooSmallForText(d) == data = nullptr \/ Size[d] > data

TooSmall(d) == data = nullptr \/ Size[d] > capacity

(* A seeded fault: the capacity is set before the memory is allocated. *)
BadAllocCapacityFirst ==
    /\ calls # <<>> /\ Top.pc = "parse" /\ TooSmall(Top.doc)
    /\ Pop /\ ended' = "orderly"
    /\ capacity' = Size[Top.doc]
    /\ UNCHANGED data

(* std::make_unique() throws std::bad_alloc: nothing has been assigned. *)
BadAlloc ==
    /\ calls # <<>> /\ Top.pc = "parse" /\ TooSmall(Top.doc)
    /\ LeaveScope

(* The document is copied, into a new array if need be, and parsed: the    *)
(* element can be used, or there is a parse error.                         *)
CopyAndParse ==
    /\ calls # <<>> /\ Top.pc = "parse"
    /\ IF TooSmall(Top.doc)
       THEN data' = Size[Top.doc] + SIMDJSON_PADDING /\ capacity' = Size[Top.doc]
       ELSE UNCHANGED <<data, capacity>>
    /\ \E step \in {"use", "next"} : SetTop([Top EXCEPT !.pc = step])
    /\ UNCHANGED ended

(* A seeded fault: a call that ends in an orderly way has no Scope. *)
EndCallWithoutScope ==
    /\ calls # <<>> /\ Top.pc # "parse"
    /\ Pop /\ ended' = "orderly"
    /\ UNCHANGED <<data, capacity>>

(* The call returns, or ends with one of Rcpp's exceptions. *)
EndCall ==
    /\ calls # <<>> /\ Top.pc # "parse"
    /\ LeaveScope

(* An allocation of R's fails in the middle of a call. *)
RError ==
    /\ RErrorsJump
    /\ calls # <<>> /\ Top.pc \in {"next", "use", "loaded"}
    /\ Pop /\ ended' = "jumped"
    /\ UNCHANGED <<data, capacity>>

Next ==
    \/ ReleaseJsonMemory
    \/ Begin \/ NextDocument \/ Decompressed
    \/ CopyAndParse \/ BadAlloc
    \/ EndCall \/ RError

Spec == Init /\ [][Next]_vars

-----------------------------------------------------------------------------
(* Properties *)

(* Every variable holds values of its type, and a call that is interrupted *)
(* by another one is waiting for R to decompress a file.                   *)
TypeOK ==
    /\ data \in Nat \cup {nullptr}
    /\ capacity \in Nat
    /\ calls \in Seq(Frame) /\ Len(calls) <= MaxDepth
    /\ \A k \in 1 .. Len(calls) - 1 : calls[k].pc = "decompress"
    /\ ended \in {"none", "orderly", "jumped"}

(* The array has the length the capacity says, whichever way the calls     *)
(* before have ended and whatever calls came in between: what the next     *)
(* parse compares with, and what release() reports as freed.               *)
CapacityIsAllocated ==
    IF data = nullptr THEN capacity = 0 ELSE data = capacity + SIMDJSON_PADDING

(* The document whose element is in use, and the padding simdjson needs    *)
(* after it, were within the array they were copied to, though calls in    *)
(* between may have released the buffer the call had begun with.           *)
DocumentFits ==
    calls # <<>> => (Top.pc = "use" => Size[Top.doc] + SIMDJSON_PADDING <= data)

(* Between calls no buffer is kept that is larger than the limit: it is    *)
(* released at the end of a call if larger (deserialize.hpp:427-428).      *)
LargeBufferReleased == calls = <<>> => capacity <= MAX_RETAINED_CAPACITY

(* So it is unless an R error jumped out of the call that ended last: one  *)
(* that returned or threw an exception has released a large buffer, though *)
(* it is not its own, but that of the calls that interrupted it or that R  *)
(* errors ended before.                                                    *)
ReleasedUnlessJumped == ended # "jumped" => LargeBufferReleased
=============================================================================
