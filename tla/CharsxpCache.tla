---------------------------- MODULE CharsxpCache ----------------------------
(***************************************************************************)
(* Charsxp_Cache: a direct-mapped cache of the CHARSXPs made for short     *)
(* strings.  A slot copies the bytes of its string and points to the       *)
(* CHARSXP, which is kept from R's garbage collector by a preserved list.  *)
(*                                                                         *)
(* R is single-threaded, and runs no R code (finalizers included) inside   *)
(* an allocation: calls of get() and clear() do not nest.  What does       *)
(* interleave with the steps of get() is the collector, which may run at   *)
(* every allocation, and the failure of an allocation, an R error that     *)
(* jumps out of get() and leaves the cache as it is at that point.         *)
(***************************************************************************)
CONSTANTS Str,              \* the strings that occur in documents
          EmptyStr,         \* among them the empty one,
          LongStr,          \*   those longer than MAX_KEY_LENGTH,
          NulStr,           \*   and those with an embedded nul
          Slot, hash,       \* the slots, and the slot of each string
          Addr, ListAddr,   \* where CHARSXPs and lists may be allocated
          Null, Free,
          PreserveMayFail   \* R_PreserveObject(), too, may run out of memory

ASSUME StringsAssumption ==
    /\ EmptyStr \in Str \ (LongStr \cup NulStr)
    /\ LongStr \subseteq Str /\ NulStr \subseteq Str
    /\ hash \in [Str -> Slot]
    /\ Free \notin Str
ASSUME AddressesAssumption == Null \notin Addr \cup ListAddr
ASSUME PreserveMayFailAssumption == PreserveMayFail \in BOOLEAN

VARIABLES
    slots, values,  \* the cache: bytes, and pointer or Null, by slot
    keep_alive,     \* its list, or Null
    heap,           \* R's CHARSXPs: address -> content, or Free
    live,           \* the lists that are allocated,
    lists,          \*   what they hold,
    precious,       \*   and those R_PreserveObject() protects
    held,           \* what other R objects hold: <<address, content asked>>
    pc, sv          \* where get() is, and its argument

cache == <<slots, values, keep_alive>>
vars  == <<cache, heap, live, lists, precious, held, pc, sv>>

Init ==
    /\ slots = [i \in Slot |-> EmptyStr]
    /\ values = [i \in Slot |-> Null]
    /\ keep_alive = Null
    /\ heap = [a \in Addr |-> Free]
    /\ live = {} /\ precious = {}
    /\ lists = [l \in ListAddr |-> [i \in Slot |-> Null]]
    /\ held = {}
    /\ pc = "idle" /\ sv = EmptyStr

-----------------------------------------------------------------------------
(* Charsxp_Cache::get() *)

(* Seeded faults: the bytes, or the pointer, are not looked at. *)
HitWithoutBytes(s)   == s \notin LongStr /\ values[hash[s]] # Null
HitWithoutPointer(s) == s \notin LongStr /\ slots[hash[s]] = s

hit(s) == s \notin LongStr /\ values[hash[s]] # Null /\ slots[hash[s]] = s

(* The call returns address a, which its caller stores in an R object. *)
Return(a, s) == held' = held \cup {<<a, s>>}

GetHit(s) ==
    /\ pc = "idle" /\ hit(s)
    /\ Return(values[hash[s]], s)
    /\ UNCHANGED <<cache, heap, live, lists, precious, pc, sv>>

GetMiss(s) ==
    /\ pc = "idle" /\ ~hit(s)
    /\ sv' = s
    /\ pc' = IF s \in LongStr \/ keep_alive # Null THEN "make" ELSE "list"
    /\ UNCHANGED <<cache, heap, live, lists, precious, held>>

AllocList ==
    /\ pc = "list"
    /\ \E l \in ListAddr \ live :
          /\ live' = live \cup {l}
          /\ lists' = [lists EXCEPT ![l] = [i \in Slot |-> Null]]
          /\ keep_alive' = l
    /\ pc' = "preserve"
    /\ UNCHANGED <<slots, values, heap, precious, held, sv>>

Preserve ==
    /\ pc = "preserve"
    /\ precious' = precious \cup {keep_alive}
    /\ pc' = "make"
    /\ UNCHANGED <<cache, heap, live, lists, held, sv>>

(* make_charsxp() throws on an embedded nul. *)
EmbeddedNul ==
    /\ pc = "make" /\ sv \in NulStr
    /\ pc' = "idle"
    /\ UNCHANGED <<cache, heap, live, lists, precious, held, sv>>

(* Rf_mkCharLenCE(): R's table has at most one CHARSXP of a content. *)
intern(a, s) ==
    /\ heap[a] \in {s, Free}
    /\ \A b \in Addr \ {a} : heap[b] # s
    /\ heap' = [heap EXCEPT ![a] = s]

(* A seeded fault: the list is not told of the new CHARSXP. *)
StoreNotKept(a) ==
    /\ UNCHANGED lists
    /\ values' = [values EXCEPT ![hash[sv]] = a]
    /\ slots' = [slots EXCEPT ![hash[sv]] = sv]

(* The new CHARSXP takes its slot, whatever the slot held. *)
store(a) ==
    /\ lists' = [lists EXCEPT ![keep_alive][hash[sv]] = a]
    /\ values' = [values EXCEPT ![hash[sv]] = a]
    /\ slots' = [slots EXCEPT ![hash[sv]] = sv]

(* The string is made and, if short, stored in the cache; nothing          *)
(* allocates in between.  A long one goes by the cache.                    *)
MakeCharsxp ==
    /\ pc = "make" /\ sv \notin NulStr
    /\ \E a \in Addr :
          /\ intern(a, sv)
          /\ IF sv \in LongStr THEN UNCHANGED <<slots, values, lists>> ELSE store(a)
          /\ Return(a, sv)
    /\ pc' = "idle"
    /\ UNCHANGED <<keep_alive, live, precious, sv>>

(* An R error in one of the allocations. *)
AllocationFails ==
    /\ pc \in {"list", "make"} \cup (IF PreserveMayFail THEN {"preserve"} ELSE {})
    /\ pc' = "idle"
    /\ UNCHANGED <<cache, heap, live, lists, precious, held, sv>>

-----------------------------------------------------------------------------
(* Seeded faults in clear(): the list stays preserved; the pointers stay.  *)
ClearKeepsList ==
    /\ pc = "idle"
    /\ keep_alive' = Null
    /\ slots' = [i \in Slot |-> EmptyStr]
    /\ values' = [i \in Slot |-> Null]
    /\ UNCHANGED <<heap, live, lists, precious, held, pc, sv>>

ClearKeepsPointers ==
    /\ pc = "idle"
    /\ precious' = precious \ {keep_alive}
    /\ keep_alive' = Null
    /\ UNCHANGED <<slots, values, heap, live, lists, held, pc, sv>>

(* clear(), from release_json_memory(). *)
Clear ==
    /\ pc = "idle"
    /\ precious' = precious \ {keep_alive}
    /\ keep_alive' = Null
    /\ slots' = [i \in Slot |-> EmptyStr]
    /\ values' = [i \in Slot |-> Null]
    /\ UNCHANGED <<heap, live, lists, held, pc, sv>>

-----------------------------------------------------------------------------
(* R *)

(* R objects go out of use. *)
Drop ==
    /\ \E h \in held : held' = held \ {h}
    /\ UNCHANGED <<cache, heap, live, lists, precious, pc, sv>>

(* Lists that survive a collection: R_PreserveObject() protects its        *)
(* argument while it allocates.                                            *)
RootLists == precious \cup (IF pc = "preserve" THEN {keep_alive} ELSE {})

Reachable ==
    {a \in Addr : \/ \E s \in Str : <<a, s>> \in held
                  \/ \E l \in RootLists : \E i \in Slot : lists[l][i] = a}

(* A collection reclaims garbage; being generational, not always all of it.*)
Collect ==
    /\ \E gone \in SUBSET (Addr \ Reachable), dead \in SUBSET (live \ RootLists) :
          /\ heap' = [a \in Addr |-> IF a \in gone THEN Free ELSE heap[a]]
          /\ live' = live \ dead
    /\ UNCHANGED <<cache, lists, precious, held, pc, sv>>

Next ==
    \/ \E s \in Str : GetHit(s) \/ GetMiss(s)
    \/ AllocList \/ Preserve \/ EmbeddedNul \/ MakeCharsxp \/ AllocationFails
    \/ Clear
    \/ Drop \/ Collect

Spec == Init /\ [][Next]_vars

-----------------------------------------------------------------------------
(* Properties *)

(* Every variable holds values of its type; in particular no caller is     *)
(* ever given a null pointer.                                              *)
TypeOK ==
    /\ slots \in [Slot -> Str \ (LongStr \cup NulStr)]
    /\ values \in [Slot -> Addr \cup {Null}]
    /\ keep_alive \in ListAddr \cup {Null}
    /\ heap \in [Addr -> Str \cup {Free}]
    /\ live \subseteq ListAddr
    /\ lists \in [ListAddr -> [Slot -> Addr \cup {Null}]]
    /\ precious \subseteq ListAddr
    /\ held \subseteq Addr \X Str
    /\ pc \in {"idle", "list", "preserve", "make"}
    /\ sv \in Str

(* An entry is never stale: the pointer of a slot in use leads to a live   *)
(* CHARSXP whose content is the slot's bytes, across collections, releases *)
(* and the reuse of addresses by R; and a string is only ever in the slot  *)
(* it hashes to.                                                           *)
EntriesNotStale ==
    \A i \in Slot : values[i] # Null => /\ heap[values[i]] = slots[i]
                                        /\ hash[slots[i]] = i

(* Why they are not (common.hpp:187): the cache keeps its CHARSXPs alive   *)
(* in a preserved list, so an entry stays valid across calls.  The list a  *)
(* call will write to is preserved and has not been collected.             *)
EntriesKeptAlive ==
    /\ keep_alive # Null /\ pc # "preserve" => keep_alive \in precious \cap live
    /\ \A i \in Slot : values[i] # Null => /\ keep_alive # Null
                                           /\ lists[keep_alive][i] = values[i]

(* No list the cache has let go of stays preserved: after a release the    *)
(* collector may reclaim everything, and at most one list is ever kept.    *)
NothingLeaked == precious \subseteq {keep_alive} \ {Null}

(* The cache is invisible (common.hpp:261): callers get what they would    *)
(* get from make_charsxp(), and it is never changed or collected while     *)
(* their objects hold it.                                                  *)
Uncached == INSTANCE MakeCharsxp

ImplementsMakeCharsxp == Uncached!Spec
=============================================================================
