------------------------- MODULE CharsxpCacheProofs -------------------------
(***************************************************************************)
(* What is proved of Charsxp_Cache for any strings, hash function, number  *)
(* of slots and number of addresses, provided R_PreserveObject() succeeds: *)
(* its entries are never stale, it never leaks a preserved list, and it    *)
(* cannot be told from calling make_charsxp() every time.                  *)
(***************************************************************************)
EXTENDS CharsxpCache, TLAPS

(* R's table of CHARSXPs: one address for each content. *)
HeapIsUnique ==
    \A p, q \in Addr : heap[p] = heap[q] /\ heap[p] # Free => p = q

(* What R objects hold is still what they asked for. *)
HeldIntact == \A p \in Addr, s \in Str : <<p, s>> \in held => heap[p] = s

(* What each program point of get() knows about the list. *)
ListProtocol ==
    /\ pc = "list" => keep_alive = Null
    /\ pc = "preserve" => /\ keep_alive \in live
                          /\ precious = {}
                          /\ \A i \in Slot : values[i] = Null
    /\ pc = "make" => sv \in LongStr \/ keep_alive # Null

IInv ==
    /\ TypeOK
    /\ EntriesNotStale /\ EntriesKeptAlive /\ NothingLeaked
    /\ HeapIsUnique /\ HeldIntact /\ ListProtocol

-----------------------------------------------------------------------------
LEMMA InitIInv == Init => IInv
  BY StringsAssumption, AddressesAssumption
  DEF Init, IInv, TypeOK, EntriesNotStale, EntriesKeptAlive, NothingLeaked,
      HeapIsUnique, HeldIntact, ListProtocol

(* A hit returns a CHARSXP that is live and of the content asked for. *)
LEMMA HitIsRight ==
    ASSUME IInv, NEW s \in Str, hit(s)
    PROVE  values[hash[s]] \in Addr /\ heap[values[hash[s]]] = s
  BY StringsAssumption DEF hit, IInv, TypeOK, EntriesNotStale

LEMMA GetHitIInv == ASSUME IInv, NEW s \in Str, GetHit(s) PROVE IInv'
<1>1. values[hash[s]] \in Addr /\ heap[values[hash[s]]] = s
  BY HitIsRight DEF GetHit
<1> QED
  BY <1>1 DEF GetHit, Return, cache, IInv, TypeOK, EntriesNotStale, EntriesKeptAlive,
              NothingLeaked, HeapIsUnique, HeldIntact, ListProtocol

LEMMA GetMissIInv == ASSUME IInv, NEW s \in Str, GetMiss(s) PROVE IInv'
  BY DEF GetMiss, cache, IInv, TypeOK, EntriesNotStale, EntriesKeptAlive,
         NothingLeaked, HeapIsUnique, HeldIntact, ListProtocol

LEMMA AllocListIInv == ASSUME IInv, AllocList PROVE IInv'
<1>1. PICK l \in ListAddr \ live :
         /\ live' = live \cup {l}
         /\ lists' = [lists EXCEPT ![l] = [i \in Slot |-> Null]]
         /\ keep_alive' = l
  BY DEF AllocList
<1>2. \A i \in Slot : values[i] = Null
  BY DEF AllocList, IInv, EntriesKeptAlive, ListProtocol
<1>3. precious = {}
  BY DEF AllocList, IInv, NothingLeaked, ListProtocol
<1> QED
  BY <1>1, <1>2, <1>3, AddressesAssumption
  DEF AllocList, IInv, TypeOK, EntriesNotStale, EntriesKeptAlive,
      NothingLeaked, HeapIsUnique, HeldIntact, ListProtocol

LEMMA PreserveIInv == ASSUME IInv, Preserve PROVE IInv'
<1>1. keep_alive # Null
  BY AddressesAssumption DEF Preserve, IInv, TypeOK, ListProtocol
<1> QED
  BY <1>1 DEF Preserve, cache, IInv, TypeOK, EntriesNotStale, EntriesKeptAlive,
              NothingLeaked, HeapIsUnique, HeldIntact, ListProtocol

LEMMA AbortIInv ==
    ASSUME IInv, EmbeddedNul \/ AllocationFails, PreserveMayFail = FALSE
    PROVE  IInv'
  BY DEF EmbeddedNul, AllocationFails, cache, IInv, TypeOK, EntriesNotStale,
         EntriesKeptAlive, NothingLeaked, HeapIsUnique, HeldIntact, ListProtocol

LEMMA MakeCharsxpIInv == ASSUME IInv, MakeCharsxp PROVE IInv'
<1>1. PICK p \in Addr :
         /\ intern(p, sv)
         /\ IF sv \in LongStr THEN UNCHANGED <<slots, values, lists>> ELSE store(p)
         /\ Return(p, sv)
  BY DEF MakeCharsxp
<1>2. /\ sv \in Str \ NulStr
      /\ heap' = [heap EXCEPT ![p] = sv]
      /\ heap[p] \in {sv, Free}
      /\ \A q \in Addr \ {p} : heap[q] # sv
      /\ p # Null
  BY <1>1, AddressesAssumption DEF MakeCharsxp, intern, IInv, TypeOK
<1>3. \A q \in Addr : heap[q] # Free => heap'[q] = heap[q]
  BY <1>2 DEF IInv, TypeOK
<1>4. heap' \in [Addr -> Str \cup {Free}] /\ HeapIsUnique'
  BY <1>2, StringsAssumption DEF IInv, TypeOK, HeapIsUnique
<1>5. HeldIntact'
  BY <1>1, <1>2, <1>3, StringsAssumption DEF IInv, TypeOK, HeldIntact, Return
<1>6. CASE sv \in LongStr
  BY <1>1, <1>2, <1>3, <1>4, <1>5, <1>6, StringsAssumption
  DEF MakeCharsxp, Return, IInv, TypeOK, EntriesNotStale, EntriesKeptAlive,
      NothingLeaked, ListProtocol
<1>7. CASE sv \notin LongStr
  <2>1. /\ lists' = [lists EXCEPT ![keep_alive][hash[sv]] = p]
        /\ values' = [values EXCEPT ![hash[sv]] = p]
        /\ slots' = [slots EXCEPT ![hash[sv]] = sv]
    BY <1>1, <1>7 DEF store
  <2>2. keep_alive \in ListAddr /\ hash[sv] \in Slot
    BY <1>2, <1>7, StringsAssumption DEF MakeCharsxp, IInv, TypeOK, ListProtocol
  <2>3. TypeOK'
    BY <1>1, <1>2, <1>4, <1>7, <2>1, <2>2 DEF MakeCharsxp, Return, IInv, TypeOK
  <2>4. EntriesNotStale'
    BY <1>2, <1>3, <2>1, <2>2, StringsAssumption DEF IInv, TypeOK, EntriesNotStale
  <2>5. EntriesKeptAlive'
    BY <2>1, <2>2, AddressesAssumption DEF MakeCharsxp, IInv, TypeOK, EntriesKeptAlive
  <2>6. NothingLeaked' /\ ListProtocol'
    BY DEF MakeCharsxp, IInv, NothingLeaked, ListProtocol
  <2> QED
    BY <1>4, <1>5, <2>3, <2>4, <2>5, <2>6 DEF IInv
<1> QED
  BY <1>6, <1>7

LEMMA ClearIInv == ASSUME IInv, Clear PROVE IInv'
  BY StringsAssumption, AddressesAssumption
  DEF Clear, IInv, TypeOK, EntriesNotStale, EntriesKeptAlive,
      NothingLeaked, HeapIsUnique, HeldIntact, ListProtocol

LEMMA DropIInv == ASSUME IInv, Drop PROVE IInv'
  BY DEF Drop, cache, IInv, TypeOK, EntriesNotStale, EntriesKeptAlive,
         NothingLeaked, HeapIsUnique, HeldIntact, ListProtocol

(* The collector never takes what the cache points to. *)
LEMMA CachedIsReachable ==
    ASSUME IInv, NEW i \in Slot, values[i] # Null
    PROVE  values[i] \in Addr /\ values[i] \in Reachable
  BY DEF IInv, TypeOK, EntriesKeptAlive, ListProtocol, Reachable, RootLists

LEMMA CollectIInv == ASSUME IInv, Collect PROVE IInv'
<1>1. PICK gone \in SUBSET (Addr \ Reachable), dead \in SUBSET (live \ RootLists) :
         /\ heap' = [p \in Addr |-> IF p \in gone THEN Free ELSE heap[p]]
         /\ live' = live \ dead
  BY DEF Collect
<1>2. UNCHANGED <<slots, values, keep_alive, lists, precious, held, pc, sv>>
  BY DEF Collect, cache
<1>3. TypeOK'
  BY <1>1, <1>2 DEF IInv, TypeOK
<1>4. EntriesNotStale'
  BY <1>1, <1>2, CachedIsReachable DEF IInv, EntriesNotStale
<1>5. keep_alive # Null => (keep_alive \in live => keep_alive \in live') 
  BY <1>1 DEF IInv, EntriesKeptAlive, RootLists
<1>6. EntriesKeptAlive' /\ NothingLeaked' /\ ListProtocol'
  BY <1>1, <1>2, <1>5, AddressesAssumption
  DEF IInv, TypeOK, EntriesKeptAlive, NothingLeaked, ListProtocol
<1>7. HeapIsUnique'
  BY <1>1, <1>2 DEF IInv, HeapIsUnique
<1>8. HeldIntact'
  BY <1>1, <1>2 DEF IInv, HeldIntact, Reachable
<1> QED
  BY <1>3, <1>4, <1>6, <1>7, <1>8 DEF IInv

LEMMA NextIInv ==
    ASSUME PreserveMayFail = FALSE, IInv, [Next]_vars PROVE IInv'
<1>1. ASSUME NEW s \in Str, GetHit(s) PROVE IInv'
  BY <1>1, GetHitIInv
<1>2. ASSUME NEW s \in Str, GetMiss(s) PROVE IInv'
  BY <1>2, GetMissIInv
<1>3. CASE UNCHANGED vars
  BY <1>3 DEF vars, cache, IInv, TypeOK, EntriesNotStale, EntriesKeptAlive,
              NothingLeaked, HeapIsUnique, HeldIntact, ListProtocol
<1> QED
  BY <1>1, <1>2, <1>3, AllocListIInv, PreserveIInv, AbortIInv, MakeCharsxpIInv,
     ClearIInv, DropIInv, CollectIInv DEF Next

(* The inductive invariant of get() and clear(), against R's collector and *)
(* failing allocations, if R_PreserveObject() does not fail.               *)
THEOREM IInvHolds == ASSUME PreserveMayFail = FALSE PROVE Spec => []IInv
  BY InitIInv, NextIInv, PTL DEF Spec

(* TypeOK: no caller of get() is ever given a null pointer. *)
THEOREM TypeCorrect == ASSUME PreserveMayFail = FALSE PROVE Spec => []TypeOK
<1>1. IInv => TypeOK
  BY DEF IInv
<1> QED
  BY <1>1, IInvHolds, PTL

(* A slot never points to a collected or reused address. *)
THEOREM NeverStale == ASSUME PreserveMayFail = FALSE PROVE Spec => []EntriesNotStale
<1>1. IInv => EntriesNotStale
  BY DEF IInv
<1> QED
  BY <1>1, IInvHolds, PTL

(* Every string the cache points to is in the list, and the list is preserved. *)
THEOREM KeptAlive == ASSUME PreserveMayFail = FALSE PROVE Spec => []EntriesKeptAlive
<1>1. IInv => EntriesKeptAlive
  BY DEF IInv
<1> QED
  BY <1>1, IInvHolds, PTL

(* Only the list in use is preserved. *)
THEOREM NeverLeaks == ASSUME PreserveMayFail = FALSE PROVE Spec => []NothingLeaked
<1>1. IInv => NothingLeaked
  BY DEF IInv
<1> QED
  BY <1>1, IInvHolds, PTL

-----------------------------------------------------------------------------
(* The refinement: a hit and a fresh string are both the abstract Make.    *)

LEMMA HitIsMake ==
    ASSUME IInv, NEW s \in Str, GetHit(s) PROVE Uncached!Make(s)
<1>1. values[hash[s]] \in Addr /\ heap[values[hash[s]]] = s
  BY HitIsRight DEF GetHit
<1>2. \A q \in Addr \ {values[hash[s]]} : heap[q] # s
  BY <1>1, StringsAssumption DEF IInv, HeapIsUnique
<1>3. heap' = [heap EXCEPT ![values[hash[s]]] = s]
  BY <1>1 DEF GetHit, IInv, TypeOK
<1>4. held' = held \cup {<<values[hash[s]], s>>}
  BY DEF GetHit, Return
<1> QED
  BY <1>1, <1>2, <1>3, <1>4 DEF Uncached!Make

LEMMA MakeIsMake == ASSUME IInv, MakeCharsxp PROVE Uncached!Make(sv)
  BY DEF MakeCharsxp, intern, Return, Uncached!Make

LEMMA CollectIsCollect == ASSUME IInv, Collect PROVE Uncached!Collect
<1>1. PICK gone \in SUBSET (Addr \ Reachable) :
         heap' = [p \in Addr |-> IF p \in gone THEN Free ELSE heap[p]]
  BY DEF Collect
<1>2. \A p \in Addr : \/ heap'[p] = heap[p]
                      \/ heap'[p] = Free /\ \A s \in Str : <<p, s>> \notin held
  BY <1>1 DEF Reachable
<1>3. heap' \in [Addr -> Str \cup {Free}]
  BY <1>1 DEF IInv, TypeOK
<1> QED
  BY <1>2, <1>3 DEF Collect, Uncached!Collect

LEMMA StepImplements ==
    ASSUME IInv, [Next]_vars PROVE [Uncached!Next]_Uncached!vars
<1>1. ASSUME NEW s \in Str, GetHit(s) PROVE Uncached!Next
  BY <1>1, HitIsMake DEF Uncached!Next
<1>2. ASSUME NEW s \in Str, GetMiss(s) PROVE UNCHANGED <<heap, held>>
  BY <1>2 DEF GetMiss
<1>3. CASE MakeCharsxp
  BY <1>3, MakeIsMake DEF Uncached!Next, IInv, TypeOK
<1>4. CASE AllocList \/ Preserve \/ EmbeddedNul \/ AllocationFails \/ Clear
  BY <1>4 DEF AllocList, Preserve, EmbeddedNul, AllocationFails, Clear, Uncached!vars
<1>5. CASE Drop
  BY <1>5 DEF Drop, Uncached!Next, Uncached!Drop
<1>6. CASE Collect
  BY <1>6, CollectIsCollect DEF Uncached!Next
<1>7. CASE UNCHANGED vars
  BY <1>7 DEF vars, Uncached!vars
<1> QED
  BY <1>1, <1>2, <1>3, <1>4, <1>5, <1>6, <1>7 DEF Next, Uncached!vars

(* The cache is invisible to its callers (common.hpp:261). *)
THEOREM CacheIsInvisible ==
    ASSUME PreserveMayFail = FALSE PROVE Spec => ImplementsMakeCharsxp
<1>1. Init => Uncached!Init
  BY DEF Init, Uncached!Init
<1>2. IInv /\ [Next]_vars => [Uncached!Next]_Uncached!vars
  BY StepImplements
<1> QED
  BY <1>1, <1>2, IInvHolds, PTL DEF Spec, Uncached!Spec, ImplementsMakeCharsxp
=============================================================================
