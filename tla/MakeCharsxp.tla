---------------------------- MODULE MakeCharsxp ----------------------------
(***************************************************************************)
(* What make_charsxp_cached() promises its callers, with no cache: the     *)
(* string they get is the one CHARSXP of that content that R's global      *)
(* table has or makes, and the R objects that hold it keep it as it is.    *)
(* Everything else R's collector may take away, or leave, as it pleases.   *)
(***************************************************************************)
CONSTANTS Str, Addr, Free

VARIABLES heap,     \* address -> the content of the CHARSXP there, or Free
          held      \* what R objects hold: <<address, content asked for>>
vars == <<heap, held>>

Init == heap = [a \in Addr |-> Free] /\ held = {}

(* A string is made, or found in R's table, and stored in an R object. *)
Make(s) ==
    \E a \in Addr :
       /\ heap[a] \in {s, Free}
       /\ \A b \in Addr \ {a} : heap[b] # s
       /\ heap' = [heap EXCEPT ![a] = s]
       /\ held' = held \cup {<<a, s>>}

(* R objects go out of use, and with them what they hold. *)
Drop == held' \subseteq held /\ UNCHANGED heap

Collect ==
    /\ \A a \in Addr : \/ heap'[a] = heap[a]
                       \/ heap'[a] = Free /\ \A s \in Str : <<a, s>> \notin held
    /\ heap' \in [Addr -> Str \cup {Free}]
    /\ UNCHANGED held

Next == (\E s \in Str : Make(s)) \/ Drop \/ Collect

Spec == Init /\ [][Next]_vars
=============================================================================
