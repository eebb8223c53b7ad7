--------------------------- MODULE MCCharsxpCache ---------------------------
(***************************************************************************)
(* Two slots; the strings "a" and "b" compete for one of them, the empty   *)
(* string and one with an embedded nul for the other.  Addresses are       *)
(* interchangeable, and few enough that R reuses them.                     *)
(***************************************************************************)
EXTENDS CharsxpCache, TLC

CONSTANTS a, b, long, nul, s1, s2

MCHash == [s \in Str |-> IF s \in {a, b} THEN s1 ELSE s2]

MCSymmetry == Permutations(Addr) \cup Permutations(ListAddr)
=============================================================================
