--------------------------- MODULE MCInputBuffer ---------------------------
(***************************************************************************)
(* Documents of all lengths around those of the padding and of the largest *)
(* buffer retained, 64 and 64 MiB in the code and 2 and 3 here; and calls  *)
(* that interrupt calls that interrupt calls.                              *)
(***************************************************************************)
EXTENDS InputBuffer

MCDocs == 0 .. 6
MCSize == [d \in Doc |-> d]
=============================================================================
