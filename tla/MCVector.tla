------------------------------ MODULE MCVector ------------------------------
(* All arrays of up to MaxLength elements of all kinds, under all policies. *)
EXTENDS Vector

CONSTANT MaxLength

MCArrays ==
    UNION {{[n \in 1 .. len |-> [kind |-> k[n], id |-> n]] : k \in [1 .. len -> ElementKind]} :
             len \in 1 .. MaxLength}

AllOptions == TypePolicy \X Int64Opt
=============================================================================
