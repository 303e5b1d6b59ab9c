------------------------------ MODULE MCFlushSet -----------------------------
(***************************************************************************)
(* An instance of FlushSet for TLC: a path with an alias, and another.     *)
(***************************************************************************)
EXTENDS FlushSet, TLC

CONSTANTS p, alias, q, d, e

Places == (p :> d) @@ (alias :> d) @@ (q :> e)
=============================================================================
