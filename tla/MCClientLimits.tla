---------------------------- MODULE MCClientLimits ----------------------------
(***************************************************************************)
(* Small instances of ClientLimits.                                        *)
(***************************************************************************)
EXTENDS ClientLimits, TLC

\* The calls are interchangeable.
Symmetry == Permutations(Calls)
=============================================================================
