------------------------------ MODULE MCStore ------------------------------
(***************************************************************************)
(* Small instances of Store for TLC.                                       *)
(***************************************************************************)
EXTENDS StoreInv, TLC

Symmetry == Permutations(Problems) \cup Permutations(Subs) \cup Permutations(Handlers)
=============================================================================
