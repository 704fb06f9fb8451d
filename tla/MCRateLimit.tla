---------------------------- MODULE MCRateLimit ----------------------------
(***************************************************************************)
(* A small instance of RateLimit for TLC.                                  *)
(***************************************************************************)
EXTENDS RateLimit, TLC

Symmetry == Permutations(Users) \cup Permutations(Handlers)
=============================================================================
