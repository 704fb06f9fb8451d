-------------------------- MODULE MCConnectionPool --------------------------
(***************************************************************************)
(* Small instances of ConnectionPool for TLC.                              *)
(***************************************************************************)
EXTENDS ConnectionPool, TLC

Symmetry == Permutations(Conns) \cup Permutations(Nesting)
            \cup Permutations(Handlers \ Nesting) \cup Permutations(Workers)
=============================================================================
