----------------------------- MODULE MCExecutor -----------------------------
(***************************************************************************)
(* Small instances of Executor for TLC.                                    *)
(***************************************************************************)
EXTENDS ExecutorInv, TLC

Program(c, r) == [compiles |-> c, runs |-> r]

\* Every way judging can end: a compile error, a problem without cases, all passed, and
\* a run that fails after a pass with a case to follow. RE, also on the first case, is a
\* verdict of the failures; TLE is to judge() what WA is.
FourPrograms ==
  {Program(FALSE, <<"pass">>)}
  \cup {Program(TRUE, r) : r \in {<<>>, <<"pass">>, <<"pass", "WA", "pass">>}}

OneProgram == {Program(TRUE, <<"pass">>)}

Symmetry == Permutations(Subs) \cup Permutations(Workers) \cup Permutations(Handlers)
=============================================================================
