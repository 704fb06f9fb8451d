---------------------------- MODULE JudgeOutput ----------------------------
(***************************************************************************)
(* What judge() does with the output that a run returned: Sandbox has the  *)
(* runs, TrimOutput the comparison.                                        *)
(***************************************************************************)
EXTENDS Sandbox, TrimOutput

\* What judge() does with the output of a run: it is compared with an expected output
\* line by line, whatever the two texts are (executor_service.cc:171, 481).
OutputsComparedByLines ==
  \A w \in Workers : ret[w] = "output" => TrimComparesLines
=============================================================================
