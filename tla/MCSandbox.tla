----------------------------- MODULE MCSandbox -----------------------------
(***************************************************************************)
(* Two workers and one job for each way a call can go, with room for two   *)
(* deadlines before descriptors run short; and the texts of trim_output.   *)
(***************************************************************************)
EXTENDS JudgeOutput

Compile(end) == [kind |-> "compile", reads |-> FALSE, endless |-> FALSE,
                 floods |-> FALSE, end |-> end]
Run(reads, end) == [kind |-> "run", reads |-> reads, endless |-> FALSE,
                    floods |-> FALSE, end |-> end]
Hanging  == [kind |-> "run", reads |-> FALSE, endless |-> TRUE,
             floods |-> FALSE, end |-> "exit0"]
Flooding == [kind |-> "run", reads |-> TRUE, endless |-> FALSE,
             floods |-> TRUE, end |-> "exit0"]

MCJobs == {Compile("exit0"), Compile("cpu"), Run(TRUE, "exit0"),
           Run(FALSE, "signal"), Run(FALSE, "cpu"), Run(FALSE, "oom"),
           Hanging, Flooding}
MCReaders == {Run(TRUE, "exit0")}
=============================================================================
