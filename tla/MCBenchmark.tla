----------------------------- MODULE MCBenchmark -----------------------------
(***************************************************************************)
(* Instances of Benchmark: the arguments of execute_workload each run      *)
(* considers.                                                              *)
(***************************************************************************)
EXTENDS Benchmark

Plain == [error_action |-> "log", optimizer |-> TRUE, online |-> FALSE, post |-> FALSE,
          prep |-> FALSE, output |-> TRUE, shuffled |-> FALSE]

\* Every way to handle errors, with and without pipeline, online training, callback and file.
AllConfigs == {c \in Options : /\ c.online => c.optimizer
                               /\ c.prep = c.post /\ c.shuffled = c.online}
==============================================================================
