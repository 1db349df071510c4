--------------------------- MODULE MCExecutions ---------------------------
(***************************************************************************)
(* Instances of Executions for TLC: two invocations by one caller Instance,*)
(* so that only the attempt number tells them apart, or by two.            *)
(***************************************************************************)
EXTENDS Executions

MCWorkers == 1..2
MCCallerOf == [w \in MCWorkers |-> "executor"]
MCTwoCallers == [w \in MCWorkers |-> IF w = 1 THEN "executor" ELSE "standby"]
MCExecutions == {1, 2}
MCOneExecution == {1}
MCActionCount == [e \in MCExecutions |-> 3 - e]
MCOneActionCount == [e \in MCOneExecution |-> 2]
===========================================================================
