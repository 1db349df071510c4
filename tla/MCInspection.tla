--------------------------- MODULE MCInspection ---------------------------
(* The instance of MCExecutions with a reader, for TLC.                    *)
EXTENDS Inspection, TLC

MCCallerOf == [w \in Workers |-> "executor"]
AnyWorker == Permutations(Workers)
MCExecutions == {1, 2}
MCActionCount == [e \in MCExecutions |-> 3 - e]
===========================================================================
