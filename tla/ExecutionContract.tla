------------------------ MODULE ExecutionContract ------------------------
(***************************************************************************)
(* What the plugin promises about one accepted execution, without tables,  *)
(* attempts, leases or workers.  An execution opens, its actions take      *)
(* effect in Projects in their order, and it ends once: as "succeeded"     *)
(* only when all effects are there, or as "failed".                        *)
(*                                                                         *)
(* An effect may still appear after the execution has failed.  The code    *)
(* does not check the lease before it calls Projects, so a worker whose    *)
(* lease ran out can apply an action while its successor, whose call was   *)
(* rejected, has already ended the execution.                              *)
(***************************************************************************)
EXTENDS Naturals

CONSTANTS Executions, ActionCount

VARIABLES outcome,  \* "none", "open", "succeeded" or "failed"
          effects   \* the action indexes that have taken effect

vars == <<outcome, effects>>

Init ==
    /\ outcome = [e \in Executions |-> "none"]
    /\ effects = [e \in Executions |-> {}]

Accept(e) ==
    /\ outcome[e] = "none"
    /\ outcome' = [outcome EXCEPT ![e] = "open"]
    /\ UNCHANGED effects

Apply(e, i) ==
    /\ outcome[e] \in {"open", "failed"}
    /\ \A j \in 0..(i - 1) : j \in effects[e]
    /\ effects' = [effects EXCEPT ![e] = @ \cup {i}]
    /\ UNCHANGED outcome

Succeed(e) ==
    /\ outcome[e] = "open"
    /\ 0..(ActionCount[e] - 1) \subseteq effects[e]
    /\ outcome' = [outcome EXCEPT ![e] = "succeeded"]
    /\ UNCHANGED effects

Fail(e) ==
    /\ outcome[e] = "open"
    /\ outcome' = [outcome EXCEPT ![e] = "failed"]
    /\ UNCHANGED effects

Next ==
    \E e \in Executions :
        \/ Accept(e)
        \/ \E i \in 0..(ActionCount[e] - 1) : Apply(e, i)
        \/ Succeed(e)
        \/ Fail(e)

Spec == Init /\ [][Next]_vars

\* An open execution ends.
FairSpec == Spec /\ \A e \in Executions : WF_vars(Succeed(e) \/ Fail(e))
===========================================================================
