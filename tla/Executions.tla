---------------------------- MODULE Executions ----------------------------
(***************************************************************************)
(* The execution side of the plugin: the tables automation_executions,     *)
(* automation_attempts and automation_action_receipts, and the reconcile   *)
(* invocations that claim executions under a lease, run their actions      *)
(* against Projects one after the other and record what happened.          *)
(*                                                                         *)
(* A worker is one running invocation of reconcile.  Every database        *)
(* transaction, every autocommitted statement and every call to Projects   *)
(* is one action, so the steps of two workers interleave at each await of  *)
(* the code.  What is abstracted:                                          *)
(*  - payloads, responses, failure texts, timestamps and the counter of    *)
(*    action attempts are left out, an execution is a number (the order of *)
(*    created_at, execution_id) and its action snapshot is a length;       *)
(*  - lease_until is compared with the database clock only, so a lease is  *)
(*    "valid" until the action LeaseExpires makes it "expired";            *)
(*  - the schedule part of complete_execution is in module Schedules.      *)
(* Crashes, lost calls and leases lost by a live worker draw on a budget   *)
(* of MaxFaults, which bounds the state space and nothing else.            *)
(***************************************************************************)
EXTENDS Naturals, FiniteSets

CONSTANTS Executions,   \* the executions that trigger intake may insert
          ActionCount,  \* ActionCount[e]: length of e's action snapshot
          MAX_RULE_ACTIONS,
          Workers,      \* concurrent invocations of reconcile
          CallerOf,     \* CallerOf[w]: the caller Instance of invocation w
          Limit,        \* the limit of the reconcile request
          MaxAttempts,  \* i32::MAX, the end of the attempt counter
          MaxFaults,    \* bound: crashes, lost calls and lost leases
          NoOwner       \* SQL NULL in lease_owner

ASSUME ExecutionsAssumption ==
    /\ Executions \subseteq Nat
    /\ MAX_RULE_ACTIONS \in Nat \ {0}
    /\ ActionCount \in [Executions -> 1..MAX_RULE_ACTIONS]
    /\ Limit \in Nat \ {0}
    /\ MaxAttempts \in Nat \ {0}
    /\ MaxFaults \in Nat
    /\ NoOwner \notin {CallerOf[w] : w \in Workers}

VARIABLES
    status,    \* automation_executions.status ("absent": no row yet)
    attempts,  \* automation_executions.attempts
    owner,     \* automation_executions.lease_owner
    lease,     \* automation_executions.lease_until, against the clock
    ledger,    \* automation_attempts.status per execution and attempt
    receipt,   \* automation_action_receipts.status per execution and index
    applied,   \* the actions whose effect Projects has made durable
    pc,        \* where a worker is in reconcile / execute_actions
    todo,      \* the claimed executions a worker has not finished
    fence,     \* ClaimedExecution.attempt, per worker and execution
    index,     \* the action index a worker has reached
    faults     \* faults so far

tables == <<status, attempts, owner, lease, ledger>>
local == <<pc, todo, fence, index>>
vars == <<tables, receipt, applied, local, faults>>

ExecutionStatus == {"absent", "pending", "running", "succeeded", "failed"}
AttemptStatus == {"none", "running", "succeeded", "failed", "retryable"}
ReceiptStatus == {"none", "pending", "succeeded", "failed"}
LeaseState == {"none", "valid", "expired"}
WorkerState == {"idle", "act", "call", "saveOk", "saveRejected", "fail", "release"}
Terminal == {"succeeded", "failed"}

Callers == {CallerOf[w] : w \in Workers}
Indexes == 0..(MAX_RULE_ACTIONS - 1)
AttemptNumbers == 1..MaxAttempts
Actions(e) == 0..(ActionCount[e] - 1)

TableType ==
    /\ status \in [Executions -> ExecutionStatus]
    /\ attempts \in [Executions -> 0..MaxAttempts]
    /\ owner \in [Executions -> Callers \cup {NoOwner}]
    /\ lease \in [Executions -> LeaseState]
    /\ ledger \in [Executions -> [AttemptNumbers -> AttemptStatus]]

EffectType ==
    /\ receipt \in [Executions -> [Indexes -> ReceiptStatus]]
    /\ applied \in [Executions -> SUBSET Indexes]

WorkerType ==
    /\ pc \in [Workers -> WorkerState]
    /\ todo \in [Workers -> SUBSET Executions]
    /\ fence \in [Workers -> [Executions -> 0..MaxAttempts]]
    /\ index \in [Workers -> 0..MAX_RULE_ACTIONS]

\* Every column holds a value its CHECK constraint admits, and every worker
\* is at a point of reconcile.
TypeOK ==
    /\ TableType
    /\ EffectType
    /\ WorkerType
    /\ faults \in 0..MaxFaults

Init ==
    /\ status = [e \in Executions |-> "absent"]
    /\ attempts = [e \in Executions |-> 0]
    /\ owner = [e \in Executions |-> NoOwner]
    /\ lease = [e \in Executions |-> "none"]
    /\ ledger = [e \in Executions |-> [k \in AttemptNumbers |-> "none"]]
    /\ receipt = [e \in Executions |-> [i \in Indexes |-> "none"]]
    /\ applied = [e \in Executions |-> {}]
    /\ pc = [w \in Workers |-> "idle"]
    /\ todo = [w \in Workers |-> {}]
    /\ fence = [w \in Workers |-> [e \in Executions |-> 0]]
    /\ index = [w \in Workers |-> 0]
    /\ faults = 0

Fault ==
    /\ faults < MaxFaults
    /\ faults' = faults + 1

---------------------------------------------------------------------------
(* Trigger intake.                                                         *)

\* insert_execution: the execution row and one pending receipt per action,
\* in the transaction of receive_event or receive_timer.
InsertExecution(e) ==
    /\ status[e] = "absent"
    /\ \A f \in Executions : f < e => status[f] # "absent"
    /\ status' = [status EXCEPT ![e] = "pending"]
    /\ receipt' = [receipt EXCEPT ![e] =
            [i \in Indexes |-> IF i \in Actions(e) THEN "pending" ELSE "none"]]
    /\ UNCHANGED <<attempts, owner, lease, ledger, applied, local, faults>>

---------------------------------------------------------------------------
(* Claiming.                                                               *)

\* Mutant of Claimable: a running execution is never taken over.
ClaimableOnlyPending(e) == status[e] = "pending"

\* The WHERE clause of claim_executions.
Claimable(e) ==
    \/ status[e] = "pending"
    \/ status[e] = "running" /\ lease[e] = "expired"

\* Mutant of ExpiredAttempt: the abandoned attempt is left running.
ExpiredAttemptForgotten(s) == s

\* What claim_executions makes of the previous attempt's receipt.
ExpiredAttempt(s) == IF s = "running" THEN "retryable" ELSE s

\* Mutant of CounterLeft: the counter runs one past its end.
CounterLeftOrFull(e) == attempts[e] <= MaxAttempts

\* checked_add on the attempt counter succeeds.
CounterLeft(e) == attempts[e] < MaxAttempts

\* The loop body of claim_executions for the rows it has locked.  One
\* exhausted attempt counter rolls the whole claim back.
ClaimBatch(w, batch) ==
    /\ \A e \in batch : CounterLeft(e)
    /\ status' = [e \in Executions |->
            IF e \in batch THEN "running" ELSE status[e]]
    /\ attempts' = [e \in Executions |->
            IF e \in batch THEN attempts[e] + 1 ELSE attempts[e]]
    /\ owner' = [e \in Executions |->
            IF e \in batch THEN CallerOf[w] ELSE owner[e]]
    /\ lease' = [e \in Executions |->
            IF e \in batch THEN "valid" ELSE lease[e]]
    /\ ledger' = [e \in Executions |-> [k \in AttemptNumbers |->
            IF e \in batch /\ k = attempts[e] + 1 THEN "running"
            ELSE IF e \in batch /\ k = attempts[e]
                 THEN ExpiredAttempt(ledger[e][k])
                 ELSE ledger[e][k]]]
    /\ pc' = [pc EXCEPT ![w] = "act"]
    /\ todo' = [todo EXCEPT ![w] = batch]
    /\ fence' = [fence EXCEPT ![w] =
            [e \in Executions |-> IF e \in batch THEN attempts[e] + 1 ELSE 0]]
    /\ index' = [index EXCEPT ![w] = 0]
    /\ UNCHANGED <<receipt, applied, faults>>

\* claim_executions.  SKIP LOCKED passes over the rows that another
\* transaction holds, so the batch is any set of at most Limit claimable
\* executions.  An invocation that claims nothing returns unchanged.
ClaimExecutions(w) ==
    /\ pc[w] = "idle"
    /\ \E batch \in SUBSET {e \in Executions : Claimable(e)} :
        /\ batch # {}
        /\ Cardinality(batch) <= Limit
        /\ ClaimBatch(w, batch)

\* The database clock passes lease_until.  A lease that a live worker still
\* relies on is lost only by a fault (a batch slower than the lease).
LeaseExpires(e) ==
    /\ status[e] = "running"
    /\ lease[e] = "valid"
    /\ lease' = [lease EXCEPT ![e] = "expired"]
    /\ IF \E w \in Workers : e \in todo[w] /\ fence[w][e] = attempts[e]
       THEN Fault
       ELSE UNCHANGED faults
    /\ UNCHANGED <<status, attempts, owner, ledger, receipt, applied, local>>

---------------------------------------------------------------------------
(* execute_actions: the loop over the actions of the current execution.    *)

\* reconcile takes the claimed executions in the order of the claim.
IsCurrent(w, e) == e \in todo[w] /\ \A f \in todo[w] : e <= f

Goto(w, label) == pc' = [pc EXCEPT ![w] = label]

\* Mutant of Skipped: every action that was tried before is skipped.
SkippedOnceTried(s) == s # "pending"

\* An action whose receipt says "succeeded" is not called again.
Skipped(s) == s = "succeeded"

\* action_status, and the branch on the status it returns.
ActionStatus(w, e) ==
    /\ pc[w] = "act"
    /\ IsCurrent(w, e)
    /\ index[w] < ActionCount[e]
    /\ IF Skipped(receipt[e][index[w]])
       THEN /\ index' = [index EXCEPT ![w] = index[w] + 1]
            /\ UNCHANGED pc
       ELSE /\ Goto(w, "call")
            /\ UNCHANGED index
    /\ UNCHANGED <<tables, receipt, applied, todo, fence, faults>>

\* The call succeeds.  Projects applies one effect per idempotency key, so
\* a repeated call changes nothing.
CallSucceeds(w, e) ==
    /\ pc[w] = "call"
    /\ IsCurrent(w, e)
    /\ applied' = [applied EXCEPT ![e] = @ \cup {index[w]}]
    /\ Goto(w, "saveOk")
    /\ UNCHANGED <<tables, receipt, todo, fence, index, faults>>

\* The call, or the resolution of its target, ends in a Domain failure.
CallRejected(w, e) ==
    /\ pc[w] = "call"
    /\ IsCurrent(w, e)
    /\ Goto(w, "saveRejected")
    /\ UNCHANGED <<tables, receipt, applied, todo, fence, index, faults>>

\* The call ends in a Runtime Failure: Projects may or may not have applied
\* the effect.
CallRuntimeFailure(w, e) ==
    /\ pc[w] = "call"
    /\ IsCurrent(w, e)
    /\ Fault
    /\ \/ applied' = [applied EXCEPT ![e] = @ \cup {index[w]}]
       \/ UNCHANGED applied
    /\ Goto(w, "release")
    /\ UNCHANGED <<tables, receipt, todo, fence, index>>

\* complete_action: no guard on the lease, the attempt or the old status.
CompleteAction(w, e) ==
    /\ IsCurrent(w, e)
    /\ \/ /\ pc[w] = "saveOk"
          /\ receipt' = [receipt EXCEPT ![e][index[w]] = "succeeded"]
          /\ index' = [index EXCEPT ![w] = index[w] + 1]
          /\ Goto(w, "act")
       \/ /\ pc[w] = "saveRejected"
          /\ receipt' = [receipt EXCEPT ![e][index[w]] = "failed"]
          /\ Goto(w, "fail")
          /\ UNCHANGED index
    /\ UNCHANGED <<tables, applied, todo, fence, faults>>

\* A failing statement of action_status or complete_action is a Runtime
\* Failure of the action.  The failed write may have reached the table.
StorageFailure(w, e) ==
    /\ IsCurrent(w, e)
    /\ pc[w] \in {"act", "saveOk", "saveRejected"}
    /\ pc[w] = "act" => index[w] < ActionCount[e]
    /\ Fault
    /\ \/ UNCHANGED receipt
       \/ /\ pc[w] = "saveOk"
          /\ receipt' = [receipt EXCEPT ![e][index[w]] = "succeeded"]
       \/ /\ pc[w] = "saveRejected"
          /\ receipt' = [receipt EXCEPT ![e][index[w]] = "failed"]
    /\ Goto(w, "release")
    /\ UNCHANGED <<tables, applied, todo, fence, index>>

---------------------------------------------------------------------------
(* The end of one execution.                                               *)

\* Mutant of OwnsLease: the guard without "attempts=$2".
OwnsLeaseUnfenced(w, e) ==
    /\ status[e] = "running"
    /\ owner[e] = CallerOf[w]
    /\ lease[e] = "valid"

\* The WHERE clause of complete_execution and release_execution_for_retry.
OwnsLease(w, e) ==
    /\ attempts[e] = fence[w][e]
    /\ status[e] = "running"
    /\ owner[e] = CallerOf[w]
    /\ lease[e] = "valid"

\* The row updates that end attempt fence[w][e] of e.
EndAttempt(w, e, executionStatus, attemptStatus) ==
    /\ status' = [status EXCEPT ![e] = executionStatus]
    /\ owner' = [owner EXCEPT ![e] = NoOwner]
    /\ lease' = [lease EXCEPT ![e] = "none"]
    /\ ledger' = [ledger EXCEPT ![e][fence[w][e]] = attemptStatus]
    /\ UNCHANGED attempts

\* The invocation returns (or dies) and forgets what it has claimed.
Return(w) ==
    /\ Goto(w, "idle")
    /\ todo' = [todo EXCEPT ![w] = {}]
    /\ fence' = [fence EXCEPT ![w] = [e \in Executions |-> 0]]
    /\ index' = [index EXCEPT ![w] = 0]

\* The outcome execute_actions has reached for its execution.
Outcome(w, e) ==
    IF pc[w] = "fail" THEN "failed" ELSE "succeeded"

\* complete_execution.  On success reconcile goes on with the next claimed
\* execution; when the lease is gone it returns with an error at once.
CompleteExecution(w, e) ==
    /\ IsCurrent(w, e)
    /\ \/ pc[w] = "act" /\ index[w] = ActionCount[e]
       \/ pc[w] = "fail"
    /\ IF OwnsLease(w, e)
       THEN /\ EndAttempt(w, e, Outcome(w, e), Outcome(w, e))
            /\ IF todo[w] = {e}
               THEN Return(w)
               ELSE /\ Goto(w, "act")
                    /\ todo' = [todo EXCEPT ![w] = @ \ {e}]
                    /\ index' = [index EXCEPT ![w] = 0]
                    /\ UNCHANGED fence
       ELSE /\ Return(w)
            /\ UNCHANGED tables
    /\ UNCHANGED <<receipt, applied, faults>>

\* release_execution_for_retry.  reconcile then returns the Runtime Failure;
\* the rest of its batch stays "running" until the leases expire.
ReleaseExecution(w, e) ==
    /\ IsCurrent(w, e)
    /\ pc[w] = "release"
    /\ IF OwnsLease(w, e)
       THEN EndAttempt(w, e, "pending", "retryable")
       ELSE UNCHANGED tables
    /\ Return(w)
    /\ UNCHANGED <<receipt, applied, faults>>

\* The process stops, the invocation is cancelled or a transaction that
\* ends an attempt fails.
Crash(w) ==
    /\ pc[w] # "idle"
    /\ Fault
    /\ Return(w)
    /\ UNCHANGED <<tables, receipt, applied>>

---------------------------------------------------------------------------
WorkerStep(w) ==
    \/ ClaimExecutions(w)
    \/ \E e \in Executions :
        \/ ActionStatus(w, e)
        \/ CallSucceeds(w, e)
        \/ CallRejected(w, e)
        \/ CompleteAction(w, e)
        \/ CompleteExecution(w, e)
        \/ ReleaseExecution(w, e)

Next ==
    \/ \E e \in Executions : InsertExecution(e) \/ LeaseExpires(e)
    \/ \E w \in Workers : WorkerStep(w) \/ Crash(w)
    \/ \E w \in Workers, e \in Executions :
        CallRuntimeFailure(w, e) \/ StorageFailure(w, e)

Spec == Init /\ [][Next]_vars

\* An invocation that is running goes on until it returns, the Host keeps
\* calling reconcile, and a lease that nobody uses runs out.
Fairness ==
    /\ \A w \in Workers : WF_vars(WorkerStep(w))
    /\ \A e \in Executions : WF_vars(LeaseExpires(e))

FairSpec == Spec /\ Fairness

---------------------------------------------------------------------------
(* Properties.                                                             *)

\* An execution that reconcile reports as succeeded (complete_execution with
\* succeeded = true) has had every action of its snapshot made durable by
\* Projects, however many workers, crashes and retries it took.
SucceededMeansApplied ==
    \A e \in Executions : status[e] = "succeeded" => Actions(e) \subseteq applied[e]

\* Projects sees the actions of a rule in their order: an effect is there
\* only when the effects of all earlier actions are.  execute_actions stops at
\* the first action that is not done and a retry resumes at that action.
AppliedInOrder ==
    \A e \in Executions : \A i \in applied[e] : \A j \in Indexes :
        j < i => j \in applied[e]

\* automation_attempts tells the true story of an execution: every attempt
\* before the last is "retryable", the last one agrees with the execution's
\* own status, and no attempt is recorded that has not been made.
LastAttempt(s) == IF s = "pending" THEN "retryable" ELSE s

AttemptLedgerAgrees ==
    \A e \in Executions, k \in AttemptNumbers :
        /\ k < attempts[e] => ledger[e][k] = "retryable"
        /\ k = attempts[e] => ledger[e][k] = LastAttempt(status[e])
        /\ k > attempts[e] => ledger[e][k] = "none"

\* At any moment at most one invocation can end an execution, although all
\* invocations of one caller Instance write the same lease_owner: the attempt
\* number is the fencing token of complete_execution and
\* release_execution_for_retry.
SoleCompleter ==
    \A e \in Executions, v, w \in Workers :
        ( /\ v # w
          /\ e \in todo[v] /\ OwnsLease(v, e)
          /\ e \in todo[w] ) => ~ OwnsLease(w, e)

\* A finished attempt is history: no later claim, completion or release
\* rewrites its row in automation_attempts.
AttemptHistoryFrozen ==
    [][\A e \in Executions, k \in AttemptNumbers :
        ledger[e][k] \in Terminal \cup {"retryable"} => ledger'[e][k] = ledger[e][k]]_vars

\* A terminal execution stays as it is: no late worker and no later claim
\* gives it another status, another attempt or a lease.
TerminalIsFinal ==
    [][\A e \in Executions : status[e] \in Terminal =>
        /\ status'[e] = status[e]
        /\ attempts'[e] = attempts[e]
        /\ lease'[e] = "none"]_vars

\* Every accepted execution reaches a terminal status although workers die,
\* calls get lost and leases run out: the claim takes abandoned work over.
EveryExecutionEnds ==
    \A e \in Executions : status[e] = "pending" ~> status[e] \in Terminal

\* "Projects domain errors create terminal action and execution receipts":
\* once a rejection is recorded on an action, the receipt keeps it.
\* complete_action has no guard and execute_actions skips only "succeeded"
\* actions, so a retry or a late worker rewrites it.
FailedActionStays ==
    [][\A e \in Executions, i \in Indexes :
        receipt[e][i] = "failed" => receipt'[e][i] = "failed"]_vars

---------------------------------------------------------------------------
(* What a caller of the plugin relies on: module ExecutionContract.        *)

\* The caller does not see attempts: an execution is open until it ends.
ContractOutcome ==
    [e \in Executions |-> IF status[e] = "absent" THEN "none"
                          ELSE IF status[e] \in Terminal THEN status[e]
                          ELSE "open"]

Contract == INSTANCE ExecutionContract
    WITH outcome <- ContractOutcome, effects <- applied

\* The tables, leases and workers implement the contract, its fairness
\* included.
ImplementsContract == Contract!FairSpec
===========================================================================
