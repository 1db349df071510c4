------------------------- MODULE ExecutionsProofs -------------------------
(***************************************************************************)
(* Proofs about Executions, for any number of executions, actions, workers *)
(* and faults.  IInv is the inductive invariant; its parts beyond the      *)
(* properties say what a worker knows at each program point, which attempt *)
(* numbers workers hold, and how a row's columns go together.              *)
(***************************************************************************)
EXTENDS Executions, TLAPS

\* The columns of automation_executions go together.
RowInv ==
    \A e \in Executions :
        /\ status[e] = "absent" => attempts[e] = 0
        /\ status[e] \in Terminal \cup {"running"} => attempts[e] # 0
        /\ status[e] # "running" => lease[e] = "none"

\* A worker holds an attempt number that was handed out, and nobody else
\* holds the same one.
FenceInv ==
    \A w \in Workers : \A e \in todo[w] :
        /\ fence[w][e] \in 1..attempts[e]
        /\ \A v \in Workers : v # w /\ e \in todo[v] => fence[v][e] # fence[w][e]

\* A "succeeded" receipt is the memory of an effect.
ReceiptInv ==
    \A e \in Executions, i \in Indexes : receipt[e][i] = "succeeded" => i \in applied[e]

\* What a worker knows of its current execution: it has seen the effects of
\* all actions before its index, and at "saveOk" also the one at its index.
AtPoint(w, e) ==
    /\ index[w] \in 0..ActionCount[e]
    /\ pc[w] \in {"call", "saveOk", "saveRejected"} => index[w] < ActionCount[e]
    /\ \A j \in Indexes : j < index[w] => j \in applied[e]
    /\ pc[w] = "saveOk" => index[w] \in applied[e]

PointInv ==
    /\ \A w \in Workers : pc[w] = "idle" => todo[w] = {}
    /\ \A w \in Workers, e \in Executions : IsCurrent(w, e) => AtPoint(w, e)

IInv ==
    /\ TypeOK
    /\ AttemptLedgerAgrees
    /\ RowInv
    /\ FenceInv
    /\ AppliedInOrder
    /\ ReceiptInv
    /\ PointInv
    /\ SucceededMeansApplied

---------------------------------------------------------------------------
(* Lemmas on the operators.                                                *)

\* reconcile works on one execution at a time.
LEMMA CurrentUnique ==
    ASSUME NEW w, NEW e \in Executions, NEW f \in Executions,
           IsCurrent(w, e), IsCurrent(w, f)
    PROVE  e = f
<1>1. e <= f /\ f <= e
    BY DEF IsCurrent
<1>2. e \in Nat /\ f \in Nat
    BY ExecutionsAssumption
<1> QED
    BY <1>1, <1>2

\* Which execution is current depends on what the worker still has to do.
LEMMA CurrentFrame ==
    ASSUME NEW w, NEW e, todo'[w] = todo[w]
    PROVE  IsCurrent(w, e)' <=> IsCurrent(w, e)
BY DEF IsCurrent

\* A worker that does not move keeps what it knows while effects appear.
LEMMA PointFrame ==
    ASSUME NEW w, NEW e, AtPoint(w, e),
           pc'[w] = pc[w], index'[w] = index[w], applied[e] \subseteq applied'[e]
    PROVE  AtPoint(w, e)'
BY DEF AtPoint

\* The action indexes of an execution are indexes of receipts.
LEMMA IndexBound ==
    ASSUME NEW e \in Executions, NEW i \in Nat, i < ActionCount[e]
    PROVE  i \in Indexes /\ i + 1 \in 0..MAX_RULE_ACTIONS /\ i + 1 <= ActionCount[e]
BY ExecutionsAssumption DEF Indexes

\* The number of actions of an execution.
LEMMA CountBound ==
    ASSUME NEW e \in Executions
    PROVE  /\ ActionCount[e] \in Nat \ {0}
           /\ ActionCount[e] \in 0..MAX_RULE_ACTIONS
           /\ MAX_RULE_ACTIONS \in Nat
BY ExecutionsAssumption

\* The actions of an execution are the indexes below its count.
LEMMA AllActions ==
    ASSUME NEW e \in Executions, NEW S, \A j \in Indexes : j < ActionCount[e] => j \in S
    PROVE  Actions(e) \subseteq S
BY CountBound, IndexBound DEF Actions

\* What a claim takes is claimable.
LEMMA ClaimedBatch ==
    ASSUME NEW w \in Workers, ClaimExecutions(w)
    PROVE  \E batch \in SUBSET Executions :
                /\ \A e \in batch : Claimable(e)
                /\ ClaimBatch(w, batch)
<1>1. PICK batch \in SUBSET {e \in Executions : Claimable(e)} : ClaimBatch(w, batch)
    BY DEF ClaimExecutions
<1>2. batch \in SUBSET Executions /\ \A e \in batch : Claimable(e)
    OBVIOUS
<1> QED
    BY <1>1, <1>2

---------------------------------------------------------------------------
(* Preservation, one lemma per part of IInv.                               *)

\* Types, the tables: claims hand out the next attempt number, ends of
\* attempts write declared states.
LEMMA TableTypeStep == TypeOK /\ Next => TableType'
<1> SUFFICES ASSUME TypeOK, Next PROVE TableType'
    OBVIOUS
<1> USE DEF TypeOK, TableType, WorkerType, tables, local, ExecutionStatus, AttemptStatus,
            LeaseState, Terminal
<1>1. ASSUME NEW e \in Executions, InsertExecution(e) PROVE TableType'
    BY <1>1 DEF InsertExecution
<1>2. ASSUME NEW e \in Executions, LeaseExpires(e) PROVE TableType'
    BY <1>2 DEF LeaseExpires
<1>3. ASSUME NEW w \in Workers, ClaimExecutions(w) PROVE TableType'
  <2>1. PICK batch \in SUBSET Executions : ClaimBatch(w, batch)
    BY <1>3, ClaimedBatch
  <2>2. status' \in [Executions -> ExecutionStatus] /\ lease' \in [Executions -> LeaseState]
    BY <2>1 DEF ClaimBatch
  <2>3. attempts' \in [Executions -> 0..MaxAttempts]
    BY <2>1, ExecutionsAssumption DEF ClaimBatch, CounterLeft
  <2>4. owner' \in [Executions -> Callers \cup {NoOwner}]
    BY <2>1 DEF ClaimBatch, Callers
  <2>5. ledger' \in [Executions -> [AttemptNumbers -> AttemptStatus]]
    BY <2>1 DEF ClaimBatch, ExpiredAttempt
  <2> QED
    BY <2>2, <2>3, <2>4, <2>5
<1>4. ASSUME NEW w \in Workers, NEW e \in Executions,
             NEW s \in ExecutionStatus, NEW a \in AttemptStatus, EndAttempt(w, e, s, a)
      PROVE  TableType'
  <2>1. ledger' \in [Executions -> [AttemptNumbers -> AttemptStatus]]
    BY <1>4 DEF EndAttempt
  <2>2. owner' \in [Executions -> Callers \cup {NoOwner}]
    BY <1>4 DEF EndAttempt
  <2> QED
    BY <1>4, <2>1, <2>2 DEF EndAttempt
<1>5. ASSUME NEW w \in Workers, NEW e \in Executions, CompleteExecution(w, e) PROVE TableType'
  <2>1. Outcome(w, e) \in ExecutionStatus \cap AttemptStatus
    BY DEF Outcome
  <2>2. CASE EndAttempt(w, e, Outcome(w, e), Outcome(w, e))
    BY <1>4, <2>1, <2>2
  <2>3. CASE UNCHANGED tables
    BY <2>3
  <2> QED
    BY <1>5, <2>2, <2>3 DEF CompleteExecution
<1>6. ASSUME NEW w \in Workers, NEW e \in Executions, ReleaseExecution(w, e) PROVE TableType'
  <2>1. CASE EndAttempt(w, e, "pending", "retryable")
    BY <1>4, <2>1
  <2>2. CASE UNCHANGED tables
    BY <2>2
  <2> QED
    BY <1>6, <2>1, <2>2 DEF ReleaseExecution
<1>7. CASE UNCHANGED tables
    BY <1>7
<1> QED
    BY <1>1, <1>2, <1>3, <1>5, <1>6, <1>7
       DEF Next, WorkerStep, ActionStatus, CallSucceeds, CallRejected, CallRuntimeFailure,
           CompleteAction, StorageFailure, Crash

\* Types, the receipts and the effects: they are written at an index of the
\* action snapshot.
LEMMA EffectTypeStep == TypeOK /\ PointInv /\ Next => EffectType'
<1> SUFFICES ASSUME TypeOK, PointInv, Next PROVE EffectType'
    OBVIOUS
<1> USE DEF TypeOK, EffectType, WorkerType, local, ReceiptStatus
<1>1. ASSUME NEW e \in Executions, InsertExecution(e) PROVE EffectType'
    BY <1>1 DEF InsertExecution
<1>2. ASSUME NEW w \in Workers, NEW e \in Executions,
             CallSucceeds(w, e) \/ CallRuntimeFailure(w, e)
      PROVE  EffectType'
  <2>1. index[w] \in Indexes
    BY <1>2, IndexBound DEF CallSucceeds, CallRuntimeFailure, PointInv, AtPoint
  <2> QED
    BY <1>2, <2>1 DEF CallSucceeds, CallRuntimeFailure
<1>3. ASSUME NEW w \in Workers, NEW e \in Executions,
             CompleteAction(w, e) \/ StorageFailure(w, e)
      PROVE  EffectType'
  <2>1. receipt' \in [Executions -> [Indexes -> ReceiptStatus]]
    <3>1. ASSUME NEW s \in ReceiptStatus, receipt' = [receipt EXCEPT ![e][index[w]] = s]
          PROVE  receipt' \in [Executions -> [Indexes -> ReceiptStatus]]
        BY <3>1
    <3> QED
        BY <1>3, <3>1 DEF CompleteAction, StorageFailure
  <2> QED
    BY <1>3, <2>1 DEF CompleteAction, StorageFailure
<1>4. CASE UNCHANGED <<receipt, applied>>
    BY <1>4
<1> QED
    BY <1>1, <1>2, <1>3, <1>4
       DEF Next, WorkerStep, ClaimExecutions, ClaimBatch, LeaseExpires, ActionStatus,
           CallRejected, CompleteExecution, ReleaseExecution, Crash

\* Types, the workers.
LEMMA WorkerTypeStep == TypeOK /\ PointInv /\ Next => WorkerType'
<1> SUFFICES ASSUME TypeOK, PointInv, Next PROVE WorkerType'
    OBVIOUS
<1> USE DEF TypeOK, WorkerType, local, WorkerState, Goto
<1>1. ASSUME NEW w \in Workers, ClaimExecutions(w) PROVE WorkerType'
  <2>1. PICK batch \in SUBSET Executions : ClaimBatch(w, batch)
    BY <1>1, ClaimedBatch
  <2>2. fence' \in [Workers -> [Executions -> 0..MaxAttempts]]
    BY <2>1, ExecutionsAssumption DEF ClaimBatch, CounterLeft, TableType
  <2> QED
    BY <2>1, <2>2, ExecutionsAssumption DEF ClaimBatch
<1>2. ASSUME NEW w \in Workers, NEW e \in Executions,
             ActionStatus(w, e) \/ CompleteAction(w, e)
      PROVE  WorkerType'
  <2>1. index[w] + 1 \in 0..MAX_RULE_ACTIONS \/ index' = index
    BY <1>2, IndexBound DEF ActionStatus, CompleteAction, PointInv, AtPoint
  <2> QED
    BY <1>2, <2>1 DEF ActionStatus, CompleteAction
<1>3. ASSUME NEW w \in Workers, Return(w) PROVE WorkerType'
    BY <1>3, ExecutionsAssumption DEF Return
<1>4. ASSUME NEW w \in Workers, NEW e \in Executions, CompleteExecution(w, e)
      PROVE  WorkerType'
  <2>1. CASE Return(w)
    BY <1>3, <2>1
  <2>2. CASE /\ Goto(w, "act")
             /\ todo' = [todo EXCEPT ![w] = @ \ {e}]
             /\ index' = [index EXCEPT ![w] = 0]
             /\ UNCHANGED fence
    BY <2>2, ExecutionsAssumption
  <2> QED
    BY <1>4, <2>1, <2>2 DEF CompleteExecution
<1>5. ASSUME NEW w \in Workers, NEW e \in Executions,
             ReleaseExecution(w, e) \/ Crash(w)
      PROVE  WorkerType'
    BY <1>3, <1>5 DEF ReleaseExecution, Crash
<1>6. ASSUME NEW w \in Workers, NEW e \in Executions,
             \/ CallSucceeds(w, e) \/ CallRejected(w, e)
             \/ CallRuntimeFailure(w, e) \/ StorageFailure(w, e)
      PROVE  WorkerType'
    BY <1>6 DEF CallSucceeds, CallRejected, CallRuntimeFailure, StorageFailure
<1>7. CASE UNCHANGED local
    BY <1>7
<1>8. ASSUME NEW w \in Workers, Crash(w) PROVE WorkerType'
    BY <1>3, <1>8 DEF Crash
<1> QED
    BY <1>1, <1>2, <1>4, <1>5, <1>6, <1>7, <1>8
       DEF Next, WorkerStep, InsertExecution, LeaseExpires

\* Types, the whole step.
LEMMA TypeStep == TypeOK /\ PointInv /\ Next => TypeOK'
<1> SUFFICES ASSUME TypeOK, PointInv, Next PROVE TypeOK'
    OBVIOUS
<1>1. faults' = faults \/ Fault
    BY DEF Next, WorkerStep, InsertExecution, LeaseExpires, ClaimExecutions, ClaimBatch,
           ActionStatus, CallSucceeds, CallRejected, CallRuntimeFailure, CompleteAction, StorageFailure,
           CompleteExecution, ReleaseExecution, Crash
<1>2. faults' \in 0..MaxFaults
    BY <1>1, ExecutionsAssumption DEF TypeOK, Fault
<1> QED
    BY <1>2, TableTypeStep, EffectTypeStep, WorkerTypeStep DEF TypeOK

\* The ledger: a claim closes the previous attempt and opens the next, the
\* end of an attempt closes the open one.
LEMMA LedgerStep ==
    ASSUME TypeOK, AttemptLedgerAgrees, RowInv, FenceInv, Next
    PROVE  AttemptLedgerAgrees' /\ RowInv'
<1> USE DEF TypeOK, TableType, tables, local, Terminal, ExecutionStatus, LeaseState
<1>1. ASSUME NEW e \in Executions, InsertExecution(e)
      PROVE  AttemptLedgerAgrees' /\ RowInv'
  <2>1. AttemptLedgerAgrees'
    BY <1>1 DEF InsertExecution, AttemptLedgerAgrees, LastAttempt, RowInv, AttemptNumbers
  <2>2. RowInv'
    BY <1>1 DEF InsertExecution, RowInv
  <2> QED
    BY <2>1, <2>2
<1>2. ASSUME NEW e \in Executions, LeaseExpires(e)
      PROVE  AttemptLedgerAgrees' /\ RowInv'
    BY <1>2 DEF LeaseExpires, AttemptLedgerAgrees, LastAttempt, RowInv
<1>3. ASSUME NEW w \in Workers, ClaimExecutions(w)
      PROVE  AttemptLedgerAgrees' /\ RowInv'
  <2>1. PICK batch \in SUBSET Executions :
            (\A e \in batch : Claimable(e)) /\ ClaimBatch(w, batch)
    BY <1>3, ClaimedBatch
  <2>2. RowInv'
    BY <2>1 DEF ClaimBatch, RowInv
  <2>3. SUFFICES ASSUME NEW e \in Executions, NEW k \in AttemptNumbers
        PROVE  /\ k < attempts'[e] => ledger'[e][k] = "retryable"
               /\ k = attempts'[e] => ledger'[e][k] = LastAttempt(status'[e])
               /\ k > attempts'[e] => ledger'[e][k] = "none"
    BY <2>2 DEF AttemptLedgerAgrees, LastAttempt
  <2>4. attempts[e] \in Nat /\ k \in Nat
    BY ExecutionsAssumption DEF AttemptNumbers
  <2>5. /\ k < attempts[e] => ledger[e][k] = "retryable"
        /\ k = attempts[e] => ledger[e][k] = LastAttempt(status[e])
        /\ k > attempts[e] => ledger[e][k] = "none"
    BY DEF AttemptLedgerAgrees
  <2>6. CASE e \in batch
    <3>1. attempts'[e] = attempts[e] + 1 /\ status'[e] = "running"
        BY <2>1, <2>6 DEF ClaimBatch
    <3>2. ledger'[e][k] = IF k = attempts[e] + 1 THEN "running"
                          ELSE IF k = attempts[e] THEN ExpiredAttempt(ledger[e][k])
                          ELSE ledger[e][k]
        BY <2>1, <2>6 DEF ClaimBatch
    <3>3. status[e] \in {"pending", "running"}
        BY <2>1, <2>6 DEF Claimable
    <3> QED
        BY <2>4, <2>5, <3>1, <3>2, <3>3 DEF LastAttempt, ExpiredAttempt
  <2>7. CASE e \notin batch
    <3>1. attempts'[e] = attempts[e] /\ status'[e] = status[e]
        BY <2>1, <2>7 DEF ClaimBatch
    <3>2. ledger'[e][k] = ledger[e][k]
        BY <2>1, <2>7 DEF ClaimBatch
    <3> QED
        BY <2>5, <3>1, <3>2
  <2> QED
    BY <2>6, <2>7
<1>4. ASSUME NEW w \in Workers, NEW e \in Executions, e \in todo[w], OwnsLease(w, e),
             NEW s \in Terminal \cup {"pending"}, EndAttempt(w, e, s, LastAttempt(s))
      PROVE  AttemptLedgerAgrees' /\ RowInv'
  <2>1. fence[w][e] = attempts[e] /\ attempts[e] # 0 /\ status[e] = "running"
    BY <1>4 DEF OwnsLease, RowInv
  <2>2. RowInv'
    BY <1>4, <2>1 DEF EndAttempt, RowInv
  <2>3. SUFFICES ASSUME NEW f \in Executions, NEW k \in AttemptNumbers
        PROVE  /\ k < attempts'[f] => ledger'[f][k] = "retryable"
               /\ k = attempts'[f] => ledger'[f][k] = LastAttempt(status'[f])
               /\ k > attempts'[f] => ledger'[f][k] = "none"
    BY <2>2 DEF AttemptLedgerAgrees, LastAttempt
  <2>4. /\ k < attempts[f] => ledger[f][k] = "retryable"
        /\ k = attempts[f] => ledger[f][k] = LastAttempt(status[f])
        /\ k > attempts[f] => ledger[f][k] = "none"
    BY DEF AttemptLedgerAgrees
  <2>5. attempts'[f] = attempts[f] /\ attempts[f] \in Nat /\ k \in Nat
    BY <1>4, ExecutionsAssumption DEF EndAttempt, AttemptNumbers
  <2>6. CASE f = e /\ k = attempts[e]
    <3>1. ledger'[f][k] = LastAttempt(s) /\ status'[f] = s
        BY <1>4, <2>1, <2>6 DEF EndAttempt
    <3> QED
        BY <2>5, <2>6, <3>1
  <2>7. CASE f = e /\ k # attempts[e]
    <3>1. ledger'[f][k] = ledger[f][k]
        BY <1>4, <2>1, <2>7 DEF EndAttempt
    <3> QED
        BY <2>4, <2>5, <2>7, <3>1
  <2>8. CASE f # e
    <3>1. ledger'[f][k] = ledger[f][k] /\ status'[f] = status[f]
        BY <1>4, <2>8 DEF EndAttempt
    <3> QED
        BY <2>4, <2>5, <3>1
  <2> QED
    BY <2>6, <2>7, <2>8
<1>5. CASE UNCHANGED tables
    BY <1>5 DEF AttemptLedgerAgrees, LastAttempt, RowInv
<1>6. ASSUME NEW w \in Workers, NEW e \in Executions, CompleteExecution(w, e)
      PROVE  AttemptLedgerAgrees' /\ RowInv'
  <2>1. Outcome(w, e) \in Terminal /\ LastAttempt(Outcome(w, e)) = Outcome(w, e)
    BY DEF Outcome, LastAttempt
  <2>2. CASE OwnsLease(w, e)
    <3>1. e \in todo[w] /\ EndAttempt(w, e, Outcome(w, e), LastAttempt(Outcome(w, e)))
        BY <1>6, <2>1, <2>2 DEF CompleteExecution, IsCurrent
    <3> QED
        BY <1>4, <2>1, <2>2, <3>1
  <2>3. CASE ~ OwnsLease(w, e)
    BY <1>5, <1>6, <2>3 DEF CompleteExecution
  <2> QED
    BY <2>2, <2>3
<1>7. ASSUME NEW w \in Workers, NEW e \in Executions, ReleaseExecution(w, e)
      PROVE  AttemptLedgerAgrees' /\ RowInv'
  <2>1. CASE OwnsLease(w, e)
    <3>1. e \in todo[w] /\ EndAttempt(w, e, "pending", LastAttempt("pending"))
        BY <1>7, <2>1 DEF ReleaseExecution, IsCurrent, LastAttempt
    <3> QED
        BY <1>4, <2>1, <3>1
  <2>2. CASE ~ OwnsLease(w, e)
    BY <1>5, <1>7, <2>2 DEF ReleaseExecution
  <2> QED
    BY <2>1, <2>2
<1> QED
    BY <1>1, <1>2, <1>3, <1>5, <1>6, <1>7
       DEF Next, WorkerStep, ActionStatus, CallSucceeds, CallRejected, CallRuntimeFailure,
           CompleteAction, StorageFailure, Crash

\* Attempt numbers only grow, and a worker that is not claiming keeps what it
\* holds or lets go of it.
LEMMA FenceStep == ASSUME TypeOK, FenceInv, Next PROVE FenceInv'
<1> USE DEF TypeOK, TableType, WorkerType
<1>1. ASSUME attempts' = attempts,
             \A w \in Workers : todo'[w] \subseteq todo[w],
             \A w \in Workers : todo'[w] # {} => fence'[w] = fence[w]
      PROVE  FenceInv'
  <2>1. SUFFICES ASSUME NEW w \in Workers, NEW e \in todo'[w]
        PROVE  /\ fence'[w][e] \in 1..attempts'[e]
               /\ \A v \in Workers : v # w /\ e \in todo'[v] => fence'[v][e] # fence'[w][e]
    BY DEF FenceInv
  <2>2. e \in todo[w] /\ fence'[w] = fence[w]
    BY <1>1
  <2>3. \A v \in Workers : e \in todo'[v] => e \in todo[v] /\ fence'[v] = fence[v]
    BY <1>1
  <2> QED
    BY <1>1, <2>2, <2>3 DEF FenceInv
<1>2. ASSUME NEW w \in Workers, ClaimExecutions(w) PROVE FenceInv'
  <2>1. PICK batch \in SUBSET Executions : ClaimBatch(w, batch)
    BY <1>2, ClaimedBatch
  <2>2. SUFFICES ASSUME NEW v \in Workers, NEW e \in todo'[v]
        PROVE  /\ fence'[v][e] \in 1..attempts'[e]
               /\ \A u \in Workers : u # v /\ e \in todo'[u] => fence'[u][e] # fence'[v][e]
    BY DEF FenceInv
  <2>3. todo'[w] = batch /\ \A u \in Workers \ {w} : todo'[u] = todo[u] /\ fence'[u] = fence[u]
    BY <2>1 DEF ClaimBatch
  <2>4. e \in Executions
    BY <2>3
  <2>5. attempts[e] \in Nat
    BY <2>4, ExecutionsAssumption
  <2>6. /\ e \in batch => attempts'[e] = attempts[e] + 1 /\ fence'[w][e] = attempts[e] + 1
        /\ e \notin batch => attempts'[e] = attempts[e]
    BY <2>1, <2>4 DEF ClaimBatch
  <2>7. \A u \in Workers \ {w} : e \in todo'[u] =>
            fence'[u][e] \in 1..attempts[e]
    BY <2>3 DEF FenceInv
  <2>8. \A u, x \in Workers \ {w} : u # x /\ e \in todo'[u] /\ e \in todo'[x] =>
            fence'[u][e] # fence'[x][e]
    BY <2>3 DEF FenceInv
  <2>9. CASE v = w
    BY <2>3, <2>5, <2>6, <2>7, <2>9
  <2>10. CASE v # w
    BY <2>3, <2>5, <2>6, <2>7, <2>8, <2>10
  <2> QED
    BY <2>9, <2>10
<1>3. ASSUME NEW w \in Workers, Return(w), attempts' = attempts PROVE FenceInv'
  <2>1. \A u \in Workers : todo'[u] \subseteq todo[u] /\ (todo'[u] # {} => fence'[u] = fence[u])
    BY <1>3 DEF Return
  <2> QED
    BY <1>1, <1>3, <2>1
<1>4. ASSUME NEW w \in Workers, NEW e \in Executions, CompleteExecution(w, e) PROVE FenceInv'
  <2>1. attempts' = attempts
    BY <1>4 DEF CompleteExecution, EndAttempt, tables
  <2>2. CASE Return(w)
    BY <1>3, <2>1, <2>2
  <2>3. CASE todo' = [todo EXCEPT ![w] = @ \ {e}] /\ UNCHANGED fence
    <3>1. \A u \in Workers : todo'[u] \subseteq todo[u]
        BY <2>3
    <3> QED
        BY <1>1, <2>1, <2>3, <3>1
  <2> QED
    BY <1>4, <2>2, <2>3 DEF CompleteExecution
<1>5. ASSUME NEW w \in Workers, NEW e \in Executions, ReleaseExecution(w, e) PROVE FenceInv'
    BY <1>3, <1>5 DEF ReleaseExecution, EndAttempt, tables
<1>6. ASSUME NEW w \in Workers, Crash(w) PROVE FenceInv'
    BY <1>3, <1>6 DEF Crash, tables
<1>7. CASE UNCHANGED <<attempts, todo, fence>>
    BY <1>7 DEF FenceInv
<1> QED
    BY <1>2, <1>4, <1>5, <1>6, <1>7
       DEF Next, WorkerStep, InsertExecution, LeaseExpires, ActionStatus, CallSucceeds,
           CallRejected, CallRuntimeFailure, CompleteAction, StorageFailure, tables, local

\* Effects appear at the index of a worker that has seen all earlier ones.
LEMMA AppliedStep ==
    ASSUME TypeOK, AppliedInOrder, PointInv, Next
    PROVE  AppliedInOrder' /\ \A e \in Executions : applied[e] \subseteq applied'[e]
<1> USE DEF TypeOK, EffectType, WorkerType
<1>1. ASSUME NEW w \in Workers, NEW e \in Executions, IsCurrent(w, e), pc[w] = "call",
             applied' = [applied EXCEPT ![e] = @ \cup {index[w]}]
      PROVE  AppliedInOrder' /\ \A f \in Executions : applied[f] \subseteq applied'[f]
  <2>1. \A j \in Indexes : j < index[w] => j \in applied[e]
    BY <1>1 DEF PointInv, AtPoint
  <2>2. \A f \in Executions : applied'[f] = IF f = e THEN applied[e] \cup {index[w]}
                                                     ELSE applied[f]
    BY <1>1
  <2> QED
    BY <2>1, <2>2 DEF AppliedInOrder
<1>2. CASE UNCHANGED applied
    BY <1>2 DEF AppliedInOrder
<1>3. ASSUME NEW w \in Workers, NEW e \in Executions,
             CallSucceeds(w, e) \/ CallRuntimeFailure(w, e)
      PROVE  AppliedInOrder' /\ \A f \in Executions : applied[f] \subseteq applied'[f]
    BY <1>1, <1>2, <1>3 DEF CallSucceeds, CallRuntimeFailure
<1> QED
    BY <1>2, <1>3
       DEF Next, WorkerStep, InsertExecution, LeaseExpires, ClaimExecutions, ClaimBatch,
           ActionStatus, CallRejected, CompleteAction, StorageFailure, CompleteExecution,
           ReleaseExecution, Crash

\* A receipt turns "succeeded" only where a worker has seen the effect.
LEMMA ReceiptStep ==
    ASSUME TypeOK, ReceiptInv, PointInv, Next,
           \A e \in Executions : applied[e] \subseteq applied'[e]
    PROVE  ReceiptInv'
<1> USE DEF TypeOK, EffectType, WorkerType
<1>1. CASE UNCHANGED receipt
    BY <1>1 DEF ReceiptInv
<1>2. ASSUME NEW e \in Executions, InsertExecution(e) PROVE ReceiptInv'
    BY <1>2 DEF InsertExecution, ReceiptInv
<1>3. ASSUME NEW w \in Workers, NEW e \in Executions,
             CompleteAction(w, e) \/ StorageFailure(w, e)
      PROVE  ReceiptInv'
  <2>1. CASE UNCHANGED receipt
    BY <1>1, <2>1
  <2>2. CASE pc[w] = "saveOk" /\ receipt' = [receipt EXCEPT ![e][index[w]] = "succeeded"]
    <3>1. index[w] \in applied[e]
        BY <1>3, <2>2 DEF CompleteAction, StorageFailure, PointInv, AtPoint
    <3> QED
        BY <2>2, <3>1 DEF ReceiptInv
  <2>3. CASE receipt' = [receipt EXCEPT ![e][index[w]] = "failed"]
    BY <2>3 DEF ReceiptInv
  <2> QED
    BY <1>3, <2>1, <2>2, <2>3 DEF CompleteAction, StorageFailure
<1> QED
    BY <1>1, <1>2, <1>3
       DEF Next, WorkerStep, LeaseExpires, ClaimExecutions, ClaimBatch, ActionStatus,
           CallSucceeds, CallRejected, CallRuntimeFailure, CompleteExecution,
           ReleaseExecution, Crash

\* What a worker knows stays true: its own steps establish the next point and
\* no step of anybody takes an effect back.
LEMMA PointStep ==
    ASSUME TypeOK, ReceiptInv, PointInv, Next,
           \A e \in Executions : applied[e] \subseteq applied'[e]
    PROVE  PointInv'
<1> USE DEF TypeOK, EffectType, WorkerType
\* The frame: only w moves, and it satisfies its part of the invariant.
<1>1. ASSUME NEW w \in Workers,
             \A v \in Workers \ {w} :
                pc'[v] = pc[v] /\ todo'[v] = todo[v] /\ index'[v] = index[v],
             pc'[w] = "idle" => todo'[w] = {},
             \A e \in Executions : IsCurrent(w, e)' => AtPoint(w, e)'
      PROVE  PointInv'
  <2>1. \A v \in Workers : pc'[v] = "idle" => todo'[v] = {}
    BY <1>1 DEF PointInv
  <2>2. ASSUME NEW v \in Workers, NEW e \in Executions, IsCurrent(v, e)'
        PROVE  AtPoint(v, e)'
    <3>1. CASE v = w
        BY <1>1, <2>2, <3>1
    <3>2. CASE v # w
      <4>1. IsCurrent(v, e)
        BY <1>1, <2>2, <3>2, CurrentFrame
      <4>2. AtPoint(v, e)
        BY <4>1 DEF PointInv
      <4> QED
        BY <1>1, <3>2, <4>2, PointFrame
    <3> QED
        BY <3>1, <3>2
  <2> QED
    BY <2>1, <2>2 DEF PointInv
\* A worker that starts an execution, or has nothing to do, knows nothing yet.
<1>2. ASSUME NEW w \in Workers, NEW e \in Executions,
             pc'[w] \in {"act", "idle"}, index'[w] = 0
      PROVE  AtPoint(w, e)'
    BY <1>2, CountBound DEF AtPoint, Indexes
\* A worker that stays with its execution.
<1>3. ASSUME NEW w \in Workers, NEW e \in Executions, IsCurrent(w, e),
             UNCHANGED todo, pc'[w] # "idle",
             \A v \in Workers \ {w} : pc'[v] = pc[v] /\ index'[v] = index[v],
             AtPoint(w, e)'
      PROVE  PointInv'
  <2>1. ASSUME NEW f \in Executions, IsCurrent(w, f)'
        PROVE  AtPoint(w, f)'
    <3>1. IsCurrent(w, f)
        BY <1>3, <2>1, CurrentFrame
    <3>2. f = e
        BY <1>3, <3>1, CurrentUnique
    <3> QED
        BY <1>3, <3>2
  <2> QED
    BY <1>1, <1>3, <2>1
<1>4. ASSUME NEW w \in Workers, Return(w) PROVE PointInv'
    BY <1>1, <1>2, <1>4 DEF Return, Goto
<1>5. ASSUME NEW w \in Workers, ClaimExecutions(w) PROVE PointInv'
  <2>1. PICK batch \in SUBSET Executions : ClaimBatch(w, batch)
    BY <1>5, ClaimedBatch
  <2> QED
    BY <1>1, <1>2, <2>1 DEF ClaimBatch
<1>6. ASSUME NEW w \in Workers, NEW e \in Executions, ActionStatus(w, e) PROVE PointInv'
  <2>1. AtPoint(w, e) /\ index[w] < ActionCount[e] /\ IsCurrent(w, e) /\ applied' = applied
    BY <1>6 DEF ActionStatus, PointInv
  <2>2. index[w] \in Indexes /\ index[w] + 1 <= ActionCount[e] /\ ActionCount[e] \in Nat
    BY <2>1, IndexBound, CountBound DEF AtPoint
  <2>3. CASE receipt[e][index[w]] = "succeeded"
    <3>1. index'[w] = index[w] + 1 /\ pc'[w] = "act"
        BY <1>6, <2>3 DEF ActionStatus, Skipped
    <3>2. index[w] \in applied[e]
        BY <2>2, <2>3 DEF ReceiptInv
    <3>3. AtPoint(w, e)'
        BY <2>1, <2>2, <3>1, <3>2 DEF AtPoint, Indexes
    <3> QED
        BY <1>3, <1>6, <2>1, <3>1, <3>3 DEF ActionStatus, Goto
  <2>4. CASE receipt[e][index[w]] # "succeeded"
    <3>1. index' = index /\ pc' = [pc EXCEPT ![w] = "call"]
        BY <1>6, <2>4 DEF ActionStatus, Skipped, Goto
    <3>2. AtPoint(w, e)'
        BY <2>1, <3>1 DEF AtPoint
    <3> QED
        BY <1>3, <1>6, <2>1, <3>1, <3>2 DEF ActionStatus
  <2> QED
    BY <2>3, <2>4
<1>7. ASSUME NEW w \in Workers, NEW e \in Executions, CallSucceeds(w, e) PROVE PointInv'
  <2>1. AtPoint(w, e) /\ IsCurrent(w, e)
    BY <1>7 DEF CallSucceeds, PointInv
  <2>2. index[w] \in applied'[e]
    BY <1>7 DEF CallSucceeds
  <2>3. AtPoint(w, e)'
    BY <1>7, <2>1, <2>2 DEF CallSucceeds, Goto, AtPoint
  <2> QED
    BY <1>3, <1>7, <2>1, <2>3 DEF CallSucceeds, Goto
<1>8. ASSUME NEW w \in Workers, NEW e \in Executions,
             CallRejected(w, e) \/ CallRuntimeFailure(w, e) \/ StorageFailure(w, e)
      PROVE  PointInv'
  <2>1. AtPoint(w, e) /\ IsCurrent(w, e) /\ index' = index /\ todo' = todo
    BY <1>8 DEF CallRejected, CallRuntimeFailure, StorageFailure, PointInv
  <2>2. \/ pc' = [pc EXCEPT ![w] = "saveRejected"] /\ pc[w] = "call"
        \/ pc' = [pc EXCEPT ![w] = "release"]
    BY <1>8 DEF CallRejected, CallRuntimeFailure, StorageFailure, Goto
  <2>3. AtPoint(w, e)'
    BY <2>1, <2>2 DEF AtPoint
  <2> QED
    BY <1>3, <2>1, <2>2, <2>3
<1>9. ASSUME NEW w \in Workers, NEW e \in Executions, CompleteAction(w, e) PROVE PointInv'
  <2>1. AtPoint(w, e) /\ IsCurrent(w, e) /\ todo' = todo /\ applied' = applied
    BY <1>9 DEF CompleteAction, PointInv, local
  <2>2. CASE pc[w] = "saveOk"
    <3>1. index' = [index EXCEPT ![w] = index[w] + 1] /\ pc' = [pc EXCEPT ![w] = "act"]
        BY <1>9, <2>2 DEF CompleteAction, Goto
    <3>2. index[w] \in Nat /\ index[w] < ActionCount[e]
        BY <2>1, <2>2, CountBound DEF AtPoint
    <3>3. index[w] + 1 \in 0..ActionCount[e]
        BY <3>2, IndexBound, CountBound
    <3>4. AtPoint(w, e)'
        BY <2>1, <2>2, <3>1, <3>2, <3>3 DEF AtPoint, Indexes
    <3> QED
        BY <1>3, <2>1, <3>1, <3>4
  <2>3. CASE pc[w] = "saveRejected"
    <3>1. index' = index /\ pc' = [pc EXCEPT ![w] = "fail"]
        BY <1>9, <2>3 DEF CompleteAction, Goto
    <3>2. AtPoint(w, e)'
        BY <2>1, <3>1 DEF AtPoint
    <3> QED
        BY <1>3, <2>1, <3>1, <3>2
  <2> QED
    BY <1>9, <2>2, <2>3 DEF CompleteAction
<1>10. ASSUME NEW w \in Workers, NEW e \in Executions, CompleteExecution(w, e)
       PROVE  PointInv'
  <2>1. CASE Return(w)
    BY <1>4, <2>1
  <2>2. CASE /\ Goto(w, "act")
             /\ todo' = [todo EXCEPT ![w] = @ \ {e}]
             /\ index' = [index EXCEPT ![w] = 0]
    BY <1>1, <1>2, <2>2 DEF Goto
  <2> QED
    BY <1>10, <2>1, <2>2 DEF CompleteExecution
<1>11. ASSUME NEW w \in Workers, NEW e \in Executions, ReleaseExecution(w, e)
       PROVE  PointInv'
    BY <1>4, <1>11 DEF ReleaseExecution
<1>12. ASSUME NEW w \in Workers, Crash(w) PROVE PointInv'
    BY <1>4, <1>12 DEF Crash
<1>13. CASE UNCHANGED local
  <2>1. ASSUME NEW w \in Workers PROVE \A e \in Executions : IsCurrent(w, e)' => AtPoint(w, e)'
    BY <1>13, CurrentFrame, PointFrame DEF PointInv, local
  <2> QED
    BY <1>13, <2>1 DEF PointInv, local
<1> QED
    BY <1>5, <1>6, <1>7, <1>8, <1>9, <1>10, <1>11, <1>12, <1>13
       DEF Next, WorkerStep, InsertExecution, LeaseExpires

\* Only a worker that has passed every action ends an execution as succeeded.
LEMMA SucceededStep ==
    ASSUME TypeOK, PointInv, SucceededMeansApplied, Next,
           \A e \in Executions : applied[e] \subseteq applied'[e]
    PROVE  SucceededMeansApplied'
<1> USE DEF TypeOK, TableType, SucceededMeansApplied
<1>1. SUFFICES ASSUME NEW e \in Executions, status'[e] = "succeeded", status[e] # "succeeded"
      PROVE  Actions(e) \subseteq applied'[e]
    BY DEF Actions
<1>2. ASSUME NEW f \in Executions, InsertExecution(f) PROVE FALSE
    BY <1>1, <1>2 DEF InsertExecution
<1>3. ASSUME NEW w \in Workers, ClaimExecutions(w) PROVE FALSE
  <2>1. PICK batch \in SUBSET Executions : ClaimBatch(w, batch)
    BY <1>3, ClaimedBatch
  <2> QED
    BY <1>1, <2>1 DEF ClaimBatch
<1>4. ASSUME NEW w \in Workers, NEW f \in Executions, CompleteExecution(w, f)
      PROVE  Actions(e) \subseteq applied'[e]
  <2>1. f = e /\ Outcome(w, e) = "succeeded"
    BY <1>1, <1>4 DEF CompleteExecution, EndAttempt, tables
  <2>2. index[w] = ActionCount[e] /\ IsCurrent(w, e)
    BY <1>4, <2>1 DEF CompleteExecution, Outcome
  <2>3. \A j \in Indexes : j < ActionCount[e] => j \in applied[e]
    BY <2>2 DEF PointInv, AtPoint
  <2> QED
    BY <1>4, <2>3, AllActions DEF CompleteExecution
<1>5. ASSUME NEW w \in Workers, NEW f \in Executions, ReleaseExecution(w, f) PROVE FALSE
    BY <1>1, <1>5 DEF ReleaseExecution, EndAttempt, tables
<1>6. CASE UNCHANGED status
    BY <1>1, <1>6
<1> QED
    BY <1>2, <1>3, <1>4, <1>5, <1>6
       DEF Next, WorkerStep, LeaseExpires, ActionStatus, CallSucceeds, CallRejected,
           CallRuntimeFailure, CompleteAction, StorageFailure, Crash, tables

---------------------------------------------------------------------------
(* The inductive invariant and the theorems.                               *)

LEMMA InitInv == Init => IInv
<1> SUFFICES ASSUME Init PROVE IInv
    OBVIOUS
<1> USE ExecutionsAssumption DEF Init
<1>1. TypeOK
    BY DEF TypeOK, TableType, EffectType, WorkerType, ExecutionStatus, AttemptStatus,
           ReceiptStatus, LeaseState, WorkerState
<1>2. AttemptLedgerAgrees /\ RowInv /\ FenceInv
    BY DEF AttemptLedgerAgrees, LastAttempt, RowInv, FenceInv, Terminal, AttemptNumbers
<1>3. AppliedInOrder /\ ReceiptInv /\ SucceededMeansApplied
    BY DEF AppliedInOrder, ReceiptInv, SucceededMeansApplied
<1>4. PointInv
    BY DEF PointInv, IsCurrent
<1> QED
    BY <1>1, <1>2, <1>3, <1>4 DEF IInv

LEMMA StutterInv == IInv /\ UNCHANGED vars => IInv'
<1> SUFFICES ASSUME IInv, UNCHANGED vars PROVE IInv'
    OBVIOUS
<1> USE DEF IInv, vars, tables, local
<1>1. TypeOK'
    BY DEF TypeOK, TableType, EffectType, WorkerType
<1>2. AttemptLedgerAgrees' /\ RowInv' /\ FenceInv'
    BY DEF AttemptLedgerAgrees, LastAttempt, RowInv, FenceInv
<1>3. AppliedInOrder' /\ ReceiptInv' /\ SucceededMeansApplied'
    BY DEF AppliedInOrder, ReceiptInv, SucceededMeansApplied
<1>4. PointInv'
    BY CurrentFrame, PointFrame DEF PointInv
<1> QED
    BY <1>1, <1>2, <1>3, <1>4

LEMMA NextInv == IInv /\ [Next]_vars => IInv'
<1> SUFFICES ASSUME IInv, Next PROVE IInv'
    BY StutterInv
<1>1. AppliedInOrder' /\ \A e \in Executions : applied[e] \subseteq applied'[e]
    BY AppliedStep DEF IInv
<1>2. ReceiptInv' /\ PointInv' /\ SucceededMeansApplied'
    BY <1>1, ReceiptStep, PointStep, SucceededStep DEF IInv
<1>3. TypeOK'
    BY TypeStep DEF IInv
<1>4. AttemptLedgerAgrees' /\ RowInv' /\ FenceInv'
    BY LedgerStep, FenceStep DEF IInv
<1> QED
    BY <1>1, <1>2, <1>3, <1>4 DEF IInv

\* The strengthening is an invariant of the specification.
THEOREM Invariance == Spec => []IInv
<1>1. Init => IInv
    BY InitInv
<1>2. IInv /\ [Next]_vars => IInv'
    BY NextInv
<1> QED
    BY <1>1, <1>2, PTL DEF Spec

\* Every column and every worker variable has its type.
THEOREM TypeCorrect == Spec => []TypeOK
<1>1. IInv => TypeOK
    BY DEF IInv
<1> QED
    BY <1>1, Invariance, PTL

\* An execution that is reported as succeeded has all its effects in Projects,
\* for any number of workers, retries and crashes.
THEOREM SucceededIsApplied == Spec => []SucceededMeansApplied
<1>1. IInv => SucceededMeansApplied
    BY DEF IInv
<1> QED
    BY <1>1, Invariance, PTL

\* The actions of a rule take effect in their order.
THEOREM EffectsInOrder == Spec => []AppliedInOrder
<1>1. IInv => AppliedInOrder
    BY DEF IInv
<1> QED
    BY <1>1, Invariance, PTL

\* automation_attempts agrees with automation_executions.
THEOREM LedgerAgrees == Spec => []AttemptLedgerAgrees
<1>1. IInv => AttemptLedgerAgrees
    BY DEF IInv
<1> QED
    BY <1>1, Invariance, PTL

\* At most one invocation can end an execution.  The lease owner does not
\* tell invocations of one Instance apart; the attempt number does.
THEOREM OneCompleter == Spec => []SoleCompleter
<1>1. IInv => SoleCompleter
  <2> SUFFICES ASSUME FenceInv, TypeOK,
                      NEW e \in Executions, NEW v \in Workers, NEW w \in Workers, v # w,
                      e \in todo[v], OwnsLease(v, e), e \in todo[w], OwnsLease(w, e)
               PROVE  FALSE
    BY DEF IInv, SoleCompleter
  <2>1. fence[v][e] = fence[w][e]
    BY DEF OwnsLease
  <2> QED
    BY <2>1 DEF FenceInv
<1> QED
    BY <1>1, Invariance, PTL

---------------------------------------------------------------------------
(* Action properties.                                                      *)

\* What can happen to the table rows of one execution in one step.
LEMMA RowStep ==
    ASSUME IInv, Next, NEW e \in Executions
    PROVE  \/ UNCHANGED <<status[e], attempts[e], lease[e], ledger[e]>>
           \/ status[e] = "absent" /\ status'[e] = "pending"
              /\ UNCHANGED <<attempts[e], lease[e], ledger[e]>>
           \/ status[e] = "running" /\ UNCHANGED <<status[e], attempts[e], ledger[e]>>
           \/ status[e] \in {"pending", "running"} /\ status'[e] = "running"
              /\ \A k \in AttemptNumbers :
                    \/ ledger'[e][k] = ledger[e][k]
                    \/ k = attempts[e] + 1
                    \/ (k = attempts[e] /\ ledger[e][k] = "running")
           \/ status[e] = "running" /\ status'[e] \in Terminal \cup {"pending"}
              /\ \A k \in AttemptNumbers : ledger'[e][k] = ledger[e][k] \/ k = attempts[e]
<1> USE DEF IInv, TypeOK, TableType
<1>1. ASSUME NEW f \in Executions, InsertExecution(f) \/ LeaseExpires(f)
      PROVE  \/ UNCHANGED <<status[e], attempts[e], lease[e], ledger[e]>>
             \/ status[e] = "absent" /\ status'[e] = "pending"
                /\ UNCHANGED <<attempts[e], lease[e], ledger[e]>>
             \/ status[e] = "running" /\ UNCHANGED <<status[e], attempts[e], ledger[e]>>
    BY <1>1 DEF InsertExecution, LeaseExpires
<1>2. ASSUME NEW w \in Workers, ClaimExecutions(w)
      PROVE  \/ UNCHANGED <<status[e], attempts[e], lease[e], ledger[e]>>
             \/ status[e] \in {"pending", "running"} /\ status'[e] = "running"
                /\ \A k \in AttemptNumbers :
                      \/ ledger'[e][k] = ledger[e][k]
                      \/ k = attempts[e] + 1
                      \/ (k = attempts[e] /\ ledger[e][k] = "running")
  <2>1. PICK batch \in SUBSET Executions :
            (\A f \in batch : Claimable(f)) /\ ClaimBatch(w, batch)
    BY <1>2, ClaimedBatch
  <2>2. CASE e \in batch
    <3>1. status[e] \in {"pending", "running"} /\ status'[e] = "running"
        BY <2>1, <2>2 DEF Claimable, ClaimBatch
    <3>2. ASSUME NEW k \in AttemptNumbers
          PROVE  \/ ledger'[e][k] = ledger[e][k]
                 \/ k = attempts[e] + 1
                 \/ (k = attempts[e] /\ ledger[e][k] = "running")
        BY <2>1, <2>2 DEF ClaimBatch, ExpiredAttempt
    <3> QED
        BY <3>1, <3>2
  <2>3. CASE e \notin batch
    <3>1. UNCHANGED <<status[e], attempts[e], lease[e]>>
        BY <2>1, <2>3 DEF ClaimBatch
    <3>2. \A k \in AttemptNumbers : ledger'[e][k] = ledger[e][k]
        BY <2>1, <2>3 DEF ClaimBatch
    <3>3. ledger'[e] = [k \in AttemptNumbers |-> ledger[e][k]]
        BY <2>1, <2>3 DEF ClaimBatch
    <3>4. ledger[e] = [k \in AttemptNumbers |-> ledger[e][k]]
        OBVIOUS
    <3> QED
        BY <3>1, <3>3, <3>4
  <2> QED
    BY <2>2, <2>3
<1>3. ASSUME NEW w \in Workers, NEW f \in Executions, OwnsLease(w, f),
             NEW s \in Terminal \cup {"pending"}, NEW a, EndAttempt(w, f, s, a)
      PROVE  \/ UNCHANGED <<status[e], attempts[e], lease[e], ledger[e]>>
             \/ status[e] = "running" /\ status'[e] \in Terminal \cup {"pending"}
                /\ \A k \in AttemptNumbers : ledger'[e][k] = ledger[e][k] \/ k = attempts[e]
    BY <1>3 DEF OwnsLease, EndAttempt
<1>4. ASSUME NEW w \in Workers, NEW f \in Executions,
             CompleteExecution(w, f) \/ ReleaseExecution(w, f)
      PROVE  \/ UNCHANGED <<status[e], attempts[e], lease[e], ledger[e]>>
             \/ status[e] = "running" /\ status'[e] \in Terminal \cup {"pending"}
                /\ \A k \in AttemptNumbers : ledger'[e][k] = ledger[e][k] \/ k = attempts[e]
  <2>1. Outcome(w, f) \in Terminal
    BY DEF Outcome, Terminal
  <2>2. CASE OwnsLease(w, f)
    BY <1>3, <1>4, <2>1, <2>2 DEF CompleteExecution, ReleaseExecution
  <2>3. CASE ~ OwnsLease(w, f)
    BY <1>4, <2>3 DEF CompleteExecution, ReleaseExecution, tables
  <2> QED
    BY <2>2, <2>3
<1>5. CASE UNCHANGED tables
    BY <1>5 DEF tables
<1> QED
    BY <1>1, <1>2, <1>4, <1>5
       DEF Next, WorkerStep, ActionStatus, CallSucceeds, CallRejected, CallRuntimeFailure,
           CompleteAction, StorageFailure, Crash

\* No later claim, completion or release rewrites a finished attempt.
THEOREM HistoryFrozen == Spec => AttemptHistoryFrozen
<1> DEFINE Frozen == \A e \in Executions, k \in AttemptNumbers :
        ledger[e][k] \in Terminal \cup {"retryable"} => ledger'[e][k] = ledger[e][k]
<1>1. IInv /\ [Next]_vars => [Frozen]_vars
  <2> SUFFICES ASSUME IInv, Next, NEW e \in Executions, NEW k \in AttemptNumbers,
                      ledger[e][k] \in Terminal \cup {"retryable"}
               PROVE  ledger'[e][k] = ledger[e][k]
    OBVIOUS
  <2>1. /\ k = attempts[e] => ledger[e][k] = LastAttempt(status[e])
        /\ k > attempts[e] => ledger[e][k] = "none"
    BY DEF IInv, AttemptLedgerAgrees
  <2>2. attempts[e] \in Nat /\ k \in Nat
    BY ExecutionsAssumption DEF IInv, TypeOK, TableType, AttemptNumbers
  <2>3. k # attempts[e] + 1
    BY <2>1, <2>2 DEF Terminal
  <2>4. k = attempts[e] => status[e] # "running" /\ ledger[e][k] # "running"
    BY <2>1 DEF LastAttempt, Terminal
  <2> QED
    BY <2>3, <2>4, RowStep
<1>2. [][Frozen]_vars <=> AttemptHistoryFrozen
    BY DEF AttemptHistoryFrozen
<1> QED
    BY <1>1, <1>2, Invariance, PTL DEF Spec

\* A terminal execution keeps its status and its attempts and gets no lease.
THEOREM TerminalFinal == Spec => TerminalIsFinal
<1> DEFINE Final == \A e \in Executions : status[e] \in Terminal =>
        /\ status'[e] = status[e]
        /\ attempts'[e] = attempts[e]
        /\ lease'[e] = "none"
<1>1. IInv /\ [Next]_vars => [Final]_vars
  <2> SUFFICES ASSUME IInv, Next, NEW e \in Executions, status[e] \in Terminal
               PROVE  /\ status'[e] = status[e]
                      /\ attempts'[e] = attempts[e]
                      /\ lease'[e] = "none"
    OBVIOUS
  <2>1. lease[e] = "none"
    BY DEF IInv, RowInv, Terminal
  <2> QED
    BY <2>1, RowStep DEF Terminal
<1>2. [][Final]_vars <=> TerminalIsFinal
    BY DEF TerminalIsFinal
<1> QED
    BY <1>1, <1>2, Invariance, PTL DEF Spec

---------------------------------------------------------------------------
(* Refinement.                                                             *)

\* Workers, leases, retries and crashes implement the contract of an
\* execution: every step is one step of the contract or none.
THEOREM Refinement == Spec => Contract!Spec
<1>1. Init => Contract!Init
    BY DEF Init, Contract!Init, ContractOutcome
<1>2. IInv /\ [Next]_vars => [Contract!Next]_(Contract!vars)
  <2> SUFFICES ASSUME IInv, Next PROVE [Contract!Next]_(Contract!vars)
    BY DEF vars, tables, Contract!vars, ContractOutcome
  <2> USE DEF IInv, TypeOK, TableType, EffectType, WorkerType
  <2>1. ASSUME NEW e \in Executions, InsertExecution(e) PROVE Contract!Next
    <3>1. ContractOutcome[e] = "none" /\ UNCHANGED applied
        BY <2>1 DEF InsertExecution, ContractOutcome
    <3>2. ContractOutcome' = [ContractOutcome EXCEPT ![e] = "open"]
        BY <2>1 DEF InsertExecution, ContractOutcome, Terminal
    <3> QED
        BY <3>1, <3>2 DEF Contract!Next, Contract!Accept
  <2>2. ASSUME NEW w \in Workers, NEW e \in Executions, IsCurrent(w, e), pc[w] = "call",
               UNCHANGED status, applied' = [applied EXCEPT ![e] = @ \cup {index[w]}]
        PROVE  [Contract!Next]_(Contract!vars)
    <3>1. UNCHANGED ContractOutcome
        BY <2>2 DEF ContractOutcome
    <3>2. AtPoint(w, e)
        BY <2>2 DEF PointInv
    <3>3. index[w] \in Actions(e) /\ \A j \in 0..(index[w] - 1) : j \in applied[e]
      <4>1. index[w] \in Nat /\ index[w] < ActionCount[e] /\ ActionCount[e] \in Nat
        BY <2>2, <3>2, CountBound DEF AtPoint
      <4>2. ASSUME NEW j \in 0..(index[w] - 1) PROVE j \in applied[e]
        <5>1. j \in Nat /\ j < index[w] /\ j < ActionCount[e]
            BY <4>1
        <5>2. j \in Indexes
            BY <5>1, IndexBound
        <5> QED
            BY <3>2, <5>1, <5>2 DEF AtPoint
      <4> QED
        BY <4>1, <4>2 DEF Actions
    <3>4. CASE index[w] \in applied[e]
      <4>1. UNCHANGED applied
        BY <2>2, <3>4
      <4> QED
        BY <3>1, <4>1 DEF Contract!vars
    <3>5. CASE index[w] \notin applied[e]
      <4>1. fence[w][e] \in 1..attempts[e]
        BY <2>2 DEF FenceInv, IsCurrent
      <4>2. status[e] # "absent"
        BY <4>1 DEF RowInv
      <4>3. status[e] # "succeeded"
        BY <3>3, <3>5 DEF SucceededMeansApplied
      <4>4. ContractOutcome[e] \in {"open", "failed"}
        BY <4>2, <4>3 DEF ContractOutcome, Terminal
      <4>5. Contract!Apply(e, index[w])
        BY <2>2, <3>1, <3>3, <4>4 DEF Contract!Apply
      <4> QED
        BY <3>3, <4>5 DEF Contract!Next, Actions
    <3> QED
        BY <3>4, <3>5
  <2>3. ASSUME NEW w \in Workers, NEW e \in Executions, CompleteExecution(w, e),
               OwnsLease(w, e)
        PROVE  Contract!Next
    <3>1. ContractOutcome[e] = "open" /\ UNCHANGED applied
        BY <2>3 DEF OwnsLease, CompleteExecution, ContractOutcome, Terminal
    <3>2. ContractOutcome' = [ContractOutcome EXCEPT ![e] = Outcome(w, e)]
        BY <2>3 DEF CompleteExecution, EndAttempt, ContractOutcome, Outcome, Terminal
    <3>3. CASE pc[w] = "fail"
        BY <3>1, <3>2, <3>3 DEF Outcome, Contract!Next, Contract!Fail
    <3>4. CASE pc[w] # "fail"
      <4>1. index[w] = ActionCount[e] /\ IsCurrent(w, e)
        BY <2>3, <3>4 DEF CompleteExecution
      <4>2. \A j \in Indexes : j < ActionCount[e] => j \in applied[e]
        BY <4>1 DEF PointInv, AtPoint
      <4>3. 0..(ActionCount[e] - 1) \subseteq applied[e]
        BY <4>2, AllActions DEF Actions
      <4> QED
        BY <3>1, <3>2, <3>4, <4>3 DEF Outcome, Contract!Next, Contract!Succeed
    <3> QED
        BY <3>3, <3>4
  <2>4. ASSUME NEW w \in Workers, ClaimExecutions(w) PROVE UNCHANGED Contract!vars
    <3>1. PICK batch \in SUBSET Executions :
            (\A e \in batch : Claimable(e)) /\ ClaimBatch(w, batch)
        BY <2>4, ClaimedBatch
    <3>2. \A e \in Executions :
            \/ status'[e] = status[e]
            \/ status[e] \in {"pending", "running"} /\ status'[e] = "running"
        BY <3>1 DEF ClaimBatch, Claimable
    <3> QED
        BY <3>1, <3>2 DEF ClaimBatch, Contract!vars, ContractOutcome, Terminal
  <2>5. ASSUME NEW w \in Workers, NEW e \in Executions, ReleaseExecution(w, e)
        PROVE  UNCHANGED Contract!vars
    <3>1. \A f \in Executions :
            \/ status'[f] = status[f]
            \/ status[f] = "running" /\ status'[f] = "pending"
        BY <2>5 DEF ReleaseExecution, OwnsLease, EndAttempt, tables
    <3> QED
        BY <2>5, <3>1 DEF ReleaseExecution, Contract!vars, ContractOutcome, Terminal
  <2>6. CASE UNCHANGED <<status, applied>>
    BY <2>6 DEF Contract!vars, ContractOutcome
  <2>7. ASSUME NEW w \in Workers, NEW e \in Executions,
               CallSucceeds(w, e) \/ CallRuntimeFailure(w, e)
        PROVE  [Contract!Next]_(Contract!vars)
    BY <2>2, <2>6, <2>7 DEF CallSucceeds, CallRuntimeFailure, tables
  <2>8. ASSUME NEW w \in Workers, NEW e \in Executions, CompleteExecution(w, e)
        PROVE  [Contract!Next]_(Contract!vars)
    BY <2>3, <2>6, <2>8 DEF CompleteExecution, tables
  <2> QED
    BY <2>1, <2>4, <2>5, <2>6, <2>7, <2>8
       DEF Next, WorkerStep, LeaseExpires, ActionStatus, CallRejected, CompleteAction,
           StorageFailure, Crash, tables
<1> QED
    BY <1>1, <1>2, Invariance, PTL DEF Spec, Contract!Spec

===========================================================================
