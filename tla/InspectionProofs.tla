------------------------- MODULE InspectionProofs -------------------------
(***************************************************************************)
(* Proofs about Inspection, for any executions, workers, faults and sizes  *)
(* of a page.  The invariant of ExecutionsProofs makes the rows of a page  *)
(* an interval; ReaderInv says how far the pages so far go, and that the   *)
(* row that the reader has seen is still behind or equal to the table.     *)
(***************************************************************************)
EXTENDS Inspection, ExecutionsProofs, FiniteSetTheorems

Receipts == [attempt : AttemptNumbers, status : AttemptStatus]

ReaderType ==
    /\ step \in 1..4
    /\ target \in Executions
    /\ cursor \in AttemptNumbers \cup {NoCursor}
    /\ row \in [status : ExecutionStatus \cup {"none"}, attempts : 0..MaxAttempts]
    /\ pages \in Seq(Receipts)

\* What the reader knows of the execution, now that it may have gone on.
SeenInv ==
    /\ row.attempts <= attempts[target]
    /\ row # NoRow => row.status # "none" /\ status[target] # "absent"
    /\ row.status \in Terminal => status[target] = row.status /\ attempts[target] = row.attempts
    /\ step \in {2, 3} => row # NoRow

\* The pages so far go up to the cursor; without one they are complete.
PagesInv ==
    /\ \A n \in DOMAIN pages :
        /\ pages[n].attempt = n
        /\ row.status \in Terminal =>
            pages[n].status = IF n = row.attempts THEN row.status ELSE "retryable"
    /\ Len(pages) <= attempts[target]
    /\ row = NoRow => pages = <<>>
    /\ step \in {1, 2} => Len(pages) = After
    /\ step = 3 /\ cursor # NoCursor => Len(pages) = After
    /\ step \in {3, 4} /\ cursor = NoCursor /\ row # NoRow => Len(pages) >= row.attempts
    /\ step = 4 /\ row # NoRow => cursor = NoCursor

ShownInv == \A i \in Indexes : shown[i] = "succeeded" => i \in applied[target]

ReaderInv == ReaderType /\ SeenInv /\ PagesInv /\ ShownInv

InspectionInv == IInv /\ ReaderInv

---------------------------------------------------------------------------
(* Lemmas.                                                                 *)

\* The rows of a page are the attempts after the cursor, up to the last one.
LEMMA RowsAreAnInterval ==
    ASSUME IInv, ReaderType
    PROVE  /\ After \in Nat /\ attempts[target] \in Nat
           /\ AttemptRows = (After + 1)..attempts[target]
           /\ attempts[target] <= MaxAttempts
<1>1. /\ After \in 0..MaxAttempts /\ MaxAttempts \in Nat
      /\ attempts[target] \in 0..MaxAttempts /\ target \in Executions
    BY ExecutionsAssumption DEF After, ReaderType, IInv, TypeOK, TableType, AttemptNumbers
<1>2. \A k \in AttemptNumbers : ledger[target][k] # "none" <=> k <= attempts[target]
    <2>1. /\ \A k \in AttemptNumbers :
                /\ k < attempts[target] => ledger[target][k] = "retryable"
                /\ k = attempts[target] => ledger[target][k] = LastAttempt(status[target])
                /\ k > attempts[target] => ledger[target][k] = "none"
          /\ LastAttempt(status[target]) # "none"
        BY <1>1 DEF IInv, AttemptLedgerAgrees, LastAttempt, TypeOK, TableType, ExecutionStatus
    <2>2. \A k \in AttemptNumbers : k \in Nat
        BY DEF AttemptNumbers
    <2> QED
        BY <1>1, <2>1, <2>2
<1>3. AttemptRows = {k \in AttemptNumbers : k > After /\ k <= attempts[target]}
    BY <1>2 DEF AttemptRows
<1> DEFINE a == attempts[target]
<1>4. a \in Nat /\ a <= MaxAttempts
    BY <1>1
<1>5. AttemptRows = {k \in AttemptNumbers : k > After /\ k <= a}
    BY <1>3
<1> HIDE DEF a
<1>6. AttemptRows = (After + 1)..a
    <2>1. ASSUME NEW k \in AttemptRows
          PROVE  k \in (After + 1)..a
        BY <1>1, <1>4, <1>5 DEF AttemptNumbers
    <2>2. ASSUME NEW k \in (After + 1)..a
          PROVE  k \in AttemptRows
        BY <1>1, <1>4, <1>5 DEF AttemptNumbers
    <2> QED
        BY <2>1, <2>2
<1> QED
    BY <1>1, <1>4, <1>6 DEF a

\* The row after the cursor has the first place, and so on.
LEMMA Places ==
    ASSUME IInv, ReaderType
    PROVE  /\ \A k \in AttemptRows : Place(k) = k - After
           /\ has_more <=> attempts[target] - After > AttemptLimit
           /\ Kept = (After + 1)..(IF has_more THEN After + AttemptLimit ELSE attempts[target])
           /\ has_more => CursorRow = After + AttemptLimit
<1>1. /\ After \in Nat /\ attempts[target] \in Nat
      /\ AttemptRows = (After + 1)..attempts[target]
      /\ AttemptLimit \in Nat \ {0}
    BY RowsAreAnInterval, InspectionAssumption
<1>2. ASSUME NEW k \in AttemptRows
      PROVE  Place(k) = k - After
    <2>1. {j \in AttemptRows : j <= k} = (After + 1)..k
        BY <1>1, <1>2
    <2>2. After + 1 \in Int /\ k \in Int /\ ~ After + 1 > k
        BY <1>1, <1>2
    <2>3. Cardinality((After + 1)..k) = k - (After + 1) + 1
        BY <2>2, FS_Interval
    <2>4. Place(k) = k - (After + 1) + 1
        BY <2>1, <2>3 DEF Place
    <2> QED
        BY <1>1, <2>2, <2>4
<1>3. has_more <=> attempts[target] - After > AttemptLimit
    <2>1. After + 1 \in Int /\ attempts[target] \in Int
        BY <1>1
    <2>2. Cardinality(AttemptRows) =
            IF After + 1 > attempts[target] THEN 0 ELSE attempts[target] - (After + 1) + 1
        BY <1>1, <2>1, FS_Interval
    <2> QED
        BY <1>1, <2>2 DEF has_more
<1>4. Kept = (After + 1)..(IF has_more THEN After + AttemptLimit ELSE attempts[target])
    <2>1. \A k : k \in Kept <=> k \in (After + 1)..attempts[target] /\ k - After <= AttemptLimit
        BY <1>1, <1>2 DEF Kept
    <2>2. \A k : k \in Kept <=>
            k \in (After + 1)..(IF has_more THEN After + AttemptLimit ELSE attempts[target])
        BY <1>1, <1>3, <2>1
    <2> QED
        BY <2>2
<1>5. ASSUME has_more
      PROVE  CursorRow = After + AttemptLimit
    <2>1. /\ After + AttemptLimit \in Kept
          /\ \A k \in Kept : k \in AttemptRows /\ k \in Int
        BY <1>1, <1>3, <1>4, <1>5
    <2>2. \A k \in Kept : Place(k) = AttemptLimit <=> k = After + AttemptLimit
        BY <1>1, <1>2, <2>1
    <2> QED
        BY <2>1, <2>2 DEF CursorRow
<1> QED
    BY <1>2, <1>3, <1>4, <1>5

\* No step of a worker takes an attempt back.
LEMMA AttemptsGrow ==
    ASSUME IInv, Next, NEW e \in Executions
    PROVE  attempts[e] <= attempts'[e]
<1>1. attempts \in [Executions -> Nat]
    BY DEF IInv, TypeOK, TableType
<1>2. ASSUME NEW w \in Workers, ClaimExecutions(w)
      PROVE  attempts[e] <= attempts'[e]
    <2>1. PICK batch \in SUBSET Executions :
            attempts' = [f \in Executions |->
                IF f \in batch THEN attempts[f] + 1 ELSE attempts[f]]
        BY <1>2, ClaimedBatch DEF ClaimBatch
    <2> QED
        BY <1>1, <2>1
<1>3. CASE UNCHANGED attempts
    BY <1>1, <1>3
<1> QED
    BY <1>2, <1>3 DEF Next, WorkerStep, InsertExecution, LeaseExpires, ActionStatus,
        CallSucceeds, CallRejected, CallRuntimeFailure, CompleteAction, StorageFailure,
        CompleteExecution, ReleaseExecution, EndAttempt, Crash, tables

---------------------------------------------------------------------------
(* The invariant is inductive.                                             *)

LEMMA Start == ASSUME InspectionInit PROVE InspectionInv
<1>1. IInv /\ target \in Executions /\ MaxAttempts \in Nat
    BY InitInv, InspectionAssumption, ExecutionsAssumption DEF InspectionInit
<1>2. /\ step = 1 /\ cursor = NoCursor /\ row = NoRow /\ pages = <<>>
      /\ \A i \in Indexes : shown[i] = "none"
    BY DEF InspectionInit
<1>3. attempts[target] \in Nat
    BY <1>1 DEF IInv, TypeOK, TableType
<1>4. row.status = "none" /\ row.attempts = 0 /\ row.status \notin Terminal
    BY <1>2 DEF NoRow, Terminal
<1>5. ReaderType
    BY <1>1, <1>2 DEF ReaderType, NoRow
<1>6. SeenInv
    BY <1>2, <1>3, <1>4 DEF SeenInv
<1>7. PagesInv
    BY <1>2, <1>3, <1>4 DEF PagesInv, After
<1>8. ShownInv
    BY <1>2 DEF ShownInv
<1> QED
    BY <1>1, <1>5, <1>6, <1>7, <1>8 DEF InspectionInv, ReaderInv

\* A worker goes on beside the reader: an execution that has ended stays as it
\* is, attempts are added, and effects stay.
LEMMA WorkersStep == ASSUME InspectionInv, Next, UNCHANGED reader PROVE InspectionInv'
<1>1. IInv' /\ IInv /\ ReaderType /\ SeenInv /\ PagesInv /\ ShownInv
    BY NextInv DEF InspectionInv, ReaderInv
<1>2. UNCHANGED <<step, target, cursor, row, pages, shown>> /\ target \in Executions
    BY <1>1 DEF reader, ReaderType
<1>3. /\ attempts[target] <= attempts'[target]
      /\ attempts[target] \in Nat /\ attempts'[target] \in Nat
    BY <1>1, <1>2, AttemptsGrow DEF IInv, TypeOK, TableType
<1>4. /\ status[target] # "absent" => status'[target] # "absent"
      /\ status[target] \in Terminal =>
            status'[target] = status[target] /\ attempts'[target] = attempts[target]
    BY <1>1, <1>2, RowStep DEF Terminal
<1>5. \A e \in Executions : applied[e] \subseteq applied'[e]
    BY <1>1, AppliedStep DEF IInv
<1>6. ReaderType'
    BY <1>1, <1>2 DEF ReaderType
<1>7. row.attempts \in Nat /\ Len(pages) \in Nat
    BY <1>1, ExecutionsAssumption DEF ReaderType
<1>8. SeenInv'
    BY <1>1, <1>2, <1>3, <1>4, <1>7 DEF SeenInv
<1>9. PagesInv'
    BY <1>1, <1>2, <1>3, <1>7 DEF PagesInv, After
<1>10. ShownInv'
    BY <1>1, <1>2, <1>5 DEF ShownInv
<1> QED
    BY <1>1, <1>6, <1>8, <1>9, <1>10 DEF InspectionInv, ReaderInv

LEMMA TablesFrame == ASSUME IInv, UNCHANGED vars PROVE IInv'
BY StutterInv

\* The statement of the row: the first one decides what the pages must show.
LEMMA InspectRowStep ==
    ASSUME InspectionInv, InspectRow, UNCHANGED vars
    PROVE  InspectionInv'
<1>1. IInv' /\ IInv /\ ReaderType /\ SeenInv /\ PagesInv /\ ShownInv
    BY TablesFrame DEF InspectionInv, ReaderInv
<1>2. /\ UNCHANGED <<status, attempts, applied, target, cursor, pages, shown>>
      /\ step = 1 /\ step' = IF status[target] = "absent" THEN 4 ELSE 2
      /\ row' = IF row = NoRow /\ status[target] # "absent"
                THEN [status |-> status[target], attempts |-> attempts[target]]
                ELSE row
    BY DEF InspectRow, At, Statements, vars, tables
<1>3. /\ target \in Executions /\ status[target] \in ExecutionStatus
      /\ attempts[target] \in 0..MaxAttempts /\ MaxAttempts \in Nat
      /\ Len(pages) \in Nat /\ row.attempts \in 0..MaxAttempts
      /\ attempts'[target] \in 0..MaxAttempts /\ status[target] # "none"
    BY <1>1, <1>2, ExecutionsAssumption
       DEF ReaderType, IInv, TypeOK, TableType, ExecutionStatus
<1>4. row = NoRow => /\ row.status \notin Terminal /\ row.attempts = 0
                     /\ row.status = "none"
    BY DEF NoRow, Terminal
<1>5. CASE row = NoRow /\ status[target] # "absent"
    <2>1. row' = [status |-> status[target], attempts |-> attempts[target]] /\ step' = 2
        BY <1>2, <1>5
    <2>2. row'.status = status[target] /\ row'.attempts = attempts[target]
          /\ row' # NoRow
        BY <1>3, <2>1 DEF NoRow
    <2>3. ReaderType'
        BY <1>1, <1>2, <1>3, <2>1 DEF ReaderType
    <2>4. SeenInv'
        BY <1>2, <1>3, <1>5, <2>1, <2>2 DEF SeenInv
    <2>5. PagesInv'
        BY <1>1, <1>2, <1>3, <2>1, <2>2 DEF PagesInv, After
    <2> QED
        BY <1>1, <1>2, <2>3, <2>4, <2>5 DEF InspectionInv, ReaderInv, ShownInv
<1>6. CASE ~ (row = NoRow /\ status[target] # "absent")
    <2>1. row' = row /\ (step' = 2 => row # NoRow) /\ (step' = 4 => row = NoRow)
          /\ step' \in {2, 4}
        BY <1>1, <1>2, <1>6 DEF SeenInv
    <2>2. ReaderType'
        BY <1>1, <1>2, <2>1 DEF ReaderType
    <2>3. SeenInv'
        BY <1>1, <1>2, <2>1 DEF SeenInv
    <2>4. PagesInv'
        BY <1>1, <1>2, <2>1 DEF PagesInv, After
    <2> QED
        BY <1>1, <1>2, <2>2, <2>3, <2>4 DEF InspectionInv, ReaderInv, ShownInv
<1> QED
    BY <1>5, <1>6

\* The statement of a page: it goes on where the last one stopped.
LEMMA InspectAttemptsStep ==
    ASSUME InspectionInv, InspectAttempts, UNCHANGED vars
    PROVE  InspectionInv'
<1> DEFINE after == After
           last == IF has_more THEN after + AttemptLimit ELSE attempts[target]
           size == Cardinality(Kept)
           receipts == [n \in 1..size |-> LET k == CHOOSE k \in Kept : Place(k) = n
                                          IN  [attempt |-> k, status |-> ledger[target][k]]]
<1>1. IInv' /\ IInv /\ ReaderType /\ SeenInv /\ PagesInv /\ ShownInv
    BY TablesFrame DEF InspectionInv, ReaderInv
<1>2. /\ UNCHANGED <<status, attempts, ledger, applied, target, row, shown>>
      /\ step = 2 /\ step' = 3
      /\ cursor' = IF has_more THEN CursorRow ELSE NoCursor
      /\ pages' = pages \o receipts
    BY DEF InspectAttempts, At, Statements, vars, tables
<1>3. /\ after \in Nat /\ attempts[target] \in Nat /\ attempts[target] <= MaxAttempts
      /\ AttemptRows = (after + 1)..attempts[target]
      /\ MaxAttempts \in Nat /\ AttemptLimit \in Nat \ {0} /\ target \in Executions
      /\ row.attempts \in Nat
    BY <1>1, RowsAreAnInterval, ExecutionsAssumption, InspectionAssumption DEF ReaderType
<1>4. /\ \A k \in AttemptRows : Place(k) = k - after
      /\ has_more <=> attempts[target] - after > AttemptLimit
      /\ Kept = (after + 1)..last
      /\ has_more => CursorRow = after + AttemptLimit
    BY <1>1, Places
<1>5. Len(pages) = after /\ after <= attempts[target]
    BY <1>1, <1>2 DEF PagesInv
<1> HIDE DEF after
<1>6. /\ last \in Nat /\ after <= last /\ last <= attempts[target]
      /\ has_more => last = after + AttemptLimit
      /\ ~ has_more => last = attempts[target]
    BY <1>3, <1>4, <1>5
<1>7. size = last - after
    <2>1. after + 1 \in Int /\ last \in Int
        BY <1>3, <1>6
    <2>2. Cardinality((after + 1)..last) =
            IF after + 1 > last THEN 0 ELSE last - (after + 1) + 1
        BY <2>1, FS_Interval
    <2> QED
        BY <1>3, <1>4, <1>6, <2>2
<1> HIDE DEF last, size
<1>8. \A n \in 1..size : /\ receipts[n].attempt = after + n
                         /\ receipts[n].status = ledger[target][after + n]
                         /\ after + n \in AttemptNumbers /\ after + n <= attempts[target]
    <2> SUFFICES ASSUME NEW n \in 1..size
                 PROVE  /\ receipts[n].attempt = after + n
                        /\ receipts[n].status = ledger[target][after + n]
                        /\ after + n \in AttemptNumbers /\ after + n <= attempts[target]
        OBVIOUS
    <2>1. after + n \in Kept /\ \A k \in Kept : k \in AttemptRows /\ k \in Int
        BY <1>3, <1>4, <1>6, <1>7
    <2>2. \A k \in Kept : Place(k) = n <=> k = after + n
        <3>1. ASSUME NEW k \in Kept
              PROVE  Place(k) = k - after /\ k \in Int
            BY <1>4, <2>1
        <3>2. n \in Int /\ after \in Int
            BY <1>3
        <3> QED
            BY <3>1, <3>2
    <2>3. (CHOOSE k \in Kept : Place(k) = n) = after + n
        BY <2>1, <2>2
    <2>4. receipts[n] = [attempt |-> after + n, status |-> ledger[target][after + n]]
        BY <2>3
    <2>5. after + n \in AttemptNumbers /\ after + n <= attempts[target]
        BY <1>3, <2>1 DEF AttemptNumbers
    <2> HIDE DEF receipts
    <2> QED
        BY <2>4, <2>5
<1>9. receipts \in Seq(Receipts) /\ Len(receipts) = size
    <2>1. receipts \in [1..size -> Receipts]
        <3>1. \A n \in 1..size :
                receipts[n] \in Receipts
            <4> SUFFICES ASSUME NEW n \in 1..size
                PROVE receipts[n] \in Receipts
                OBVIOUS
            <4>1. /\ after + n \in AttemptNumbers
                  /\ ledger[target][after + n] \in AttemptStatus
                BY <1>1, <1>3, <1>8 DEF IInv, TypeOK, TableType
            <4>2. \E k, s : receipts[n] = [attempt |-> k, status |-> s]
                OBVIOUS
            <4> HIDE DEF receipts
            <4> QED
                BY <1>8, <4>1, <4>2 DEF Receipts
        <3>2. DOMAIN receipts = 1..size /\ receipts = [n \in 1..size |-> receipts[n]]
            OBVIOUS
        <3> HIDE DEF receipts
        <3> QED
            BY <3>1, <3>2
    <2>2. size \in Nat
        BY <1>3, <1>6, <1>7
    <2> HIDE DEF receipts
    <2> QED
        BY <2>1, <2>2
<1> HIDE DEF receipts
<1>10. /\ pages' \in Seq(Receipts)
       /\ Len(pages') = last /\ DOMAIN pages' = 1..last
       /\ \A n \in 1..last : pages'[n] = IF n <= after THEN pages[n] ELSE receipts[n - after]
    <2>1. pages \in Seq(Receipts)
        BY <1>1 DEF ReaderType
    <2>2. /\ pages' \in Seq(Receipts)
          /\ Len(pages') = Len(pages) + Len(receipts)
          /\ DOMAIN pages' = 1..Len(pages')
          /\ \A n \in 1..Len(pages') :
                pages'[n] = IF n <= Len(pages) THEN pages[n] ELSE receipts[n - Len(pages)]
        <3>1. receipts \in Seq(Receipts) /\ pages' = pages \o receipts
            BY <1>2, <1>9
        <3> HIDE DEF Receipts
        <3> QED
            BY <2>1, <3>1
    <2>3. Len(pages') = last
        BY <1>3, <1>5, <1>6, <1>7, <1>9, <2>2
    <2> QED
        BY <1>5, <2>2, <2>3
<1>11. row.status \in Terminal => attempts[target] = row.attempts /\ status[target] = row.status
    BY <1>1 DEF SeenInv
<1>12. \A n \in 1..last :
        /\ pages'[n].attempt = n
        /\ row.status \in Terminal =>
            pages'[n].status = IF n = row.attempts THEN row.status ELSE "retryable"
    <2> SUFFICES ASSUME NEW n \in 1..last
                 PROVE  /\ pages'[n].attempt = n
                        /\ row.status \in Terminal =>
                            pages'[n].status =
                                IF n = row.attempts THEN row.status ELSE "retryable"
        OBVIOUS
    <2>1. CASE n <= after
        <3>1. n \in DOMAIN pages /\ pages'[n] = pages[n]
            BY <1>1, <1>3, <1>5, <1>6, <1>10, <2>1 DEF ReaderType
        <3> QED
            BY <1>1, <3>1 DEF PagesInv
    <2>2. CASE n > after
        <3>1. n - after \in 1..size /\ after + (n - after) = n
            BY <1>3, <1>6, <1>7, <2>2
        <3>2. /\ pages'[n].attempt = n /\ pages'[n].status = ledger[target][n]
              /\ n \in AttemptNumbers /\ n <= attempts[target]
            <4>1. pages'[n] = receipts[n - after]
                BY <1>3, <1>6, <1>10, <2>2
            <4> QED
                BY <1>8, <3>1, <4>1
        <3>3. /\ n < attempts[target] => ledger[target][n] = "retryable"
              /\ n = attempts[target] => ledger[target][n] = LastAttempt(status[target])
            BY <1>1, <1>3, <3>2 DEF IInv, AttemptLedgerAgrees
        <3>4. row.status \in Terminal => LastAttempt(status[target]) = row.status
            BY <1>11 DEF LastAttempt, Terminal
        <3> QED
            BY <1>3, <1>11, <3>2, <3>3, <3>4
    <2> QED
        BY <1>3, <1>6, <2>1, <2>2
<1>13. /\ has_more => cursor' = last /\ last \in AttemptNumbers
       /\ ~ has_more => cursor' = NoCursor
    <2>1. last \in Nat /\ last <= MaxAttempts /\ (has_more => last >= 1)
        BY <1>3, <1>6
    <2> QED
        BY <1>2, <1>4, <1>6, <2>1 DEF AttemptNumbers
<1>14. ReaderType'
    BY <1>1, <1>2, <1>10, <1>13 DEF ReaderType
<1>15. SeenInv'
    BY <1>1, <1>2 DEF SeenInv
<1>16. PagesInv'
    <2>1. cursor' # NoCursor => Len(pages') = After'
        BY <1>10, <1>13 DEF After
    <2>2. cursor' = NoCursor => Len(pages') >= row.attempts
        <3>1. row.attempts <= attempts[target] /\ \A k \in AttemptNumbers : k # NoCursor
            BY <1>1, InspectionAssumption DEF SeenInv
        <3> QED
            BY <1>3, <1>6, <1>10, <1>13, <3>1
    <2>3. Len(pages') <= attempts'[target]
        BY <1>2, <1>6, <1>10
    <2> QED
        BY <1>1, <1>2, <1>10, <1>12, <2>1, <2>2, <2>3 DEF PagesInv, SeenInv
<1> QED
    BY <1>1, <1>2, <1>14, <1>15, <1>16 DEF InspectionInv, ReaderInv, ShownInv

\* The statement of the action receipts, and the cursor followed.
LEMMA InspectActionsStep ==
    ASSUME InspectionInv, InspectActions, UNCHANGED vars
    PROVE  InspectionInv'
<1>1. IInv' /\ IInv /\ ReaderType /\ SeenInv /\ PagesInv /\ ShownInv
    BY TablesFrame DEF InspectionInv, ReaderInv
<1>2. /\ UNCHANGED <<status, attempts, applied, target, row, cursor, pages>>
      /\ step = 3 /\ step' = IF cursor = NoCursor THEN 4 ELSE 1
      /\ shown' = IF cursor = NoCursor THEN receipt[target] ELSE shown
    BY DEF InspectActions, At, Statements, vars, tables
<1>3. ReaderType'
    BY <1>1, <1>2 DEF ReaderType
<1>4. SeenInv'
    BY <1>1, <1>2 DEF SeenInv
<1>5. PagesInv'
    BY <1>1, <1>2 DEF PagesInv, After
<1>6. ShownInv'
    BY <1>1, <1>2 DEF ShownInv, IInv, ReceiptInv, ReaderType
<1> QED
    BY <1>1, <1>3, <1>4, <1>5, <1>6 DEF InspectionInv, ReaderInv

LEMMA InspectionStep ==
    ASSUME InspectionInv, [InspectionNext]_<<vars, reader>>
    PROVE  InspectionInv'
<1>1. CASE Next /\ UNCHANGED reader
    BY <1>1, WorkersStep
<1>2. CASE Reader /\ UNCHANGED vars
    BY <1>2, InspectRowStep, InspectAttemptsStep, InspectActionsStep DEF Reader
<1>3. CASE UNCHANGED <<vars, reader>>
    <2>1. IInv' /\ UNCHANGED <<status, attempts, applied, step, target, cursor, row, pages, shown>>
        BY <1>3, StutterInv DEF InspectionInv, vars, tables, reader
    <2> QED
        BY <2>1 DEF InspectionInv, ReaderInv, ReaderType, SeenInv, PagesInv, ShownInv, After
<1> QED
    BY <1>1, <1>2, <1>3 DEF InspectionNext

LEMMA InspectionInductive == InspectionSpec => []InspectionInv
<1>1. InspectionInit => InspectionInv
    BY Start
<1>2. InspectionInv /\ [InspectionNext]_<<vars, reader>> => InspectionInv'
    BY InspectionStep
<1> QED
    BY <1>1, <1>2, PTL DEF InspectionSpec

---------------------------------------------------------------------------
(* The theorems.                                                           *)

\* Pages of any size, read while workers claim and retry the execution, have
\* its attempts in order, each once, and at least those of the first page.
THEOREM AttemptPagesComplete == InspectionSpec => []PagesComplete
<1>1. InspectionInv => PagesComplete
    BY DEF InspectionInv, ReaderInv, PagesInv, PagesComplete, Inspected
<1> QED
    BY <1>1, InspectionInductive, PTL

\* What is read statement by statement of an execution that has ended agrees
\* with itself, and no action is shown as succeeded without its effect.
THEOREM ReaderIsTold == InspectionSpec => []InspectionAgrees
<1>1. ASSUME InspectionInv PROVE InspectionAgrees
    <2>1. ReaderType /\ SeenInv /\ PagesInv /\ ShownInv /\ IInv
        BY <1>1 DEF InspectionInv, ReaderInv
    <2>2. Len(pages) \in Nat /\ row.attempts \in Nat /\ attempts[target] \in Nat
        BY <2>1, ExecutionsAssumption DEF ReaderType, IInv, TypeOK, TableType
    <2>3. ASSUME Inspected, row.status \in Terminal
          PROVE  Len(pages) = row.attempts
        BY <2>1, <2>2, <2>3 DEF Inspected, PagesInv, SeenInv
    <2> QED
        BY <2>1, <2>3 DEF InspectionAgrees, PagesInv, ShownInv
<1> QED
    BY <1>1, InspectionInductive, PTL
===========================================================================
